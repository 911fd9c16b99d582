---------------------------- MODULE Operations_proofs -------------------------
(***************************************************************************)
(* Proofs about the programs that run the shop and let a release through.  *)
(* Outbox, for any number of events and workers, any batch size and number *)
(* of runners, and any number of crashes and failed queries: the type      *)
(* invariant with the check constraint of the table, effects at most once  *)
(* and before an event is processed, that only the worker that holds an    *)
(* event decides it, once, and that it implements Effects.  Lifecycle, for *)
(* any number of requests and failures: a process which is told to stop    *)
(* stops cleanly.  RealtimeClient, for any accounts, rooms and number of   *)
(* restarts: a page is not left without its connection.  ReleaseGate with  *)
(* FreezeGuard and AuditPolicy, for any text of the frozen file, any       *)
(* edits, any exceptions and any npm report: a green run vouches for its   *)
(* tree.                                                                   *)
(***************************************************************************)
EXTENDS Outbox, Lifecycle, RealtimeClient, ReleaseGate,
        FiniteSetTheorems, FunctionTheorems, SequenceTheorems, WellFoundedInduction, TLAPS

(***************************************************************************)
(* What a task has done shows in the tables, whatever became of its lock:  *)
(* past its insert the notification is there, past its enqueue the job is. *)
(***************************************************************************)
EffectsDone ==
  \A t \in tasks : /\ t.pc \in {"inserted", "handled"} => rows[t.event] = 1
                   /\ t.pc = "handled" => jobs[t.event] = 1

\* The inductive invariant.
IInv == TypeOK /\ DeliveredOnce /\ EffectsDone

----------------------------------------------------------------------------
(* Facts about the operators *)

\* A task is a record of its fields; moving it on changes only its pc.
LEMMA GotoTasks ==
  ASSUME TypeOK, NEW t \in tasks, NEW pc \in Working, Goto(t, pc)
  PROVE  /\ tasks' \subseteq Tasks
         /\ \A u \in tasks' : \/ u \in tasks
                              \/ u.pc = pc /\ u.event = t.event /\ u.worker = t.worker
<1>1. t \in Tasks
  BY DEF TypeOK
<1>2. /\ [t EXCEPT !.pc = pc] \in Tasks
      /\ [t EXCEPT !.pc = pc].pc = pc
      /\ [t EXCEPT !.pc = pc].event = t.event
      /\ [t EXCEPT !.pc = pc].worker = t.worker
  BY <1>1 DEF Tasks
<1> QED
  BY <1>2 DEF Goto, TypeOK

\* What a claim hands out are well-formed tasks that have done nothing yet.
LEMMA ClaimedTasks ==
  ASSUME TypeOK, NEW w \in Workers, NEW S \in Batches, NEW e \in S
  PROVE  LET t == Task(w, e, attempts[e] + 1, "current", "waiting")
         IN  t \in Tasks /\ t.pc = "waiting" /\ e \in Candidates /\ e \in Events
<1>1. e \in Candidates
  BY DEF Batches
<1>2. e \in Events /\ attempts[e] \in 0 .. MaxAttempts /\ attempts[e] < MaxAttempts
  BY <1>1 DEF Candidates, TypeOK
<1>3. attempts[e] + 1 \in 1 .. MaxAttempts
  BY <1>2, OutboxAssumption
<1> QED
  BY <1>1, <1>2, <1>3 DEF Task, Tasks

\* on conflict do nothing: the effect is there once, whoever repeats it.
LEMMA EffectsOnce ==
  ASSUME TypeOK, DeliveredOnce, NEW e \in Events
  PROVE  NotificationRow(e) = 1 /\ DeliveryJob(e) = 1
<1>1. rows[e] \in Nat /\ rows[e] <= 1 /\ jobs[e] \in Nat /\ jobs[e] <= rows[e]
  BY DEF TypeOK, DeliveredOnce
<1> QED
  BY <1>1 DEF NotificationRow, DeliveryJob

----------------------------------------------------------------------------
(* One lemma per kind of step *)

LEMMA ClaimInv ==
  ASSUME IInv, NEW w \in Workers, NEW S \in Batches, claimOutboxBatch(w, S)
  PROVE  IInv'
<1> USE DEF claimOutboxBatch
<1>1. TypeOK /\ DeliveredOnce /\ EffectsDone /\ UNCHANGED <<effectVars, faultVars>>
  BY DEF IInv
<1>2. \A e \in S : /\ e \in Events /\ e \in Candidates
                   /\ attempts[e] + 1 \in 0 .. MaxAttempts
  BY <1>1, ClaimedTasks DEF Candidates, TypeOK, Task, Tasks
<1>3. tasks' \subseteq Tasks /\ \A t \in tasks' : t \in tasks \/ t.pc = "waiting"
  BY <1>1, ClaimedTasks DEF TypeOK
<1>4. TypeOK'
  <2>1. /\ status' \in [Events -> {"none", "pending", "processing", "processed", "failed"}]
        /\ attempts' \in [Events -> 0 .. MaxAttempts]
        /\ owner' \in [Events -> Workers \cup {NoOwner}]
        /\ expired' \in [Events -> BOOLEAN]
    BY <1>1, <1>2 DEF TypeOK
  <2>2. ASSUME NEW e \in Events
        PROVE  /\ (status'[e] = "processing") <=> (owner'[e] # NoOwner)
               /\ expired'[e] => status'[e] = "processing"
    BY <1>1, <2>2, WorkerAssumption DEF TypeOK, Exhausted
  <2> QED
    BY <1>1, <1>3, <2>1, <2>2 DEF TypeOK, effectVars, faultVars
<1>5. DeliveredOnce'
  BY <1>1 DEF DeliveredOnce, effectVars
<1>6. EffectsDone'
  BY <1>1, <1>3 DEF EffectsDone, effectVars
<1> QED
  BY <1>4, <1>5, <1>6 DEF IInv

\* Steps of the handler: it moves its task on and may write an effect once.
LEMMA HandlerInv ==
  ASSUME IInv, NEW t \in tasks,
         \/ StartTask(t) \/ HandlerInserts(t) \/ HandlerEnqueues(t) \/ HandlerThrows(t)
  PROVE  IInv'
<1>1. TypeOK /\ DeliveredOnce /\ EffectsDone
  BY DEF IInv
<1>2. t \in Tasks /\ t.event \in Events
  BY <1>1 DEF TypeOK, Tasks
<1>3. /\ UNCHANGED <<rowVars, alive, faultVars>>
      /\ \E pc \in Working : Goto(t, pc)
  BY DEF StartTask, HandlerInserts, HandlerEnqueues, HandlerThrows, Working
<1>4. tasks' \subseteq Tasks
  BY <1>1, <1>3, GotoTasks
<1>5. CASE StartTask(t) \/ HandlerThrows(t)
  <2>1. UNCHANGED <<rows, jobs>> /\ (Goto(t, "handling") \/ Goto(t, "failing"))
    BY <1>5 DEF StartTask, HandlerThrows, effectVars
  <2>2. TypeOK'
    BY <1>1, <1>3, <1>4, <2>1 DEF TypeOK, rowVars, faultVars
  <2>3. DeliveredOnce'
    BY <1>1, <1>3, <2>1 DEF DeliveredOnce, rowVars
  <2>4. \A u \in tasks' : u \in tasks \/ u.pc \in {"handling", "failing"}
    BY <1>1, <2>1, GotoTasks DEF Working
  <2>5. EffectsDone'
    BY <1>1, <2>1, <2>4 DEF EffectsDone
  <2> QED
    BY <2>2, <2>3, <2>5 DEF IInv
<1>6. CASE HandlerInserts(t)
  <2>1. /\ rows' = [rows EXCEPT ![t.event] = 1] /\ jobs' = jobs
        /\ Goto(t, "inserted")
    BY <1>1, <1>2, <1>6, EffectsOnce DEF HandlerInserts
  <2>2. TypeOK'
    BY <1>1, <1>2, <1>3, <1>4, <2>1 DEF TypeOK, rowVars, faultVars
  <2>3. DeliveredOnce'
    BY <1>1, <1>2, <1>3, <2>1 DEF TypeOK, DeliveredOnce, rowVars
  <2>4. \A u \in tasks' : u \in tasks \/ (u.pc = "inserted" /\ u.event = t.event)
    BY <1>1, <2>1, GotoTasks DEF Working
  <2>5. EffectsDone'
    BY <1>1, <1>2, <2>1, <2>4 DEF EffectsDone, TypeOK
  <2> QED
    BY <2>2, <2>3, <2>5 DEF IInv
<1>7. CASE HandlerEnqueues(t)
  <2>1. /\ jobs' = [jobs EXCEPT ![t.event] = 1] /\ rows' = rows
        /\ Goto(t, "handled")
        /\ rows[t.event] = 1
    BY <1>1, <1>2, <1>7, EffectsOnce DEF HandlerEnqueues, EffectsDone
  <2>2. TypeOK'
    BY <1>1, <1>2, <1>3, <1>4, <2>1 DEF TypeOK, rowVars, faultVars
  <2>3. DeliveredOnce'
    BY <1>1, <1>2, <1>3, <2>1 DEF TypeOK, DeliveredOnce, rowVars
  <2>4. \A u \in tasks' : u \in tasks \/ (u.pc = "handled" /\ u.event = t.event)
    BY <1>1, <2>1, GotoTasks DEF Working
  <2>5. EffectsDone'
    BY <1>1, <1>2, <2>1, <2>4 DEF EffectsDone, TypeOK
  <2> QED
    BY <2>2, <2>3, <2>5 DEF IInv
<1> QED
  BY <1>5, <1>6, <1>7

\* markProcessed closes the row of an event whose effects are there.
LEMMA MarkProcessedInv ==
  ASSUME IInv, NEW t \in tasks, markProcessed(t)
  PROVE  IInv'
<1>1. TypeOK /\ DeliveredOnce /\ EffectsDone
  BY DEF IInv
<1>2. t \in Tasks /\ t.event \in Events /\ t.pc = "handled"
      /\ UNCHANGED <<alive, effectVars, faultVars>>
      /\ rows[t.event] = 1 /\ jobs[t.event] = 1
  BY <1>1 DEF TypeOK, Tasks, markProcessed, EffectsDone
<1>3. CASE LockLost(t)
  <2>1. Goto(t, "failing") /\ UNCHANGED rowVars
    BY <1>3 DEF markProcessed
  <2>2. /\ tasks' \subseteq Tasks
        /\ \A u \in tasks' : u \in tasks \/ u.pc = "failing"
    BY <1>1, <2>1, GotoTasks DEF Working
  <2> QED
    BY <1>1, <1>2, <2>1, <2>2
    DEF IInv, TypeOK, DeliveredOnce, EffectsDone, rowVars, effectVars, faultVars
<1>4. CASE ~LockLost(t)
  <2>1. /\ status' = [status EXCEPT ![t.event] = "processed"]
        /\ owner' = [owner EXCEPT ![t.event] = NoOwner]
        /\ expired' = [expired EXCEPT ![t.event] = FALSE]
        /\ tasks' = tasks \ {t}
        /\ UNCHANGED <<attempts, ready>>
    BY <1>4 DEF markProcessed
  <2>2. TypeOK'
    BY <1>1, <1>2, <2>1 DEF TypeOK, effectVars, faultVars
  <2>3. DeliveredOnce' /\ EffectsDone'
    BY <1>1, <1>2, <2>1 DEF TypeOK, DeliveredOnce, EffectsDone, effectVars
  <2> QED
    BY <2>2, <2>3 DEF IInv
<1> QED
  BY <1>3, <1>4

LEMMA MarkFailedInv ==
  ASSUME IInv, NEW t \in tasks, markFailed(t)
  PROVE  IInv'
<1>1. TypeOK /\ DeliveredOnce /\ EffectsDone
  BY DEF IInv
<1>2. t \in Tasks /\ t.event \in Events
      /\ tasks' = tasks \ {t} /\ UNCHANGED <<alive, effectVars, faultVars>>
  BY <1>1 DEF TypeOK, Tasks, markFailed
<1>3. \/ UNCHANGED rowVars
      \/ /\ \E s \in {"failed", "pending"} : status' = [status EXCEPT ![t.event] = s]
         /\ ready' \in [Events -> BOOLEAN]
         /\ owner' = [owner EXCEPT ![t.event] = NoOwner]
         /\ expired' = [expired EXCEPT ![t.event] = FALSE]
         /\ UNCHANGED attempts
  <2>1. Terminal(t) \in BOOLEAN
    BY DEF Terminal
  <2> QED
    BY <1>1, <1>2, <2>1 DEF markFailed, TypeOK
<1>4. TypeOK'
  <2>1. CASE UNCHANGED rowVars
    BY <1>1, <1>2, <2>1 DEF TypeOK, rowVars, effectVars, faultVars
  <2>2. ASSUME NEW s \in {"failed", "pending"}, status' = [status EXCEPT ![t.event] = s],
               ready' \in [Events -> BOOLEAN],
               owner' = [owner EXCEPT ![t.event] = NoOwner],
               expired' = [expired EXCEPT ![t.event] = FALSE],
               UNCHANGED attempts
        PROVE  TypeOK'
    BY <1>1, <1>2, <2>2 DEF TypeOK, effectVars, faultVars
  <2> QED
    BY <1>3, <2>1, <2>2
<1>5. DeliveredOnce' /\ EffectsDone'
  BY <1>1, <1>2, <1>3 DEF TypeOK, DeliveredOnce, EffectsDone, rowVars, effectVars
<1> QED
  BY <1>4, <1>5 DEF IInv

\* A markFailed query that throws orphans tasks; what they did stays done.
LEMMA MarkFailedThrowsInv ==
  ASSUME IInv, NEW t \in tasks, MarkFailedThrows(t)
  PROVE  IInv'
<1>1. TypeOK /\ DeliveredOnce /\ EffectsDone
  BY DEF IInv
<1>2. /\ faults' = faults + 1 /\ faults < MaxFaults
      /\ throws' = throws + 1 /\ throws < MaxThrows
      /\ UNCHANGED <<rowVars, alive, effectVars>>
      /\ \A u \in tasks' : u \in tasks \/ \E v \in tasks : u = [v EXCEPT !.batch = "orphan"]
  BY DEF MarkFailedThrows
<1>3. \A v \in tasks : /\ [v EXCEPT !.batch = "orphan"] \in Tasks
                       /\ [v EXCEPT !.batch = "orphan"].pc = v.pc
                       /\ [v EXCEPT !.batch = "orphan"].event = v.event
  BY <1>1 DEF TypeOK, Tasks
<1>4. tasks' \subseteq Tasks
  BY <1>1, <1>2, <1>3 DEF TypeOK
<1>5. faults' \in 0 .. MaxFaults /\ throws' \in 0 .. MaxThrows
  BY <1>1, <1>2, OutboxAssumption DEF TypeOK
<1>6. TypeOK'
  BY <1>1, <1>2, <1>4, <1>5 DEF TypeOK, rowVars, effectVars
<1>7. DeliveredOnce'
  BY <1>1, <1>2 DEF DeliveredOnce, rowVars, effectVars
<1>8. EffectsDone'
  <2> SUFFICES ASSUME NEW u \in tasks'
               PROVE  /\ u.pc \in {"inserted", "handled"} => rows[u.event] = 1
                      /\ u.pc = "handled" => jobs[u.event] = 1
    BY <1>2 DEF EffectsDone, effectVars
  <2>1. PICK v \in tasks : u.pc = v.pc /\ u.event = v.event
    BY <1>2, <1>3
  <2> QED
    BY <1>1, <2>1 DEF EffectsDone
<1> QED
  BY <1>6, <1>7, <1>8 DEF IInv

\* Time, faults and the admin touch neither effects nor a processed row.
LEMMA EnvironmentInv ==
  ASSUME IInv,
         \/ \E w \in Workers : Crash(w)
         \/ \E t \in tasks : Heartbeat(t)
         \/ \E e \in Events : EventNext(e)
  PROVE  IInv'
<1>1. TypeOK /\ DeliveredOnce /\ EffectsDone
  BY DEF IInv
<1>2. ASSUME NEW w \in Workers, Crash(w) PROVE IInv'
  <2>1. faults' \in 0 .. MaxFaults
    BY <1>1, <1>2, OutboxAssumption DEF Crash, TypeOK
  <2> QED
    BY <1>1, <1>2, <2>1
    DEF Crash, IInv, TypeOK, DeliveredOnce, EffectsDone, rowVars, effectVars
<1>3. ASSUME NEW t \in tasks, Heartbeat(t) PROVE IInv'
  BY <1>1, <1>3
  DEF Heartbeat, IInv, TypeOK, DeliveredOnce, EffectsDone, effectVars, faultVars, Tasks
<1>4. ASSUME NEW e \in Events, HeartbeatFails(e) PROVE IInv'
  <2>1. faults' \in 0 .. MaxFaults
    BY <1>1, <1>4, OutboxAssumption DEF HeartbeatFails, TypeOK
  <2> QED
    BY <1>1, <1>4, <2>1
    DEF HeartbeatFails, IInv, TypeOK, DeliveredOnce, EffectsDone, effectVars
<1>5. ASSUME NEW e \in Events,
             Enqueue(e) \/ LockExpires(e) \/ BackoffPasses(e)
      PROVE  IInv'
  <2>1. CASE Enqueue(e)
    BY <1>1, <2>1 DEF Enqueue, IInv, TypeOK, DeliveredOnce, EffectsDone, effectVars, faultVars
  <2>2. CASE LockExpires(e)
    BY <1>1, <2>2 DEF LockExpires, IInv, TypeOK, DeliveredOnce, EffectsDone, effectVars, faultVars
  <2>3. CASE BackoffPasses(e)
    BY <1>1, <2>3 DEF BackoffPasses, IInv, TypeOK, DeliveredOnce, EffectsDone, effectVars, faultVars
  <2> QED
    BY <1>5, <2>1, <2>2, <2>3
<1>6. ASSUME NEW e \in Events, retryFailedOutboxEvents(e) PROVE IInv'
  <2>1. 0 \in 0 .. MaxAttempts
    BY OutboxAssumption
  <2> QED
    BY <1>1, <1>6, <2>1
    DEF retryFailedOutboxEvents, IInv, TypeOK, DeliveredOnce, EffectsDone,
        effectVars, faultVars
<1> QED
  BY <1>2, <1>3, <1>4, <1>5, <1>6 DEF EventNext

----------------------------------------------------------------------------
(* The specification *)

LEMMA InitInv == Init => IInv
<1> SUFFICES ASSUME Init PROVE IInv
  OBVIOUS
<1>1. 0 \in 0 .. MaxAttempts /\ 0 \in 0 .. MaxFaults /\ 0 \in 0 .. MaxThrows
  BY OutboxAssumption
<1> QED
  BY <1>1 DEF Init, IInv, TypeOK, DeliveredOnce, EffectsDone

LEMMA NextInv == IInv /\ [Next]_vars => IInv'
<1> SUFFICES ASSUME IInv, [Next]_vars PROVE IInv'
  OBVIOUS
<1>1. CASE UNCHANGED vars
  BY <1>1
  DEF vars, rowVars, effectVars, faultVars, IInv, TypeOK, DeliveredOnce, EffectsDone
<1>2. ASSUME NEW w \in Workers, Claims(w) PROVE IInv'
  BY <1>2, ClaimInv DEF Claims
<1>3. ASSUME NEW t \in tasks, ProcessTask(t) \/ MarkFailedThrows(t) PROVE IInv'
  BY <1>3, HandlerInv, MarkProcessedInv, MarkFailedInv, MarkFailedThrowsInv DEF ProcessTask
<1> QED
  BY <1>1, <1>2, <1>3, EnvironmentInv DEF Next

LEMMA Invariant == Spec => []IInv
  BY InitInv, NextInv, PTL DEF Spec

(***************************************************************************)
(* Rows and tasks keep their types, and the check constraint of            *)
(* domain_outbox holds: a row is locked exactly while it is processing.    *)
(***************************************************************************)
THEOREM TypeCorrect == Spec => []TypeOK
<1>1. IInv => TypeOK
  BY DEF IInv
<1> QED
  BY <1>1, Invariant, PTL

(***************************************************************************)
(* Of a step that ends a claim: markProcessed and markFailed look at their *)
(* lock, claimOutboxBatch takes no processed row, and nothing else decides.*)
(***************************************************************************)
LEMMA DecidedByOwner ==
  ASSUME TypeOK, Next, NEW e \in Events
  PROVE  /\ status[e] = "processed" => status'[e] = "processed"
         /\ status[e] = "processing" /\ status'[e] \in {"processed", "pending"}
              => \E t \in tasks \ tasks' : t.event = e /\ t.worker = owner[e]
<1> DEFINE Decided ==
             /\ status[e] = "processed" => status'[e] = "processed"
             /\ status[e] = "processing" /\ status'[e] \in {"processed", "pending"}
                  => \E t \in tasks \ tasks' : t.event = e /\ t.worker = owner[e]
<1>1. ASSUME status' = status PROVE Decided
  BY <1>1
<1>2. ASSUME NEW w \in Workers, Claims(w) PROVE Decided
  <2>1. PICK S \in Batches : claimOutboxBatch(w, S)
    BY <1>2 DEF Claims
  <2>2. e \in S => status[e] # "processed"
    BY DEF Batches, Candidates
  <2>3. e \in Exhausted => status[e] # "processed"
    BY DEF Exhausted
  <2> QED
    BY <2>1, <2>2, <2>3 DEF claimOutboxBatch
<1>3. ASSUME NEW t \in tasks, markProcessed(t) PROVE Decided
  <2>1. CASE LockLost(t)
    BY <1>1, <1>3, <2>1 DEF markProcessed, rowVars
  <2>2. CASE ~LockLost(t)
    <3>1. /\ status' = [status EXCEPT ![t.event] = "processed"]
          /\ owner[t.event] = t.worker
          /\ t \in tasks \ tasks'
      BY <1>3, <2>2 DEF markProcessed, LockLost, Owns
    <3> QED
      BY <3>1 DEF TypeOK
  <2> QED
    BY <2>1, <2>2
<1>4. ASSUME NEW t \in tasks, markFailed(t) PROVE Decided
  <2>1. CASE ~Owns(t)
    BY <1>1, <1>4, <2>1 DEF markFailed, rowVars
  <2>2. CASE Owns(t)
    <3>1. /\ status' = [status EXCEPT ![t.event] = IF Terminal(t) THEN "failed" ELSE "pending"]
          /\ status[t.event] = "processing" /\ owner[t.event] = t.worker
          /\ t \in tasks \ tasks'
      BY <1>4, <2>2 DEF markFailed, Owns
    <3> QED
      BY <3>1 DEF TypeOK
  <2> QED
    BY <2>1, <2>2
<1>5. ASSUME NEW t \in tasks,
             \/ ProcessTask(t) /\ ~markProcessed(t) /\ ~markFailed(t)
             \/ MarkFailedThrows(t) \/ Heartbeat(t)
      PROVE  Decided
  <2>1. status' = status
    BY <1>5
    DEF ProcessTask, StartTask, HandlerInserts, HandlerEnqueues, HandlerThrows,
        MarkFailedThrows, Heartbeat, rowVars
  <2> QED
    BY <1>1, <2>1
<1>6. ASSUME NEW f \in Events, EventNext(f) PROVE Decided
  BY <1>6
  DEF EventNext, Enqueue, LockExpires, HeartbeatFails, BackoffPasses,
      retryFailedOutboxEvents, TypeOK
<1>7. ASSUME NEW w \in Workers, Crash(w) PROVE Decided
  BY <1>1, <1>7 DEF Crash, rowVars
<1> QED
  BY <1>2, <1>3, <1>4, <1>5, <1>6, <1>7 DEF Next

----------------------------------------------------------------------------
(* Outbox implements Effects *)

\* A task is of an event that some transaction has recorded.
TasksAreRecorded == \A t \in tasks : status[t.event] # "none"

\* What a step does with the tasks: none but a claim adds an event to them.
LEMMA TasksOfStep ==
  ASSUME TypeOK, Next
  PROVE  /\ \A e \in Events : status[e] # "none" => status'[e] # "none"
         /\ \A u \in tasks' :
              \/ \E t \in tasks : u.event = t.event
              \/ u.event \in Events /\ status'[u.event] = "processing"
<1> DEFINE Belongs(u) ==
             \/ \E t \in tasks : u.event = t.event
             \/ u.event \in Events /\ status'[u.event] = "processing"
           Fine == /\ \A e \in Events : status[e] # "none" => status'[e] # "none"
                   /\ \A u \in tasks' : Belongs(u)
<1>1. ASSUME NEW w \in Workers, Claims(w) PROVE Fine
  <2>1. PICK S \in Batches : claimOutboxBatch(w, S)
    BY <1>1 DEF Claims
  <2>2. S \subseteq Events
    BY DEF Batches, Candidates
  <2>3. /\ status' = [e \in Events |-> IF e \in S THEN "processing"
                                      ELSE IF e \in Exhausted THEN "failed" ELSE status[e]]
        /\ tasks' = tasks \cup {Task(w, e, attempts[e] + 1, "current", "waiting") : e \in S}
    BY <2>1 DEF claimOutboxBatch
  <2>4. ASSUME NEW u \in tasks' PROVE Belongs(u)
    <3>1. CASE u \in tasks
      BY <3>1
    <3>2. CASE u \notin tasks
      <4>1. PICK e \in S : u = Task(w, e, attempts[e] + 1, "current", "waiting")
        BY <2>3, <2>4, <3>2
      <4>2. u.event = e
        BY <4>1 DEF Task
      <4> QED
        BY <2>2, <2>3, <4>2
    <3> QED
      BY <3>1, <3>2
  <2> QED
    BY <2>3, <2>4
<1>2. ASSUME NEW t \in tasks, NEW pc \in Working, Goto(t, pc), UNCHANGED rowVars PROVE Fine
  BY <1>2, GotoTasks DEF rowVars
<1>3. ASSUME tasks' \subseteq tasks, UNCHANGED status PROVE Fine
  BY <1>3
<1>4. ASSUME NEW t \in tasks, markProcessed(t) PROVE Fine
  <2>1. CASE LockLost(t)
    BY <1>2, <1>4, <2>1 DEF markProcessed, Working
  <2>2. CASE ~LockLost(t)
    BY <1>4, <2>2 DEF markProcessed, TypeOK
  <2> QED
    BY <2>1, <2>2
<1>5. ASSUME NEW t \in tasks, markFailed(t) PROVE Fine
  BY <1>5 DEF markFailed, rowVars, TypeOK
<1>6. ASSUME NEW t \in tasks, MarkFailedThrows(t) PROVE Fine
  <2>1. ASSUME NEW u \in tasks' PROVE \E v \in tasks : u.event = v.event
    <3>1. u \in tasks \/ \E v \in tasks : u = [v EXCEPT !.batch = "orphan"]
      BY <1>6, <2>1 DEF MarkFailedThrows
    <3> QED
      BY <3>1 DEF TypeOK, Tasks
  <2> QED
    BY <1>6, <2>1 DEF MarkFailedThrows, rowVars
<1>7. ASSUME NEW t \in tasks, ProcessTask(t) PROVE Fine
  BY <1>2, <1>4, <1>5, <1>7
  DEF ProcessTask, StartTask, HandlerInserts, HandlerEnqueues, HandlerThrows, Working
<1>8. ASSUME NEW t \in tasks, Heartbeat(t) PROVE Fine
  BY <1>3, <1>8 DEF Heartbeat
<1>9. ASSUME NEW w \in Workers, Crash(w) PROVE Fine
  BY <1>3, <1>9 DEF Crash, rowVars
<1>10. ASSUME NEW e \in Events, EventNext(e) PROVE Fine
  BY <1>10
  DEF EventNext, Enqueue, LockExpires, HeartbeatFails, BackoffPasses, retryFailedOutboxEvents, TypeOK
<1> QED
  BY <1>1, <1>6, <1>7, <1>8, <1>9, <1>10 DEF Next

\* Recorded events stay recorded, and only they are claimed.
LEMMA TasksAreOfRecordedEvents == Spec => []TasksAreRecorded
<1>1. Init => TasksAreRecorded
  BY DEF Init, TasksAreRecorded
<1>2. IInv /\ TasksAreRecorded /\ [Next]_vars => TasksAreRecorded'
  <2> SUFFICES ASSUME TypeOK, TasksAreRecorded, [Next]_vars PROVE TasksAreRecorded'
    BY DEF IInv
  <2>1. CASE UNCHANGED vars
    BY <2>1 DEF vars, rowVars, TasksAreRecorded
  <2>2. CASE Next
    BY <2>2, TasksOfStep DEF TasksAreRecorded, TypeOK, Tasks
  <2> QED
    BY <2>1, <2>2
<1> QED
  BY <1>1, <1>2, Invariant, PTL DEF Spec

\* A change of one row's status is a turn of the event's fate.
LEMMA FateTurns ==
  ASSUME TypeOK, NEW e \in Events, NEW s \in {"pending", "processed", "failed"},
         status' = [status EXCEPT ![e] = s]
  PROVE  fateBar' = [fateBar EXCEPT ![e] = CASE s = "pending" -> "due" [] s = "processed" -> "done"
                                              [] OTHER -> "dead"]
BY DEF fateBar, TypeOK

\* markProcessed finishes an event whose effects are there.
LEMMA ProcessedIsFinished ==
  ASSUME IInv, NEW t \in tasks, markProcessed(t)
  PROVE  [Promise!Next]_Promise!promiseVars
<1>1. TypeOK /\ DeliveredOnce /\ EffectsDone /\ t.event \in Events /\ UNCHANGED effectVars
  BY DEF IInv, markProcessed, TypeOK, Tasks
<1>2. CASE LockLost(t)
  BY <1>1, <1>2 DEF markProcessed, rowVars, effectVars, fateBar, Promise!promiseVars
<1>3. CASE ~LockLost(t)
  <2>1. /\ t.pc = "handled" /\ status[t.event] = "processing"
        /\ status' = [status EXCEPT ![t.event] = "processed"]
    BY <1>3 DEF markProcessed, LockLost, Owns
  <2>2. rows[t.event] = 1 /\ jobs[t.event] = 1
    BY <1>1, <2>1 DEF EffectsDone
  <2>3. fateBar[t.event] = "due" /\ fateBar' = [fateBar EXCEPT ![t.event] = "done"]
    BY <1>1, <2>1, FateTurns DEF fateBar
  <2>4. Promise!Finish(t.event)
    BY <1>1, <2>2, <2>3 DEF Promise!Finish, Promise!Turn, effectVars
  <2> QED
    BY <1>1, <2>4 DEF Promise!Next
<1> QED
  BY <1>2, <1>3

\* markFailed gives an event up after its last attempt, and else leaves it due.
LEMMA FailedIsGivenUp ==
  ASSUME IInv, NEW t \in tasks, markFailed(t)
  PROVE  [Promise!Next]_Promise!promiseVars
<1>1. TypeOK /\ t.event \in Events /\ UNCHANGED effectVars
  BY DEF IInv, markFailed, TypeOK, Tasks
<1>2. CASE ~Owns(t)
  BY <1>1, <1>2 DEF markFailed, rowVars, effectVars, fateBar, Promise!promiseVars
<1>3. CASE Owns(t)
  <2>1. /\ status[t.event] = "processing"
        /\ status' = [status EXCEPT ![t.event] = IF Terminal(t) THEN "failed" ELSE "pending"]
    BY <1>3 DEF markFailed, Owns
  <2>2. fateBar[t.event] = "due" /\ fateBar \in [Events -> {"none", "due", "done", "dead"}]
    BY <1>1, <2>1 DEF fateBar, TypeOK
  <2>3. CASE Terminal(t)
    <3>1. fateBar' = [fateBar EXCEPT ![t.event] = "dead"]
      BY <1>1, <2>1, <2>3, FateTurns
    <3>2. fateBar' = [e \in Events |-> IF e \in {t.event} THEN "dead" ELSE fateBar[e]]
      BY <2>2, <3>1
    <3>3. Promise!GiveUp({t.event})
      BY <1>1, <2>2, <3>2 DEF Promise!GiveUp, effectVars
    <3> QED
      BY <1>1, <3>3 DEF Promise!Next
  <2>4. CASE ~Terminal(t)
    <3>1. fateBar' = [fateBar EXCEPT ![t.event] = "due"]
      BY <1>1, <2>1, <2>4, FateTurns
    <3>2. fateBar' = fateBar
      BY <2>2, <3>1
    <3> QED
      BY <1>1, <3>2 DEF effectVars, Promise!promiseVars
  <2> QED
    BY <2>3, <2>4
<1> QED
  BY <1>2, <1>3

\* A claim gives up the exhausted events and leaves those it takes due.
LEMMA ClaimGivesUp ==
  ASSUME IInv, NEW w \in Workers, Claims(w)
  PROVE  Promise!Next
<1>1. PICK S \in Batches : claimOutboxBatch(w, S)
  BY DEF Claims
<1>2. /\ TypeOK /\ UNCHANGED effectVars
      /\ status' = [e \in Events |-> IF e \in S THEN "processing"
                                    ELSE IF e \in Exhausted THEN "failed" ELSE status[e]]
  BY <1>1 DEF claimOutboxBatch, IInv
<1>3. \A e \in S : status[e] \in {"pending", "processing"} /\ e \notin Exhausted
  <2>1. S \subseteq Candidates
    BY DEF Batches
  <2>2. ASSUME NEW e \in Candidates
        PROVE  status[e] \in {"pending", "processing"} /\ e \notin Exhausted
    <3>1. attempts[e] \in Int /\ MaxAttempts \in Int
      BY <1>2, OutboxAssumption DEF Candidates, TypeOK
    <3> QED
      BY <3>1 DEF Candidates, Exhausted
  <2> QED
    BY <2>1, <2>2
<1>4. Exhausted \subseteq Events /\ \A e \in Exhausted : status[e] = "processing"
  BY DEF Exhausted
<1>5. fateBar' = [e \in Events |-> IF e \in Exhausted THEN "dead" ELSE fateBar[e]]
  <2>1. ASSUME NEW e \in Events
        PROVE  fateBar'[e] = IF e \in Exhausted THEN "dead" ELSE fateBar[e]
    BY <1>2, <1>3, <1>4 DEF fateBar
  <2>2. fateBar' = [e \in Events |-> fateBar'[e]]
    BY DEF fateBar
  <2> QED
    BY <2>1, <2>2
<1>6. \A e \in Exhausted : fateBar[e] = "due"
  BY <1>4 DEF fateBar
<1>7. Promise!GiveUp(Exhausted)
  BY <1>2, <1>5, <1>6 DEF Promise!GiveUp, effectVars
<1> QED
  BY <1>4, <1>7 DEF Promise!Next

\* A handler's effect happens or has happened before.
LEMMA HandlerTellsOnce ==
  ASSUME IInv, TasksAreRecorded, NEW t \in tasks, HandlerInserts(t) \/ HandlerEnqueues(t)
  PROVE  [Promise!Next]_Promise!promiseVars
<1>1. /\ TypeOK /\ DeliveredOnce /\ EffectsDone
      /\ t.event \in Events /\ status[t.event] # "none"
      /\ fateBar' = fateBar
  BY DEF IInv, TypeOK, Tasks, TasksAreRecorded, HandlerInserts, HandlerEnqueues, rowVars, fateBar
<1>2. /\ rows \in [Events -> Nat] /\ jobs \in [Events -> Nat]
      /\ rows[t.event] \in {0, 1} /\ jobs[t.event] \in {0, 1}
  BY <1>1 DEF TypeOK, DeliveredOnce
<1>3. CASE HandlerInserts(t)
  <2>1. rows' = [rows EXCEPT ![t.event] = 1] /\ jobs' = jobs
    BY <1>2, <1>3 DEF HandlerInserts, NotificationRow
  <2>2. fateBar[t.event] # "none"
    BY <1>1 DEF fateBar, TypeOK
  <2>3. CASE rows[t.event] = 0
    BY <1>1, <2>1, <2>2, <2>3 DEF Promise!Next, Promise!Tell
  <2>4. CASE rows[t.event] = 1
    BY <1>1, <1>2, <2>1, <2>4 DEF Promise!promiseVars
  <2> QED
    BY <1>2, <2>3, <2>4
<1>4. CASE HandlerEnqueues(t)
  <2>1. jobs' = [jobs EXCEPT ![t.event] = 1] /\ rows' = rows /\ rows[t.event] = 1
    BY <1>1, <1>2, <1>4 DEF HandlerEnqueues, DeliveryJob, EffectsDone
  <2>2. CASE jobs[t.event] = 0
    BY <1>1, <2>1, <2>2 DEF Promise!Next, Promise!Queue
  <2>3. CASE jobs[t.event] = 1
    BY <1>1, <1>2, <2>1, <2>3 DEF Promise!promiseVars
  <2> QED
    BY <1>2, <2>2, <2>3
<1> QED
  BY <1>3, <1>4

\* Recording and taking up again are steps of the event; time is none.
LEMMA EventIsPromised ==
  ASSUME IInv, NEW e \in Events, EventNext(e)
  PROVE  [Promise!Next]_Promise!promiseVars
<1>1. TypeOK /\ UNCHANGED <<rows, jobs>>
  BY DEF IInv, EventNext, Enqueue, LockExpires, HeartbeatFails, BackoffPasses,
         retryFailedOutboxEvents, effectVars
<1>2. CASE Enqueue(e)
  <2>1. fateBar[e] = "none" /\ fateBar' = [fateBar EXCEPT ![e] = "due"]
    BY <1>1, <1>2, FateTurns DEF Enqueue, fateBar
  <2> QED
    BY <1>1, <2>1 DEF Promise!Next, Promise!Record, Promise!Turn
<1>3. CASE retryFailedOutboxEvents(e)
  <2>1. fateBar[e] = "dead" /\ fateBar' = [fateBar EXCEPT ![e] = "due"]
    BY <1>1, <1>3, FateTurns DEF retryFailedOutboxEvents, fateBar
  <2> QED
    BY <1>1, <2>1 DEF Promise!Next, Promise!TakeUp, Promise!Turn
<1>4. CASE LockExpires(e) \/ HeartbeatFails(e) \/ BackoffPasses(e)
  BY <1>1, <1>4
  DEF LockExpires, HeartbeatFails, BackoffPasses, fateBar, Promise!promiseVars
<1> QED
  BY <1>2, <1>3, <1>4 DEF EventNext

\* Every other step is a stutter: it moves tasks, locks and clocks.
LEMMA PromiseStep ==
  IInv /\ TasksAreRecorded /\ [Next]_vars => [Promise!Next]_Promise!promiseVars
<1> SUFFICES ASSUME IInv, TasksAreRecorded, [Next]_vars
             PROVE  [Promise!Next]_Promise!promiseVars
  OBVIOUS
<1>1. ASSUME UNCHANGED <<status, rows, jobs>> PROVE [Promise!Next]_Promise!promiseVars
  BY <1>1 DEF fateBar, Promise!promiseVars
<1>2. CASE UNCHANGED vars
  BY <1>1, <1>2 DEF vars, rowVars, effectVars
<1>3. ASSUME NEW t \in tasks, ProcessTask(t) PROVE [Promise!Next]_Promise!promiseVars
  <2>1. CASE StartTask(t) \/ HandlerThrows(t)
    BY <1>1, <2>1 DEF StartTask, HandlerThrows, rowVars, effectVars
  <2> QED
    BY <1>3, <2>1, HandlerTellsOnce, ProcessedIsFinished, FailedIsGivenUp DEF ProcessTask
<1>4. ASSUME NEW t \in tasks, MarkFailedThrows(t) \/ Heartbeat(t)
      PROVE  [Promise!Next]_Promise!promiseVars
  BY <1>1, <1>4 DEF MarkFailedThrows, Heartbeat, rowVars, effectVars
<1>5. ASSUME NEW w \in Workers, Claims(w) \/ Crash(w)
      PROVE  [Promise!Next]_Promise!promiseVars
  BY <1>1, <1>5, ClaimGivesUp DEF Crash, rowVars, effectVars
<1> QED
  BY <1>2, <1>3, <1>4, <1>5, EventIsPromised DEF Next

\* The initial states and every step map to those of Effects.
LEMMA OutboxKeepsItsPromise == Spec => Promise!Spec
<1>1. Init => Promise!Init
  BY DEF Init, Promise!Init, fateBar
<1> QED
  BY <1>1, Invariant, TasksAreOfRecordedEvents, PromiseStep, PTL DEF Spec, Promise!Spec

(***************************************************************************)
(* The handlers and claims of outbox.worker.ts implement Effects: each     *)
(* event has one notification and one delivery job at most, in this order, *)
(* both before it is processed, and a processed event stays so; only the   *)
(* holder of its lock decides it, once.  So for any events, workers and    *)
(* batches, whatever leases expire under a running handler.                *)
(***************************************************************************)
THEOREM DecidedOnce == Spec => EventDecidedOnce
<1> DEFINE Decided ==
             \A e \in Events :
               /\ status[e] = "processed" => status'[e] = "processed"
               /\ status[e] = "processing" /\ status'[e] \in {"processed", "pending"}
                    => \E t \in tasks \ tasks' : t.event = e /\ t.worker = owner[e]
<1>1. IInv => DeliveredOnce
  BY DEF IInv
<1>2. IInv /\ [Next]_vars => [Decided]_vars
  <2> SUFFICES ASSUME IInv, Next PROVE Decided
    OBVIOUS
  <2> QED
    BY DecidedByOwner DEF IInv
<1> QED
  BY <1>1, <1>2, Invariant, OutboxKeepsItsPromise, PTL DEF Spec, EventDecidedOnce, ProcessedIsFinal

----------------------------------------------------------------------------
(* Start and stop of a process *)

\* Told to stop, the process is not announced as ready.
NotReady == ~lateReady /\ (requested => ~gate)

\* How far the stop has come: who asked for it, and that the cleanup counts.
StopKnown ==
  /\ shutdown # "none" => requested \/ boot = "failed"
  /\ role = "api" /\ shutdown # "none" => requested
  /\ cleanupStep > 0 <=> shutdown \in {"cleanup", "done"}

\* The third cleanup step of a background process leaves no beat behind that
\* could write the key again, unless something failed.
HeartbeatGone ==
  /\ role = "api" => beat = "none" /\ ~heartbeatKey
  /\ cleanupStep > 3 /\ runtimeFaults = 0 => beat = "none" /\ ~heartbeatKey
  /\ process = "exited" => cleanupStep > 6

\* The drain ends the requests, the fourth step of the API their audit writes,
\* both before the fifth closes the pool.
WritesDrained ==
  /\ role = "background" => openRequests = 0 /\ auditWrites = 0
  /\ ~abandoned /\ cleanupStep > 0 => openRequests = 0
  /\ ~abandoned /\ cleanupStep > 4 => auditWrites = 0
  /\ ~abandoned => lostWrites = 0

\* What the argument needs of the types.
Counted ==
  /\ role \in {"api", "background"} /\ cleanupStep \in Nat /\ runtimeFaults \in Nat
  /\ openRequests \in Nat /\ auditWrites \in Nat

ProcessIInv == Counted /\ NotReady /\ StopKnown /\ HeartbeatGone /\ WritesDrained

LEMMA StepsOfCleanup ==
  ASSUME role \in {"api", "background"}, cleanupStep \in Nat
  PROVE  /\ Len(CleanupSteps) = 6
         /\ Past("postgres") <=> cleanupStep > 5
         /\ role = "background" => CleanupSteps[3] = "heartbeat"
         /\ role = "api" => CleanupSteps[4] = "audit"
<1>1. CASE role = "api"
  BY <1>1 DEF CleanupSteps, Past
<1>2. CASE role = "background"
  BY <1>2 DEF CleanupSteps, Past
<1> QED
  BY <1>1, <1>2

LEMMA ProcessInitInv == LifecycleInit => ProcessIInv
BY LifecycleAssumption
DEF LifecycleInit, ProcessIInv, Counted, NotReady, StopKnown, HeartbeatGone, WritesDrained

\* What stopping for the first time does, whoever asks for it.
LEMMA BeginShutdownInv ==
  ASSUME ProcessIInv, NEW newBoot, BeginShutdown(newBoot), shutdown = "none",
         UNCHANGED <<role, process, beat, heartbeatKey, openRequests, auditWrites, abandoned,
                     lostWrites, lateReady>>,
         runtimeFaults' \in Nat
  PROVE  ProcessIInv'
<1>1. Counted'
  BY DEF BeginShutdown, ProcessIInv, Counted
<1>2. NotReady'
  BY DEF BeginShutdown, ProcessIInv, NotReady
<1>3. StopKnown'
  BY DEF BeginShutdown, ProcessIInv, Counted, StopKnown
<1>4. HeartbeatGone'
  BY DEF BeginShutdown, ProcessIInv, Counted, StopKnown, HeartbeatGone
<1>5. WritesDrained'
  BY DEF BeginShutdown, ProcessIInv, Counted, StopKnown, WritesDrained
<1> QED
  BY <1>1, <1>2, <1>3, <1>4, <1>5 DEF ProcessIInv

LEMMA StartInv ==
  ASSUME ProcessIInv, ServicesStarted \/ StartCompleted \/ StartFailed
  PROVE  ProcessIInv'
<1>1. CASE ServicesStarted
  <2>1. requested \/ cleanupStep = 0
    BY <1>1 DEF ServicesStarted, ProcessIInv, Counted, StopKnown
  <2>2. Counted' /\ NotReady' /\ StopKnown' /\ WritesDrained'
    BY <1>1 DEF ServicesStarted, ProcessIInv, Counted, NotReady, StopKnown, WritesDrained
  <2>3. HeartbeatGone'
    BY <1>1, <2>1 DEF ServicesStarted, ProcessIInv, Counted, HeartbeatGone
  <2> QED
    BY <2>2, <2>3 DEF ProcessIInv
<1>2. CASE StartCompleted
  <2>1. Counted' /\ StopKnown' /\ HeartbeatGone' /\ WritesDrained'
    BY <1>2 DEF StartCompleted, ProcessIInv, Counted, StopKnown, HeartbeatGone, WritesDrained
  <2>2. NotReady'
    BY <1>2 DEF StartCompleted, ProcessIInv, NotReady
  <2> QED
    BY <2>1, <2>2 DEF ProcessIInv
<1>3. CASE StartFailed
  <2>0. runtimeFaults' \in Nat /\ runtimeFaults' # 0
    BY <1>3 DEF StartFailed, RuntimeFault, ProcessIInv, Counted
  <2>1. CASE requested
    <3>1. Counted' /\ NotReady' /\ StopKnown'
      BY <1>3, <2>0, <2>1 DEF StartFailed, ProcessIInv, Counted, NotReady, StopKnown
    <3>2. HeartbeatGone' /\ WritesDrained'
      BY <1>3, <2>0, <2>1 DEF StartFailed, ProcessIInv, Counted, HeartbeatGone, WritesDrained
    <3> QED
      BY <3>1, <3>2 DEF ProcessIInv
  <2>2. CASE ~requested /\ role = "api"
    <3>1. shutdown = "none" /\ BeginShutdown("failed")
      BY <1>3, <2>2 DEF StartFailed, ProcessIInv, StopKnown
    <3> QED
      BY <1>3, <2>0, <3>1, BeginShutdownInv DEF StartFailed
  <2>3. CASE ~requested /\ role # "api"
    <3>1. Counted' /\ NotReady' /\ StopKnown'
      BY <1>3, <2>0, <2>3 DEF StartFailed, ProcessIInv, Counted, NotReady, StopKnown
    <3>2. HeartbeatGone' /\ WritesDrained'
      BY <1>3, <2>0, <2>3
      DEF StartFailed, Alive, ProcessIInv, Counted, HeartbeatGone, WritesDrained
    <3> QED
      BY <3>1, <3>2 DEF ProcessIInv
  <2> QED
    BY <2>1, <2>2, <2>3
<1> QED
  BY <1>1, <1>2, <1>3

LEMMA StopInv ==
  ASSUME ProcessIInv, RequestShutdown \/ HardTimeout \/ DrainApi
  PROVE  ProcessIInv'
<1>1. CASE RequestShutdown
  <2>1. CASE ~requested /\ shutdown = "none"
    <3>1. BeginShutdown(boot) /\ UNCHANGED process
      BY <1>1, <2>1 DEF RequestShutdown
    <3>2. runtimeFaults' \in Nat
      BY <1>1 DEF RequestShutdown, ProcessIInv, Counted
    <3> QED
      BY <1>1, <2>1, <3>1, <3>2, BeginShutdownInv DEF RequestShutdown
  <2>2. CASE requested \/ shutdown # "none"
    <3>1. Counted' /\ NotReady' /\ StopKnown'
      BY <1>1, <2>2 DEF RequestShutdown, ProcessIInv, Counted, NotReady, StopKnown
    <3>2. HeartbeatGone' /\ WritesDrained'
      BY <1>1, <2>2 DEF RequestShutdown, Alive, ProcessIInv, Counted, HeartbeatGone, WritesDrained
    <3> QED
      BY <3>1, <3>2 DEF ProcessIInv
  <2> QED
    BY <2>1, <2>2
<1>2. CASE HardTimeout
  BY <1>2
  DEF HardTimeout, ProcessIInv, Counted, NotReady, StopKnown, HeartbeatGone, WritesDrained
<1>3. CASE DrainApi
  <2>1. /\ shutdown = "draining" /\ shutdown' = "cleanup" /\ cleanupStep' = 1
        /\ openRequests = 0 \/ abandoned'
        /\ abandoned => abandoned'
        /\ runtimeFaults' \in Nat
    BY <1>3 DEF DrainApi, RuntimeFault, ProcessIInv, Counted
  <2>2. Counted' /\ NotReady' /\ StopKnown'
    BY <1>3, <2>1 DEF DrainApi, ProcessIInv, Counted, NotReady, StopKnown
  <2>3. HeartbeatGone'
    BY <1>3, <2>1 DEF DrainApi, Alive, ProcessIInv, Counted, HeartbeatGone
  <2>4. WritesDrained'
    BY <1>3, <2>1 DEF DrainApi, ProcessIInv, Counted, WritesDrained
  <2> QED
    BY <2>2, <2>3, <2>4 DEF ProcessIInv
<1> QED
  BY <1>1, <1>2, <1>3

LEMMA CleanupInv ==
  ASSUME ProcessIInv, RunCleanupStep \/ CleanupHangs \/ FinishCleanup
  PROVE  ProcessIInv'
<1>0. /\ Len(CleanupSteps) = 6
      /\ role = "background" => CleanupSteps[3] = "heartbeat"
      /\ role = "api" => CleanupSteps[4] = "audit"
  BY StepsOfCleanup DEF ProcessIInv, Counted
<1>1. CASE RunCleanupStep
  <2>1. /\ shutdown = "cleanup" /\ cleanupStep \in Nat \ {0} /\ cleanupStep <= 6
        /\ cleanupStep' = cleanupStep + 1 /\ process = "alive"
        /\ runtimeFaults \in Nat /\ runtimeFaults' \in Nat
        /\ runtimeFaults' = 0 => runtimeFaults = 0
        /\ abandoned => abandoned'
        /\ heartbeatKey' => heartbeatKey
    <3>1. /\ shutdown = "cleanup" /\ cleanupStep <= 6 /\ cleanupStep' = cleanupStep + 1
          /\ process = "alive"
      BY <1>0, <1>1 DEF RunCleanupStep, Alive
    <3>2. cleanupStep \in Nat \ {0} /\ runtimeFaults \in Nat
      BY <3>1 DEF ProcessIInv, Counted, StopKnown
    <3>3. \/ runtimeFaults' = runtimeFaults + 1
          \/ runtimeFaults' = runtimeFaults
      BY <1>1 DEF RunCleanupStep, StepGoesWrong, RuntimeFault
    <3>4. /\ abandoned => abandoned'
          /\ heartbeatKey' => heartbeatKey
      <4> DEFINE name == CleanupSteps[cleanupStep]
      <4>1. \/ StepGoesWrong(name)
            \/ heartbeatKey' = (heartbeatKey /\ name # "heartbeat") /\ abandoned' = abandoned
        BY <1>1 DEF RunCleanupStep
      <4>2. CASE StepGoesWrong(name)
        <5>1. abandoned' = (abandoned \/ name = "audit") /\ heartbeatKey' = heartbeatKey
          BY <4>2 DEF StepGoesWrong
        <5> HIDE DEF name
        <5> QED
          BY <5>1
      <4>3. CASE heartbeatKey' = (heartbeatKey /\ name # "heartbeat") /\ abandoned' = abandoned
        <5> HIDE DEF name
        <5> QED
          BY <4>3
      <4> QED
        BY <4>1, <4>2, <4>3
    <3> QED
      BY <3>1, <3>2, <3>3, <3>4
  <2>2. ASSUME role = "background", cleanupStep = 3, runtimeFaults' = 0
        PROVE  beat = "none" /\ ~heartbeatKey'
    <3>1. CleanupSteps[cleanupStep] = "heartbeat"
      BY <1>0, <2>2
    <3>2. ~StepGoesWrong("heartbeat")
      BY <2>1, <2>2 DEF StepGoesWrong, RuntimeFault
    <3>3. StepEnds("heartbeat") /\ ~heartbeatKey'
      BY <1>1, <3>1, <3>2 DEF RunCleanupStep
    <3> QED
      BY <3>3 DEF StepEnds
  <2>3. ASSUME role = "api", cleanupStep = 4, ~abandoned'
        PROVE  auditWrites = 0
    <3>1. CleanupSteps[cleanupStep] = "audit"
      BY <1>0, <2>3
    <3>2. ~StepGoesWrong("audit")
      BY <2>3 DEF StepGoesWrong
    <3>3. StepEnds("audit")
      BY <1>1, <3>1, <3>2 DEF RunCleanupStep
    <3> QED
      BY <3>3 DEF StepEnds
  <2>4. Counted' /\ NotReady' /\ StopKnown'
    BY <1>1, <2>1 DEF RunCleanupStep, ProcessIInv, Counted, NotReady, StopKnown
  <2>5. HeartbeatGone'
    BY <1>1, <2>1, <2>2 DEF RunCleanupStep, ProcessIInv, Counted, HeartbeatGone
  <2>6. WritesDrained'
    BY <1>1, <2>1, <2>3 DEF RunCleanupStep, ProcessIInv, Counted, WritesDrained
  <2> QED
    BY <2>4, <2>5, <2>6 DEF ProcessIInv
<1>2. CASE CleanupHangs
  <2>1. runtimeFaults' \in Nat /\ (runtimeFaults' = 0 => runtimeFaults = 0)
    BY <1>2 DEF CleanupHangs, RuntimeFault, ProcessIInv, Counted
  <2> QED
    BY <1>2, <2>1
    DEF CleanupHangs, ProcessIInv, Counted, NotReady, StopKnown, HeartbeatGone, WritesDrained
<1>3. CASE FinishCleanup
  <2>1. /\ shutdown = "cleanup" /\ shutdown' = "done" /\ cleanupStep > 6
    BY <1>0, <1>3 DEF FinishCleanup
  <2>2. Counted' /\ NotReady' /\ StopKnown'
    BY <1>3, <2>1 DEF FinishCleanup, ProcessIInv, Counted, NotReady, StopKnown
  <2>3. HeartbeatGone' /\ WritesDrained'
    BY <1>3, <2>1 DEF FinishCleanup, ProcessIInv, Counted, HeartbeatGone, WritesDrained
  <2> QED
    BY <2>2, <2>3 DEF ProcessIInv
<1> QED
  BY <1>1, <1>2, <1>3

LEMMA BeatInv ==
  ASSUME ProcessIInv, TriggerBeat \/ BeatStep \/ EarlyDel \/ HeartbeatExpires
  PROVE  ProcessIInv'
<1>1. UNCHANGED <<role, boot, gate, shutdown, requested, cleanupStep, process, openRequests,
                  auditWrites, abandoned, lostWrites, lateReady>>
  BY DEF TriggerBeat, BeatStep, EarlyDel, HeartbeatExpires
<1>2. runtimeFaults' \in Nat /\ (runtimeFaults' = 0 => runtimeFaults = 0)
  BY DEF TriggerBeat, BeatStep, EarlyDel, HeartbeatExpires, RuntimeFault, ProcessIInv, Counted
<1>3. Counted' /\ NotReady' /\ StopKnown' /\ WritesDrained'
  BY <1>1, <1>2 DEF ProcessIInv, Counted, NotReady, StopKnown, WritesDrained
<1>4. HeartbeatGone'
  <2>1. CASE TriggerBeat
    BY <1>1, <1>2, <2>1 DEF TriggerBeat, ProcessIInv, Counted, StopKnown, HeartbeatGone
  <2>2. CASE BeatStep
    <3>1. beat # "none"
      BY <2>2 DEF BeatStep
    <3> QED
      BY <1>1, <1>2, <3>1 DEF ProcessIInv, HeartbeatGone
  <2>3. CASE EarlyDel \/ HeartbeatExpires
    <3>1. beat' = beat /\ (heartbeatKey' => heartbeatKey)
      BY <2>3 DEF EarlyDel, HeartbeatExpires
    <3> QED
      BY <1>1, <1>2, <3>1 DEF ProcessIInv, HeartbeatGone
  <2> QED
    BY <2>1, <2>2, <2>3
<1> QED
  BY <1>3, <1>4 DEF ProcessIInv

LEMMA RequestInv ==
  ASSUME ProcessIInv, AcceptRequest \/ FinishResponse \/ SettleAudit
  PROVE  ProcessIInv'
<1>0. Past("postgres") <=> cleanupStep > 5
  BY StepsOfCleanup DEF ProcessIInv, Counted
<1>1. UNCHANGED <<role, boot, gate, shutdown, requested, cleanupStep, process, beat,
                  heartbeatKey, abandoned, lateReady, runtimeFaults>>
  BY DEF AcceptRequest, FinishResponse, SettleAudit
<1>2. NotReady' /\ StopKnown' /\ HeartbeatGone'
  BY <1>1 DEF ProcessIInv, NotReady, StopKnown, HeartbeatGone
<1>3. CASE AcceptRequest
  <2>1. Counted' /\ WritesDrained'
    BY <1>1, <1>3 DEF AcceptRequest, ProcessIInv, Counted, StopKnown, WritesDrained
  <2> QED
    BY <1>2, <2>1 DEF ProcessIInv
<1>4. CASE FinishResponse
  <2>1. /\ openRequests > 0 /\ openRequests' = openRequests - 1
        /\ auditWrites' \in {auditWrites, auditWrites + 1}
        /\ cleanupStep <= 5 => lostWrites' = lostWrites
    BY <1>0, <1>4 DEF FinishResponse, ProcessIInv, Counted
  <2>2. Counted' /\ WritesDrained'
    BY <1>1, <2>1 DEF ProcessIInv, Counted, WritesDrained
  <2> QED
    BY <1>2, <2>2 DEF ProcessIInv
<1>5. CASE SettleAudit
  <2>1. /\ auditWrites > 0 /\ auditWrites' = auditWrites - 1 /\ openRequests' = openRequests
        /\ cleanupStep <= 5 => lostWrites' = lostWrites
    BY <1>0, <1>5 DEF SettleAudit, ProcessIInv, Counted
  <2>2. Counted' /\ WritesDrained'
    BY <1>1, <2>1 DEF ProcessIInv, Counted, WritesDrained
  <2> QED
    BY <1>2, <2>2 DEF ProcessIInv
<1> QED
  BY <1>3, <1>4, <1>5

LEMMA ReadinessInv ==
  ASSUME ProcessIInv, AskReadiness \/ AnswerReadiness \/ CacheExpires
  PROVE  ProcessIInv'
<1>1. UNCHANGED <<role, boot, gate, shutdown, requested, cleanupStep, process, beat,
                  heartbeatKey, openRequests, auditWrites, abandoned, lostWrites, runtimeFaults>>
  BY DEF AskReadiness, AnswerReadiness, CacheExpires
<1>2. lateReady' => lateReady \/ (gate /\ requested)
  BY DEF AskReadiness, AnswerReadiness, CacheExpires
<1>3. NotReady'
  BY <1>1, <1>2 DEF ProcessIInv, NotReady
<1>4. Counted' /\ StopKnown' /\ HeartbeatGone' /\ WritesDrained'
  BY <1>1 DEF ProcessIInv, Counted, StopKnown, HeartbeatGone, WritesDrained
<1> QED
  BY <1>3, <1>4 DEF ProcessIInv

LEMMA ProcessNextInv == ProcessIInv /\ [LifecycleNext]_lifecycleVars => ProcessIInv'
<1> SUFFICES ASSUME ProcessIInv, [LifecycleNext]_lifecycleVars PROVE ProcessIInv'
  OBVIOUS
<1>1. CASE UNCHANGED lifecycleVars
  BY <1>1
  DEF lifecycleVars, ProcessIInv, Counted, NotReady, StopKnown, HeartbeatGone, WritesDrained
<1> QED
  BY <1>1, StartInv, StopInv, CleanupInv, BeatInv, RequestInv, ReadinessInv DEF LifecycleNext

(***************************************************************************)
(* A process told to stop is not announced as ready again, its heartbeat   *)
(* key is gone when it exits without a failure, and a shutdown that no time*)
(* limit cuts short loses no audit write: the order of the cleanup steps is*)
(* what makes it so, whatever beats, requests and signals meet it.         *)
(***************************************************************************)
THEOREM ShutdownIsClean == LifecycleSpec => []CleanShutdown
<1>1. ProcessIInv => CleanShutdown
  BY DEF ProcessIInv, Counted, NotReady, HeartbeatGone, WritesDrained, CleanShutdown
<1> QED
  BY <1>1, ProcessInitInv, ProcessNextInv, PTL DEF LifecycleSpec

----------------------------------------------------------------------------
(* The realtime client: the inductive invariant *)

ClientShape ==
  /\ clientEnabled \in BOOLEAN /\ terminal \in BOOLEAN /\ visible \in BOOLEAN /\ online \in BOOLEAN
  /\ connectInFlight \in BOOLEAN /\ reconnectTimer \in BOOLEAN
  /\ clientGeneration \in Nat /\ opening \subseteq 0 .. clientGeneration
  /\ roomReferences \in [Rooms -> Nat]

\* The open in flight is that of the current generation, there is no socket
\* beside it, and a client that was stopped has left nothing behind: so an
\* abandoned open that settles late finds nothing of its own.
OneAttempt ==
  /\ connectInFlight <=> clientGeneration \in opening
  /\ connectInFlight => connection = "none"
  /\ ~clientEnabled => connection = "none" /\ ~connectInFlight /\ ~reconnectTimer

ClientIInv == ClientShape /\ OneAttempt /\ ConnectionRecovers

\* What the client does when it is started, stopped or refreshed.
LEMMA GenerationsRenew ==
  ASSUME ClientIInv, start \/ stop \/ refreshAuthentication
  PROVE  ClientIInv'
<1>1. /\ clientGeneration + 1 \in Nat /\ clientGeneration + 1 \notin opening
      /\ opening \subseteq 0 .. clientGeneration + 1
      /\ opening \union {clientGeneration + 1} \subseteq 0 .. clientGeneration + 1
  BY DEF ClientIInv, ClientShape
<1>2. /\ UNCHANGED <<visible, online>>
      /\ roomReferences' = roomReferences \/ roomReferences' = [r \in Rooms |-> 0]
  BY DEF start, stop, refreshAuthentication, clientVars
<1>3. /\ visible' \in BOOLEAN /\ online' \in BOOLEAN
      /\ roomReferences' \in [Rooms -> Nat]
  BY <1>2 DEF ClientIInv, ClientShape
<1>4. ASSUME clientGeneration' = clientGeneration + 1, clientEnabled' = TRUE, terminal' = FALSE,
             reconnectTimer' \in BOOLEAN, connection' = "none",
             connect(TRUE, visible, online, clientGeneration + 1)
      PROVE  ClientIInv'
  <2>1. CASE visible /\ online
    <3>1. opening' = opening \union {clientGeneration + 1} /\ connectInFlight' = TRUE
      BY <1>4, <2>1 DEF connect, MayConnect
    <3> QED
      BY <1>1, <1>3, <1>4, <3>1 DEF ClientIInv, ClientShape, OneAttempt, ConnectionRecovers
  <2>2. CASE ~(visible /\ online)
    <3>1. opening' = opening /\ connectInFlight' = FALSE
      BY <1>4, <2>2 DEF connect, MayConnect
    <3>2. ~MayConnect(clientEnabled', terminal', visible', online')
      BY <1>2, <2>2 DEF MayConnect
    <3> QED
      BY <1>1, <1>3, <1>4, <3>1, <3>2 DEF ClientIInv, ClientShape, OneAttempt, ConnectionRecovers
  <2> QED
    BY <2>1, <2>2
<1>5. ASSUME UNCHANGED clientVars, ~clientEnabled \/ UNCHANGED <<roomReferences, joined>>
      PROVE  ClientIInv'
  <2>1. ClientShape' /\ OneAttempt'
    BY <1>3, <1>5 DEF ClientIInv, ClientShape, OneAttempt, clientVars
  <2>2. ConnectionRecovers'
    BY <1>5 DEF ClientIInv, OneAttempt, ConnectionRecovers, clientVars, MayConnect
  <2> QED
    BY <2>1, <2>2 DEF ClientIInv
<1>6. CASE start
  <2>1. connection = "none" /\ ~clientEnabled /\ reconnectTimer \in BOOLEAN
    BY <1>6 DEF start, ClientIInv, ClientShape, OneAttempt
  <2> QED
    BY <1>4, <1>6, <2>1 DEF start, NextGeneration
<1>7. CASE stop
  <2>1. CASE clientEnabled
    <3>1. /\ clientGeneration' = clientGeneration + 1 /\ opening' = opening
          /\ clientEnabled' = FALSE /\ terminal' = FALSE /\ reconnectTimer' = FALSE
          /\ connection' = "none" /\ connectInFlight' = FALSE
      BY <1>7, <2>1 DEF stop, NextGeneration
    <3> QED
      BY <1>1, <1>3, <3>1 DEF ClientIInv, ClientShape, OneAttempt, ConnectionRecovers, MayConnect
  <2>2. CASE ~clientEnabled
    BY <1>5, <1>7, <2>2 DEF stop
  <2> QED
    BY <2>1, <2>2
<1>8. CASE refreshAuthentication
  <2>1. CASE clientEnabled
    BY <1>4, <1>8, <2>1 DEF refreshAuthentication, NextGeneration, ClientIInv, ClientShape
  <2>2. CASE ~clientEnabled
    BY <1>5, <1>8, <2>2 DEF refreshAuthentication
  <2> QED
    BY <2>1, <2>2
<1> QED
  BY <1>6, <1>7, <1>8

\* What the account, the tokens and the provider's revalidation lead to.
LEMMA ProviderSteps ==
  ASSUME ClientIInv, AccountChanges \/ AuthenticationRefreshed \/ Hydrated
  PROVE  ClientIInv'
<1>1. CASE start \/ stop \/ refreshAuthentication
  BY <1>1, GenerationsRenew
<1>2. CASE UNCHANGED <<clientVars, roomReferences, joined>>
  BY <1>2 DEF ClientIInv, ClientShape, OneAttempt, ConnectionRecovers, clientVars, MayConnect
<1>3. \/ start \/ stop \/ refreshAuthentication
      \/ UNCHANGED <<clientVars, roomReferences, joined>>
  BY DEF AccountChanges, AuthenticationRefreshed, Hydrated, RealtimeProvider
<1> QED
  BY <1>1, <1>2, <1>3

\* Visibility, the network and the reconnect timer.
LEMMA WakeUps ==
  ASSUME ClientIInv, setVisible \/ setOnline \/ ReconnectTimer
  PROVE  ClientIInv'
<1>1. /\ UNCHANGED <<clientEnabled, terminal, clientGeneration, connection, roomReferences, joined>>
      /\ visible' \in BOOLEAN /\ online' \in BOOLEAN /\ reconnectTimer' \in BOOLEAN
      /\ ~clientEnabled => ~reconnectTimer'
  <2>1. CASE setVisible
    <3>1. UNCHANGED <<clientEnabled, terminal, clientGeneration, connection, roomReferences, joined,
                      online, reconnectTimer>>
      BY <2>1 DEF setVisible, SetFlags
    <3>2. visible' \in BOOLEAN
      BY <2>1, Zenon DEF setVisible, SetFlags
    <3> QED
      BY <3>1, <3>2 DEF ClientIInv, ClientShape, OneAttempt
  <2>2. CASE setOnline
    <3>1. UNCHANGED <<clientEnabled, terminal, clientGeneration, connection, roomReferences, joined,
                      visible, reconnectTimer>>
      BY <2>2 DEF setOnline, SetFlags
    <3>2. online' \in BOOLEAN
      BY <2>2, Zenon DEF setOnline, SetFlags
    <3> QED
      BY <3>1, <3>2 DEF ClientIInv, ClientShape, OneAttempt
  <2>3. CASE ReconnectTimer
    <3>1. UNCHANGED <<clientEnabled, terminal, clientGeneration, connection, roomReferences, joined,
                      visible, online>>
      BY <2>3 DEF ReconnectTimer
    <3>2. reconnectTimer' = FALSE
      BY <2>3 DEF ReconnectTimer
    <3> QED
      BY <3>1, <3>2 DEF ClientIInv, ClientShape
  <2> QED
    BY <2>1, <2>2, <2>3
<1>2. \/ UNCHANGED <<opening, connectInFlight>>
      \/ /\ opening' = opening \union {clientGeneration} /\ connectInFlight' = TRUE
         /\ connection = "none" /\ clientEnabled
  <2>1. CASE setVisible \/ setOnline
    BY <2>1 DEF setVisible, setOnline, SetFlags, connectIfWaiting, connect, MayConnect
  <2>2. CASE ReconnectTimer
    BY <2>2 DEF ReconnectTimer, connect, MayConnect
  <2> QED
    BY <2>1, <2>2
<1>3. ClientShape' /\ OneAttempt'
  <2>1. opening \union {clientGeneration} \subseteq 0 .. clientGeneration
    BY DEF ClientIInv, ClientShape
  <2>2. opening' \subseteq 0 .. clientGeneration /\ connectInFlight' \in BOOLEAN
    BY <1>2, <2>1 DEF ClientIInv, ClientShape
  <2>3. ClientShape'
    BY <1>1, <2>2 DEF ClientIInv, ClientShape
  <2>4. OneAttempt'
    BY <1>1, <1>2 DEF ClientIInv, OneAttempt
  <2> QED
    BY <2>3, <2>4
<1>4. ASSUME MayConnect(clientEnabled', terminal', visible', online'), connection' = "none"
      PROVE  connectInFlight' \/ reconnectTimer'
  <2>1. clientEnabled /\ ~terminal /\ connection = "none"
    BY <1>1, <1>4 DEF MayConnect
  <2>2. CASE setVisible
    <3>1. ~visible
      BY <1>4, <2>2 DEF setVisible, SetFlags, MayConnect, ClientIInv, ClientShape
    <3> QED
      BY <1>4, <2>1, <2>2, <3>1
      DEF setVisible, SetFlags, connectIfWaiting, connect, MayConnect, ClientIInv, ClientShape
  <2>3. CASE setOnline
    <3>1. ~online
      BY <1>4, <2>3 DEF setOnline, SetFlags, MayConnect, ClientIInv, ClientShape
    <3> QED
      BY <1>4, <2>1, <2>3, <3>1
      DEF setOnline, SetFlags, connectIfWaiting, connect, MayConnect, ClientIInv, ClientShape
  <2>4. CASE ReconnectTimer
    BY <1>4, <2>1, <2>4 DEF ReconnectTimer, connect, MayConnect, ClientIInv, ClientShape
  <2> QED
    BY <2>2, <2>3, <2>4
<1>5. ConnectionRecovers'
  BY <1>1, <1>3, <1>4 DEF ClientIInv, ConnectionRecovers, OneAttempt
<1> QED
  BY <1>3, <1>5 DEF ClientIInv

\* The socket opens, fails to open, or closes.
LEMMA SocketSteps ==
  ASSUME ClientIInv,
         \/ \E g \in opening, answer \in TicketAnswers : OpenSettles(g, answer)
         \/ handleOpen
         \/ \E isTerminal \in BOOLEAN : handleClose(isTerminal)
  PROVE  ClientIInv'
<1> USE DEF ClientIInv, ClientShape, OneAttempt, ConnectionRecovers, MayConnect
<1>1. ASSUME NEW g \in opening, NEW answer \in TicketAnswers, OpenSettles(g, answer)
      PROVE  ClientIInv'
  <2>1. CASE g # clientGeneration
    BY <1>1, <2>1 DEF OpenSettles
  <2>2. CASE g = clientGeneration /\ openAuthedSocket(answer)
    BY <1>1, <2>2 DEF OpenSettles
  <2>3. CASE g = clientGeneration /\ ~openAuthedSocket(answer)
    BY <1>1, <2>3 DEF OpenSettles, handleConnectFailure, scheduleReconnect,
                      requestTerminalAuthenticationRevalidation
  <2> QED
    BY <2>1, <2>2, <2>3
<1>2. CASE handleOpen
  BY <1>2 DEF handleOpen
<1>3. ASSUME NEW isTerminal \in BOOLEAN, handleClose(isTerminal)
      PROVE  ClientIInv'
  BY <1>3 DEF handleClose, scheduleReconnect, requestTerminalAuthenticationRevalidation
<1> QED
  BY <1>1, <1>2, <1>3

\* The panels come and go.
LEMMA RoomSteps ==
  ASSUME ClientIInv, NEW r \in Rooms, joinConversation(r) \/ leaveConversation(r)
  PROVE  ClientIInv'
<1>1. /\ UNCHANGED <<clientEnabled, terminal, visible, online, clientGeneration, opening,
                     connectInFlight, reconnectTimer>>
      /\ connection' = connection \/ (connection = "open" /\ connection' = "closing")
  <2>1. CASE joinConversation(r)
    <3>1. UNCHANGED <<clientEnabled, terminal, visible, online, clientGeneration, opening,
                      connectInFlight, reconnectTimer>>
      BY <2>1 DEF joinConversation
    <3>2. sendControl(joined \union {r}) \/ connection' = connection
      BY <2>1 DEF joinConversation
    <3>3. connection' = connection \/ (connection = "open" /\ connection' = "closing")
      BY <3>2 DEF sendControl
    <3> QED
      BY <3>1, <3>3
  <2>2. CASE leaveConversation(r)
    <3>1. UNCHANGED <<clientEnabled, terminal, visible, online, clientGeneration, opening,
                      connectInFlight, reconnectTimer>>
      BY <2>2 DEF leaveConversation
    <3>2. sendControl(joined \ {r}) \/ connection' = connection
      BY <2>2 DEF leaveConversation
    <3>3. connection' = connection \/ (connection = "open" /\ connection' = "closing")
      BY <3>2 DEF sendControl
    <3> QED
      BY <3>1, <3>3
  <2> QED
    BY <2>1, <2>2
<1>2. roomReferences' \in [Rooms -> Nat]
  BY DEF joinConversation, leaveConversation, ClientIInv, ClientShape
<1>3. ClientShape' /\ OneAttempt'
  BY <1>1, <1>2 DEF ClientIInv, ClientShape, OneAttempt
<1>4. ASSUME connection' = "open"
      PROVE  joined' = {q \in Rooms : roomReferences'[q] > 0}
  <2>1. connection = "open" /\ joined = {q \in Rooms : roomReferences[q] > 0}
    BY <1>1, <1>4 DEF ClientIInv, ConnectionRecovers
  <2>2. CASE joinConversation(r)
    BY <1>4, <2>1, <2>2 DEF joinConversation, sendControl, ClientIInv, ClientShape
  <2>3. CASE leaveConversation(r)
    BY <1>4, <2>1, <2>3 DEF leaveConversation, sendControl, ClientIInv, ClientShape
  <2> QED
    BY <2>2, <2>3
<1>5. ConnectionRecovers'
  BY <1>1, <1>4 DEF ClientIInv, ConnectionRecovers, MayConnect
<1> QED
  BY <1>3, <1>5 DEF ClientIInv

\* A page that is signed in, visible and online is never left without
\* realtime, and an open socket has asked for the rooms that panels show, for
\* any accounts, rooms, panels and number of starts, stops and lost sockets
\* (frontend/lib/realtime-client.ts).
THEOREM RealtimeIsNotLost == RealtimeSpec => []ConnectionRecovers
<1>1. RealtimeInit => ClientIInv
  <2> SUFFICES ASSUME RealtimeInit
               PROVE  ClientIInv
    OBVIOUS
  <2>1. ClientShape
    BY DEF RealtimeInit, ClientShape
  <2>2. OneAttempt
    BY DEF RealtimeInit, OneAttempt
  <2>3. ConnectionRecovers
    BY DEF RealtimeInit, ConnectionRecovers, MayConnect
  <2> QED
    BY <2>1, <2>2, <2>3 DEF ClientIInv
<1>2. ClientIInv /\ [RealtimeNext]_realtimeVars => ClientIInv'
  <2> SUFFICES ASSUME ClientIInv, [RealtimeNext]_realtimeVars
               PROVE  ClientIInv'
    OBVIOUS
  <2>1. CASE UNCHANGED realtimeVars
    BY <2>1 DEF realtimeVars, clientVars, ClientIInv, ClientShape, OneAttempt, ConnectionRecovers,
                MayConnect
  <2>2. CASE RealtimeNext
    BY <2>2, ProviderSteps, WakeUps, SocketSteps, RoomSteps DEF RealtimeNext
  <2> QED
    BY <2>1, <2>2
<1>3. ClientIInv => ConnectionRecovers
  BY DEF ClientIInv
<1> QED
  BY <1>1, <1>2, <1>3, PTL DEF RealtimeSpec

-----------------------------------------------------------------------------
(* Numbers and ranks, for the freeze and the audit *)

\* Every nonempty set of numbers has a least element.
LEMMA LeastNumber ==
  ASSUME NEW T \in SUBSET Nat, T # {}
  PROVE  \E m \in T : \A k \in T : m <= k
<1>1. \E m \in T : \A k \in T : <<k, m>> \notin OpToRel(<, Nat)
  <2> DEFINE R == OpToRel(<, Nat)
  <2>1. IsWellFoundedOn(R, Nat)
    BY NatLessThanWellFounded
  <2> HIDE DEF R
  <2>2. \E m \in T : \A k \in T : ~(<<k, m>> \in R)
    BY <2>1, WFMin
  <2> QED
    BY <2>2 DEF R
<1>2. PICK m \in T : \A k \in T : <<k, m>> \notin OpToRel(<, Nat)
  BY <1>1
<1>3. ASSUME NEW k \in T, ~(m <= k)
      PROVE  FALSE
  <2>1. k \in Nat /\ m \in Nat /\ k < m
    BY <1>3
  <2>2. <<k, m>> \in OpToRel(<, Nat)
    BY <2>1 DEF OpToRel
  <2> QED
    BY <1>2, <2>2
<1> QED
  BY <1>3

\* How many elements of S there are up to i.
Rank(S, i) == Cardinality({j \in S : j <= i})

\* The ranks of the elements of S count from 1 to their number, in order.
LEMMA RanksCount ==
  ASSUME NEW len \in Nat, NEW S \in SUBSET (1 .. len)
  PROVE  /\ IsFiniteSet(S) /\ Cardinality(S) \in Nat
         /\ \A i \in S : Rank(S, i) \in 1 .. Cardinality(S)
         /\ \A i, j \in S : i < j => Rank(S, i) < Rank(S, j)
         /\ \A n \in 1 .. Cardinality(S) : Nth(S, n) \in S /\ Rank(S, Nth(S, n)) = n
<1> DEFINE UpTo(i) == {j \in S : j <= i}
           C == Cardinality(S)
           P == 1 .. C
           f == [i \in S |-> Cardinality(UpTo(i))]
<1>1. /\ IsFiniteSet(S) /\ C \in Nat
      /\ \A i \in S : /\ UpTo(i) \in SUBSET S /\ i \in UpTo(i)
                      /\ IsFiniteSet(UpTo(i)) /\ Cardinality(UpTo(i)) \in Nat
  <2>1. IsFiniteSet(1 .. len)
    BY FS_Interval
  <2>2. IsFiniteSet(S)
    BY <2>1, FS_Subset
  <2>3. \A i \in S : UpTo(i) \in SUBSET S /\ i \in UpTo(i)
    OBVIOUS
  <2>4. \A i \in S : IsFiniteSet(UpTo(i))
    BY <2>2, <2>3, FS_Subset
  <2> HIDE DEF UpTo
  <2> QED
    BY <2>2, <2>3, <2>4, FS_CardinalityType
<1>2. f \in [S -> P]
  <2>1. ASSUME NEW i \in S
        PROVE  Cardinality(UpTo(i)) \in P
    <3>1. Cardinality(UpTo(i)) <= C
      BY <1>1, FS_Subset
    <3>2. Cardinality(UpTo(i)) # 0
      BY <1>1, FS_EmptySet
    <3> DEFINE B == Cardinality(UpTo(i))
    <3>3. B <= C /\ B # 0 /\ B \in Nat /\ C \in Nat
      BY <1>1, <3>1, <3>2
    <3> HIDE DEF B, C
    <3>4. B \in 1 .. C
      BY <3>3
    <3> QED
      BY <3>4 DEF B
  <2> HIDE DEF P, UpTo
  <2> QED
    BY <2>1
<1>3. ASSUME NEW x \in S, NEW y \in S, x < y
      PROVE  Cardinality(UpTo(x)) < Cardinality(UpTo(y))
  <2>1. x \in Int /\ y \in Int /\ \A k \in S : k \in Int
    OBVIOUS
  <2>2. \A k \in S : k <= x => k <= y
    BY <1>3, <2>1
  <2>3. UpTo(x) \in SUBSET UpTo(y)
    BY <2>2
  <2>4. ~(y <= x) /\ y <= y
    BY <1>3, <2>1
  <2>5. y \in UpTo(y) /\ y \notin UpTo(x)
    BY <2>4
  <2> HIDE DEF UpTo
  <2>6. Cardinality(UpTo(x)) <= Cardinality(UpTo(y)) /\ Cardinality(UpTo(x)) # Cardinality(UpTo(y))
    BY <1>1, <2>3, <2>5, FS_Subset
  <2> QED
    BY <1>1, <2>6
<1>4. ASSUME NEW i \in S, NEW j \in S, f[i] = f[j]
      PROVE  i = j
  <2>1. i \in Int /\ j \in Int
    OBVIOUS
  <2>2. Cardinality(UpTo(i)) = Cardinality(UpTo(j)) /\ Cardinality(UpTo(i)) \in Nat
    BY <1>1, <1>4
  <2> HIDE DEF UpTo, f
  <2>3. ~(i < j) /\ ~(j < i)
    BY <1>3, <2>2
  <2> QED
    BY <2>1, <2>3
<1>5. \A n \in P : \E i \in S : f[i] = n
  <2>1. C \in Nat /\ IsFiniteSet(P) /\ Cardinality(P) = C
    <3>1. C \in Int /\ 1 \in Int /\ C \in Nat
      BY <1>1
    <3>2. IsFiniteSet(P) /\ Cardinality(P) = IF 1 > C THEN 0 ELSE C - 1 + 1
      BY <3>1, FS_Interval
    <3> HIDE DEF P, C
    <3>3. (IF 1 > C THEN 0 ELSE C - 1 + 1) = C
      BY <3>1
    <3> QED
      BY <3>1, <3>2, <3>3
  <2> HIDE DEF f
  <2>2. f \in Injection(S, P)
    BY <1>2, <1>4 DEF Injection, IsInjective
  <2>3. f \in Surjection(S, P)
    BY <2>1, <2>2, FS_Injection DEF C
  <2> QED
    BY <2>3 DEF Surjection
<1>6. \A n \in P : Nth(S, n) \in S /\ Cardinality(UpTo(Nth(S, n))) = n
  BY <1>5 DEF Nth
<1>7. \A i : Rank(S, i) = Cardinality(UpTo(i))
  BY DEF Rank
<1>8. \A i \in S : Cardinality(UpTo(i)) \in P
  BY <1>2
<1> HIDE DEF UpTo
<1> QED
  BY <1>1, <1>3, <1>6, <1>7, <1>8

\* An interval from 1 has one length.
LEMMA SameCount ==
  ASSUME NEW m \in Nat, NEW n \in Nat, (1 .. m) = (1 .. n)
  PROVE  m = n
<1>1. (m = 0 \/ m \in 1 .. m) /\ (n = 0 \/ n \in 1 .. n)
  OBVIOUS
<1>2. (m = 0 \/ m \in 1 .. n) /\ (n = 0 \/ n \in 1 .. m)
  BY <1>1
<1> QED
  BY <1>2

-----------------------------------------------------------------------------
(* Lines that git's diff pairs up *)

\* A kept line and the line of the new text it becomes: the same rank among their own.
Pair(kept, matched, i, j) == i \in kept /\ j \in matched /\ Rank(kept, i) = Rank(matched, j)

\* Every kept line of the old text is some line of the new, in the same order.
LEMMA KeptLinesPair ==
  ASSUME NEW K, NEW old \in Seq(K), NEW new \in Seq(K),
         NEW kept \in SUBSET DOMAIN old, NEW matched \in SUBSET DOMAIN new,
         Subsequence(new, matched) = Subsequence(old, kept)
  PROVE  /\ \A i \in kept : \E j \in matched : Pair(kept, matched, i, j)
         /\ \A j \in matched : \E i \in kept : Pair(kept, matched, i, j)
         /\ \A i, j : Pair(kept, matched, i, j) => old[i] = new[j]
         /\ \A i, j, k, l : Pair(kept, matched, i, j) /\ Pair(kept, matched, k, l) => (i < k <=> j < l)
<1>1. /\ Len(old) \in Nat /\ DOMAIN old = 1 .. Len(old)
      /\ Len(new) \in Nat /\ DOMAIN new = 1 .. Len(new)
  OBVIOUS
<1>2. /\ kept \in SUBSET (1 .. Len(old)) /\ matched \in SUBSET (1 .. Len(new))
  BY <1>1
<1> DEFINE c == Cardinality(kept)
           d == Cardinality(matched)
<1>3. /\ c \in Nat /\ \A i \in kept : Rank(kept, i) \in 1 .. c
      /\ \A i, j \in kept : i < j => Rank(kept, i) < Rank(kept, j)
      /\ \A n \in 1 .. c : Nth(kept, n) \in kept /\ Rank(kept, Nth(kept, n)) = n
  BY <1>1, <1>2, RanksCount
<1>4. /\ d \in Nat /\ \A i \in matched : Rank(matched, i) \in 1 .. d
      /\ \A i, j \in matched : i < j => Rank(matched, i) < Rank(matched, j)
      /\ \A n \in 1 .. d : Nth(matched, n) \in matched /\ Rank(matched, Nth(matched, n)) = n
  BY <1>1, <1>2, RanksCount
<1>5. c = d
  <2>1. 1 .. c = 1 .. d
    BY DEF Subsequence
  <2> QED
    BY <1>3, <1>4, <2>1, SameCount
<1>6. \A n \in 1 .. c : old[Nth(kept, n)] = new[Nth(matched, n)]
  <2>1. ASSUME NEW n \in 1 .. c
        PROVE  old[Nth(kept, n)] = new[Nth(matched, n)]
    <3>1. Subsequence(old, kept)[n] = old[Nth(kept, n)]
      BY DEF Subsequence
    <3>2. Subsequence(new, matched)[n] = new[Nth(matched, n)]
      BY <1>5 DEF Subsequence
    <3> QED
      BY <3>1, <3>2
  <2> QED
    BY <2>1
<1>7. /\ \A i, k \in kept : Rank(kept, i) = Rank(kept, k) => i = k
      /\ \A j, l \in matched : Rank(matched, j) = Rank(matched, l) => j = l
  <2>1. /\ \A i \in kept : i \in Nat /\ Rank(kept, i) \in Nat
        /\ \A j \in matched : j \in Nat /\ Rank(matched, j) \in Nat
    BY <1>1, <1>2, <1>3, <1>4
  <2>2. ASSUME NEW i \in kept, NEW k \in kept, Rank(kept, i) = Rank(kept, k), i # k
        PROVE  FALSE
    BY <1>3, <2>1, <2>2
  <2>3. ASSUME NEW j \in matched, NEW l \in matched, Rank(matched, j) = Rank(matched, l), j # l
        PROVE  FALSE
    BY <1>4, <2>1, <2>3
  <2> QED
    BY <2>2, <2>3
<1> HIDE DEF c, d
<1>8. \A i \in kept : \E j \in matched : Pair(kept, matched, i, j)
  BY <1>3, <1>4, <1>5 DEF Pair
<1>9. \A j \in matched : \E i \in kept : Pair(kept, matched, i, j)
  BY <1>3, <1>4, <1>5 DEF Pair
<1>10. ASSUME NEW i, NEW j, Pair(kept, matched, i, j)
       PROVE  old[i] = new[j]
  <2> DEFINE n == Rank(kept, i)
  <2>1. /\ i \in kept /\ j \in matched /\ n \in 1 .. c /\ n = Rank(matched, j)
        /\ i = Nth(kept, n) /\ j = Nth(matched, n)
    BY <1>3, <1>4, <1>5, <1>7, <1>10 DEF Pair
  <2> QED
    BY <1>6, <2>1
<1>11. ASSUME NEW i, NEW j, NEW k, NEW l, Pair(kept, matched, i, j), Pair(kept, matched, k, l)
       PROVE  i < k <=> j < l
  <2>1. /\ i \in Nat /\ j \in Nat /\ k \in Nat /\ l \in Nat
        /\ i \in kept /\ k \in kept /\ j \in matched /\ l \in matched
        /\ Rank(kept, i) \in Nat /\ Rank(kept, k) \in Nat
        /\ Rank(kept, i) = Rank(matched, j) /\ Rank(kept, k) = Rank(matched, l)
    BY <1>1, <1>2, <1>3, <1>11 DEF Pair
  <2>2. i < k => Rank(kept, i) < Rank(kept, k)
    BY <1>3, <2>1
  <2>3. k < i => Rank(kept, k) < Rank(kept, i)
    BY <1>3, <2>1
  <2>4. j < l => Rank(matched, j) < Rank(matched, l)
    BY <1>4, <2>1
  <2>5. l < j => Rank(matched, l) < Rank(matched, j)
    BY <1>4, <2>1
  <2> QED
    BY <2>1, <2>2, <2>3, <2>4, <2>5
<1> QED
  BY <1>8, <1>9, <1>10, <1>11

\* Two sets of lines paired up: each line has a partner, and partners keep their order.
Paired(kept, matched) ==
  /\ \A i \in kept : \E j \in matched : Pair(kept, matched, i, j)
  /\ \A j \in matched : \E i \in kept : Pair(kept, matched, i, j)
  /\ \A i, j, k, l \in Nat :
       Pair(kept, matched, i, j) /\ Pair(kept, matched, k, l) => (i < k <=> j < l)

LEMMA PairedIsSymmetric ==
  ASSUME NEW kept, NEW matched, Paired(kept, matched)
  PROVE  /\ Paired(matched, kept)
         /\ \A i, j : Pair(matched, kept, j, i) <=> Pair(kept, matched, i, j)
BY DEF Paired, Pair

\* The partner of the next line is the next line.
LEMMA NextPair ==
  ASSUME NEW kept \in SUBSET Nat, NEW matched \in SUBSET Nat, Paired(kept, matched),
         NEW i \in Nat, NEW j \in Nat, Pair(kept, matched, i, j), i + 1 \in kept, j + 1 \in matched
  PROVE  Pair(kept, matched, i + 1, j + 1)
<1>1. PICK l \in matched : Pair(kept, matched, i + 1, l)
  BY DEF Paired
<1>2. PICK k \in kept : Pair(kept, matched, k, j + 1)
  BY DEF Paired
<1>3. k \in Nat /\ l \in Nat /\ i + 1 \in Nat /\ j + 1 \in Nat
  OBVIOUS
<1>4. j < l /\ i < k
  <2>1. i < i + 1 <=> j < l
    BY <1>1, <1>3 DEF Paired
  <2>2. i < k <=> j < j + 1
    BY <1>2, <1>3 DEF Paired
  <2> QED
    BY <1>3, <2>1, <2>2
<1>5. i + 1 < k <=> l < j + 1
  BY <1>1, <1>2, <1>3 DEF Paired
<1>6. k = i + 1
  BY <1>3, <1>4, <1>5
<1> QED
  BY <1>2, <1>6

\* The lines before two partners are partners when both are kept.
LEMMA PreviousPair ==
  ASSUME NEW kept \in SUBSET Nat, NEW matched \in SUBSET Nat, Paired(kept, matched),
         NEW i \in Nat, NEW j \in Nat, Pair(kept, matched, i, j), i - 1 \in kept, j - 1 \in matched
  PROVE  Pair(kept, matched, i - 1, j - 1)
<1>1. PICK l \in matched : Pair(kept, matched, i - 1, l)
  BY DEF Paired
<1>2. PICK k \in kept : Pair(kept, matched, k, j - 1)
  BY DEF Paired
<1>3. k \in Nat /\ l \in Nat /\ i - 1 \in Nat /\ j - 1 \in Nat
  OBVIOUS
<1>4. l < j /\ k < i
  <2>1. i - 1 < i <=> l < j
    BY <1>1, <1>3 DEF Paired
  <2>2. k < i <=> j - 1 < j
    BY <1>2, <1>3 DEF Paired
  <2> QED
    BY <1>3, <2>1, <2>2
<1>5. k < i - 1 <=> j - 1 < l
  BY <1>1, <1>2, <1>3 DEF Paired
<1>6. k = i - 1
  BY <1>3, <1>4, <1>5
<1> QED
  BY <1>2, <1>6

\* From a pair on, runs of kept lines pair up line by line.
LEMMA RunForward ==
  ASSUME NEW kept \in SUBSET Nat, NEW matched \in SUBSET Nat, Paired(kept, matched),
         NEW i \in Nat, NEW j \in Nat, Pair(kept, matched, i, j),
         NEW m \in Nat, \A d \in 0 .. m : i + d \in kept /\ j + d \in matched
  PROVE  \A d \in 0 .. m : Pair(kept, matched, i + d, j + d)
<1> DEFINE Bad == {d \in 0 .. m : ~Pair(kept, matched, i + d, j + d)}
<1>1. SUFFICES ASSUME Bad # {}
               PROVE  FALSE
  OBVIOUS
<1>2. PICK d \in Bad : \A k \in Bad : d <= k
  <2>1. Bad \in SUBSET Nat
    OBVIOUS
  <2> HIDE DEF Bad
  <2> QED
    BY <1>1, <2>1, LeastNumber
<1>3. d \in 0 .. m /\ ~Pair(kept, matched, i + d, j + d)
  BY <1>2
<1>4. d # 0
  BY <1>3
<1>5. d - 1 \in 0 .. m /\ d - 1 \notin Bad
  BY <1>2, <1>3, <1>4
<1>6. Pair(kept, matched, i + (d - 1), j + (d - 1))
  BY <1>5
<1>7. /\ i + (d - 1) \in Nat /\ j + (d - 1) \in Nat
      /\ i + (d - 1) + 1 = i + d /\ j + (d - 1) + 1 = j + d
  BY <1>3, <1>4
<1>8. i + d \in kept /\ j + d \in matched
  BY <1>3
<1> HIDE DEF Bad
<1> QED
  BY <1>3, <1>6, <1>7, <1>8, NextPair

\* Going backward from two partners through kept lines goes from partner to partner.
LEMMA RunBackward ==
  ASSUME NEW kept \in SUBSET Nat, NEW matched \in SUBSET Nat, Paired(kept, matched),
         NEW i \in Nat, NEW j \in Nat, Pair(kept, matched, i, j),
         NEW m \in Nat, \A d \in 0 .. m : i - d \in kept /\ j - d \in matched
  PROVE  \A d \in 0 .. m : Pair(kept, matched, i - d, j - d)
<1> DEFINE Bad == {d \in 0 .. m : ~Pair(kept, matched, i - d, j - d)}
<1>1. SUFFICES ASSUME Bad # {}
               PROVE  FALSE
  OBVIOUS
<1>2. PICK d \in Bad : \A k \in Bad : d <= k
  <2>1. Bad \in SUBSET Nat
    OBVIOUS
  <2> HIDE DEF Bad
  <2> QED
    BY <1>1, <2>1, LeastNumber
<1>3. d \in 0 .. m /\ ~Pair(kept, matched, i - d, j - d)
  BY <1>2
<1>4. d # 0
  BY <1>3
<1>5. d - 1 \in 0 .. m /\ d - 1 \notin Bad
  BY <1>2, <1>3, <1>4
<1>6. Pair(kept, matched, i - (d - 1), j - (d - 1))
  BY <1>5
<1>7. /\ i - (d - 1) \in Nat /\ j - (d - 1) \in Nat
      /\ i - (d - 1) - 1 = i - d /\ j - (d - 1) - 1 = j - d
  <2>1. i - (d - 1) \in kept /\ j - (d - 1) \in matched
    BY <1>5
  <2> QED
    BY <1>3, <1>4, <2>1
<1>8. i - d \in kept /\ j - d \in matched
  BY <1>3
<1> HIDE DEF Bad
<1> QED
  BY <1>3, <1>6, <1>7, <1>8, PreviousPair

\* Math.max and Math.min of two numbers.
LEMMA MaxOfTwo ==
  ASSUME NEW x \in Int, NEW y \in Int
  PROVE  Max({x, y}) = (IF x >= y THEN x ELSE y) /\ Min({x, y}) = (IF x <= y THEN x ELSE y)
<1>1. \E m \in {x, y} : \A k \in {x, y} : m >= k
  <2>1. CASE x >= y
    BY <2>1
  <2>2. CASE ~(x >= y)
    BY <2>2
  <2> QED
    BY <2>1, <2>2
<1>2. \E m \in {x, y} : \A k \in {x, y} : m <= k
  <2>1. CASE x <= y
    BY <2>1
  <2>2. CASE ~(x <= y)
    BY <2>2
  <2> QED
    BY <2>1, <2>2
<1>3. Max({x, y}) \in {x, y} /\ \A k \in {x, y} : Max({x, y}) >= k
  BY <1>1 DEF Max
<1>4. Min({x, y}) \in {x, y} /\ \A k \in {x, y} : Min({x, y}) <= k
  BY <1>2 DEF Min
<1> QED
  BY <1>3, <1>4

\* The first and the last in rank are the first and the last.
LEMMA FirstAndLast ==
  ASSUME NEW len \in Nat, NEW S \in SUBSET (1 .. len), NEW i \in S
  PROVE  Nth(S, 1) <= i /\ i <= Nth(S, Cardinality(S))
<1> DEFINE c == Cardinality(S)
<1>1. /\ IsFiniteSet(S) /\ c \in Nat
      /\ \A k \in S : Rank(S, k) \in 1 .. c
      /\ \A k, l \in S : k < l => Rank(S, k) < Rank(S, l)
      /\ \A n \in 1 .. c : Nth(S, n) \in S /\ Rank(S, Nth(S, n)) = n
  BY RanksCount
<1> HIDE DEF c
<1>2. /\ Rank(S, i) \in 1 .. c /\ 1 \in 1 .. c /\ c \in 1 .. c
  BY <1>1
<1>3. /\ Nth(S, 1) \in S /\ Rank(S, Nth(S, 1)) = 1 /\ Nth(S, c) \in S /\ Rank(S, Nth(S, c)) = c
  BY <1>1, <1>2
<1>4. /\ i \in Int /\ Nth(S, 1) \in Int /\ Nth(S, c) \in Int
  <2>1. \A k \in S : k \in Int
    OBVIOUS
  <2> QED
    BY <1>3, <2>1
<1>5. ~(i < Nth(S, 1))
  <2>1. i < Nth(S, 1) => Rank(S, i) < Rank(S, Nth(S, 1))
    BY <1>1, <1>3
  <2> QED
    BY <1>2, <1>3, <2>1
<1>6. ~(Nth(S, c) < i)
  <2>1. Nth(S, c) < i => Rank(S, Nth(S, c)) < Rank(S, i)
    BY <1>1, <1>3
  <2> QED
    BY <1>2, <1>3, <2>1
<1> QED
  BY <1>4, <1>5, <1>6 DEF c

-----------------------------------------------------------------------------
(* The protected range of the symbol *)

\* What locateSymbol computes on its way: the chosen start, the chosen end, the last line.
StartOf(lines) == Nth(matchingLineIndexes(lines, "start"), SymbolRule.startOccurrence)
EndsOf(lines) == EndAnchors(lines, StartOf(lines))
EndOf(lines) == Nth(EndsOf(lines), SymbolRule.endOccurrence)
LastOf(lines) ==
  (IF SymbolRule.toEnd THEN Len(lines)
   ELSE IF ~SymbolRule.end THEN StartOf(lines)
   ELSE EndOf(lines) - (IF SymbolRule.includeEnd THEN 0 ELSE 1)) + SymbolRule.includeAfter
RangeOf(lines) == SymbolRange(lines, SymbolRule)

\* What validateConfig accepted of the symbol.
LEMMA RuleIsValid ==
  /\ SymbolRule.expectedStarts \in Nat \ {0} /\ SymbolRule.startOccurrence \in 1 .. SymbolRule.expectedStarts
  /\ SymbolRule.startOccurrence \in {1, SymbolRule.expectedStarts}
  /\ SymbolRule.end => SymbolRule.expectedEnds \in Nat \ {0} /\ SymbolRule.endOccurrence \in 1 .. SymbolRule.expectedEnds
  /\ ~(SymbolRule.end /\ SymbolRule.toEnd)
  /\ SymbolRule.includeBefore \in Nat /\ SymbolRule.includeAfter \in Nat
  /\ SymbolRule.end \in BOOLEAN /\ SymbolRule.toEnd \in BOOLEAN /\ SymbolRule.includeEnd \in BOOLEAN
<1>1. validSymbol(SymbolRule)
  BY FreezeAssumption DEF validateConfig
<1>2. {SymbolRule.end, SymbolRule.toEnd, SymbolRule.includeEnd} \subseteq BOOLEAN
  BY <1>1 DEF validSymbol
<1>3. SymbolRule.end \in BOOLEAN /\ SymbolRule.toEnd \in BOOLEAN /\ SymbolRule.includeEnd \in BOOLEAN
  BY <1>2
<1>4. /\ SymbolRule.expectedStarts \in Nat \ {0} /\ SymbolRule.startOccurrence \in 1 .. SymbolRule.expectedStarts
      /\ SymbolRule.end => SymbolRule.expectedEnds \in Nat \ {0} /\ SymbolRule.endOccurrence \in 1 .. SymbolRule.expectedEnds
      /\ ~(SymbolRule.end /\ SymbolRule.toEnd)
      /\ SymbolRule.includeBefore \in Nat /\ SymbolRule.includeAfter \in Nat
  BY <1>1 DEF validSymbol
<1> QED
  BY <1>3, <1>4, OccurrenceAssumption

\* What a range that is located holds: the chosen start, the lines before and after it
\* that the windows reach, and no line outside the file.
LEMMA RangeIsLocated ==
  ASSUME NEW lines \in Seq(LineKinds), RangeOf(lines).valid
  PROVE  /\ Len(lines) \in Nat
         /\ matchingLineIndexes(lines, "start") \in SUBSET (1 .. Len(lines))
         /\ Cardinality(matchingLineIndexes(lines, "start")) = SymbolRule.expectedStarts
         /\ StartOf(lines) \in 1 .. Len(lines) /\ lines[StartOf(lines)] = "start"
         /\ RangeOf(lines).from = (IF 1 >= StartOf(lines) - SymbolRule.includeBefore THEN 1
                                 ELSE StartOf(lines) - SymbolRule.includeBefore)
         /\ RangeOf(lines).to = (IF Len(lines) <= LastOf(lines) THEN Len(lines) ELSE LastOf(lines))
         /\ LastOf(lines) \in Nat /\ LastOf(lines) >= StartOf(lines)
         /\ RangeOf(lines).from \in 1 .. StartOf(lines)
         /\ RangeOf(lines).to \in StartOf(lines) .. Len(lines)
         /\ SymbolRule.end => /\ EndsOf(lines) \in SUBSET (1 .. Len(lines))
                              /\ Cardinality(EndsOf(lines)) = SymbolRule.expectedEnds
                              /\ EndOf(lines) \in EndsOf(lines)
                              /\ Rank(EndsOf(lines), EndOf(lines)) = SymbolRule.endOccurrence
                              /\ EndOf(lines) \in 1 .. Len(lines) /\ EndOf(lines) > StartOf(lines)
<1> DEFINE s == SymbolRule
           starts == matchingLineIndexes(lines, "start")
           i == Nth(starts, s.startOccurrence)
           ends == EndAnchors(lines, i)
           counted == s.end => Cardinality(ends) = s.expectedEnds
           endLine == IF s.toEnd THEN Len(lines)
                      ELSE IF ~s.end \/ ~counted THEN i
                      ELSE Nth(ends, s.endOccurrence) - (IF s.includeEnd THEN 0 ELSE 1)
           from == Max({1, i - s.includeBefore})
           to == Min({Len(lines), endLine + s.includeAfter})
<1>1. Len(lines) \in Nat /\ DOMAIN lines = 1 .. Len(lines)
  OBVIOUS
<1>2. starts \in SUBSET (1 .. Len(lines)) /\ \A k \in starts : lines[k] = "start" /\ k \in 1 .. Len(lines)
  BY <1>1 DEF matchingLineIndexes
<1>3. RangeOf(lines) = IF Cardinality(starts) # s.expectedStarts THEN [valid |-> FALSE, from |-> 0, to |-> 0]
                     ELSE [valid |-> counted /\ to >= from, from |-> from, to |-> to]
  BY Zenon DEF RangeOf, SymbolRange
<1> HIDE DEF i, starts
<1>4. Cardinality(starts) = s.expectedStarts
  <2>1. [valid |-> FALSE, from |-> 0, to |-> 0].valid = FALSE
    OBVIOUS
  <2> QED
    BY <1>3, <2>1, Zenon
<1>5. RangeOf(lines).from = from /\ RangeOf(lines).to = to /\ counted
  <2> DEFINE v == counted /\ to >= from
  <2>1. RangeOf(lines) = [valid |-> v, from |-> from, to |-> to]
    BY <1>3, <1>4, Zenon
  <2> HIDE DEF v, counted, from, to
  <2>2. RangeOf(lines).valid = v /\ RangeOf(lines).from = from /\ RangeOf(lines).to = to
    BY <2>1
  <2>3. counted
    BY <2>2 DEF v
  <2> QED
    BY <2>2, <2>3
<1>6. i \in starts /\ i \in 1 .. Len(lines) /\ lines[i] = "start"
  <2>1. i \in starts
    BY <1>1, <1>2, <1>4, RanksCount, RuleIsValid DEF i
  <2> QED
    BY <1>2, <2>1
<1>7. i = StartOf(lines) /\ ends = EndsOf(lines)
  BY DEF i, starts, StartOf, EndsOf
<1>8. ends \in SUBSET (1 .. Len(lines)) /\ \A k \in ends : k \in 1 .. Len(lines) /\ k > i
  BY <1>1 DEF EndAnchors, matchingLineIndexes
<1> HIDE DEF ends
<1>9. s.end => /\ Cardinality(ends) = s.expectedEnds
               /\ Nth(ends, s.endOccurrence) \in ends
               /\ Rank(ends, Nth(ends, s.endOccurrence)) = s.endOccurrence
  BY <1>1, <1>5, <1>8, RanksCount, RuleIsValid
<1>10. s.end => EndOf(lines) \in 1 .. Len(lines) /\ EndOf(lines) > StartOf(lines) /\ EndOf(lines) = Nth(ends, s.endOccurrence)
  BY <1>7, <1>8, <1>9 DEF EndOf
<1>11. endLine + s.includeAfter = LastOf(lines)
  BY <1>5, <1>7, <1>10 DEF LastOf
<1>12. LastOf(lines) \in Nat /\ LastOf(lines) >= i
  <2>1. s.includeAfter \in Nat /\ i \in Nat /\ i <= Len(lines)
    BY <1>1, <1>6, RuleIsValid
  <2>2. CASE s.toEnd
    BY <1>1, <2>1, <2>2 DEF LastOf
  <2>3. CASE ~s.toEnd /\ ~s.end
    BY <1>7, <2>1, <2>3 DEF LastOf
  <2>4. CASE ~s.toEnd /\ s.end
    <3>1. EndOf(lines) \in Nat /\ EndOf(lines) > i
      BY <1>1, <1>7, <1>10, <2>4
    <3>2. LastOf(lines) = EndOf(lines) - (IF s.includeEnd THEN 0 ELSE 1) + s.includeAfter
      BY <2>4 DEF LastOf
    <3>3. CASE s.includeEnd
      BY <2>1, <3>1, <3>2, <3>3
    <3>4. CASE ~s.includeEnd
      BY <2>1, <3>1, <3>2, <3>4
    <3> QED
      BY <3>3, <3>4
  <2> QED
    BY <2>2, <2>3, <2>4
<1>13. to = IF Len(lines) <= LastOf(lines) THEN Len(lines) ELSE LastOf(lines)
  <2>1. Len(lines) \in Int /\ LastOf(lines) \in Int
    BY <1>1, <1>12
  <2>2. to = Min({Len(lines), LastOf(lines)})
    BY <1>11
  <2> HIDE DEF to
  <2> QED
    BY <2>1, <2>2, MaxOfTwo
<1>14. /\ i \in Int /\ s.includeBefore \in Nat /\ i - s.includeBefore \in Int
       /\ from = IF 1 >= i - s.includeBefore THEN 1 ELSE i - s.includeBefore
  <2>1. i \in Int /\ s.includeBefore \in Nat /\ i - s.includeBefore \in Int
    BY <1>6, RuleIsValid
  <2> QED
    BY <2>1, MaxOfTwo
<1> HIDE DEF from, to, endLine, counted
<1>15. from \in 1 .. i
  BY <1>6, <1>14
<1>16. to \in i .. Len(lines)
  BY <1>1, <1>6, <1>12, <1>13
<1> QED
  BY <1>1, <1>2, <1>4, <1>5, <1>6, <1>7, <1>8, <1>9, <1>10, <1>12, <1>13, <1>14, <1>15, <1>16 DEF starts, EndOf

-----------------------------------------------------------------------------
(* A protected range that no hunk touches: its head, its segments and its end *)

\* Two texts whose ranges are located, and an alignment with no hunk in either range.
Aligned(old, kept, new, matched) ==
  /\ old \in Seq(LineKinds) /\ new \in Seq(LineKinds)
  /\ kept \in SUBSET (1 .. Len(old)) /\ matched \in SUBSET (1 .. Len(new))
  /\ RangeOf(old).valid /\ RangeOf(new).valid
  /\ RangeOf(old).from .. RangeOf(old).to \subseteq kept
  /\ RangeOf(new).from .. RangeOf(new).to \subseteq matched
  /\ Paired(kept, matched)
  /\ \A i \in kept, j \in matched : Pair(kept, matched, i, j) => old[i] = new[j]

LEMMA AlignedIsSymmetric ==
  ASSUME NEW old, NEW kept, NEW new, NEW matched, Aligned(old, kept, new, matched)
  PROVE  Aligned(new, matched, old, kept)
<1>1. Paired(matched, kept) /\ \A i, j : Pair(matched, kept, j, i) <=> Pair(kept, matched, i, j)
  BY PairedIsSymmetric DEF Aligned
<1> QED
  BY <1>1, Zenon DEF Aligned

\* An alignment is about numbered lines.
LEMMA KeptLinesAreNumbers ==
  ASSUME NEW old, NEW kept, NEW new, NEW matched, Aligned(old, kept, new, matched)
  PROVE  /\ old \in Seq(LineKinds) /\ new \in Seq(LineKinds) /\ Len(old) \in Nat /\ Len(new) \in Nat
         /\ kept \in SUBSET Nat /\ matched \in SUBSET Nat
         /\ \A i \in kept : i \in 1 .. Len(old)
         /\ \A j \in matched : j \in 1 .. Len(new)
BY DEF Aligned

\* The chosen start of one text is the partner of the chosen start of the other.
LEMMA StartsPair ==
  ASSUME NEW old, NEW kept, NEW new, NEW matched, Aligned(old, kept, new, matched)
  PROVE  Pair(kept, matched, StartOf(old), StartOf(new))
<1> DEFINE i0 == StartOf(old)
           j0 == StartOf(new)
           S == matchingLineIndexes(old, "start")
           T == matchingLineIndexes(new, "start")
           n == SymbolRule.expectedStarts
<1>1. /\ old \in Seq(LineKinds) /\ RangeOf(old).valid /\ new \in Seq(LineKinds) /\ RangeOf(new).valid
      /\ Len(old) \in Nat /\ Len(new) \in Nat
      /\ kept \in SUBSET Nat /\ matched \in SUBSET Nat
      /\ \A i \in kept : i \in 1 .. Len(old)
      /\ \A j \in matched : j \in 1 .. Len(new)
  BY KeptLinesAreNumbers DEF Aligned
<1>2. /\ S \in SUBSET (1 .. Len(old)) /\ Cardinality(S) = n
      /\ i0 \in 1 .. Len(old) /\ old[i0] = "start"
      /\ RangeOf(old).from \in 1 .. i0 /\ RangeOf(old).to \in i0 .. Len(old)
  BY <1>1, RangeIsLocated
<1>3. /\ T \in SUBSET (1 .. Len(new)) /\ Cardinality(T) = n
      /\ j0 \in 1 .. Len(new) /\ new[j0] = "start"
      /\ RangeOf(new).from \in 1 .. j0 /\ RangeOf(new).to \in j0 .. Len(new)
  BY <1>1, RangeIsLocated
<1>4. i0 \in kept /\ j0 \in matched
  <2>1. i0 \in RangeOf(old).from .. RangeOf(old).to /\ j0 \in RangeOf(new).from .. RangeOf(new).to
    BY <1>1, <1>2, <1>3
  <2> QED
    BY <2>1 DEF Aligned
<1>5. PICK j1 \in matched : Pair(kept, matched, i0, j1)
  BY <1>4 DEF Aligned, Paired
<1>6. PICK i1 \in kept : Pair(kept, matched, i1, j0)
  BY <1>4 DEF Aligned, Paired
<1>7. j1 \in T /\ i1 \in S
  <2>1. old[i0] = new[j1] /\ old[i1] = new[j0]
    BY <1>4, <1>5, <1>6 DEF Aligned
  <2>2. j1 \in DOMAIN new /\ i1 \in DOMAIN old
    BY <1>1
  <2> QED
    BY <1>2, <1>3, <2>1, <2>2 DEF matchingLineIndexes
<1>8. i0 = Nth(S, SymbolRule.startOccurrence) /\ j0 = Nth(T, SymbolRule.startOccurrence)
  BY DEF StartOf
<1>9. i0 \in Nat /\ i1 \in Nat /\ j0 \in Nat /\ j1 \in Nat
  BY <1>1, <1>4
<1> HIDE DEF i0, j0, S, T, n
<1>10. i0 < i1 <=> j1 < j0
  BY <1>5, <1>6, <1>9 DEF Aligned, Paired
<1>11. i1 < i0 <=> j0 < j1
  BY <1>5, <1>6, <1>9 DEF Aligned, Paired
<1>12. i0 = i1
  <2>1. CASE SymbolRule.startOccurrence = 1
    <3>1. i0 <= i1 /\ j0 <= j1
      BY <1>1, <1>2, <1>3, <1>7, <1>8, <2>1, FirstAndLast
    <3> QED
      BY <1>9, <1>10, <1>11, <3>1
  <2>2. CASE SymbolRule.startOccurrence = n
    <3>1. i1 <= i0 /\ j1 <= j0
      BY <1>1, <1>2, <1>3, <1>7, <1>8, <2>2, FirstAndLast
    <3> QED
      BY <1>9, <1>10, <1>11, <3>1
  <2> QED
    BY <2>1, <2>2, RuleIsValid DEF n
<1> QED
  BY <1>6, <1>12 DEF i0, j0

\* As many lines are protected before the start in the one text as in the other.
LEMMA HeadNoLonger ==
  ASSUME NEW old, NEW kept, NEW new, NEW matched, Aligned(old, kept, new, matched)
  PROVE  StartOf(new) - RangeOf(new).from <= StartOf(old) - RangeOf(old).from
<1> DEFINE i0 == StartOf(old)
           j0 == StartOf(new)
           f == RangeOf(old).from
           g == RangeOf(new).from
           b == SymbolRule.includeBefore
           m == i0 - f
<1>1. /\ old \in Seq(LineKinds) /\ RangeOf(old).valid /\ new \in Seq(LineKinds) /\ RangeOf(new).valid
      /\ Len(old) \in Nat /\ Len(new) \in Nat
      /\ kept \in SUBSET Nat /\ matched \in SUBSET Nat
      /\ \A i \in kept : i \in 1 .. Len(old)
  BY KeptLinesAreNumbers DEF Aligned
<1>2. /\ i0 \in 1 .. Len(old) /\ f \in 1 .. i0 /\ RangeOf(old).to \in i0 .. Len(old)
      /\ f = (IF 1 >= i0 - b THEN 1 ELSE i0 - b)
  BY <1>1, RangeIsLocated
<1>3. /\ j0 \in 1 .. Len(new) /\ g \in 1 .. j0 /\ RangeOf(new).to \in j0 .. Len(new)
      /\ g = (IF 1 >= j0 - b THEN 1 ELSE j0 - b)
  BY <1>1, RangeIsLocated
<1>4. b \in Nat
  BY RuleIsValid
<1>5. f .. RangeOf(old).to \subseteq kept /\ g .. RangeOf(new).to \subseteq matched
  BY DEF Aligned
<1>6. Pair(kept, matched, i0, j0) /\ Paired(kept, matched)
  BY StartsPair DEF Aligned
<1> HIDE DEF i0, j0, f, g, b
<1>7. SUFFICES ASSUME j0 - g > m
               PROVE  FALSE
  BY <1>2, <1>3 DEF i0, j0, f, g
<1>8. f = 1
  BY <1>2, <1>3, <1>4, <1>7
<1>9. m \in Nat /\ i0 \in Nat /\ j0 \in Nat
  BY <1>2, <1>3
<1>10. \A d \in 0 .. m : i0 - d \in kept /\ j0 - d \in matched
  <2>1. ASSUME NEW d \in 0 .. m
        PROVE  i0 - d \in kept /\ j0 - d \in matched
    <3>1. /\ d \in Int /\ 0 <= d /\ d <= i0 - f /\ d <= j0 - g
          /\ i0 \in Int /\ f \in Int /\ j0 \in Int /\ g \in Int
          /\ RangeOf(old).to \in Int /\ i0 <= RangeOf(old).to
          /\ RangeOf(new).to \in Int /\ j0 <= RangeOf(new).to
      <4>1. i0 \in Int /\ f \in Int /\ RangeOf(old).to \in Int /\ i0 <= RangeOf(old).to
        BY <1>2
      <4>2. j0 \in Int /\ g \in Int /\ RangeOf(new).to \in Int /\ j0 <= RangeOf(new).to
        BY <1>3
      <4> QED
        BY <1>7, <4>1, <4>2
    <3>2. i0 - d \in f .. RangeOf(old).to /\ j0 - d \in g .. RangeOf(new).to
      BY <3>1
    <3> QED
      BY <1>5, <3>2
  <2> QED
    BY <2>1
<1> HIDE DEF m
<1>11. \A d \in 0 .. m : Pair(kept, matched, i0 - d, j0 - d)
  BY <1>1, <1>6, <1>9, <1>10, RunBackward
<1>12. Pair(kept, matched, 1, j0 - m)
  <2>1. m \in 0 .. m /\ i0 - m = 1
    BY <1>2, <1>8, <1>9 DEF m
  <2> QED
    BY <1>11, <2>1
<1>13. j0 - m - 1 \in matched /\ j0 - m \in matched
  <2>1. j0 - m - 1 \in g .. RangeOf(new).to /\ j0 - m \in g .. RangeOf(new).to
    BY <1>1, <1>3, <1>7, <1>9
  <2> QED
    BY <1>5, <2>1
<1>14. PICK i \in kept : Pair(kept, matched, i, j0 - m - 1)
  BY <1>13 DEF Aligned, Paired
<1>15. /\ i \in Nat /\ i >= 1 /\ j0 - m \in Nat /\ j0 - m - 1 \in Nat /\ 1 \in Nat
  <2>1. i \in 1 .. Len(old) /\ i \in Nat
    BY <1>1
  <2>2. j0 - m \in Nat /\ j0 - m - 1 \in Nat
    BY <1>1, <1>13
  <2> QED
    BY <2>1, <2>2
<1>16. i < 1 <=> j0 - m - 1 < j0 - m
  BY <1>12, <1>14, <1>15 DEF Aligned, Paired
<1> QED
  BY <1>15, <1>16

\* The lines of context before the start are as many on both sides.
LEMMA HeadsAgree ==
  ASSUME NEW old, NEW kept, NEW new, NEW matched, Aligned(old, kept, new, matched)
  PROVE  StartOf(old) - RangeOf(old).from = StartOf(new) - RangeOf(new).from
<1>1. Aligned(new, matched, old, kept)
  BY AlignedIsSymmetric
<1>2. /\ StartOf(new) - RangeOf(new).from <= StartOf(old) - RangeOf(old).from
      /\ StartOf(old) - RangeOf(old).from <= StartOf(new) - RangeOf(new).from
  BY <1>1, HeadNoLonger
<1>3. /\ StartOf(old) \in Int /\ RangeOf(old).from \in Int
      /\ StartOf(new) \in Int /\ RangeOf(new).from \in Int
  <2>1. /\ old \in Seq(LineKinds) /\ RangeOf(old).valid /\ new \in Seq(LineKinds) /\ RangeOf(new).valid
    BY DEF Aligned
  <2>2. /\ StartOf(old) \in 1 .. Len(old) /\ RangeOf(old).from \in 1 .. StartOf(old)
        /\ StartOf(new) \in 1 .. Len(new) /\ RangeOf(new).from \in 1 .. StartOf(new)
    BY <2>1, RangeIsLocated
  <2> QED
    BY <2>2
<1> QED
  BY <1>2, <1>3

\* What the following lemmas use of an alignment, as numbers.
LEMMA AlignedNumbers ==
  ASSUME NEW old, NEW kept, NEW new, NEW matched, Aligned(old, kept, new, matched)
  PROVE  /\ old \in Seq(LineKinds) /\ new \in Seq(LineKinds) /\ RangeOf(old).valid /\ RangeOf(new).valid
         /\ Len(old) \in Nat /\ Len(new) \in Nat
         /\ StartOf(old) \in Nat /\ StartOf(new) \in Nat
         /\ RangeOf(old).from \in Nat /\ RangeOf(old).from >= 1 /\ RangeOf(old).from <= StartOf(old)
         /\ RangeOf(new).from \in Nat /\ RangeOf(new).from >= 1 /\ RangeOf(new).from <= StartOf(new)
         /\ RangeOf(old).to \in Nat /\ RangeOf(old).to >= StartOf(old) /\ RangeOf(old).to <= Len(old)
         /\ RangeOf(new).to \in Nat /\ RangeOf(new).to >= StartOf(new) /\ RangeOf(new).to <= Len(new)
         /\ StartOf(old) - RangeOf(old).from = StartOf(new) - RangeOf(new).from
<1>1. /\ old \in Seq(LineKinds) /\ RangeOf(old).valid /\ new \in Seq(LineKinds) /\ RangeOf(new).valid
  BY DEF Aligned
<1>2. /\ Len(old) \in Nat
      /\ StartOf(old) \in 1 .. Len(old) /\ RangeOf(old).from \in 1 .. StartOf(old)
      /\ RangeOf(old).to \in StartOf(old) .. Len(old)
  BY <1>1, RangeIsLocated
<1>3. /\ Len(new) \in Nat
      /\ StartOf(new) \in 1 .. Len(new) /\ RangeOf(new).from \in 1 .. StartOf(new)
      /\ RangeOf(new).to \in StartOf(new) .. Len(new)
  BY <1>1, RangeIsLocated
<1>4. StartOf(old) - RangeOf(old).from = StartOf(new) - RangeOf(new).from
  BY HeadsAgree
<1> QED
  BY <1>1, <1>2, <1>3, <1>4

\* Line by line, as far as both ranges go, the protected texts are the same lines.
LEMMA SegmentsPair ==
  ASSUME NEW old, NEW kept, NEW new, NEW matched, Aligned(old, kept, new, matched),
         NEW d \in Nat, RangeOf(old).from + d <= RangeOf(old).to, RangeOf(new).from + d <= RangeOf(new).to
  PROVE  /\ Pair(kept, matched, RangeOf(old).from + d, RangeOf(new).from + d)
         /\ old[RangeOf(old).from + d] = new[RangeOf(new).from + d]
<1> DEFINE i0 == StartOf(old)
           j0 == StartOf(new)
           f == RangeOf(old).from
           g == RangeOf(new).from
           t == RangeOf(old).to
           u == RangeOf(new).to
           m == i0 - f
<1>1. /\ i0 \in Nat /\ j0 \in Nat /\ f \in Nat /\ g \in Nat /\ t \in Nat /\ u \in Nat
      /\ f <= i0 /\ i0 <= t /\ g <= j0 /\ j0 <= u /\ m = j0 - g
  BY AlignedNumbers
<1>2. f .. t \subseteq kept /\ g .. u \subseteq matched
  BY DEF Aligned
<1>3. Pair(kept, matched, i0, j0) /\ Paired(kept, matched) /\ kept \in SUBSET Nat /\ matched \in SUBSET Nat
  <2>1. Paired(kept, matched)
    BY DEF Aligned
  <2> QED
    BY <2>1, StartsPair, KeptLinesAreNumbers
<1>4. f + d <= t /\ g + d <= u
  OBVIOUS
<1> HIDE DEF i0, j0, f, g, t, u
<1>5. m \in Nat
  BY <1>1
<1>6. \A x \in 0 .. m : i0 - x \in kept /\ j0 - x \in matched
  <2>1. ASSUME NEW x \in 0 .. m
        PROVE  i0 - x \in kept /\ j0 - x \in matched
    <3>1. i0 - x \in f .. t /\ j0 - x \in g .. u
      BY <1>1
    <3> QED
      BY <1>2, <3>1
  <2> QED
    BY <2>1
<1> HIDE DEF m
<1>7. \A x \in 0 .. m : Pair(kept, matched, i0 - x, j0 - x)
  BY <1>1, <1>3, <1>5, <1>6, RunBackward
<1>8. Pair(kept, matched, f, g)
  <2>1. m \in 0 .. m /\ i0 - m = f /\ j0 - m = g
    BY <1>1, <1>5 DEF m
  <2> QED
    BY <1>7, <2>1
<1>9. \A x \in 0 .. d : f + x \in kept /\ g + x \in matched
  <2>1. ASSUME NEW x \in 0 .. d
        PROVE  f + x \in kept /\ g + x \in matched
    <3>1. f + x \in f .. t /\ g + x \in g .. u
      BY <1>1, <1>4
    <3> QED
      BY <1>2, <3>1
  <2> QED
    BY <2>1
<1>10. \A x \in 0 .. d : Pair(kept, matched, f + x, g + x)
  BY <1>1, <1>3, <1>8, <1>9, RunForward
<1>11. d \in 0 .. d
  OBVIOUS
<1>12. Pair(kept, matched, f + d, g + d) /\ f + d \in kept /\ g + d \in matched
  BY <1>9, <1>10, <1>11
<1>13. old[f + d] = new[g + d]
  BY <1>12 DEF Aligned
<1> QED
  BY <1>12, <1>13 DEF f, g

\* A range that goes to the end of its file has no longer counterpart.
LEMMA AtTheEndOfTheFile ==
  ASSUME NEW old, NEW kept, NEW new, NEW matched, Aligned(old, kept, new, matched),
         RangeOf(old).to = Len(old)
  PROVE  RangeOf(new).to - RangeOf(new).from <= RangeOf(old).to - RangeOf(old).from
<1> DEFINE f == RangeOf(old).from
           g == RangeOf(new).from
           t == RangeOf(old).to
           u == RangeOf(new).to
           m == t - f
<1>1. f \in Nat /\ g \in Nat /\ t \in Nat /\ u \in Nat /\ f <= t /\ g <= u /\ t = Len(old)
  BY AlignedNumbers
<1>2. SUFFICES ASSUME u - g > m
               PROVE  FALSE
  BY <1>1
<1>3. m \in Nat /\ f + m = t /\ g + m <= u
  BY <1>1, <1>2
<1> HIDE DEF m
<1>4. Pair(kept, matched, f + m, g + m)
  BY <1>3, <1>1, SegmentsPair
<1>5. kept \in SUBSET Nat /\ matched \in SUBSET Nat /\ \A i \in kept : i \in 1 .. Len(old)
  BY KeptLinesAreNumbers
<1>6. g + m + 1 \in matched
  <2>1. g + m + 1 \in g .. u
    BY <1>1, <1>2, <1>3
  <2> QED
    BY <2>1 DEF Aligned
<1>7. PICK i \in kept : Pair(kept, matched, i, g + m + 1)
  BY <1>6 DEF Aligned, Paired
<1>8. i \in Nat /\ i <= t
  BY <1>1, <1>5
<1>9. t \in Nat /\ g + m \in Nat /\ g + m + 1 \in Nat
  BY <1>1, <1>3
<1> HIDE DEF f, g, t, u
<1>10. Pair(kept, matched, t, g + m)
  BY <1>3, <1>4
<1>11. t < i <=> g + m < g + m + 1
  BY <1>7, <1>8, <1>9, <1>10 DEF Aligned, Paired
<1> QED
  BY <1>8, <1>9, <1>11

\* Ends of the symbol keep their rank: the chosen end of the new text is no further
\* from its start than that of the old, where that one is protected.
LEMMA EndNoLater ==
  ASSUME NEW old, NEW kept, NEW new, NEW matched, Aligned(old, kept, new, matched),
         SymbolRule.end, EndOf(old) <= RangeOf(old).to,
         EndOf(old) - StartOf(old) <= RangeOf(new).to - StartOf(new)
  PROVE  EndOf(new) - StartOf(new) <= EndOf(old) - StartOf(old)
<1> DEFINE i0 == StartOf(old)
           j0 == StartOf(new)
           e == EndOf(old)
           h == EndOf(new)
           f == RangeOf(old).from
           g == RangeOf(new).from
           t == RangeOf(old).to
           u == RangeOf(new).to
           E == EndsOf(old)
           H == EndsOf(new)
           n == SymbolRule.endOccurrence
           A == {x \in E : x <= e}
           B == {y \in H : y <= j0 + (e - i0)}
           C == {y \in H : y <= h}
           shift == [x \in A |-> j0 + (x - i0)]
<1>1. /\ i0 \in Nat /\ j0 \in Nat /\ f \in Nat /\ g \in Nat /\ t \in Nat /\ u \in Nat
      /\ f <= i0 /\ i0 <= t /\ g <= j0 /\ j0 <= u /\ i0 - f = j0 - g
      /\ t <= Len(old) /\ u <= Len(new) /\ Len(old) \in Nat /\ Len(new) \in Nat
      /\ old \in Seq(LineKinds) /\ RangeOf(old).valid /\ new \in Seq(LineKinds) /\ RangeOf(new).valid
  BY AlignedNumbers
<1>2. /\ E \in SUBSET (1 .. Len(old)) /\ e \in E /\ Rank(E, e) = n
      /\ e \in 1 .. Len(old) /\ e > i0
  BY <1>1, RangeIsLocated
<1>3. /\ H \in SUBSET (1 .. Len(new)) /\ h \in H /\ Rank(H, h) = n
      /\ h \in 1 .. Len(new) /\ h > j0
  BY <1>1, RangeIsLocated
<1>4. n \in Nat
  BY RuleIsValid
<1>5. e <= t /\ e - i0 <= u - j0
  OBVIOUS
<1>6. SUFFICES ASSUME h - j0 > e - i0
               PROVE  FALSE
  BY <1>1, <1>2, <1>3
<1>7. /\ \A x \in E : x \in 1 .. Len(old) /\ old[x] = "end" /\ x > i0
      /\ \A y \in 1 .. Len(new) : new[y] = "end" /\ y > j0 => y \in H
  BY <1>1 DEF EndsOf, EndAnchors, matchingLineIndexes
<1>8. \A d \in Nat : f + d <= t /\ g + d <= u => old[f + d] = new[g + d]
  BY SegmentsPair
<1> HIDE DEF i0, j0, e, h, f, g, t, u, E, H, n
<1>9. ASSUME NEW x \in A
      PROVE  j0 + (x - i0) \in B
  <2>1. x \in E /\ x <= e /\ x \in Nat /\ x > i0 /\ old[x] = "end"
    BY <1>1, <1>7
  <2> DEFINE d == x - f
  <2>2. d \in Nat /\ f + d = x /\ g + d = j0 + (x - i0) /\ f + d <= t /\ g + d <= u
    BY <1>1, <1>2, <1>5, <2>1
  <2>3. new[j0 + (x - i0)] = "end"
    <3> HIDE DEF d
    <3> QED
      BY <1>8, <2>1, <2>2
  <2>4. j0 + (x - i0) \in 1 .. Len(new) /\ j0 + (x - i0) > j0 /\ j0 + (x - i0) <= j0 + (e - i0)
    BY <1>1, <1>2, <1>5, <2>1, <2>2
  <2> QED
    BY <1>7, <2>3, <2>4
<1>10. IsFiniteSet(H) /\ IsFiniteSet(B) /\ IsFiniteSet(C) /\ Cardinality(B) \in Nat /\ Cardinality(C) \in Nat
  <2>1. IsFiniteSet(H)
    BY <1>1, <1>3, RanksCount
  <2>2. B \in SUBSET H /\ C \in SUBSET H
    OBVIOUS
  <2> HIDE DEF B, C
  <2> QED
    BY <2>1, <2>2, FS_Subset, FS_CardinalityType
<1>11. Cardinality(A) <= Cardinality(B)
  <2>1. shift \in Injection(A, B)
    <3>1. shift \in [A -> B]
      <4> HIDE DEF B, A
      <4> QED
        BY <1>9
    <3>2. ASSUME NEW x \in A, NEW y \in A, shift[x] = shift[y]
          PROVE  x = y
      <4>1. x \in Nat /\ y \in Nat
        BY <1>7
      <4>2. j0 + (x - i0) = j0 + (y - i0)
        BY <3>2
      <4> QED
        BY <1>1, <4>1, <4>2
    <3> HIDE DEF shift, A, B
    <3> QED
      BY <3>1, <3>2 DEF Injection, IsInjective
  <2> HIDE DEF shift, A, B
  <2> QED
    BY <1>10, <2>1, FS_Injection
<1>12. Cardinality(B) < Cardinality(C)
  <2>1. B \in SUBSET C
    <3>1. \A y \in H : y \in Nat
      BY <1>1, <1>3
    <3>2. \A y \in H : y <= j0 + (e - i0) => y <= h
      BY <1>1, <1>2, <1>3, <1>6, <3>1
    <3> QED
      BY <3>2
  <2>2. h \in C /\ h \notin B
    BY <1>1, <1>2, <1>3, <1>6
  <2> HIDE DEF B, C
  <2>3. Cardinality(B) <= Cardinality(C) /\ Cardinality(C) # Cardinality(B)
    BY <1>10, <2>1, <2>2, FS_Subset
  <2> QED
    BY <1>10, <2>3
<1>13. Cardinality(A) = n /\ Cardinality(C) = n
  BY <1>2, <1>3 DEF Rank
<1> HIDE DEF A, B, C
<1> QED
  BY <1>4, <1>10, <1>11, <1>12, <1>13

\* Where the end of the range is fixed by the file, by the window after the start or by
\* an end anchor that is itself protected, the new text is no longer than the old.
LEMMA TailNoLonger ==
  ASSUME NEW old, NEW kept, NEW new, NEW matched, Aligned(old, kept, new, matched),
         ~SymbolRule.end \/ SymbolRule.includeEnd
  PROVE  RangeOf(new).to - RangeOf(new).from <= RangeOf(old).to - RangeOf(old).from
<1> DEFINE i0 == StartOf(old)
           j0 == StartOf(new)
           f == RangeOf(old).from
           g == RangeOf(new).from
           t == RangeOf(old).to
           u == RangeOf(new).to
           a == SymbolRule.includeAfter
<1>1. /\ i0 \in Nat /\ j0 \in Nat /\ f \in Nat /\ g \in Nat /\ t \in Nat /\ u \in Nat
      /\ f <= i0 /\ i0 <= t /\ g <= j0 /\ j0 <= u /\ i0 - f = j0 - g
      /\ t <= Len(old) /\ u <= Len(new) /\ Len(old) \in Nat /\ Len(new) \in Nat
      /\ old \in Seq(LineKinds) /\ RangeOf(old).valid /\ new \in Seq(LineKinds) /\ RangeOf(new).valid
  BY AlignedNumbers
<1>2. SUFFICES ASSUME u - g > t - f
               PROVE  FALSE
  BY <1>1
<1>3. t # Len(old)
  BY <1>1, <1>2, AtTheEndOfTheFile
<1>4. /\ t = IF Len(old) <= LastOf(old) THEN Len(old) ELSE LastOf(old)
      /\ LastOf(old) \in Nat
      /\ SymbolRule.end => EndOf(old) \in 1 .. Len(old) /\ EndOf(old) > i0
  BY <1>1, RangeIsLocated
<1>5. /\ u = IF Len(new) <= LastOf(new) THEN Len(new) ELSE LastOf(new)
      /\ LastOf(new) \in Nat
      /\ SymbolRule.end => EndOf(new) \in 1 .. Len(new) /\ EndOf(new) > j0
  BY <1>1, RangeIsLocated
<1>6. t = LastOf(old) /\ u <= LastOf(new)
  BY <1>1, <1>3, <1>4, <1>5
<1>7. a \in Nat
  BY RuleIsValid
<1>8. EndOf(old) <= t /\ SymbolRule.end /\ EndOf(old) - i0 <= u - j0 =>
        EndOf(new) - j0 <= EndOf(old) - i0
  BY EndNoLater
<1>9. /\ LastOf(old) = (IF SymbolRule.toEnd THEN Len(old)
                        ELSE IF ~SymbolRule.end THEN i0
                        ELSE EndOf(old) - (IF SymbolRule.includeEnd THEN 0 ELSE 1)) + a
      /\ LastOf(new) = (IF SymbolRule.toEnd THEN Len(new)
                        ELSE IF ~SymbolRule.end THEN j0
                        ELSE EndOf(new) - (IF SymbolRule.includeEnd THEN 0 ELSE 1)) + a
  BY DEF LastOf
<1> HIDE DEF i0, j0, f, g, t, u, a
<1>13. /\ i0 \in Nat /\ j0 \in Nat /\ t \in Nat /\ u \in Nat
       /\ u - j0 > t - i0
  BY <1>1, <1>2
<1>10. CASE SymbolRule.toEnd
  <2>1. LastOf(old) = Len(old) + a
    BY <1>9, <1>10
  <2> QED
    BY <1>1, <1>3, <1>6, <1>7, <2>1
<1>11. CASE ~SymbolRule.toEnd /\ ~SymbolRule.end
  <2>1. LastOf(old) = i0 + a /\ LastOf(new) = j0 + a
    BY <1>9, <1>11
  <2> QED
    BY <1>6, <1>7, <1>13, <2>1
<1>12. CASE ~SymbolRule.toEnd /\ SymbolRule.end
  <2>1. LastOf(old) = EndOf(old) - 0 + a /\ LastOf(new) = EndOf(new) - 0 + a
    BY <1>9, <1>12
  <2>2. EndOf(old) \in Nat /\ EndOf(new) \in Nat
    BY <1>1, <1>4, <1>5, <1>12
  <2>3. EndOf(old) <= t /\ EndOf(old) - i0 <= u - j0
    BY <1>6, <1>7, <1>13, <2>1, <2>2
  <2>4. EndOf(new) - j0 <= EndOf(old) - i0
    BY <1>8, <1>12, <2>3
  <2> QED
    BY <1>6, <1>7, <1>13, <2>1, <2>2, <2>4
<1> QED
  BY <1>10, <1>11, <1>12, RuleIsValid

-----------------------------------------------------------------------------
(* The protected text *)

\* The protected text, line by line.
LEMMA TextIsTheRange ==
  ASSUME NEW lines \in Seq(LineKinds), RangeOf(lines).valid
  PROVE  /\ ProtectedText(lines) \in Seq(LineKinds)
         /\ Len(ProtectedText(lines)) = RangeOf(lines).to - RangeOf(lines).from + 1
         /\ Len(ProtectedText(lines)) \in Nat
         /\ \A k \in 1 .. Len(ProtectedText(lines)) : ProtectedText(lines)[k] = lines[RangeOf(lines).from + (k - 1)]
<1> DEFINE f == RangeOf(lines).from
           t == RangeOf(lines).to
<1>1. /\ f \in 1 .. StartOf(lines) /\ t \in StartOf(lines) .. Len(lines) /\ Len(lines) \in Nat
      /\ StartOf(lines) \in 1 .. Len(lines)
  BY RangeIsLocated
<1>2. ProtectedText(lines) = SubSeq(lines, f, t)
  BY DEF ProtectedText, RangeOf
<1> HIDE DEF f, t
<1>3. f \in 1 .. Len(lines) + 1 /\ t \in 0 .. Len(lines) /\ f <= t
  BY <1>1
<1>4. f \in 1 .. (Len(lines) + 1) /\ t \in 0 .. Len(lines)
  BY <1>3
<1>5. /\ SubSeq(lines, f, t) \in Seq(LineKinds)
      /\ Len(SubSeq(lines, f, t)) = IF f <= t THEN t - f + 1 ELSE 0
      /\ \A k \in 1 .. t - f + 1 : SubSeq(lines, f, t)[k] = lines[f + k - 1]
  BY <1>4, SubSeqProperties
<1>6. Len(SubSeq(lines, f, t)) = t - f + 1 /\ t - f + 1 \in Nat
  BY <1>3, <1>5
<1>7. \A k \in 1 .. t - f + 1 : f + k - 1 = f + (k - 1)
  BY <1>3
<1> QED
  BY <1>2, <1>5, <1>6, <1>7 DEF f, t

\* Two sequences with the same length and elements are the same.
LEMMA SameElements ==
  ASSUME NEW K, NEW s \in Seq(K), NEW t \in Seq(K), Len(s) = Len(t),
         \A k \in 1 .. Len(s) : s[k] = t[k]
  PROVE  s = t
OBVIOUS

\* A shorter new text is the beginning of the old one.
LEMMA ShorterIsAPrefix ==
  ASSUME NEW old, NEW kept, NEW new, NEW matched, Aligned(old, kept, new, matched),
         RangeOf(new).to - RangeOf(new).from <= RangeOf(old).to - RangeOf(old).from
  PROVE  Extends(ProtectedText(old), ProtectedText(new))
<1> DEFINE f == RangeOf(old).from
           g == RangeOf(new).from
           t == RangeOf(old).to
           u == RangeOf(new).to
           p == ProtectedText(old)
           q == ProtectedText(new)
<1>1. /\ f \in Nat /\ g \in Nat /\ t \in Nat /\ u \in Nat /\ f <= t /\ g <= u
      /\ old \in Seq(LineKinds) /\ RangeOf(old).valid /\ new \in Seq(LineKinds) /\ RangeOf(new).valid
      /\ u - g <= t - f
  BY AlignedNumbers
<1>2. /\ p \in Seq(LineKinds) /\ Len(p) = t - f + 1
      /\ \A k \in 1 .. Len(p) : p[k] = old[f + (k - 1)]
  BY <1>1, TextIsTheRange
<1>3. /\ q \in Seq(LineKinds) /\ Len(q) = u - g + 1
      /\ \A k \in 1 .. Len(q) : q[k] = new[g + (k - 1)]
  BY <1>1, TextIsTheRange
<1>4. \A d \in Nat : f + d <= t /\ g + d <= u => old[f + d] = new[g + d]
  BY SegmentsPair
<1> HIDE DEF f, g, t, u, p, q
<1>5. Len(q) <= Len(p) /\ Len(q) \in Nat /\ Len(p) \in Nat
  BY <1>1, <1>2, <1>3
<1>6. ASSUME NEW k \in 1 .. Len(q)
      PROVE  p[k] = q[k]
  <2>1. k - 1 \in Nat /\ f + (k - 1) <= t /\ g + (k - 1) <= u /\ k \in 1 .. Len(p)
    BY <1>1, <1>2, <1>3
  <2> QED
    BY <1>2, <1>3, <1>4, <2>1
<1>7. /\ SubSeq(p, 1, Len(q)) \in Seq(LineKinds)
      /\ Len(SubSeq(p, 1, Len(q))) = Len(q)
      /\ \A k \in 1 .. Len(q) : SubSeq(p, 1, Len(q))[k] = p[k]
  <2>1. 1 \in 1 .. (Len(p) + 1) /\ Len(q) \in 0 .. Len(p)
    BY <1>5
  <2>2. /\ SubSeq(p, 1, Len(q)) \in Seq(LineKinds)
        /\ Len(SubSeq(p, 1, Len(q))) = IF 1 <= Len(q) THEN Len(q) - 1 + 1 ELSE 0
        /\ \A k \in 1 .. Len(q) - 1 + 1 : SubSeq(p, 1, Len(q))[k] = p[1 + k - 1]
    BY <1>2, <2>1, SubSeqProperties
  <2>3. Len(q) - 1 + 1 = Len(q) /\ \A k \in 1 .. Len(q) : 1 + k - 1 = k
    BY <1>5
  <2> QED
    BY <1>5, <2>2, <2>3
<1>8. SubSeq(p, 1, Len(q)) = q
  BY <1>3, <1>6, <1>7, SameElements
<1> QED
  BY <1>5, <1>8 DEF Extends, p, q

-----------------------------------------------------------------------------
(* What the guard passes *)

\* A list of places in increasing order, and the set of them.
Increasing(place, m) == \A x, y \in 1 .. m : x < y => place[x] < place[y]
Places(place, m) == {place[x] : x \in 1 .. m}

\* An increasing list of places is the set of them, by rank.
LEMMA IncreasingIsByRank ==
  ASSUME NEW m \in Nat, NEW len \in Nat, NEW place \in [1 .. m -> 1 .. len],
         Increasing(place, m)
  PROVE  /\ Places(place, m) \in SUBSET (1 .. len) /\ Cardinality(Places(place, m)) = m
         /\ \A x \in 1 .. m : Nth(Places(place, m), x) = place[x]
<1> DEFINE R == Places(place, m)
           UpTo(x) == {j \in R : j <= place[x]}
<1>1. /\ R \in SUBSET (1 .. len)
      /\ \A x \in 1 .. m : place[x] \in R /\ place[x] \in Nat
      /\ \A j \in R : \E x \in 1 .. m : j = place[x]
  BY DEF Places
<1>2. /\ IsFiniteSet(R) /\ Cardinality(R) \in Nat
      /\ \A i, j \in R : i < j => Rank(R, i) < Rank(R, j)
      /\ \A n \in 1 .. Cardinality(R) : Nth(R, n) \in R /\ Rank(R, Nth(R, n)) = n
      /\ \A i \in R : Rank(R, i) \in 1 .. Cardinality(R)
  BY <1>1, RanksCount
<1> HIDE DEF R
<1>3. ASSUME NEW x \in 1 .. m, NEW y \in 1 .. m
      PROVE  /\ place[y] <= place[x] <=> y <= x
             /\ place[y] = place[x] => y = x
  <2>1. place[x] \in Nat /\ place[y] \in Nat /\ x \in Nat /\ y \in Nat
    BY <1>1
  <2>2. (x < y => place[x] < place[y]) /\ (y < x => place[y] < place[x])
    BY DEF Increasing
  <2> QED
    BY <2>1, <2>2
<1>4. ASSUME NEW x \in 1 .. m
      PROVE  Rank(R, place[x]) = x
  <2> DEFINE f == [y \in 1 .. x |-> place[y]]
  <2>1. \A y \in 1 .. x : y \in 1 .. m /\ y <= x
    OBVIOUS
  <2>2. \A y \in 1 .. x : place[y] \in UpTo(x)
    BY <1>1, <1>3, <2>1
  <2>3. \A j \in UpTo(x) : \E y \in 1 .. x : j = place[y]
    <3>1. ASSUME NEW j \in UpTo(x)
          PROVE  \E y \in 1 .. x : j = place[y]
      <4>1. PICK y \in 1 .. m : j = place[y]
        BY <1>1
      <4>2. y <= x /\ y \in 1 .. x
        BY <1>3, <4>1
      <4> QED
        BY <4>1, <4>2
    <3> QED
      BY <3>1
  <2> HIDE DEF UpTo
  <2>4. f \in Bijection(1 .. x, UpTo(x))
    <3>1. f \in [1 .. x -> UpTo(x)]
      BY <2>2
    <3>2. \A y, z \in 1 .. x : f[y] = f[z] => y = z
      BY <1>3, <2>1
    <3>3. \A j \in UpTo(x) : \E y \in 1 .. x : f[y] = j
      BY <2>3
    <3> HIDE DEF f
    <3> QED
      BY <3>1, <3>2, <3>3 DEF Bijection, Injection, Surjection, IsInjective
  <2>5. IsFiniteSet(1 .. x) /\ Cardinality(1 .. x) = x
    <3>1. IsFiniteSet(1 .. x) /\ Cardinality(1 .. x) = IF 1 > x THEN 0 ELSE x - 1 + 1
      BY FS_Interval
    <3> QED
      BY <3>1
  <2>6. Cardinality(UpTo(x)) = x
    BY <2>4, <2>5, FS_Bijection DEF ExistsBijection
  <2> QED
    BY <2>6 DEF Rank, UpTo
<1>5. Cardinality(R) = m
  <2> DEFINE c == Cardinality(R)
  <2>1. c \in Nat
    BY <1>2
  <2>2. m # 0 => m <= c
    <3>1. m # 0 => m \in 1 .. m
      OBVIOUS
    <3>2. m # 0 => place[m] \in R /\ Rank(R, place[m]) = m
      BY <1>1, <1>4, <3>1
    <3>3. m # 0 => m \in 1 .. c
      BY <1>2, <3>2
    <3> QED
      BY <2>1, <3>3
  <2>3. c # 0 => c <= m
    <3>1. c # 0 => c \in 1 .. c
      BY <2>1
    <3>2. c # 0 => Nth(R, c) \in R /\ Rank(R, Nth(R, c)) = c
      BY <1>2, <3>1
    <3>3. c # 0 => \E x \in 1 .. m : Nth(R, c) = place[x]
      BY <1>1, <3>2
    <3>4. c # 0 => c \in 1 .. m
      BY <1>4, <3>2, <3>3
    <3> QED
      BY <2>1, <3>4
  <2> HIDE DEF c
  <2>4. c = m
    BY <2>1, <2>2, <2>3
  <2> QED
    BY <2>4 DEF c
<1>6. ASSUME NEW x \in 1 .. m
      PROVE  Nth(R, x) = place[x]
  <2>1. Nth(R, x) \in R /\ Rank(R, Nth(R, x)) = x
    BY <1>2, <1>5
  <2>2. PICK y \in 1 .. m : Nth(R, x) = place[y]
    BY <1>1, <2>1
  <2>3. y = x
    BY <1>4, <2>1, <2>2
  <2> QED
    BY <2>2, <2>3
<1>7. R \in SUBSET (1 .. len)
  BY <1>1
<1> QED
  BY <1>5, <1>6, <1>7 DEF R

\* A longer new text is the old one and, in order, lines that followed it in the old file.
LEMMA LongerIsAnExtension ==
  ASSUME NEW old, NEW kept, NEW new, NEW matched, Aligned(old, kept, new, matched),
         RangeOf(new).to - RangeOf(new).from > RangeOf(old).to - RangeOf(old).from
  PROVE  \E more \in SUBSET DOMAIN Following(old) :
           ProtectedText(new) = ProtectedText(old) \o Subsequence(Following(old), more)
<1> DEFINE f == RangeOf(old).from
           g == RangeOf(new).from
           t == RangeOf(old).to
           u == RangeOf(new).to
           p == ProtectedText(old)
           q == ProtectedText(new)
           w == Following(old)
           base == g + (t - f)
           m == (u - g) - (t - f)
           Partner(x) == CHOOSE i \in kept : Pair(kept, matched, i, base + x)
           place == [x \in 1 .. m |-> Partner(x) - t]
           more == Places(place, m)
<1>1. /\ f \in Nat /\ g \in Nat /\ t \in Nat /\ u \in Nat /\ f <= t /\ g <= u
      /\ old \in Seq(LineKinds) /\ RangeOf(old).valid /\ new \in Seq(LineKinds) /\ RangeOf(new).valid
      /\ u - g > t - f /\ Len(old) \in Nat /\ t <= Len(old)
  BY AlignedNumbers
<1>2. /\ p \in Seq(LineKinds) /\ Len(p) = t - f + 1
      /\ \A k \in 1 .. Len(p) : p[k] = old[f + (k - 1)]
  BY <1>1, TextIsTheRange
<1>3. /\ q \in Seq(LineKinds) /\ Len(q) = u - g + 1
      /\ \A k \in 1 .. Len(q) : q[k] = new[g + (k - 1)]
  BY <1>1, TextIsTheRange
<1>4. \A d \in Nat : f + d <= t /\ g + d <= u =>
        Pair(kept, matched, f + d, g + d) /\ old[f + d] = new[g + d]
  BY SegmentsPair
<1>5. /\ w = SubSeq(old, t + 1, Len(old))
  BY DEF Following, RangeOf
<1>6. g .. u \subseteq matched
  BY DEF Aligned
<1>7. kept \in SUBSET Nat /\ matched \in SUBSET Nat /\ \A i \in kept : i \in 1 .. Len(old)
  BY KeptLinesAreNumbers
<1> HIDE DEF f, g, t, u, p, q, w
<1>8. m \in Nat /\ base \in Nat /\ base + m = u /\ base >= g
  BY <1>1
<1>9. Pair(kept, matched, t, base)
  <2> DEFINE d == t - f
  <2>1. d \in Nat /\ f + d <= t /\ g + d <= u /\ f + d = t /\ g + d = base
    BY <1>1
  <2> HIDE DEF d, base
  <2>2. Pair(kept, matched, f + d, g + d)
    BY <1>4, <2>1
  <2> QED
    BY <2>1, <2>2
<1> HIDE DEF m, base
<1>10. ASSUME NEW x \in 1 .. m
       PROVE  /\ Partner(x) \in kept /\ Pair(kept, matched, Partner(x), base + x)
              /\ Partner(x) \in Nat /\ Partner(x) > t /\ Partner(x) <= Len(old)
              /\ base + x \in Nat /\ base + x \in matched
              /\ old[Partner(x)] = new[base + x]
  <2>1. base + x \in g .. u /\ base + x \in Nat
    BY <1>1, <1>8
  <2>2. base + x \in matched
    BY <1>6, <2>1
  <2>3. \E i \in kept : Pair(kept, matched, i, base + x)
    BY <2>2 DEF Aligned, Paired
  <2>4. Partner(x) \in kept /\ Pair(kept, matched, Partner(x), base + x)
    BY <2>3
  <2> HIDE DEF Partner
  <2>5. Partner(x) \in Nat /\ Partner(x) <= Len(old)
    <3>1. Partner(x) \in 1 .. Len(old)
      BY <1>7, <2>4
    <3> QED
      BY <1>1, <3>1
  <2>6. t < Partner(x) <=> base < base + x
    BY <1>1, <1>8, <1>9, <2>1, <2>4, <2>5 DEF Aligned, Paired
  <2>7. Partner(x) > t
    BY <1>1, <1>8, <2>5, <2>6
  <2>8. old[Partner(x)] = new[base + x]
    BY <2>2, <2>4 DEF Aligned
  <2> QED
    BY <2>1, <2>2, <2>4, <2>5, <2>7, <2>8
<1> HIDE DEF Partner
<1> DEFINE len == Len(old) - t
<1>11. len \in Nat
  BY <1>1
<1>12. place \in [1 .. m -> 1 .. len]
  <2>1. ASSUME NEW x \in 1 .. m
        PROVE  Partner(x) - t \in 1 .. len
    BY <1>1, <1>10
  <2> HIDE DEF len
  <2> QED
    BY <2>1
<1>13. ASSUME NEW x \in 1 .. m, NEW y \in 1 .. m, x < y
       PROVE  place[x] < place[y]
  <2>0. /\ Partner(x) \in Nat /\ base + x \in Nat /\ Pair(kept, matched, Partner(x), base + x)
        /\ Partner(y) \in Nat /\ base + y \in Nat /\ Pair(kept, matched, Partner(y), base + y)
    BY <1>10
  <2>1. Partner(x) < Partner(y) <=> base + x < base + y
    BY <2>0 DEF Aligned, Paired
  <2>2. Partner(x) \in Nat /\ Partner(y) \in Nat
    BY <1>10
  <2>3. Partner(x) < Partner(y)
    BY <1>8, <1>13, <2>1, <2>2
  <2>4. place[x] = Partner(x) - t /\ place[y] = Partner(y) - t
    OBVIOUS
  <2> HIDE DEF place
  <2> QED
    BY <1>1, <2>2, <2>3, <2>4
<1>14. \A x \in 1 .. m : place[x] = Partner(x) - t
  OBVIOUS
<1> HIDE DEF place, len
<1>15. more \in SUBSET (1 .. len) /\ Cardinality(more) = m /\ \A x \in 1 .. m : Nth(more, x) = place[x]
  <2>1. Increasing(place, m)
    BY <1>13 DEF Increasing
  <2> QED
    BY <1>8, <1>11, <1>12, <2>1, IncreasingIsByRank
<1> HIDE DEF more
<1>16. DOMAIN w = 1 .. len /\ \A k \in 1 .. len : w[k] = old[t + k]
  <2>1. t + 1 \in Int /\ Len(old) \in Int /\ \A k \in t + 1 .. Len(old) : old[k] \in LineKinds
    BY <1>1
  <2>2. /\ SubSeq(old, t + 1, Len(old)) \in Seq(LineKinds)
        /\ Len(SubSeq(old, t + 1, Len(old))) = IF t + 1 <= Len(old) THEN Len(old) - (t + 1) + 1 ELSE 0
        /\ \A k \in 1 .. Len(old) - (t + 1) + 1 : SubSeq(old, t + 1, Len(old))[k] = old[t + 1 + k - 1]
    BY <2>1, SubSeqProperties
  <2>3. Len(w) = len
    BY <1>1, <1>5, <2>2 DEF len
  <2>4. DOMAIN w = 1 .. Len(w)
    BY <1>5, <2>2
  <2>5. \A k \in 1 .. len : t + 1 + k - 1 = t + k /\ k \in 1 .. Len(old) - (t + 1) + 1
    BY <1>1 DEF len
  <2> QED
    BY <1>5, <2>2, <2>3, <2>4, <2>5
<1> DEFINE r == Subsequence(w, more)
<1>17. r = [n \in 1 .. m |-> w[Nth(more, n)]]
  BY <1>15 DEF Subsequence
<1>18. ASSUME NEW n \in 1 .. m
       PROVE  r[n] = new[base + n]
  <2>1. r[n] = w[place[n]]
    BY <1>15, <1>17
  <2>2. place[n] \in 1 .. len /\ place[n] = Partner(n) - t
    BY <1>12, <1>14
  <2>3. w[place[n]] = old[t + place[n]]
    BY <1>16, <2>2
  <2>4. t + place[n] = Partner(n)
    BY <1>1, <1>10, <2>2
  <2> QED
    BY <1>10, <2>1, <2>3, <2>4
<1> HIDE DEF r
<1>19. \A j \in matched : new[j] \in LineKinds
  BY <1>1 DEF Aligned
<1>20. r \in Seq(LineKinds) /\ Len(r) = m
  <2>1. \A n \in 1 .. m : r[n] \in LineKinds
    BY <1>10, <1>18, <1>19
  <2>2. r \in [1 .. m -> LineKinds]
    BY <1>17, <2>1
  <2> QED
    BY <1>8, <2>2
<1>21. p \o r \in Seq(LineKinds) /\ Len(p \o r) = Len(q)
  <2>1. p \o r \in Seq(LineKinds) /\ Len(p \o r) = Len(p) + Len(r)
    BY <1>2, <1>20
  <2>2. Len(p) + Len(r) = Len(q)
    BY <1>1, <1>2, <1>3, <1>20 DEF m
  <2> QED
    BY <2>1, <2>2
<1>22. ASSUME NEW k \in 1 .. Len(q)
       PROVE  (p \o r)[k] = q[k]
  <2>1. k \in Nat /\ k >= 1 /\ q[k] = new[g + (k - 1)] /\ Len(p) \in Nat
    BY <1>1, <1>2, <1>3
  <2>2. CASE k <= Len(p)
    <3>1. (p \o r)[k] = p[k]
      BY <1>2, <1>20, <2>1, <2>2
    <3>2. k - 1 \in Nat /\ f + (k - 1) <= t /\ g + (k - 1) <= u
      BY <1>1, <1>2, <1>3, <2>1, <2>2
    <3>3. p[k] = old[f + (k - 1)]
      BY <1>2, <2>1, <2>2
    <3> QED
      BY <1>4, <2>1, <3>1, <3>2, <3>3
  <2>3. CASE k > Len(p)
    <3> DEFINE n == k - Len(p)
    <3>1. n \in 1 .. m /\ base + n = g + (k - 1)
      BY <1>1, <1>2, <1>3, <2>1, <2>3 DEF m, base
    <3>2. (p \o r)[k] = r[n]
      BY <1>2, <1>20, <1>21, <2>1, <2>3
    <3> QED
      BY <1>18, <2>1, <3>1, <3>2
  <2> QED
    <3>1. k <= Len(p) \/ k > Len(p)
      BY <2>1
    <3> QED
      BY <2>2, <2>3, <3>1
<1>23. q = p \o r
  BY <1>3, <1>21, <1>22, SameElements
<1>24. more \in SUBSET DOMAIN w
  BY <1>15, <1>16
<1> QED
  BY <1>23, <1>24 DEF p, q, r, w

\* With no hunk in either range, the protected text is what it was.
LEMMA AlignedKeepsText ==
  ASSUME NEW lines, NEW kept, NEW matched, Aligned(BaseText, kept, lines, matched)
  PROVE  KeepsText(lines)
<1> DEFINE f == RangeOf(BaseText).from
           g == RangeOf(lines).from
           t == RangeOf(BaseText).to
           u == RangeOf(lines).to
           p == ProtectedText(BaseText)
           q == ProtectedText(lines)
<1>1. /\ f \in Nat /\ g \in Nat /\ t \in Nat /\ u \in Nat /\ f <= t /\ g <= u
      /\ BaseText \in Seq(LineKinds) /\ RangeOf(BaseText).valid /\ lines \in Seq(LineKinds) /\ RangeOf(lines).valid
  BY AlignedNumbers
<1>2. Aligned(lines, matched, BaseText, kept)
  BY AlignedIsSymmetric
<1>3. u - g <= t - f => Extends(p, q)
  BY ShorterIsAPrefix
<1>4. t - f <= u - g => Extends(q, p)
  BY <1>2, ShorterIsAPrefix
<1>5. u - g > t - f => \E more \in SUBSET DOMAIN Following(BaseText) : q = p \o Subsequence(Following(BaseText), more)
  BY LongerIsAnExtension
<1>6. ~SymbolRule.end \/ SymbolRule.includeEnd => u - g <= t - f /\ t - f <= u - g
  BY <1>2, TailNoLonger
<1>7. p \in Seq(LineKinds) /\ q \in Seq(LineKinds)
  BY <1>1, TextIsTheRange
<1> HIDE DEF f, g, t, u, p, q
<1>8. CASE ~SymbolRule.end \/ SymbolRule.includeEnd
  <2>1. Extends(p, q) /\ Extends(q, p)
    BY <1>3, <1>4, <1>6, <1>8
  <2>2. /\ Len(q) <= Len(p) /\ SubSeq(p, 1, Len(q)) = q /\ Len(p) <= Len(q)
        /\ Len(p) \in Nat /\ Len(q) \in Nat
    BY <1>7, <2>1 DEF Extends
  <2>3. Len(p) = Len(q)
    BY <2>2
  <2>4. SubSeq(p, 1, Len(p)) = p
    BY <1>7, SubSeqFull
  <2>5. p = q
    BY <2>2, <2>3, <2>4
  <2> QED
    BY <2>5 DEF KeepsText, p, q
<1>9. CASE ~(~SymbolRule.end \/ SymbolRule.includeEnd)
  <2>1. SymbolRule.end /\ ~SymbolRule.includeEnd
    BY <1>9
  <2>2. u - g <= t - f \/ (u - g > t - f /\ t - f <= u - g)
    BY <1>1
  <2> QED
    BY <1>3, <1>4, <1>5, <2>1, <2>2 DEF KeepsText, p, q
<1> QED
  BY <1>8, <1>9

\* The mixed file: the guard found nothing, so its ranges are aligned.
LEMMA NoHunkAligns ==
  ASSUME NEW lines \in Seq(LineKinds), locateProtectedRanges(BaseText).valid,
         NEW alignment \in Alignments(BaseText, lines), ~MixedViolation(lines, alignment)
  PROVE  Aligned(BaseText, alignment[1], lines, alignment[2])
<1>0. PICK kept \in SUBSET DOMAIN BaseText :
        alignment \in {<<kept, m>> : m \in {m \in kSubset(Cardinality(kept), DOMAIN lines) :
                                             Subsequence(lines, m) = Subsequence(BaseText, kept)}}
  BY Zenon DEF Alignments
<1>1. PICK matched \in kSubset(Cardinality(kept), DOMAIN lines) :
         Subsequence(lines, matched) = Subsequence(BaseText, kept) /\ alignment = <<kept, matched>>
  BY <1>0, Zenon
<1>2. matched \in SUBSET DOMAIN lines
  BY DEF kSubset
<1>3. alignment[1] = kept /\ alignment[2] = matched
  BY <1>1
<1>4. BaseText \in Seq(LineKinds) /\ DOMAIN BaseText = 1 .. Len(BaseText) /\ DOMAIN lines = 1 .. Len(lines)
  BY FreezeAssumption
<1>5. /\ \A i \in kept : \E j \in matched : Pair(kept, matched, i, j)
      /\ \A j \in matched : \E i \in kept : Pair(kept, matched, i, j)
      /\ \A i, j : Pair(kept, matched, i, j) => BaseText[i] = lines[j]
      /\ \A i, j, k, l : Pair(kept, matched, i, j) /\ Pair(kept, matched, k, l) => (i < k <=> j < l)
  BY <1>1, <1>2, <1>4, KeptLinesPair, Zenon
<1>6. Paired(kept, matched)
  BY <1>5, Zenon DEF Paired
<1> DEFINE old == locateProtectedRanges(BaseText)
           new == locateProtectedRanges(lines)
<1>7. ~rangesOverlap(alignment, BaseText, lines, old.protected, new.protected) /\ new.valid
  BY DEF MixedViolation
<1>8. RangeOf(BaseText).valid /\ RangeOf(lines).valid
  <2>1. old.valid /\ new.valid
    BY <1>7
  <2> QED
    BY <2>1 DEF locateProtectedRanges, RangeOf
<1>9. /\ RangeOf(BaseText).from .. RangeOf(BaseText).to \subseteq old.protected
      /\ RangeOf(lines).from .. RangeOf(lines).to \subseteq new.protected
  BY DEF locateProtectedRanges, RangeOf
<1>10. /\ \A i \in old.protected : i \in DOMAIN BaseText => i \in kept
       /\ \A i \in new.protected : i \in DOMAIN lines => i \in matched
  BY <1>3, <1>7 DEF rangesOverlap
<1>11. /\ RangeOf(BaseText).from .. RangeOf(BaseText).to \subseteq DOMAIN BaseText
       /\ RangeOf(lines).from .. RangeOf(lines).to \subseteq DOMAIN lines
  <2>1. /\ RangeOf(BaseText).from \in 1 .. StartOf(BaseText) /\ StartOf(BaseText) \in 1 .. Len(BaseText)
        /\ RangeOf(BaseText).to \in StartOf(BaseText) .. Len(BaseText)
    BY <1>4, <1>8, RangeIsLocated
  <2>2. /\ RangeOf(lines).from \in 1 .. StartOf(lines) /\ StartOf(lines) \in 1 .. Len(lines)
        /\ RangeOf(lines).to \in StartOf(lines) .. Len(lines)
    BY <1>8, RangeIsLocated
  <2> QED
    BY <1>4, <2>1, <2>2
<1> HIDE DEF old, new
<1>12. /\ RangeOf(BaseText).from .. RangeOf(BaseText).to \subseteq kept
       /\ RangeOf(lines).from .. RangeOf(lines).to \subseteq matched
  BY <1>9, <1>10, <1>11
<1>13. /\ kept \in SUBSET (1 .. Len(BaseText)) /\ matched \in SUBSET (1 .. Len(lines))
  BY <1>1, <1>2, <1>4
<1> QED
  BY <1>3, <1>4, <1>5, <1>6, <1>8, <1>12, <1>13, Zenon DEF Aligned

\* A base keeps its own freeze.
LEMMA UnchangedKeepsText == KeepsText(BaseText)
BY DEF KeepsText

\* What the guard of a tree that passes means.
LEMMA TreeKeepsFreeze ==
  ASSUME locateProtectedRanges(BaseText).valid,
         NEW tree, tree.mixed \in Seq(LineKinds),
         \A p \in parseNameStatusZ(tree) :
           IF p # "mixed" THEN ~ChangeViolates(p, tree, <<{}, {}>>)
           ELSE \E alignment \in Alignments(BaseText, tree.mixed) : ~ChangeViolates(p, tree, alignment)
  PROVE  KeepsFreeze(tree)
<1>1. RepoPaths = {"frozen", "mixed", "migration", "source"}
  BY DEF RepoPaths, BaseTree
<1>2. /\ BaseTree["frozen"] = "plain" /\ BaseTree["mixed"] = BaseText
      /\ BaseTree["migration"] = BaseMigration /\ BaseTree["source"] = "plain"
      /\ BaseTree.frozen = "plain"
      /\ NoFile["migration"] = Absent
  BY DEF BaseTree, NoFile
<1>3. ASSUME NEW p \in {"frozen", "migration", "source"}, tree[p] # BaseTree[p]
      PROVE  ~ChangeViolates(p, tree, <<{}, {}>>)
  <2>1. p \in parseNameStatusZ(tree) /\ p # "mixed"
    BY <1>1, <1>3 DEF parseNameStatusZ
  <2> QED
    BY <2>1
<1>4. tree["frozen"] = "plain"
  BY <1>2, <1>3 DEF ChangeViolates, pathRuleMatches
<1>5. BaseMigration # Absent => tree["migration"] = BaseMigration
  BY <1>2, <1>3 DEF ChangeViolates, pathRuleMatches
<1>6. tree["migration"] # "money"
  <2>1. SUFFICES ASSUME tree["migration"] = "money"
                 PROVE  FALSE
    OBVIOUS
  <2>2. BaseMigration = Absent
    BY <1>5, <2>1, FreezeAssumption
  <2>3. tree["migration"] # BaseTree["migration"] /\ Status(tree, "migration") = "A"
    BY <1>2, <2>1, <2>2 DEF Status, Absent
  <2>4. scanNewFileRules("migration", tree["migration"])
    BY <2>1 DEF scanNewFileRules, fullContentMatches
  <2> QED
    BY <1>3, <2>3, <2>4 DEF ChangeViolates
<1>7. tree["source"] # "money"
  <2>1. SUFFICES ASSUME tree["source"] = "money"
                 PROVE  FALSE
    OBVIOUS
  <2>2. tree["source"] # BaseTree["source"]
    BY <1>2, <2>1
  <2>3. scanChangedContentRules("source", tree)
    BY <2>1 DEF scanChangedContentRules, fullContentMatches
  <2> QED
    BY <1>3, <2>2, <2>3 DEF ChangeViolates
<1>8. /\ locateProtectedFragments(tree.mixed) = locateProtectedFragments(BaseText)
      /\ KeepsText(tree.mixed)
  <2>1. CASE tree["mixed"] = BaseText
    BY <2>1, UnchangedKeepsText
  <2>2. CASE tree["mixed"] # BaseText
    <3>1. "mixed" \in parseNameStatusZ(tree)
      BY <1>1, <1>2, <2>2 DEF parseNameStatusZ
    <3>2. PICK alignment \in Alignments(BaseText, tree.mixed) : ~ChangeViolates("mixed", tree, alignment)
      BY <3>1
    <3>3. ~MixedViolation(tree.mixed, alignment)
      BY <3>2 DEF ChangeViolates
    <3>4. locateProtectedFragments(tree.mixed) = locateProtectedFragments(BaseText)
      BY <3>3 DEF MixedViolation
    <3>5. Aligned(BaseText, alignment[1], tree.mixed, alignment[2])
      BY <3>3, NoHunkAligns
    <3> QED
      BY <3>4, <3>5, AlignedKeepsText
  <2> QED
    BY <2>1, <2>2
<1> QED
  BY <1>2, <1>4, <1>5, <1>6, <1>7, <1>8 DEF KeepsFreeze

\* Whatever lines were typed, removed or moved: where the guard reports nothing, HEAD, the
\* index and the tracked working tree keep the freeze.
LEMMA GuardKeepsFreeze ==
  ASSUME NEW head, NEW index, NEW work,
         head.mixed \in Seq(LineKinds), index.mixed \in Seq(LineKinds), work.mixed \in Seq(LineKinds),
         checkFinancialFreeze(head, index, work)
  PROVE  \A tree \in {head, index, TrackedWork(index, work)} : KeepsFreeze(tree)
<1>1. TrackedWork(index, work).mixed \in Seq(LineKinds)
  <2>1. "mixed" \in RepoPaths /\ NoFile["mixed"] \in Seq(LineKinds)
    BY DEF RepoPaths, BaseTree, NoFile
  <2>2. TrackedWork(index, work)["mixed"] \in {NoFile["mixed"], work["mixed"]}
    BY <2>1 DEF TrackedWork
  <2> QED
    BY <2>1, <2>2
<1>2. ASSUME NEW tree \in {head, index, TrackedWork(index, work)}
      PROVE  KeepsFreeze(tree)
  <2>1. tree.mixed \in Seq(LineKinds)
    BY <1>1, <1>2
  <2>2. locateProtectedRanges(BaseText).valid
    BY DEF checkFinancialFreeze
  <2>3. \A p \in parseNameStatusZ(tree) :
          IF p # "mixed" THEN ~ChangeViolates(p, tree, <<{}, {}>>)
          ELSE \E alignment \in Alignments(BaseText, tree.mixed) : ~ChangeViolates(p, tree, alignment)
    BY <1>2, Zenon DEF checkFinancialFreeze
  <2> HIDE DEF checkFinancialFreeze
  <2> QED
    BY <2>1, <2>2, <2>3, TreeKeepsFreeze
<1> QED
  BY <1>2

-----------------------------------------------------------------------------
(* The audit *)

\* The walk as a function of its level.
Walk(report, p, w) ==
  w = [n \in Nat |-> IF n = 0 THEN {p} ELSE UNION {{q} \union report[q].via : q \in w[n - 1]}]

\* The walk is a recursive definition that some function satisfies.
LEMMA WalkExists == \A report, p : \E w : Walk(report, p, w)
<1> SUFFICES ASSUME NEW report, NEW p
             PROVE  \E w : Walk(report, p, w)
  OBVIOUS
<1> DEFINE More(s) == UNION {{q} \union report[q].via : q \in s}
           Level(w, n) == IF n = 0 THEN {p} ELSE More(w[n - 1])
           UpTo(w, n) == /\ w = [k \in 0 .. n |-> w[k]]
                         /\ \A k \in 0 .. n : w[k] = Level(w, k)
           Missing == {n \in Nat : ~\E w : UpTo(w, n)}
<1> HIDE DEF More
<1>1. Missing = {}
  <2>1. SUFFICES ASSUME Missing # {}
                 PROVE  FALSE
    OBVIOUS
  <2>2. PICK n \in Missing : \A k \in Missing : n <= k
    <3>1. Missing \in SUBSET Nat
      OBVIOUS
    <3> HIDE DEF Missing
    <3> QED
      BY <2>1, <3>1, LeastNumber
  <2>3. n \in Nat /\ ~\E w : UpTo(w, n)
    OBVIOUS
  <2>4. CASE n = 0
    <3> DEFINE w == [k \in 0 .. n |-> {p}]
    <3>1. UpTo(w, n)
      BY <2>4
    <3> HIDE DEF w, UpTo
    <3> QED
      BY <2>3, <3>1
  <2>5. CASE n # 0
    <3>1. n - 1 \in Nat /\ ~(n <= n - 1)
      BY <2>3, <2>5
    <3>2. \E v : UpTo(v, n - 1)
      <4> HIDE DEF UpTo
      <4>1. n - 1 \notin Missing
        BY <2>2, <3>1
      <4> QED
        BY <3>1, <4>1
    <3>3. PICK v : UpTo(v, n - 1)
      BY <3>2
    <3> DEFINE w == [k \in 0 .. n |-> Level(v, k)]
    <3>4. \A k \in 0 .. n : w[k] = Level(v, k)
      OBVIOUS
    <3>5. \A k \in 0 .. n - 1 : v[k] = Level(v, k) /\ k \in 0 .. n
      <4>1. \A k \in 0 .. n - 1 : v[k] = Level(v, k)
        BY <3>3
      <4>2. \A k \in 0 .. n - 1 : k \in 0 .. n
        BY <2>3
      <4> HIDE DEF Level
      <4> QED
        BY <4>1, <4>2
    <3>6. ASSUME NEW k \in 0 .. n
          PROVE  Level(w, k) = Level(v, k)
      <4>1. CASE k = 0
        BY <4>1
      <4>2. CASE k # 0
        <5>1. k - 1 \in 0 .. n - 1
          BY <2>3, <4>2
        <5>2. w[k - 1] = v[k - 1]
          <6> HIDE DEF w, Level
          <6> QED
            BY <3>4, <3>5, <5>1
        <5> QED
          BY <4>2, <5>2
      <4> QED
        BY <4>1, <4>2
    <3>7. UpTo(w, n)
      <4>1. w = [k \in 0 .. n |-> w[k]]
        OBVIOUS
      <4>2. \A k \in 0 .. n : w[k] = Level(w, k)
        <5> HIDE DEF w, Level
        <5> QED
          BY <3>4, <3>6
      <4> HIDE DEF w, Level
      <4> QED
        BY <4>1, <4>2
    <3> HIDE DEF w, UpTo
    <3> QED
      BY <2>3, <3>7
  <2> QED
    BY <2>4, <2>5
<1>2. \A n \in Nat : \E w : UpTo(w, n)
  <2> HIDE DEF UpTo
  <2> QED
    BY <1>1
<1> DEFINE Part(n) == CHOOSE w : UpTo(w, n)
           all == [n \in Nat |-> Part(n)[n]]
<1>3. ASSUME NEW n \in Nat
      PROVE  UpTo(Part(n), n)
  <2> HIDE DEF UpTo
  <2> QED
    BY <1>2
<1> HIDE DEF Part
<1>4. ASSUME NEW n \in Nat, n # 0
      PROVE  \A k \in 0 .. n - 1 : Part(n)[k] = Part(n - 1)[k]
  <2> DEFINE v == Part(n - 1)
             w == Part(n)
             Differ == {k \in 0 .. n - 1 : w[k] # v[k]}
  <2>1. SUFFICES ASSUME Differ # {}
                 PROVE  FALSE
    OBVIOUS
  <2>2. PICK k \in Differ : \A l \in Differ : k <= l
    <3>1. Differ \in SUBSET Nat
      OBVIOUS
    <3> HIDE DEF Differ
    <3> QED
      BY <2>1, <3>1, LeastNumber
  <2>3. k \in 0 .. n - 1 /\ w[k] # v[k]
    OBVIOUS
  <2>4. UpTo(w, n) /\ UpTo(v, n - 1)
    <3>1. n - 1 \in Nat
      BY <1>4
    <3> HIDE DEF UpTo
    <3> QED
      BY <1>3, <3>1
  <2>5. w[k] = Level(w, k) /\ v[k] = Level(v, k)
    <3>1. k \in 0 .. n
      BY <1>4, <2>3
    <3> HIDE DEF w, v, Level
    <3> QED
      BY <2>3, <2>4, <3>1
  <2> HIDE DEF w, v
  <2>6. k # 0
    BY <2>3, <2>5
  <2>7. k - 1 \in 0 .. n - 1 /\ k - 1 \notin Differ
    <3>1. k - 1 \in 0 .. n - 1 /\ ~(k <= k - 1)
      BY <2>3, <2>6
    <3> HIDE DEF Differ
    <3> QED
      BY <2>2, <3>1
  <2>8. w[k - 1] = v[k - 1]
    BY <2>7
  <2> QED
    BY <2>3, <2>5, <2>6, <2>8
<1>5. ASSUME NEW n \in Nat
      PROVE  all[n] = Level(all, n)
  <2>1. UpTo(Part(n), n)
    BY <1>3
  <2>2. n \in 0 .. n /\ all[n] = Part(n)[n]
    OBVIOUS
  <2>3. Part(n)[n] = Level(Part(n), n)
    <3> HIDE DEF Level
    <3> QED
      BY <2>1, <2>2
  <2>4. CASE n = 0
    BY <2>2, <2>3, <2>4
  <2>5. CASE n # 0
    <3>1. n - 1 \in Nat /\ n - 1 \in 0 .. n - 1
      BY <2>5
    <3>2. all[n - 1] = Part(n - 1)[n - 1]
      BY <3>1
    <3>3. Part(n)[n - 1] = Part(n - 1)[n - 1]
      BY <1>4, <2>5, <3>1
    <3> HIDE DEF all
    <3> QED
      BY <2>2, <2>3, <2>5, <3>2, <3>3
  <2> QED
    BY <2>4, <2>5
<1>6. all = [n \in Nat |-> Level(all, n)]
  <2>1. all = [n \in Nat |-> all[n]]
    OBVIOUS
  <2> HIDE DEF all, Level
  <2> QED
    BY <1>5, <2>1
<1>7. Walk(report, p, all)
  <2> HIDE DEF all
  <2> QED
    BY <1>6 DEF Walk, More
<1> QED
  BY <1>7

\* Whatever the walk reaches, the package depends on.
LEMMA ReachedIsADependency ==
  ASSUME NEW report, NEW p, NEW closed, p \in closed,
         \A x \in closed : report[x].via \subseteq closed
  PROVE  Reached(report, p) \subseteq closed
<1> DEFINE w == CHOOSE v : Walk(report, p, v)
           size == Cardinality(AuditedPackages)
<1>1. Reached(report, p) = w[size]
  BY DEF Reached, Walk
<1>2. Walk(report, p, w)
  BY WalkExists
<1>3. size \in Nat
  BY AuditAssumption, FS_CardinalityType
<1> HIDE DEF w, size
<1> DEFINE Out == {n \in Nat : ~(w[n] \subseteq closed)}
<1>4. Out = {}
  <2>1. SUFFICES ASSUME Out # {}
                 PROVE  FALSE
    OBVIOUS
  <2>2. PICK n \in Out : \A k \in Out : n <= k
    <3>1. Out \in SUBSET Nat
      OBVIOUS
    <3> HIDE DEF Out
    <3> QED
      BY <2>1, <3>1, LeastNumber
  <2>3. n \in Nat /\ ~(w[n] \subseteq closed)
    OBVIOUS
  <2>4. w[n] = IF n = 0 THEN {p} ELSE UNION {{q} \union report[q].via : q \in w[n - 1]}
    BY <1>2, <2>3, Zenon DEF Walk
  <2>5. n # 0
    BY <2>3, <2>4
  <2>6. n - 1 \in Nat /\ w[n - 1] \subseteq closed
    <3>1. n - 1 \in Nat /\ ~(n <= n - 1)
      BY <2>3, <2>5
    <3>2. n - 1 \notin Out
      <4> HIDE DEF Out
      <4> QED
        BY <2>2, <3>1
    <3> QED
      BY <3>1, <3>2
  <2> QED
    BY <2>3, <2>4, <2>5, <2>6
<1> QED
  BY <1>1, <1>3, <1>4

\* What a passing audit found of the exceptions and of the report, one conjunct each.
LEMMA NoFailures ==
  ASSUME NEW report, NEW entries, runAudit(report, entries)
  PROVE  LET severe == {a \in collectConcreteAdvisories(report) : Severe(a.severity)}
             listed == {KeyOf(entries[i]) : i \in {j \in DOMAIN entries : Usable(entries[j])}}
         IN  /\ \A i \in DOMAIN entries : ~BadEntry(entries, i) /\ entries[i].reference # "dangling"
             /\ \A a \in severe : /\ a.id = "ghsa" /\ <<a.package, a.id>> \in listed
                                  /\ a.severity # "critical"
             /\ \A k \in listed : \E a \in severe : k = <<a.package, a.id>>
             /\ \A p \in AuditedPackages : Severe(report[p].severity) =>
                  \E a \in resolveConcreteAdvisories(report, p) : Severe(a.severity)
<1> DEFINE severe == {a \in collectConcreteAdvisories(report) : Severe(a.severity)}
           listed == {KeyOf(entries[i]) : i \in {j \in DOMAIN entries : Usable(entries[j])}}
           Key(a) == <<a.package, a.id>>
           unlisted == {a \in severe : a.id # "ghsa" \/ Key(a) \notin listed}
           escalated == {a \in severe \ unlisted : a.severity = "critical"}
           rootless == {p \in AuditedPackages :
                          /\ Severe(report[p].severity)
                          /\ ~\E a \in resolveConcreteAdvisories(report, p) : Severe(a.severity)}
           unmatched == listed \ {Key(a) : a \in severe}
<1>1. /\ validateAllowlist(entries) = {} /\ validateReferenceTargets(entries) = {}
      /\ {<<"advisory", a>> : a \in unlisted \union escalated} = {}
      /\ {<<"rootless", p>> : p \in rootless} = {} /\ {<<"unused", k>> : k \in unmatched} = {}
  <2>1. evaluateAuditPolicy(report, entries) = {} /\ validateReferenceTargets(entries) = {}
    BY DEF runAudit
  <2>2. evaluateAuditPolicy(report, entries) =
          validateAllowlist(entries) \union {<<"advisory", a>> : a \in unlisted \union escalated}
            \union {<<"rootless", p>> : p \in rootless} \union {<<"unused", k>> : k \in unmatched}
    BY DEF evaluateAuditPolicy
  <2> HIDE DEF unlisted, escalated, rootless, unmatched
  <2> QED
    BY <2>1, <2>2
<1>2. \A i \in DOMAIN entries : ~BadEntry(entries, i) /\ entries[i].reference # "dangling"
  BY <1>1 DEF validateAllowlist, validateReferenceTargets
<1>3. unlisted = {} /\ escalated = {} /\ rootless = {} /\ unmatched = {}
  <2> HIDE DEF unlisted, escalated, rootless, unmatched
  <2> QED
    BY <1>1
<1> HIDE DEF severe, listed
<1>4. \A a \in severe : a.id = "ghsa" /\ Key(a) \in listed /\ a.severity # "critical"
  BY <1>3
<1>5. \A k \in listed : \E a \in severe : k = Key(a)
  BY <1>3
<1>6. \A p \in AuditedPackages : Severe(report[p].severity) =>
        \E a \in resolveConcreteAdvisories(report, p) : Severe(a.severity)
  BY <1>3
<1> QED
  BY <1>2, <1>4, <1>5, <1>6 DEF severe, listed

\* A report whose audit passes is covered by its exceptions.
LEMMA PassedAuditIsCovered ==
  ASSUME NEW report \in AuditReports, NEW entries \in Allowlists, runAudit(report, entries)
  PROVE  AuditCovered(report, entries)
<1> DEFINE severe == {a \in collectConcreteAdvisories(report) : Severe(a.severity)}
           listed == {KeyOf(entries[i]) : i \in {j \in DOMAIN entries : Usable(entries[j])}}
           For(a) == {i \in DOMAIN entries : KeyOf(entries[i]) = <<a.package, "ghsa">>}
           Sound(entry) == entry.maxSeverity = "high" /\ entry.reference = "documented" /\ entry.expires = "later"
<1>1. /\ \A i \in DOMAIN entries : ~BadEntry(entries, i) /\ entries[i].reference # "dangling"
      /\ \A a \in severe : a.id = "ghsa" /\ <<a.package, a.id>> \in listed /\ a.severity # "critical"
      /\ \A k \in listed : \E a \in severe : k = <<a.package, a.id>>
      /\ \A p \in AuditedPackages : Severe(report[p].severity) =>
           \E a \in resolveConcreteAdvisories(report, p) : Severe(a.severity)
  BY NoFailures
<1>2. PICK n \in 0 .. 2 : entries \in [1 .. n -> ListedEntries]
  BY DEF Allowlists
<1>3. \A i \in DOMAIN entries :
        /\ i \in 1 .. n
        /\ entries[i] \in [advisory : {"ghsa", "malformed"}, package : AuditedPackages \union {"none"},
             maxSeverity : {"high", "other"}, reference : {"documented", "dangling", "unsafe", "none"},
             expires : {"later", "past", "unreadable"}]
  BY <1>2, AuditAssumption
<1>4. \A i \in DOMAIN entries : Sound(entries[i]) /\ Usable(entries[i]) /\ entries[i].advisory = "ghsa"
  <2>1. ASSUME NEW i \in DOMAIN entries
        PROVE  Sound(entries[i]) /\ Usable(entries[i]) /\ entries[i].advisory = "ghsa"
    <3>1. /\ entries[i].advisory = "ghsa" /\ entries[i].package # "none" /\ entries[i].maxSeverity = "high"
          /\ entries[i].reference \notin {"unsafe", "none", "dangling"} /\ entries[i].expires \notin {"past", "unreadable"}
      BY <1>1 DEF BadEntry
    <3>2. entries[i].reference \in {"documented", "dangling", "unsafe", "none"} /\ entries[i].expires \in {"later", "past", "unreadable"}
      BY <1>3
    <3> QED
      BY <3>1, <3>2 DEF Usable
  <2> QED
    BY <2>1
<1>5. \A p \in AuditedPackages : \A a \in report[p].advisories : a \in ConcreteAdvisories /\ a.package = p
  <2>1. \A p \in AuditedPackages : report[p] \in Vulnerabilities(p)
    BY DEF AuditReports
  <2>2. ASSUME NEW p \in AuditedPackages, NEW v \in Vulnerabilities(p), NEW a \in v.advisories
        PROVE  a \in ConcreteAdvisories /\ a.package = p
    BY <2>2 DEF Vulnerabilities, Unaffected
  <2> QED
    BY <2>1, <2>2
<1>6. \A p \in AuditedPackages : report[p].via \subseteq AuditedPackages
  <2>1. \A p \in AuditedPackages : report[p] \in Vulnerabilities(p)
    BY DEF AuditReports
  <2>2. ASSUME NEW p \in AuditedPackages, NEW v \in Vulnerabilities(p)
        PROVE  v.via \subseteq AuditedPackages
    BY <2>2 DEF Vulnerabilities, Unaffected
  <2> QED
    BY <2>1, <2>2
<1>7. \A a \in severe : a \in ConcreteAdvisories /\ Severe(a.severity)
  BY <1>5 DEF collectConcreteAdvisories
<1>8. ASSUME NEW a \in severe
      PROVE  a.severity = "high"
  <2>1. a.severity \in {"moderate", "high", "critical"}
    BY <1>7 DEF ConcreteAdvisories
  <2>2. ~Severe("moderate")
    BY DEF Severe, SeverityRank
  <2> HIDE DEF severe
  <2> QED
    BY <1>1, <1>7, <2>1, <2>2
<1>9. ASSUME NEW a \in severe
      PROVE  Cardinality(For(a)) = 1
  <2>1. <<a.package, "ghsa">> \in listed
    <3> HIDE DEF severe, listed
    <3> QED
      BY <1>1
  <2>2. PICK i \in DOMAIN entries : KeyOf(entries[i]) = <<a.package, "ghsa">>
    BY <2>1
  <2>3. ASSUME NEW j \in For(a), j # i
        PROVE  FALSE
    <3>1. j \in DOMAIN entries /\ KeyOf(entries[j]) = <<a.package, "ghsa">> /\ KeyOf(entries[i]) = KeyOf(entries[j])
      BY <2>2
    <3>2. i \in Nat /\ j \in Nat /\ i >= 1 /\ j >= 1
      BY <1>3, <3>1
    <3>3. CASE i < j
      <4>1. i \in 1 .. j - 1
        BY <3>2, <3>3
      <4>2. BadEntry(entries, j)
        BY <1>4, <3>1, <4>1 DEF BadEntry
      <4> QED
        BY <1>1, <3>1, <4>2
    <3>4. CASE j < i
      <4>1. j \in 1 .. i - 1
        BY <3>2, <3>4
      <4>2. BadEntry(entries, i)
        BY <1>4, <3>1, <4>1 DEF BadEntry
      <4> QED
        BY <1>1, <4>2
    <3> QED
      BY <2>3, <3>2, <3>3, <3>4
  <2>4. For(a) = {i}
    BY <2>2, <2>3
  <2> QED
    BY <2>4, FS_Singleton
<1>10. ASSUME NEW i \in DOMAIN entries
       PROVE  \E a \in severe : i \in For(a)
  <2>1. KeyOf(entries[i]) \in listed
    BY <1>4
  <2> HIDE DEF severe, listed
  <2>2. PICK a \in severe : KeyOf(entries[i]) = <<a.package, a.id>>
    BY <1>1, <2>1
  <2>3. a.id = "ghsa"
    BY <1>1
  <2> QED
    BY <2>2, <2>3
<1>11. ASSUME NEW p \in AuditedPackages, Severe(report[p].severity)
       PROVE  \E a \in severe : DependsOn(report, p, a.package)
  <2>1. PICK a \in resolveConcreteAdvisories(report, p) : Severe(a.severity)
    BY <1>1, <1>11
  <2>2. PICK q \in Reached(report, p) : a \in report[q].advisories
    BY DEF resolveConcreteAdvisories
  <2>3. q \in AuditedPackages
    BY <1>6, ReachedIsADependency
  <2>4. a.package = q /\ a \in severe
    BY <1>5, <2>1, <2>2, <2>3 DEF collectConcreteAdvisories
  <2>5. ASSUME NEW closed \in SUBSET AuditedPackages, p \in closed, \A x \in closed : report[x].via \subseteq closed
        PROVE  q \in closed
    BY <2>5, ReachedIsADependency
  <2>6. DependsOn(report, p, q)
    BY <2>5 DEF DependsOn
  <2> QED
    BY <2>4, <2>6
<1>12. \A a \in severe : /\ a.id = "ghsa" /\ a.severity = "high"
                         /\ Cardinality(For(a)) = 1 /\ \A i \in For(a) : Sound(entries[i])
  <2> HIDE DEF severe, Sound
  <2>1. \A a \in severe : \A i \in For(a) : Sound(entries[i])
    BY <1>4
  <2> HIDE DEF For
  <2> QED
    BY <1>1, <1>8, <1>9, <2>1
<1> HIDE DEF severe, For, Sound
<1>13. /\ \A i \in DOMAIN entries : \E a \in severe : i \in For(a)
       /\ \A p \in AuditedPackages : Severe(report[p].severity) => \E a \in severe : DependsOn(report, p, a.package)
  BY <1>10, <1>11
<1> QED
  BY <1>12, <1>13 DEF AuditCovered, severe, For, Sound

LEMMA OutcomesAreSound == \A outcome \in AuditOutcomes : outcome.passes => outcome.covered
<1>1. ASSUME NEW report \in AuditReports, NEW entries \in Allowlists
      PROVE  LET outcome == [passes |-> runAudit(report, entries), covered |-> AuditCovered(report, entries)]
             IN  outcome.passes => outcome.covered
  BY PassedAuditIsCovered
<1> QED
  BY <1>1 DEF AuditOutcomes

-----------------------------------------------------------------------------
(* The release gate: the inductive invariant *)

\* The record of a run.
Phases == {"idle", "printed", "running", "cleanup", "done", "killed"}
Results == {"PASS", "FAIL", "BLOCKED"}
Gates ==
  [phase : Phases, sections : SUBSET ALL_SECTIONS, at : Nat, results : Seq(Results),
   started : SUBSET Containers, services : BOOLEAN, exit : 0 .. 2]

\* The guard vouched for every tree it passed.
CheckedTreesKeep == \A tree \in freezeChecked : KeepsFreeze(tree)

\* While the gate runs, every step before the current one passed; a run that is over has
\* a result for every step of the plan.
ResultsFollowThePlan ==
  /\ verification.phase = "idle" => verification.results = <<>>
  /\ verification.phase = "running" =>
       /\ verification.at \in 1 .. Len(Plan) /\ Len(verification.results) = verification.at - 1
       /\ \A i \in DOMAIN verification.results : verification.results[i] = "PASS"
  /\ verification.phase \in {"cleanup", "done"} => Len(verification.results) = Len(Plan)

\* A step that passed did its work.
PassedStepsVouch ==
  verification.phase \in {"running", "cleanup", "done"} =>
    \A i \in DOMAIN verification.results : verification.results[i] = "PASS" =>
      /\ Plan[i].type = "freeze" => freezeChecked # {}
      /\ Plan[i].type = "audit" => audited

\* Until the services are up only the step that starts them leaves containers, and a run
\* that ends with containers nobody counts as services has a failed step.
ContainersAreKnown ==
  /\ verification.phase \in {"idle", "printed"} => containers = {} /\ verification.started = {} /\ ~verification.services
  /\ verification.phase = "running" /\ ~verification.services =>
       /\ containers \subseteq verification.started
       /\ verification.started # {} => Step.type = "start-services"
  /\ verification.phase = "cleanup" /\ ~verification.services /\ containers # {} =>
       \E i \in DOMAIN verification.results : verification.results[i] = "FAIL"

\* What the exit code says of a run that is done.
ExitCodeIsHonest ==
  verification.phase = "done" =>
    /\ verification.exit # 1 => containers = {}
    /\ verification.exit = 0 => \A i \in DOMAIN verification.results : verification.results[i] = "PASS"

\* The inductive invariant of the release gate.
GateIInv ==
  /\ GateTypeOK /\ verification \in Gates
  /\ CheckedTreesKeep /\ ResultsFollowThePlan /\ PassedStepsVouch /\ ContainersAreKnown /\ ExitCodeIsHonest

-----------------------------------------------------------------------------
(* The plan *)

\* The sections and the types of the plan's steps.
LEMMA FullPlanIs ==
  /\ DOMAIN FullPlan = 1 .. 11
  /\ \A i \in 1 .. 11 : FullPlan[i].section \in ALL_SECTIONS \union {"preflight"}
  /\ FullPlan[1].section = "preflight"
  /\ FullPlan[3].section = "policy" /\ FullPlan[3].type = "freeze"
  /\ FullPlan[11].section = "release" /\ FullPlan[11].type = "freeze"
  /\ FullPlan[4].section = "policy" /\ FullPlan[4].type = "audit"
  /\ \A i \in 1 .. 11 : FullPlan[i].type = "audit" => i = 4
<1> DEFINE a == internalStep("preflight", "version")
           p == PolicyAndBackendSteps
           r == FrontendAndReleaseSteps
<1>1. /\ Len(p) = 6 /\ Len(r) = 4 /\ Len(<<a>>) = 1 /\ <<a>>[1] = a
  BY DEF PolicyAndBackendSteps, FrontendAndReleaseSteps
<1>2. /\ p[1] = commandStep("policy", "local") /\ p[2] = internalStep("policy", "freeze")
      /\ p[3] = [commandStep("policy", "local") EXCEPT !.type = "audit"]
      /\ p[4] = commandStep("backend", "local") /\ p[5] = internalStep("backend", "start-services")
      /\ p[6] = commandStep("backend", "backend-test")
  BY DEF PolicyAndBackendSteps
<1>3. /\ r[1] = commandStep("frontend", "frontend") /\ r[2] = commandStep("release", "compose")
      /\ r[3] = internalStep("release", "gitleaks") /\ r[4] = internalStep("release", "freeze")
  BY DEF FrontendAndReleaseSteps
<1>4. /\ p \in Seq({p[1], p[2], p[3], p[4], p[5], p[6]}) /\ r \in Seq({r[1], r[2], r[3], r[4]}) /\ <<a>> \in Seq({a})
  <2>1. p = <<p[1], p[2], p[3], p[4], p[5], p[6]>>
    BY DEF PolicyAndBackendSteps
  <2>2. r = <<r[1], r[2], r[3], r[4]>>
    BY DEF FrontendAndReleaseSteps
  <2> HIDE DEF p, r, a
  <2> DEFINE P == {p[1], p[2], p[3], p[4], p[5], p[6]}
             R == {r[1], r[2], r[3], r[4]}
  <2>3. <<p[1], p[2], p[3], p[4], p[5], p[6]>> \in Seq(P)
    OBVIOUS
  <2>4. <<r[1], r[2], r[3], r[4]>> \in Seq(R)
    OBVIOUS
  <2> HIDE DEF P, R
  <2>5. p \in Seq(P) /\ r \in Seq(R)
    BY <2>1, <2>2, <2>3, <2>4
  <2> QED
    BY <2>5 DEF P, R
<1>5. FullPlan = <<a>> \o p \o r
  BY DEF FullPlan
<1> HIDE DEF a, p, r
<1> DEFINE U == {a, p[1], p[2], p[3], p[4], p[5], p[6], r[1], r[2], r[3], r[4]}
<1>6. p \in Seq(U) /\ r \in Seq(U) /\ <<a>> \in Seq(U)
  BY <1>1, <1>4
<1> HIDE DEF U
<1>7. /\ Len(FullPlan) = 11 /\ DOMAIN FullPlan = 1 .. 11
      /\ FullPlan[1] = a /\ FullPlan[2] = p[1] /\ FullPlan[3] = p[2] /\ FullPlan[4] = p[3] /\ FullPlan[5] = p[4]
      /\ FullPlan[6] = p[5] /\ FullPlan[7] = p[6] /\ FullPlan[8] = r[1] /\ FullPlan[9] = r[2] /\ FullPlan[10] = r[3]
      /\ FullPlan[11] = r[4]
  <2> DEFINE q == <<a>> \o p
  <2>1. /\ q \in Seq(U) /\ Len(q) = 7
        /\ q[1] = a /\ q[2] = p[1] /\ q[3] = p[2] /\ q[4] = p[3] /\ q[5] = p[4] /\ q[6] = p[5] /\ q[7] = p[6]
    <3>0. /\ q \in Seq(U) /\ Len(q) = Len(<<a>>) + Len(p)
          /\ \A i \in 1 .. Len(<<a>>) + Len(p) : q[i] = IF i <= Len(<<a>>) THEN <<a>>[i] ELSE p[i - Len(<<a>>)]
      BY <1>6, ConcatProperties
    <3>1. /\ q \in Seq(U) /\ Len(q) = 7
      BY <1>1, <3>0
    <3>2. \A i \in 1 .. 7 : q[i] = IF i <= 1 THEN <<a>>[i] ELSE p[i - 1]
      BY <1>1, <3>0
    <3> HIDE DEF q
    <3> QED
      BY <1>1, <3>1, <3>2
  <2> HIDE DEF q
  <2>2. FullPlan = q \o r
    BY <1>5 DEF q
  <2>3. /\ FullPlan \in Seq(U) /\ Len(FullPlan) = Len(q) + Len(r)
        /\ \A i \in 1 .. Len(q) + Len(r) : FullPlan[i] = IF i <= Len(q) THEN q[i] ELSE r[i - Len(q)]
    BY <1>6, <2>1, <2>2, ConcatProperties
  <2>4. /\ FullPlan \in Seq(U) /\ Len(FullPlan) = 11
        /\ \A i \in 1 .. 11 : FullPlan[i] = IF i <= 7 THEN q[i] ELSE r[i - 7]
    BY <1>1, <2>1, <2>3
  <2>5. /\ FullPlan[1] = q[1] /\ FullPlan[2] = q[2] /\ FullPlan[3] = q[3] /\ FullPlan[4] = q[4] /\ FullPlan[5] = q[5]
        /\ FullPlan[6] = q[6] /\ FullPlan[7] = q[7] /\ FullPlan[8] = r[1] /\ FullPlan[9] = r[2] /\ FullPlan[10] = r[3]
        /\ FullPlan[11] = r[4]
    BY <2>4
  <2> QED
    BY <2>1, <2>4, <2>5
<1>8. \A s, e : /\ commandStep(s, e).section = s /\ commandStep(s, e).type = "command"
                /\ internalStep(s, e).section = s /\ internalStep(s, e).type = e
  BY DEF commandStep, internalStep
<1>9. p[3].section = "policy" /\ p[3].type = "audit"
  BY <1>2 DEF commandStep
<1>10. /\ FullPlan[1].section = "preflight" /\ FullPlan[1].type = "version"
       /\ FullPlan[2].section = "policy" /\ FullPlan[2].type = "command"
       /\ FullPlan[3].section = "policy" /\ FullPlan[3].type = "freeze"
       /\ FullPlan[4].section = "policy" /\ FullPlan[4].type = "audit"
       /\ FullPlan[5].section = "backend" /\ FullPlan[5].type = "command"
       /\ FullPlan[6].section = "backend" /\ FullPlan[6].type = "start-services"
       /\ FullPlan[7].section = "backend" /\ FullPlan[7].type = "command"
       /\ FullPlan[8].section = "frontend" /\ FullPlan[8].type = "command"
       /\ FullPlan[9].section = "release" /\ FullPlan[9].type = "command"
       /\ FullPlan[10].section = "release" /\ FullPlan[10].type = "gitleaks"
       /\ FullPlan[11].section = "release" /\ FullPlan[11].type = "freeze"
  BY <1>2, <1>3, <1>7, <1>8, <1>9 DEF a
<1>11. \A i \in 1 .. 11 : i \in {1, 2, 3, 4, 5, 6, 7, 8, 9, 10, 11}
  OBVIOUS
<1>12. \A i \in 1 .. 11 : FullPlan[i].section \in ALL_SECTIONS \union {"preflight"}
  BY <1>10, <1>11 DEF ALL_SECTIONS
<1>13. \A i \in 1 .. 11 : FullPlan[i].type = "audit" => i = 4
  BY <1>10, <1>11
<1> QED
  BY <1>7, <1>10, <1>12, <1>13

\* A plan has steps; it has a freeze step and one audit where the sections call for them.
LEMMA PlanIs ==
  ASSUME NEW sections \in SUBSET ALL_SECTIONS
  PROVE  LET plan == createPlan(sections)
         IN  /\ Len(plan) \in Nat \ {0} /\ DOMAIN plan = 1 .. Len(plan)
             /\ \A i, j \in DOMAIN plan : plan[i].type = "audit" /\ plan[j].type = "audit" => i = j
             /\ sections \intersect {"policy", "release"} # {} => \E i \in DOMAIN plan : plan[i].type = "freeze"
             /\ "policy" \in sections => \E i \in DOMAIN plan : plan[i].type = "audit"
<1> DEFINE plan == createPlan(sections)
           K == {i \in DOMAIN FullPlan : FullPlan[i].section \in sections \union {"preflight"}}
           c == Cardinality(K)
<1>1. K \in SUBSET (1 .. 11) /\ 1 \in K
  BY FullPlanIs
<1>2. /\ "policy" \in sections => 3 \in K /\ 4 \in K
      /\ "release" \in sections => 11 \in K
  BY FullPlanIs
<1>3. plan = [n \in 1 .. c |-> FullPlan[Nth(K, n)]]
  BY DEF createPlan, Subsequence
<1> HIDE DEF K
<1>4. /\ IsFiniteSet(K) /\ c \in Nat
      /\ \A i \in K : Rank(K, i) \in 1 .. c
      /\ \A i, j \in K : i < j => Rank(K, i) < Rank(K, j)
      /\ \A n \in 1 .. c : Nth(K, n) \in K /\ Rank(K, Nth(K, n)) = n
  BY <1>1, RanksCount
<1>5. ASSUME NEW i \in K
      PROVE  Nth(K, Rank(K, i)) = i
  <2> DEFINE k == Nth(K, Rank(K, i))
  <2>1. k \in K /\ Rank(K, k) = Rank(K, i)
    BY <1>4
  <2>2. k \in Nat /\ i \in Nat
    <3>1. \A l \in K : l \in Nat
      BY <1>1
    <3> QED
      BY <2>1, <3>1
  <2>3. Rank(K, i) \in Nat /\ Rank(K, k) \in Nat
    BY <1>4, <2>1
  <2> HIDE DEF k
  <2>4. ~(k < i) /\ ~(i < k)
    BY <1>4, <2>1, <2>3
  <2> QED
    BY <2>2, <2>4 DEF k
<1>6. c # 0
  <2>1. Rank(K, 1) \in 1 .. c
    BY <1>1, <1>4
  <2> QED
    BY <1>4, <2>1
<1> HIDE DEF c
<1>7. Len(plan) = c /\ DOMAIN plan = 1 .. c
  BY <1>3, <1>4
<1>8. \A i \in K : \E n \in DOMAIN plan : plan[n] = FullPlan[i]
  BY <1>3, <1>4, <1>5, <1>7
<1>9. \A i, j \in DOMAIN plan : plan[i].type = "audit" /\ plan[j].type = "audit" => i = j
  <2>1. ASSUME NEW i \in DOMAIN plan, plan[i].type = "audit"
        PROVE  Nth(K, i) = 4 /\ Rank(K, 4) = i
    <3>1. plan[i] = FullPlan[Nth(K, i)] /\ Nth(K, i) \in 1 .. 11 /\ Rank(K, Nth(K, i)) = i
      BY <1>1, <1>3, <1>4, <1>7
    <3>2. Nth(K, i) = 4
      BY <2>1, <3>1, FullPlanIs
    <3> QED
      BY <3>1, <3>2
  <2> QED
    BY <2>1
<1> HIDE DEF plan
<1>10. sections \intersect {"policy", "release"} # {} => \E i \in DOMAIN plan : plan[i].type = "freeze"
  BY <1>2, <1>8, FullPlanIs
<1>11. "policy" \in sections => \E i \in DOMAIN plan : plan[i].type = "audit"
  BY <1>2, <1>8, FullPlanIs
<1> QED
  BY <1>4, <1>6, <1>7, <1>9, <1>10, <1>11 DEF plan

-----------------------------------------------------------------------------
(* The checkout *)

\* A piece of a sequence, and its length.
LEMMA PieceOfText ==
  ASSUME NEW K, NEW s \in Seq(K), NEW m \in Nat \ {0}, NEW n \in Int, n <= Len(s)
  PROVE  /\ SubSeq(s, m, n) \in Seq(K)
         /\ Len(SubSeq(s, m, n)) = IF m <= n THEN n - m + 1 ELSE 0
<1>1. \A i \in m .. n : s[i] \in K
  OBVIOUS
<1>2. m \in Int
  OBVIOUS
<1> QED
  BY <1>1, <1>2, SubSeqProperties

\* An edited text is a text.
LEMMA EditsAreTexts ==
  ASSUME NEW lines \in Seq(LineKinds)
  PROVE  EditedTexts(lines) \subseteq Seq(LineKinds)
<1> DEFINE L == Len(lines)
           Without(i) == SubSeq(lines, 1, i - 1) \o SubSeq(lines, i + 1, Len(lines))
<1>1. L \in Nat /\ \A i \in DOMAIN lines : i \in 1 .. L /\ lines[i] \in LineKinds
  OBVIOUS
<1>2. ASSUME NEW i \in 0 .. L, NEW k \in EditKinds
      PROVE  SubSeq(lines, 1, i) \o <<k>> \o SubSeq(lines, i + 1, Len(lines)) \in Seq(LineKinds)
  <2>1. SubSeq(lines, 1, i) \in Seq(LineKinds)
    BY <1>1, PieceOfText
  <2>2. SubSeq(lines, i + 1, Len(lines)) \in Seq(LineKinds)
    BY <1>1, PieceOfText
  <2>3. <<k>> \in Seq(LineKinds)
    BY GateAssumption
  <2> QED
    BY <2>1, <2>2, <2>3
<1>3. ASSUME NEW i \in DOMAIN lines
      PROVE  Without(i) \in Seq(LineKinds) /\ Len(Without(i)) = L - 1
  <2>1. SubSeq(lines, 1, i - 1) \in Seq(LineKinds) /\ Len(SubSeq(lines, 1, i - 1)) = i - 1
    BY <1>1, PieceOfText
  <2>2. SubSeq(lines, i + 1, L) \in Seq(LineKinds) /\ Len(SubSeq(lines, i + 1, L)) = L - i
    <3>1. i + 1 \in Nat \ {0} /\ L \in Int /\ L <= Len(lines) /\ i <= L /\ i \in Nat
      BY <1>1
    <3>2. /\ SubSeq(lines, i + 1, L) \in Seq(LineKinds)
          /\ Len(SubSeq(lines, i + 1, L)) = IF i + 1 <= L THEN L - (i + 1) + 1 ELSE 0
      BY <3>1, PieceOfText
    <3> HIDE DEF L
    <3> QED
      BY <3>1, <3>2
  <2>3. /\ Without(i) \in Seq(LineKinds)
        /\ Len(Without(i)) = Len(SubSeq(lines, 1, i - 1)) + Len(SubSeq(lines, i + 1, L))
    BY <2>1, <2>2, ConcatProperties
  <2>4. i \in Int /\ (i - 1) + (L - i) = L - 1
    BY <1>1
  <2> HIDE DEF Without, L
  <2>5. Len(Without(i)) = (i - 1) + (L - i)
    BY <2>1, <2>2, <2>3
  <2> QED
    BY <2>3, <2>4, <2>5
<1> HIDE DEF Without
<1>4. ASSUME NEW i \in DOMAIN lines, NEW j \in 0 .. L - 1
      PROVE  SubSeq(Without(i), 1, j) \o <<lines[i]>> \o SubSeq(Without(i), j + 1, L - 1) \in Seq(LineKinds)
  <2>1. Without(i) \in Seq(LineKinds) /\ Len(Without(i)) = L - 1
    BY <1>3
  <2>2. SubSeq(Without(i), 1, j) \in Seq(LineKinds)
    BY <1>1, <2>1, PieceOfText
  <2>3. SubSeq(Without(i), j + 1, L - 1) \in Seq(LineKinds)
    BY <1>1, <2>1, PieceOfText
  <2>4. <<lines[i]>> \in Seq(LineKinds)
    BY <1>1
  <2> QED
    BY <2>2, <2>3, <2>4
<1> DEFINE TypedAt(i, k) == SubSeq(lines, 1, i) \o <<k>> \o SubSeq(lines, i + 1, Len(lines))
           MovedTo(i, j) == SubSeq(Without(i), 1, j) \o <<lines[i]>> \o SubSeq(Without(i), j + 1, L - 1)
           Typed == {TypedAt(i, k) : i \in 0 .. L, k \in EditKinds}
           Moved == {MovedTo(i, j) : i \in DOMAIN lines, j \in 0 .. L - 1}
<1>5. EditedTexts(lines) = Typed \union {Without(i) : i \in DOMAIN lines} \union Moved
  BY DEF EditedTexts, Without
<1>6. Typed \subseteq Seq(LineKinds) /\ Moved \subseteq Seq(LineKinds)
  <2>1. /\ \A i \in 0 .. L, k \in EditKinds : TypedAt(i, k) \in Seq(LineKinds)
        /\ \A i \in DOMAIN lines, j \in 0 .. L - 1 : MovedTo(i, j) \in Seq(LineKinds)
    BY <1>2, <1>4
  <2> HIDE DEF TypedAt, MovedTo, L
  <2> QED
    BY <2>1
<1>7. {Without(i) : i \in DOMAIN lines} \subseteq Seq(LineKinds)
  BY <1>3
<1> HIDE DEF Typed, Moved
<1> QED
  BY <1>5, <1>6, <1>7

LEMMA TrackedWorkIsATree ==
  ASSUME NEW index \in Trees, NEW work \in Trees
  PROVE  TrackedWork(index, work) \in Trees
<1>1. RepoPaths = {"frozen", "mixed", "migration", "source"}
  BY DEF RepoPaths, BaseTree
<1>2. NoFile \in Trees
  BY DEF NoFile, Trees, Texts
<1>3. /\ \A p \in {"frozen", "migration", "source"} : NoFile[p] \in Texts /\ work[p] \in Texts
      /\ NoFile["mixed"] \in Seq(LineKinds) /\ work["mixed"] \in Seq(LineKinds)
  BY <1>2 DEF Trees
<1> DEFINE t == TrackedWork(index, work)
<1>4. /\ t = [p \in RepoPaths |-> IF index[p] = NoFile[p] THEN NoFile[p] ELSE work[p]]
  BY DEF TrackedWork
<1>5. /\ t["frozen"] \in Texts /\ t["migration"] \in Texts /\ t["source"] \in Texts /\ t["mixed"] \in Seq(LineKinds)
  BY <1>1, <1>3, <1>4
<1>6. t = [frozen |-> t["frozen"], mixed |-> t["mixed"], migration |-> t["migration"], source |-> t["source"]]
  BY <1>1, <1>4
<1> HIDE DEF t
<1>7. t \in Trees
  BY <1>5, <1>6 DEF Trees
<1> QED
  BY <1>7 DEF t

\* The commit the frozen file is compared with is a tree.
LEMMA BaseIsATree == BaseTree \in Trees
BY FreezeAssumption DEF BaseTree, Trees, Texts, Absent

-----------------------------------------------------------------------------
(* Results *)

\* Recording a result: the next step after a pass, cleanup after the last step or a failure.
LEMMA RecordedIs ==
  ASSUME NEW g \in Gates, NEW n \in Nat, n = Len(Plan), g.at \in 1 .. n, Len(g.results) = g.at - 1,
         \A i \in DOMAIN g.results : g.results[i] = "PASS", NEW result \in Results
  PROVE  LET h == Recorded(g, result)
         IN  /\ h \in Gates
             /\ h.sections = g.sections /\ h.started = g.started /\ h.services = g.services /\ h.exit = g.exit
             /\ \/ /\ result = "PASS" /\ h.phase = g.phase /\ h.at = g.at + 1 /\ h.at <= n
                   /\ Len(h.results) = g.at /\ \A i \in DOMAIN h.results : h.results[i] = "PASS"
                \/ h.phase = "cleanup" /\ Len(h.results) = n
             /\ \A i \in DOMAIN h.results : h.results[i] = "PASS" =>
                  i \in DOMAIN g.results \/ (i = g.at /\ result = "PASS")
             /\ g.at \in DOMAIN h.results /\ h.results[g.at] = result
<1> DEFINE h == Recorded(g, result)
           skipped == [k \in 1 .. n - g.at |-> "BLOCKED"]
           one == Append(g.results, result)
           rest == IF result = "PASS" THEN <<>> ELSE skipped
           all == one \o rest
<1>1. /\ g.phase \in Phases /\ g.sections \subseteq ALL_SECTIONS /\ g.at \in Nat /\ g.results \in Seq(Results)
      /\ g.started \subseteq Containers /\ g.services \in BOOLEAN /\ g.exit \in 0 .. 2
      /\ g.at >= 1 /\ g.at <= n
  BY DEF Gates
<1>2. one \in Seq(Results) /\ Len(one) = g.at /\ one[g.at] = result /\ \A i \in 1 .. g.at - 1 : one[i] = "PASS"
  BY <1>1
<1>3. h = IF result = "PASS" /\ g.at < n
          THEN [g EXCEPT !.at = g.at + 1, !.results = one]
          ELSE [g EXCEPT !.phase = "cleanup", !.results = all]
  BY DEF Recorded
<1>4. DOMAIN g.results = 1 .. g.at - 1 /\ DOMAIN one = 1 .. g.at
  BY <1>1, <1>2
<1>5. rest \in Seq(Results) /\ Len(rest) = (IF result = "PASS" THEN 0 ELSE n - g.at)
      /\ \A k \in 1 .. Len(rest) : rest[k] = "BLOCKED"
  <2>1. CASE result = "PASS"
    BY <2>1
  <2>2. CASE result # "PASS"
    <3>1. n - g.at \in Nat
      BY <1>1
    <3>2. skipped \in [1 .. n - g.at -> Results]
      BY DEF Results
    <3>3. skipped \in Seq(Results) /\ Len(skipped) = n - g.at
      BY <3>1, <3>2
    <3> QED
      BY <2>2, <3>3
  <2> QED
    BY <2>1, <2>2
<1> HIDE DEF one, rest
<1>6. /\ all \in Seq(Results) /\ Len(all) = Len(one) + Len(rest)
      /\ \A i \in 1 .. Len(one) + Len(rest) : all[i] = IF i <= Len(one) THEN one[i] ELSE rest[i - Len(one)]
  <2>1. /\ one \o rest \in Seq(Results) /\ Len(one \o rest) = Len(one) + Len(rest)
        /\ \A i \in 1 .. Len(one) + Len(rest) :
             (one \o rest)[i] = IF i <= Len(one) THEN one[i] ELSE rest[i - Len(one)]
    <3>1. one \in Seq(Results) /\ rest \in Seq(Results)
      BY <1>2, <1>5
    <3> QED
      BY <3>1, ConcatProperties
  <2> QED
    BY <2>1
<1> HIDE DEF all
<1>7. CASE result = "PASS" /\ g.at < n
  <2>1. h = [g EXCEPT !.at = g.at + 1, !.results = one]
    BY <1>3, <1>7
  <2>2. h \in Gates
    <3>1. g.at + 1 \in Nat
      BY <1>1
    <3>2. h = [phase |-> g.phase, sections |-> g.sections, at |-> g.at + 1, results |-> one,
               started |-> g.started, services |-> g.services, exit |-> g.exit]
      BY <2>1 DEF Gates
    <3> QED
      BY <1>1, <1>2, <3>1, <3>2 DEF Gates
  <2>3. /\ h.sections = g.sections /\ h.started = g.started /\ h.services = g.services /\ h.exit = g.exit
        /\ h.phase = g.phase /\ h.at = g.at + 1 /\ h.results = one
    BY <2>1 DEF Gates
  <2> HIDE DEF h
  <2>4. h.at <= n /\ \A i \in DOMAIN h.results : h.results[i] = "PASS"
    <3>1. \A i \in 1 .. g.at : i \in 1 .. g.at - 1 \/ i = g.at
      BY <1>1
    <3> QED
      BY <1>1, <1>2, <1>4, <1>7, <2>3, <3>1
  <2>5. \A i \in DOMAIN h.results : i \in DOMAIN g.results \/ i = g.at
    BY <1>1, <1>4, <2>3
  <2>6. g.at \in DOMAIN h.results
    BY <1>1, <1>4, <2>3
  <2> QED
    BY <1>2, <1>7, <2>2, <2>3, <2>4, <2>5, <2>6 DEF h
<1>8. CASE ~(result = "PASS" /\ g.at < n)
  <2>1. h = [g EXCEPT !.phase = "cleanup", !.results = all]
    BY <1>3, <1>8
  <2>2. h \in Gates
    BY <1>1, <1>6, <2>1 DEF Gates, Phases
  <2>3. /\ h.sections = g.sections /\ h.started = g.started /\ h.services = g.services /\ h.exit = g.exit
        /\ h.phase = "cleanup" /\ h.results = all
    BY <2>1 DEF Gates
  <2> HIDE DEF h
  <2>4. Len(all) = n
    <3>1. CASE result = "PASS"
      BY <1>1, <1>2, <1>5, <1>6, <1>8, <3>1
    <3>2. CASE result # "PASS"
      BY <1>1, <1>2, <1>5, <1>6, <3>2
    <3> QED
      BY <3>1, <3>2
  <2>5. DOMAIN all = 1 .. n
    BY <1>6, <2>4
  <2>6. ASSUME NEW i \in DOMAIN all, all[i] = "PASS"
        PROVE  i \in DOMAIN g.results \/ (i = g.at /\ result = "PASS")
    <3>1. i \in Nat /\ i >= 1 /\ i <= n /\ Len(one) = g.at /\ g.at \in Nat
      BY <1>1, <1>2, <2>5
    <3>2. i <= g.at
      <4>1. SUFFICES ASSUME i > g.at
                     PROVE  FALSE
        BY <3>1
      <4>2. i \in 1 .. Len(one) + Len(rest) /\ i - Len(one) \in 1 .. Len(rest)
        BY <1>5, <1>6, <2>4, <3>1, <4>1
      <4>3. all[i] = rest[i - Len(one)]
        BY <1>6, <3>1, <4>1, <4>2
      <4> QED
        BY <1>5, <2>6, <4>2, <4>3
    <3>3. all[i] = one[i]
      BY <1>5, <1>6, <2>4, <3>1, <3>2
    <3>4. CASE i = g.at
      BY <1>2, <2>6, <3>3, <3>4
    <3>5. CASE i # g.at
      BY <1>4, <3>1, <3>2, <3>5
    <3> QED
      BY <3>4, <3>5
  <2>7. g.at \in DOMAIN all /\ all[g.at] = result
    <3>1. g.at \in 1 .. n /\ g.at <= Len(one)
      BY <1>1, <1>2
    <3>2. all[g.at] = one[g.at]
      BY <1>6, <2>4, <3>1
    <3> QED
      BY <1>2, <2>5, <3>1, <3>2
  <2> QED
    BY <2>2, <2>3, <2>4, <2>6, <2>7 DEF h
<1> QED
  BY <1>7, <1>8

\* The plan of the chosen sections has at least the preflight step, and the steps its sections ask for.
LEMMA PlanOfTheRun ==
  ASSUME verification \in Gates
  PROVE  /\ Len(Plan) \in Nat \ {0} /\ DOMAIN Plan = 1 .. Len(Plan)
         /\ \A i, j \in DOMAIN Plan : Plan[i].type = "audit" /\ Plan[j].type = "audit" => i = j
         /\ verification.sections \intersect {"policy", "release"} # {} => \E i \in DOMAIN Plan : Plan[i].type = "freeze"
         /\ "policy" \in verification.sections => \E i \in DOMAIN Plan : Plan[i].type = "audit"
<1>1. verification.sections \in SUBSET ALL_SECTIONS
  BY DEF Gates
<1> QED
  BY <1>1, PlanIs DEF Plan

\* A step that records a result and does what the result says of it.
LEMMA RecordingStep ==
  ASSUME GateIInv, verification.phase = "running",
         NEW g \in Gates, g.phase = "running", g.sections = verification.sections,
         g.at = verification.at, g.results = verification.results,
         NEW result \in Results, verification' = Recorded(g, result),
         freezeChecked # {} => freezeChecked' # {},
         Step.type = "freeze" /\ result = "PASS" => freezeChecked' # {},
         Step.type = "audit" /\ result = "PASS" => audited',
         Step.type # "audit" => audited' = audited
  PROVE  /\ verification' \in Gates /\ Plan' = Plan
         /\ verification'.started = g.started /\ verification'.services = g.services
         /\ verification'.phase \in {"running", "cleanup"} /\ verification'.exit \in 0 .. 2
         /\ result = "FAIL" => /\ verification'.phase = "cleanup"
                               /\ \E i \in DOMAIN verification'.results : verification'.results[i] = "FAIL"
         /\ ResultsFollowThePlan' /\ PassedStepsVouch' /\ ExitCodeIsHonest'
<1> DEFINE h == Recorded(g, result)
           n == Len(Plan)
<1>1. /\ verification \in Gates /\ n \in Nat /\ DOMAIN Plan = 1 .. n
      /\ \A i, j \in DOMAIN Plan : Plan[i].type = "audit" /\ Plan[j].type = "audit" => i = j
  BY PlanOfTheRun DEF GateIInv
<1>2. /\ g.at \in 1 .. n /\ Len(g.results) = g.at - 1
      /\ \A i \in DOMAIN g.results : g.results[i] = "PASS"
  BY DEF GateIInv, ResultsFollowThePlan
<1>3. \A i \in DOMAIN g.results :
        /\ Plan[i].type = "freeze" => freezeChecked # {}
        /\ Plan[i].type = "audit" => audited
  BY <1>2 DEF GateIInv, PassedStepsVouch
<1> HIDE DEF n
<1>4. /\ h \in Gates
      /\ h.sections = g.sections /\ h.started = g.started /\ h.services = g.services /\ h.exit = g.exit
      /\ \/ /\ result = "PASS" /\ h.phase = g.phase /\ h.at = g.at + 1 /\ h.at <= n
            /\ Len(h.results) = g.at /\ \A i \in DOMAIN h.results : h.results[i] = "PASS"
         \/ h.phase = "cleanup" /\ Len(h.results) = n
      /\ \A i \in DOMAIN h.results : h.results[i] = "PASS" =>
           i \in DOMAIN g.results \/ (i = g.at /\ result = "PASS")
      /\ g.at \in DOMAIN h.results /\ h.results[g.at] = result
  BY <1>1, <1>2, RecordedIs DEF n
<1>5. verification' = h
  OBVIOUS
<1> HIDE DEF h
<1>6. Plan' = Plan
  BY <1>4, <1>5 DEF Plan
<1>7. DOMAIN g.results = 1 .. g.at - 1 /\ g.at \in Nat
  BY <1>1, <1>2 DEF Gates
<1>8. ResultsFollowThePlan'
  <2>1. CASE /\ result = "PASS" /\ h.phase = g.phase /\ h.at = g.at + 1 /\ h.at <= n
             /\ Len(h.results) = g.at /\ \A i \in DOMAIN h.results : h.results[i] = "PASS"
    <3>1. h.at \in 1 .. n /\ Len(h.results) = h.at - 1 /\ h.phase = "running"
      BY <1>1, <1>7, <2>1
    <3> QED
      BY <1>5, <1>6, <2>1, <3>1 DEF ResultsFollowThePlan, n
  <2>2. CASE h.phase = "cleanup" /\ Len(h.results) = n
    BY <1>5, <1>6, <2>2 DEF ResultsFollowThePlan, n
  <2> QED
    BY <1>4, <2>1, <2>2
<1>9. PassedStepsVouch'
  <2>1. ASSUME NEW i \in DOMAIN h.results, h.results[i] = "PASS"
        PROVE  /\ Plan[i].type = "freeze" => freezeChecked' # {}
               /\ Plan[i].type = "audit" => audited'
    <3>1. CASE i = g.at /\ result = "PASS"
      BY <3>1 DEF Step
    <3>2. CASE i \in DOMAIN g.results
      <4>1. Plan[i].type = "freeze" => freezeChecked' # {}
        BY <1>3, <3>2
      <4>2. ASSUME Plan[i].type = "audit"
            PROVE  audited'
        <5>1. audited
          BY <1>3, <3>2, <4>2
        <5>2. i # g.at /\ i \in DOMAIN Plan /\ g.at \in DOMAIN Plan
          BY <1>1, <1>2, <1>7, <3>2
        <5>3. Plan[g.at].type # "audit"
          BY <1>1, <4>2, <5>2
        <5> QED
          BY <5>1, <5>3 DEF Step
      <4> QED
        BY <4>1, <4>2
    <3> QED
      BY <1>4, <2>1, <3>1, <3>2
  <2> QED
    BY <1>5, <1>6, <2>1 DEF PassedStepsVouch
<1>10. h.phase \in {"running", "cleanup"}
  BY <1>4
<1>11. ExitCodeIsHonest'
  BY <1>5, <1>10 DEF ExitCodeIsHonest
<1>12. h.exit \in 0 .. 2
  BY <1>4 DEF Gates
<1>13. result = "FAIL" => h.phase = "cleanup" /\ \E i \in DOMAIN h.results : h.results[i] = "FAIL"
  BY <1>4
<1> QED
  BY <1>4, <1>5, <1>6, <1>8, <1>9, <1>10, <1>11, <1>12, <1>13

LEMMA GateStarts ==
  ASSUME GateInit
  PROVE  GateIInv
<1>1. verification = IdleGate
  BY DEF GateInit
<1>2. verification \in Gates /\ verification.phase = "idle" /\ verification.exit = 0
  <2>1. <<>> \in Seq(Results)
    OBVIOUS
  <2> QED
    BY <1>1, <2>1 DEF IdleGate, Gates, Phases
<1>3. GateTypeOK
  <2>1. {headTree, indexTree, workTree} \union freezeChecked \subseteq Trees
    BY BaseIsATree DEF GateInit
  <2>2. treeEdits \in 0 .. MaxTreeEdits
    BY GateAssumption DEF GateInit
  <2>3. containers \subseteq Containers /\ audited \in BOOLEAN
    BY DEF GateInit
  <2> QED
    BY <1>2, <2>1, <2>2, <2>3 DEF GateTypeOK
<1>4. CheckedTreesKeep
  BY DEF GateInit, CheckedTreesKeep
<1>5. ResultsFollowThePlan /\ PassedStepsVouch /\ ExitCodeIsHonest
  BY <1>1, <1>2 DEF ResultsFollowThePlan, PassedStepsVouch, ExitCodeIsHonest, IdleGate
<1>6. ContainersAreKnown
  BY <1>1, <1>2 DEF ContainersAreKnown, GateInit, IdleGate
<1> QED
  BY <1>2, <1>3, <1>4, <1>5, <1>6 DEF GateIInv

\* Where the run does not move, only the checkout can change.
LEMMA RunUnchanged ==
  ASSUME GateIInv, UNCHANGED <<verification, containers, freezeChecked, audited>>, GateTypeOK'
  PROVE  GateIInv'
<1>1. Plan' = Plan /\ Step' = Step
  BY DEF Plan, Step
<1>2. verification' \in Gates
  BY DEF GateIInv
<1>3. CheckedTreesKeep'
  BY DEF GateIInv, CheckedTreesKeep
<1>4. ResultsFollowThePlan' /\ PassedStepsVouch'
  BY <1>1 DEF GateIInv, ResultsFollowThePlan, PassedStepsVouch
<1>5. ContainersAreKnown'
  BY <1>1 DEF GateIInv, ContainersAreKnown
<1>6. ExitCodeIsHonest'
  BY DEF GateIInv, ExitCodeIsHonest
<1> QED
  BY <1>2, <1>3, <1>4, <1>5, <1>6 DEF GateIInv

\* Editing, staging and committing change the checkout, not the run.
LEMMA CheckoutStep ==
  ASSUME GateIInv, Edit \/ Stage \/ CommitIndex
  PROVE  GateIInv'
<1>1. GateTypeOK /\ headTree \in Trees /\ indexTree \in Trees /\ workTree \in Trees /\ freezeChecked \subseteq Trees
  BY DEF GateIInv, GateTypeOK
<1>2. UNCHANGED <<verification, containers, freezeChecked, audited>>
  BY DEF Edit, Stage, CommitIndex
<1>3. headTree' \in Trees /\ indexTree' \in Trees /\ workTree' \in Trees /\ treeEdits' \in 0 .. MaxTreeEdits
  <2>1. CASE Edit
    <3>1. treeEdits' \in 0 .. MaxTreeEdits
      BY <1>1, <2>1, GateAssumption DEF Edit, GateTypeOK
    <3>2. CASE \E lines \in EditedTexts(workTree.mixed) \union {<<>>} : workTree' = [workTree EXCEPT !.mixed = lines]
      <4>1. PICK lines \in EditedTexts(workTree.mixed) \union {<<>>} : workTree' = [workTree EXCEPT !.mixed = lines]
        BY <3>2
      <4>2. workTree.mixed \in Seq(LineKinds)
        BY <1>1 DEF Trees
      <4>3. EditedTexts(workTree.mixed) \subseteq Seq(LineKinds) /\ <<>> \in Seq(LineKinds)
        BY <4>2, EditsAreTexts
      <4>4. lines \in Seq(LineKinds)
        BY <4>1, <4>3
      <4>5. workTree' \in Trees
        BY <1>1, <4>1, <4>4 DEF Trees
      <4> QED
        BY <1>1, <2>1, <3>1, <4>5 DEF Edit
    <3>3. CASE \E p \in {"frozen", "migration", "source"}, t \in Texts : workTree' = [workTree EXCEPT ![p] = t]
      <4>1. workTree' \in Trees
        BY <1>1, <3>3 DEF Trees
      <4> QED
        BY <1>1, <2>1, <3>1, <4>1 DEF Edit
    <3> QED
      BY <2>1, <3>2, <3>3 DEF Edit
  <2>2. CASE Stage
    BY <1>1, <2>2 DEF Stage, GateTypeOK
  <2>3. CASE CommitIndex
    BY <1>1, <2>3 DEF CommitIndex, GateTypeOK
  <2> QED
    BY <2>1, <2>2, <2>3
<1>4. GateTypeOK'
  BY <1>1, <1>2, <1>3 DEF GateTypeOK
<1> QED
  BY <1>2, <1>4, RunUnchanged

-----------------------------------------------------------------------------
(* One lemma per action *)

\* The arguments: a run starts at the first step of its plan, with nothing started.
LEMMA ParseStep ==
  ASSUME GateIInv, parseArguments
  PROVE  GateIInv'
<1>1. /\ verification \in Gates /\ verification.phase = "idle" /\ GateTypeOK
      /\ UNCHANGED <<headTree, indexTree, workTree, treeEdits, containers, freezeChecked, audited>>
  BY DEF GateIInv, parseArguments, treeVars
<1>2. containers = {} /\ verification.started = {} /\ ~verification.services
  BY <1>1 DEF GateIInv, ContainersAreKnown
<1>3. CheckedTreesKeep'
  BY <1>1 DEF GateIInv, CheckedTreesKeep
<1>4. CASE \E chosen \in SectionChoices :
             verification' = [verification EXCEPT !.phase = "running", !.sections = chosen, !.at = 1]
  <2>1. PICK chosen \in SectionChoices :
          verification' = [verification EXCEPT !.phase = "running", !.sections = chosen, !.at = 1]
    BY <1>4
  <2>2. chosen \in SUBSET ALL_SECTIONS
    BY GateAssumption
  <2>3. /\ verification' \in Gates
        /\ verification'.phase = "running" /\ verification'.at = 1 /\ verification'.results = verification.results
        /\ verification'.started = {} /\ ~verification'.services /\ verification'.sections = chosen
        /\ verification'.exit = verification.exit
    BY <1>1, <1>2, <2>1, <2>2 DEF Gates, Phases
  <2>4. Len(Plan') \in Nat \ {0}
    BY <2>2, <2>3, PlanIs DEF Plan
  <2>5. verification.results = <<>>
    BY <1>1 DEF GateIInv, ResultsFollowThePlan
  <2>6. ResultsFollowThePlan' /\ PassedStepsVouch'
    BY <2>3, <2>4, <2>5 DEF ResultsFollowThePlan, PassedStepsVouch
  <2>7. ContainersAreKnown' /\ ExitCodeIsHonest'
    BY <1>1, <1>2, <2>3 DEF ContainersAreKnown, ExitCodeIsHonest
  <2>8. GateTypeOK'
    BY <1>1, <2>3 DEF GateTypeOK
  <2> QED
    BY <1>3, <2>3, <2>6, <2>7, <2>8 DEF GateIInv
<1>5. CASE \E code \in {0, 2} : verification' = [verification EXCEPT !.phase = "printed", !.exit = code]
  <2>1. PICK code \in {0, 2} : verification' = [verification EXCEPT !.phase = "printed", !.exit = code]
    BY <1>5
  <2>2. /\ verification' \in Gates
        /\ verification'.phase = "printed" /\ verification'.started = {} /\ ~verification'.services
        /\ verification'.exit \in 0 .. 2
    <3>1. code \in 0 .. 2
      OBVIOUS
    <3> QED
      BY <1>1, <1>2, <2>1, <3>1 DEF Gates, Phases
  <2>3. ResultsFollowThePlan' /\ PassedStepsVouch' /\ ContainersAreKnown' /\ ExitCodeIsHonest'
    BY <1>1, <1>2, <2>2 DEF ResultsFollowThePlan, PassedStepsVouch, ContainersAreKnown, ExitCodeIsHonest
  <2>4. GateTypeOK'
    BY <1>1, <2>2 DEF GateTypeOK
  <2> QED
    BY <1>3, <2>2, <2>3, <2>4 DEF GateIInv
<1> QED
  BY <1>4, <1>5 DEF parseArguments

\* What a step of the plan leaves: the run at its next step or in its cleanup.
LEMMA AfterAStep ==
  ASSUME GateIInv, UNCHANGED <<headTree, indexTree, workTree, treeEdits>>,
         freezeChecked' \subseteq Trees, CheckedTreesKeep', audited' \in BOOLEAN, containers' \subseteq Containers,
         verification' \in Gates, verification'.phase \in {"running", "cleanup"},
         ResultsFollowThePlan', PassedStepsVouch', ExitCodeIsHonest',
         \/ verification'.services
         \/ containers' = {} /\ verification'.started = {}
         \/ /\ verification'.phase = "cleanup"
            /\ \E i \in DOMAIN verification'.results : verification'.results[i] = "FAIL"
  PROVE  GateIInv'
<1>1. GateTypeOK'
  BY DEF GateIInv, GateTypeOK, Gates
<1>2. ContainersAreKnown'
  BY DEF ContainersAreKnown, Gates
<1> QED
  BY <1>1, <1>2 DEF GateIInv

\* At any step but the one that starts the services, they are up or nothing was started.
LEMMA OutsideTheStart ==
  ASSUME GateIInv, verification.phase = "running", Step.type # "start-services"
  PROVE  ~verification.services => containers = {} /\ verification.started = {}
BY DEF GateIInv, ContainersAreKnown

\* A step that changes nothing but the run, the freeze guard and the audits: it records
\* its result.
LEMMA RecordingStepKeeps ==
  ASSUME GateIInv, verification.phase = "running", Step.type # "start-services",
         NEW result \in Results, verification' = Recorded(verification, result),
         UNCHANGED <<headTree, indexTree, workTree, treeEdits, containers>>,
         freezeChecked' \subseteq Trees, CheckedTreesKeep', audited' \in BOOLEAN,
         freezeChecked # {} => freezeChecked' # {},
         Step.type = "freeze" /\ result = "PASS" => freezeChecked' # {},
         Step.type = "audit" /\ result = "PASS" => audited',
         Step.type # "audit" => audited' = audited
  PROVE  GateIInv'
<1>1. verification \in Gates /\ containers \subseteq Containers
  BY DEF GateIInv, GateTypeOK
<1>2. /\ verification' \in Gates
      /\ verification'.started = verification.started /\ verification'.services = verification.services
      /\ verification'.phase \in {"running", "cleanup"}
      /\ ResultsFollowThePlan' /\ PassedStepsVouch' /\ ExitCodeIsHonest'
  BY <1>1, RecordingStep
<1>3. ~verification'.services => containers' = {} /\ verification'.started = {}
  BY <1>2, OutsideTheStart
<1>4. containers' \subseteq Containers
  BY <1>1
<1> QED
  BY <1>2, <1>3, <1>4, AfterAStep

\* Commands, versions and gitleaks record a result.
LEMMA ExecuteStep ==
  ASSUME GateIInv, executeStep
  PROVE  GateIInv'
<1>1. /\ UNCHANGED <<headTree, indexTree, workTree, treeEdits, containers, freezeChecked, audited>>
  BY DEF executeStep, treeVars
<1>2. /\ verification.phase = "running" /\ Step.type \in {"command", "version", "gitleaks"}
      /\ \E result \in Results : verification' = Recorded(verification, result)
  <2>1. CASE AtStep("command") /\ \E result \in IF environmentFor THEN spawnCommand ELSE {"BLOCKED"} :
                                    verification' = Recorded(verification, result)
    BY <2>1 DEF AtStep, spawnCommand, Results
  <2>2. CASE AtStep("version") /\ \E result \in {"PASS", "BLOCKED"} : verification' = Recorded(verification, result)
    BY <2>2 DEF AtStep, Results
  <2>3. CASE AtStep("gitleaks") /\ \E result \in ensureGitleaks :
               \E outcome \in IF result = "PASS" THEN spawnCommand ELSE {result} :
                 verification' = Recorded(verification, outcome)
    BY <2>3 DEF AtStep, ensureGitleaks, spawnCommand, Results
  <2> QED
    BY <2>1, <2>2, <2>3 DEF executeStep
<1>3. PICK result \in Results : verification' = Recorded(verification, result)
  BY <1>2
<1>4. /\ Step.type # "start-services" /\ Step.type # "freeze" /\ Step.type # "audit"
  BY <1>2
<1>5. /\ freezeChecked' \subseteq Trees /\ CheckedTreesKeep' /\ audited' \in BOOLEAN
  BY <1>1 DEF GateIInv, GateTypeOK, CheckedTreesKeep
<1> QED
  BY <1>1, <1>2, <1>3, <1>4, <1>5, RecordingStepKeeps

\* A freeze step that passes: the guard vouches for the trees it compared.
LEMMA FreezeStepKeeps ==
  ASSUME GateIInv, FreezeStep
  PROVE  GateIInv'
<1>1. /\ UNCHANGED <<headTree, indexTree, workTree, treeEdits, containers, audited>>
      /\ verification.phase = "running" /\ Step.type = "freeze"
  BY DEF FreezeStep, treeVars, AtStep
<1>2. audited' \in BOOLEAN
  BY <1>1 DEF GateIInv, GateTypeOK
<1>3. CASE /\ checkFinancialFreeze(headTree, indexTree, workTree)
           /\ freezeChecked' = {headTree, indexTree, TrackedWork(indexTree, workTree)}
           /\ verification' = Recorded(verification, "PASS")
  <2>1. headTree \in Trees /\ indexTree \in Trees /\ workTree \in Trees
    BY DEF GateIInv, GateTypeOK
  <2>2. headTree.mixed \in Seq(LineKinds) /\ indexTree.mixed \in Seq(LineKinds) /\ workTree.mixed \in Seq(LineKinds)
    BY <2>1 DEF Trees
  <2>3. \A tree \in freezeChecked' : KeepsFreeze(tree)
    BY <1>3, <2>2, GuardKeepsFreeze
  <2>4. CheckedTreesKeep'
    BY <2>3 DEF CheckedTreesKeep
  <2>5. freezeChecked' \subseteq Trees /\ freezeChecked' # {}
    BY <1>3, <2>1, TrackedWorkIsATree
  <2>6. "PASS" \in Results
    BY DEF Results
  <2> QED
    BY <1>1, <1>2, <1>3, <2>4, <2>5, <2>6, RecordingStepKeeps
<1>4. CASE safeFailure
  <2>1. verification' = Recorded(verification, "FAIL") /\ freezeChecked' = freezeChecked
    BY <1>4 DEF safeFailure
  <2>2. freezeChecked' \subseteq Trees /\ CheckedTreesKeep'
    BY <2>1 DEF GateIInv, GateTypeOK, CheckedTreesKeep
  <2>3. "FAIL" \in Results
    BY DEF Results
  <2> QED
    BY <1>1, <1>2, <2>1, <2>2, <2>3, RecordingStepKeeps
<1> QED
  BY <1>3, <1>4 DEF FreezeStep

\* The audit's step passes on a passing audit only, which is then covered.
LEMMA AuditStepKeeps ==
  ASSUME GateIInv, AuditStep
  PROVE  GateIInv'
<1>1. /\ UNCHANGED <<headTree, indexTree, workTree, treeEdits, containers, freezeChecked>>
      /\ verification.phase = "running" /\ Step.type = "audit"
  BY DEF AuditStep, treeVars, AtStep
<1>2. freezeChecked' \subseteq Trees /\ CheckedTreesKeep'
  BY <1>1 DEF GateIInv, GateTypeOK, CheckedTreesKeep
<1>3. CASE \E outcome \in AuditOutcomes :
             /\ verification' = Recorded(verification, IF outcome.passes THEN "PASS" ELSE "FAIL")
             /\ audited' = outcome.covered
  <2>1. PICK outcome \in AuditOutcomes :
             /\ verification' = Recorded(verification, IF outcome.passes THEN "PASS" ELSE "FAIL")
             /\ audited' = outcome.covered
    BY <1>3
  <2>2. outcome.passes => outcome.covered
    BY OutcomesAreSound
  <2>3. audited' \in BOOLEAN
    <3>1. \A report, entries : AuditCovered(report, entries) \in BOOLEAN
      BY DEF AuditCovered
    <3>2. outcome.covered \in BOOLEAN
      BY <3>1 DEF AuditOutcomes
    <3> QED
      BY <2>1, <3>2
  <2> DEFINE result == IF outcome.passes THEN "PASS" ELSE "FAIL"
  <2>4. result \in Results /\ (result = "PASS" => audited')
    BY <2>1, <2>2 DEF Results
  <2> HIDE DEF result
  <2>5. verification' = Recorded(verification, result)
    BY <2>1 DEF result
  <2> QED
    BY <1>1, <1>2, <2>3, <2>4, <2>5, RecordingStepKeeps
<1>4. CASE /\ \E result \in parseAuditProcessResult : verification' = Recorded(verification, result)
           /\ UNCHANGED audited
  <2>1. PICK result \in Results : result # "PASS" /\ verification' = Recorded(verification, result)
    BY <1>4 DEF parseAuditProcessResult, Results
  <2>2. audited' \in BOOLEAN
    BY <1>4 DEF GateIInv, GateTypeOK
  <2> QED
    BY <1>1, <1>2, <2>1, <2>2, RecordingStepKeeps
<1> QED
  BY <1>3, <1>4 DEF AuditStep

\* Containers come up one by one; whatever goes wrong records a failure.
LEMMA StartStep ==
  ASSUME GateIInv, startIsolatedServices
  PROVE  GateIInv'
<1>1. /\ UNCHANGED <<headTree, indexTree, workTree, treeEdits, freezeChecked, audited>>
      /\ verification.phase = "running" /\ Step.type = "start-services" /\ ~verification.services
  BY DEF startIsolatedServices, treeVars, AtStep
<1>2. /\ verification \in Gates /\ containers \subseteq Containers /\ containers \subseteq verification.started
      /\ verification.started \subseteq Containers
  BY <1>1 DEF GateIInv, GateTypeOK, ContainersAreKnown, Gates
<1>3. freezeChecked' \subseteq Trees /\ CheckedTreesKeep' /\ audited' \in BOOLEAN
  BY <1>1 DEF GateIInv, GateTypeOK, CheckedTreesKeep
<1>4. Step.type # "freeze" /\ Step.type # "audit"
  BY <1>1
<1>5. "PASS" \in Results /\ "FAIL" \in Results /\ "BLOCKED" \in Results
  BY DEF Results
<1>6. CASE verification.started = {} /\ verification' = Recorded(verification, "BLOCKED") /\ UNCHANGED containers
  <2>1. /\ verification' \in Gates /\ verification'.started = {}
        /\ verification'.phase \in {"running", "cleanup"}
        /\ ResultsFollowThePlan' /\ PassedStepsVouch' /\ ExitCodeIsHonest'
    BY <1>1, <1>2, <1>4, <1>5, <1>6, RecordingStep
  <2>2. containers' = {} /\ containers' \subseteq Containers
    BY <1>2, <1>6
  <2> QED
    BY <1>1, <1>3, <2>1, <2>2, AfterAStep
<1>7. CASE \E c \in Containers \ verification.started :
             /\ c = "redis" => "postgres" \in verification.started
             /\ containers' = containers \union {c}
             /\ verification' = [verification EXCEPT !.started = @ \union {c}]
  <2>1. PICK c \in Containers \ verification.started :
             /\ containers' = containers \union {c}
             /\ verification' = [verification EXCEPT !.started = @ \union {c}]
    BY <1>7
  <2>2. /\ verification' \in Gates /\ verification'.started = verification.started \union {c}
        /\ verification'.phase = "running" /\ verification'.services = verification.services
        /\ verification'.results = verification.results /\ verification'.at = verification.at
        /\ verification'.sections = verification.sections /\ verification'.exit = verification.exit
    BY <1>1, <1>2, <2>1 DEF Gates
  <2>3. Plan' = Plan /\ Step' = Step
    BY <2>2 DEF Plan, Step
  <2>4. containers' \subseteq verification'.started /\ containers' \subseteq Containers
    BY <1>2, <2>1, <2>2
  <2>5. ContainersAreKnown'
    BY <1>1, <2>2, <2>3, <2>4 DEF ContainersAreKnown
  <2>6. ResultsFollowThePlan' /\ PassedStepsVouch'
    BY <1>1, <2>2, <2>3 DEF GateIInv, ResultsFollowThePlan, PassedStepsVouch
  <2>7. ExitCodeIsHonest'
    BY <2>2 DEF ExitCodeIsHonest
  <2>8. GateTypeOK'
    BY <1>1, <1>3, <2>2, <2>4 DEF GateIInv, GateTypeOK
  <2> QED
    BY <1>3, <2>2, <2>5, <2>6, <2>7, <2>8 DEF GateIInv
<1>8. CASE \E removed \in BOOLEAN :
             /\ stopIsolatedServices(removed)
             /\ verification' = Recorded(verification, "FAIL")
  <2>1. /\ verification' = Recorded(verification, "FAIL") /\ containers' \subseteq Containers
    BY <1>2, <1>8 DEF stopIsolatedServices
  <2>2. /\ verification' \in Gates
        /\ verification'.phase = "cleanup"
        /\ \E i \in DOMAIN verification'.results : verification'.results[i] = "FAIL"
        /\ ResultsFollowThePlan' /\ PassedStepsVouch' /\ ExitCodeIsHonest'
    BY <1>1, <1>2, <1>4, <1>5, <2>1, RecordingStep
  <2> QED
    BY <1>1, <1>3, <2>1, <2>2, AfterAStep
<1>9. CASE /\ verification.started = Containers
           /\ verification' = Recorded([verification EXCEPT !.services = TRUE], "PASS")
           /\ UNCHANGED containers
  <2> DEFINE g == [verification EXCEPT !.services = TRUE]
  <2>1. /\ g \in Gates /\ g.phase = "running" /\ g.services = TRUE /\ g.sections = verification.sections
        /\ g.at = verification.at /\ g.results = verification.results
    BY <1>1, <1>2 DEF Gates
  <2>2. verification' = Recorded(g, "PASS")
    BY <1>9
  <2> HIDE DEF g
  <2>3. /\ verification' \in Gates /\ verification'.services = TRUE
        /\ verification'.phase \in {"running", "cleanup"}
        /\ ResultsFollowThePlan' /\ PassedStepsVouch' /\ ExitCodeIsHonest'
    BY <1>1, <1>4, <1>5, <2>1, <2>2, RecordingStep
  <2>4. containers' \subseteq Containers
    BY <1>2, <1>9
  <2> QED
    BY <1>1, <1>3, <2>3, <2>4, AfterAStep
<1> QED
  BY <1>6, <1>7, <1>8, <1>9 DEF startIsolatedServices

\* The cleanup: an exit code other than 1 leaves no container.
LEMMA CleanupStep ==
  ASSUME GateIInv, runVerification
  PROVE  GateIInv'
<1> DEFINE results == verification.results
<1>1. /\ UNCHANGED <<headTree, indexTree, workTree, treeEdits, freezeChecked, audited>>
      /\ verification.phase = "cleanup"
  BY DEF runVerification, treeVars
<1>2. /\ verification \in Gates /\ containers \subseteq Containers /\ results \in Seq(Results)
      /\ ~verification.services /\ containers # {} => \E i \in DOMAIN results : results[i] = "FAIL"
  BY <1>1 DEF GateIInv, GateTypeOK, ContainersAreKnown, Gates
<1>3. PICK cleanup \in {"PASS", "FAIL", "BLOCKED"} :
        /\ verification' = [verification EXCEPT !.phase = "done", !.exit = ExitCode(results, cleanup)]
        /\ cleanup # "PASS" => verification.services
        /\ verification.services => stopIsolatedServices(cleanup = "PASS")
        /\ ~verification.services => UNCHANGED containers
  BY DEF runVerification
<1>4. /\ ExitCode(results, cleanup) \in 0 .. 2
      /\ ExitCode(results, cleanup) # 1 => cleanup = "PASS" /\ ~\E i \in DOMAIN results : results[i] = "FAIL"
      /\ ExitCode(results, cleanup) = 0 => \A i \in DOMAIN results : results[i] = "PASS"
  BY DEF ExitCode
<1> DEFINE code == ExitCode(results, cleanup)
<1> HIDE DEF code
<1>5. /\ verification' \in Gates /\ verification'.phase = "done" /\ verification'.exit = code
      /\ verification'.sections = verification.sections /\ verification'.results = results
  <2>1. verification' = [verification EXCEPT !.phase = "done", !.exit = code] /\ code \in 0 .. 2
    BY <1>3, <1>4 DEF code
  <2> QED
    BY <1>2, <2>1 DEF Gates, Phases
<1>6. containers' \subseteq Containers /\ (code # 1 => containers' = {})
  <2>1. CASE verification.services
    BY <1>2, <1>3, <1>4, <2>1 DEF stopIsolatedServices, code
  <2>2. CASE ~verification.services
    BY <1>2, <1>3, <1>4, <2>2 DEF code
  <2> QED
    BY <2>1, <2>2
<1>7. Plan' = Plan
  BY <1>5 DEF Plan
<1>8. ResultsFollowThePlan' /\ PassedStepsVouch'
  BY <1>1, <1>5, <1>7 DEF GateIInv, ResultsFollowThePlan, PassedStepsVouch
<1>9. ContainersAreKnown'
  BY <1>5 DEF ContainersAreKnown
<1>10. ExitCodeIsHonest'
  BY <1>4, <1>5, <1>6 DEF ExitCodeIsHonest, code
<1>11. CheckedTreesKeep'
  BY <1>1 DEF GateIInv, CheckedTreesKeep
<1>12. GateTypeOK'
  <2>1. code \in 0 .. 2
    BY <1>4 DEF code
  <2> QED
    BY <1>1, <1>5, <1>6, <2>1 DEF GateIInv, GateTypeOK
<1> QED
  BY <1>5, <1>8, <1>9, <1>10, <1>11, <1>12 DEF GateIInv

\* A signal ends the run without a word about it.
LEMMA InterruptStep ==
  ASSUME GateIInv, Interrupt
  PROVE  GateIInv'
<1>1. /\ UNCHANGED <<headTree, indexTree, workTree, treeEdits, containers, freezeChecked, audited>>
      /\ verification' = [verification EXCEPT !.phase = "killed"] /\ verification \in Gates
  BY DEF GateIInv, Interrupt, treeVars
<1>2. verification' \in Gates /\ verification'.phase = "killed" /\ verification'.exit = verification.exit
  BY <1>1 DEF Gates, Phases
<1>3. ResultsFollowThePlan' /\ PassedStepsVouch' /\ ContainersAreKnown' /\ ExitCodeIsHonest'
  BY <1>2 DEF ResultsFollowThePlan, PassedStepsVouch, ContainersAreKnown, ExitCodeIsHonest
<1>4. CheckedTreesKeep'
  BY <1>1 DEF GateIInv, CheckedTreesKeep
<1>5. GateTypeOK'
  BY <1>1, <1>2 DEF GateIInv, GateTypeOK
<1> QED
  BY <1>2, <1>3, <1>4, <1>5 DEF GateIInv

\* Every step of the release gate preserves the invariant, one case per action.
LEMMA GateStep ==
  ASSUME GateIInv, [GateNext]_gateVars
  PROVE  GateIInv'
<1>1. CASE Edit \/ Stage \/ CommitIndex
  BY <1>1, CheckoutStep
<1>2. CASE parseArguments
  BY <1>2, ParseStep
<1>3. CASE executeStep
  BY <1>3, ExecuteStep
<1>4. CASE FreezeStep
  BY <1>4, FreezeStepKeeps
<1>5. CASE AuditStep
  BY <1>5, AuditStepKeeps
<1>6. CASE startIsolatedServices
  BY <1>6, StartStep
<1>7. CASE runVerification
  BY <1>7, CleanupStep
<1>8. CASE Interrupt
  BY <1>8, InterruptStep
<1>9. CASE UNCHANGED gateVars
  <2>1. UNCHANGED <<verification, containers, freezeChecked, audited>> /\ GateTypeOK'
    BY <1>9 DEF gateVars, GateIInv, GateTypeOK
  <2> QED
    BY <2>1, RunUnchanged
<1> QED
  BY <1>1, <1>2, <1>3, <1>4, <1>5, <1>6, <1>7, <1>8, <1>9 DEF GateNext

\* A finished run has a result for every step of its plan, so a green one passed them all.
LEMMA GateVouches ==
  ASSUME GateIInv
  PROVE  GreenGateVouches
<1>1. SUFFICES ASSUME verification.phase = "done"
               PROVE  /\ verification.exit # 1 => containers = {}
                      /\ verification.exit = 0 /\ verification.sections \intersect {"policy", "release"} # {} =>
                           freezeChecked # {} /\ \A tree \in freezeChecked : KeepsFreeze(tree)
                      /\ verification.exit = 0 /\ "policy" \in verification.sections => audited
  BY DEF GreenGateVouches
<1>2. /\ verification \in Gates /\ Len(verification.results) = Len(Plan)
      /\ verification.exit # 1 => containers = {}
      /\ verification.exit = 0 => \A i \in DOMAIN verification.results : verification.results[i] = "PASS"
      /\ \A tree \in freezeChecked : KeepsFreeze(tree)
  BY <1>1 DEF GateIInv, ResultsFollowThePlan, ExitCodeIsHonest, CheckedTreesKeep
<1>3. DOMAIN verification.results = DOMAIN Plan
  <2>1. verification.results \in Seq(Results)
    BY <1>2 DEF Gates
  <2>2. DOMAIN verification.results = 1 .. Len(verification.results)
    BY <2>1
  <2> QED
    BY <1>2, <2>2, PlanOfTheRun
<1>4. verification.exit = 0 =>
        \A i \in DOMAIN Plan : /\ Plan[i].type = "freeze" => freezeChecked # {}
                               /\ Plan[i].type = "audit" => audited
  BY <1>1, <1>2, <1>3 DEF GateIInv, PassedStepsVouch
<1> QED
  BY <1>2, <1>4, PlanOfTheRun

(***************************************************************************)
(* When verify-all.mjs exits 0 its containers are gone; if it ran policy   *)
(* or release, the freeze guard has compared a tree and every tree it      *)
(* passed keeps the protected text; if it ran policy, the audit it passed  *)
(* covers what npm reported.  So for any frozen text and edits of it       *)
(* before, during and after the run, for every alignment git may choose    *)
(* (check-financial-freeze.mjs), for any exceptions and npm reports        *)
(* (check-npm-audit.mjs), and for every step that fails, blocks or is      *)
(* interrupted.  The frozen symbol starts at the first or at the last of   *)
(* the starts it expects (OccurrenceAssumption), as every configured one   *)
(* does.                                                                   *)
(***************************************************************************)
THEOREM GreenGateIsRight == GateSpec => []GreenGateVouches
<1>1. GateInit => GateIInv
  BY GateStarts
<1>2. GateIInv /\ [GateNext]_gateVars => GateIInv'
  BY GateStep
<1>3. GateIInv => GreenGateVouches
  BY GateVouches
<1> QED
  BY <1>1, <1>2, <1>3, PTL DEF GateSpec
===============================================================================
