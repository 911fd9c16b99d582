------------------------------- MODULE Outbox -------------------------------
(***************************************************************************)
(* The transactional outbox: outbox/outbox.worker.ts, enqueueDomainEvent,  *)
(* the admin's retry and the durable part of the handlers (the             *)
(* notification row and the delivery job of notifications.service.ts).     *)
(*                                                                         *)
(* A worker process claims a batch in one transaction and then works on it *)
(* with a bounded number of runners.  A claim is a lease: locked_by and    *)
(* locked_at, renewed by a heartbeat only while the event is being         *)
(* handled.                                                                *)
(***************************************************************************)
EXTENDS Naturals, FiniteSets

CONSTANTS
  Events,       \* event keys of the rows that may be enqueued
  Workers,      \* worker ids; a process that restarts has another
  BatchSize,    \* OUTBOX_BATCH_SIZE
  Concurrency,  \* OUTBOX_CONCURRENCY
  MaxAttempts,  \* OUTBOX_MAX_ATTEMPTS
  MaxFaults,    \* bound: crashes and queries that fail, of either kind below
  MaxThrows     \* bound: the markFailed queries among them

ASSUME OutboxAssumption ==
  /\ BatchSize \in Nat \ {0}
  /\ Concurrency \in Nat \ {0}
  /\ MaxAttempts \in Nat \ {0}
  /\ MaxFaults \in Nat
  /\ MaxThrows \in {0, 1}

VARIABLES
  status,     \* domain_outbox.status, "none" before the row exists
  attempts,   \* domain_outbox.attempts
  owner,      \* locked_by
  expired,    \* locked_at is older than OUTBOX_LOCK_TIMEOUT_MS
  ready,      \* available_at has passed
  tasks,      \* claimed events in the memory of the workers
  alive,      \* workers that have not crashed
  rows,       \* notifications rows written for the event
  jobs,       \* delivery jobs BullMQ accepted for it
  faults, throws

rowVars == <<status, attempts, owner, expired, ready>>
effectVars == <<rows, jobs>>
faultVars == <<faults, throws>>
vars == <<rowVars, tasks, alive, effectVars, faultVars>>

NoOwner == "none"

\* locked_by null: no worker has that id.
ASSUME WorkerAssumption == NoOwner \notin Workers

(***************************************************************************)
(* A task is an entry of the events array of processOutboxBatch, with the  *)
(* attempts that claimOutboxBatch returned.  When markFailed throws, the   *)
(* tick ends but its other runners go on: their tasks are orphans.         *)
(***************************************************************************)
Task(w, e, n, batch, pc) ==
  [worker |-> w, event |-> e, attempts |-> n, batch |-> batch, pc |-> pc]

Working == {"handling", "inserted", "handled", "failing"}

Goto(t, pc) == tasks' = (tasks \ {t}) \cup {[t EXCEPT !.pc = pc]}

Owns(t) == status[t.event] = "processing" /\ owner[t.event] = t.worker

\* BackgroundPoller.trigger: one tick of a process at a time.
Busy(w) == \E t \in tasks : t.worker = w /\ t.batch = "current"

\* The runners of mapWithConcurrency; one of them died with the tick.
Runners(batch) == IF batch = "current" THEN Concurrency ELSE Concurrency - throws

Active(w, batch) ==
  {t \in tasks : t.worker = w /\ t.batch = batch /\ t.pc \in Working}

----------------------------------------------------------------------------
\* enqueueDomainEvent: insert ... on conflict (event_key) do nothing
Enqueue(e) ==
  /\ status[e] = "none"
  /\ status' = [status EXCEPT ![e] = "pending"]
  /\ ready' = [ready EXCEPT ![e] = TRUE]
  /\ UNCHANGED <<attempts, owner, expired, tasks, alive, effectVars, faultVars>>

\* Stale claims that the first statement of claimOutboxBatch gives up ...
Exhausted ==
  {e \in Events : status[e] = "processing" /\ expired[e] /\ attempts[e] >= MaxAttempts}

\* Mutant: claims of a crashed worker are not candidates.
Candidates_PendingOnly ==
  {e \in Events : status[e] = "pending" /\ ready[e] /\ attempts[e] < MaxAttempts}

\* ... and the rows the second one may claim.
Candidates ==
  {e \in Events : /\ attempts[e] < MaxAttempts
                  /\ \/ status[e] = "pending" /\ ready[e]
                     \/ status[e] = "processing" /\ expired[e]}

\* At most batchSize candidates: all of them when they fit.
Batches ==
  {S \in SUBSET Candidates :
     Cardinality(S) = BatchSize \/ (S = Candidates /\ Cardinality(S) < BatchSize)}

claimOutboxBatch(w, S) ==
  /\ w \in alive
  /\ ~Busy(w)
  /\ Exhausted \cup S # {}
  /\ status' = [e \in Events |-> IF e \in S THEN "processing"
                                 ELSE IF e \in Exhausted THEN "failed" ELSE status[e]]
  /\ attempts' = [e \in Events |-> IF e \in S THEN attempts[e] + 1 ELSE attempts[e]]
  /\ owner' = [e \in Events |-> IF e \in S THEN w
                                ELSE IF e \in Exhausted THEN NoOwner ELSE owner[e]]
  /\ expired' = [e \in Events |-> expired[e] /\ e \notin S \cup Exhausted]
  /\ tasks' = tasks \cup {Task(w, e, attempts[e] + 1, "current", "waiting") : e \in S}
  /\ UNCHANGED <<ready, alive, effectVars, faultVars>>

Startable(t) ==
  /\ t.pc = "waiting"
  /\ Cardinality(Active(t.worker, t.batch)) < Runners(t.batch)

\* A free runner takes the next event: its ownership is not looked at again.
StartTask(t) ==
  /\ Startable(t)
  /\ Goto(t, "handling")
  /\ UNCHANGED <<rowVars, alive, effectVars, faultVars>>

----------------------------------------------------------------------------
(* The handler: createNotification, then the rest *)

\* insert into notifications ... on conflict (event_key) do nothing
NotificationRow(e) == IF rows[e] = 0 THEN 1 ELSE rows[e]

\* Queue.add with a job id the queue knows already adds nothing.
DeliveryJob(e) == IF jobs[e] = 0 THEN 1 ELSE jobs[e]

HandlerInserts(t) ==
  /\ t.pc = "handling"
  /\ rows' = [rows EXCEPT ![t.event] = NotificationRow(t.event)]
  /\ Goto(t, "inserted")
  /\ UNCHANGED <<rowVars, alive, jobs, faultVars>>

HandlerEnqueues(t) ==
  /\ t.pc = "inserted"
  /\ jobs' = [jobs EXCEPT ![t.event] = DeliveryJob(t.event)]
  /\ Goto(t, "handled")
  /\ UNCHANGED <<rowVars, alive, rows, faultVars>>

\* Redis, the queue or the database fails; so may markProcessed's own query.
HandlerThrows(t) ==
  /\ t.pc \in {"handling", "inserted", "handled"}
  /\ Goto(t, "failing")
  /\ UNCHANGED <<rowVars, alive, effectVars, faultVars>>

\* Mutant: a handler that lost its lock still closes the row.
LockLost_Ignored(t) == FALSE

LockLost(t) == ~Owns(t)

\* markProcessed; without the lock it throws into the catch.
markProcessed(t) ==
  /\ t.pc = "handled"
  /\ IF LockLost(t)
     THEN Goto(t, "failing") /\ UNCHANGED rowVars
     ELSE /\ status' = [status EXCEPT ![t.event] = "processed"]
          /\ owner' = [owner EXCEPT ![t.event] = NoOwner]
          /\ expired' = [expired EXCEPT ![t.event] = FALSE]
          /\ tasks' = tasks \ {t}
          /\ UNCHANGED <<attempts, ready>>
  /\ UNCHANGED <<alive, effectVars, faultVars>>

\* The attempts are those of the claim, not those of the row.
Terminal(t) == t.attempts >= MaxAttempts

markFailed(t) ==
  /\ t.pc = "failing"
  /\ IF Owns(t)
     THEN /\ status' = [status EXCEPT ![t.event] =
                          IF Terminal(t) THEN "failed" ELSE "pending"]
          /\ ready' = [ready EXCEPT ![t.event] = Terminal(t) /\ @]
          /\ owner' = [owner EXCEPT ![t.event] = NoOwner]
          /\ expired' = [expired EXCEPT ![t.event] = FALSE]
          /\ UNCHANGED attempts
     ELSE UNCHANGED rowVars
  /\ tasks' = tasks \ {t}
  /\ UNCHANGED <<alive, effectVars, faultVars>>

\* Its query fails: Promise.all rejects and the tick ends without its other
\* runners.  If there is none, nobody will take the events left over.
MarkFailedThrows(t) ==
  /\ t.pc = "failing"
  /\ faults < MaxFaults
  /\ throws < MaxThrows
  /\ faults' = faults + 1
  /\ throws' = throws + 1
  /\ LET mine == {u \in tasks \ {t} : u.worker = t.worker}
     IN  tasks' = {u \in tasks : u.worker # t.worker} \cup
                    IF Concurrency > throws + 1
                    THEN {[u EXCEPT !.batch = "orphan"] : u \in mine} ELSE {}
  /\ UNCHANGED <<rowVars, alive, effectVars>>

----------------------------------------------------------------------------
(* Time, faults and the admin *)

\* heartbeatEvent
Heartbeat(t) ==
  /\ t.pc \in Working
  /\ Owns(t)
  /\ expired[t.event]
  /\ expired' = [expired EXCEPT ![t.event] = FALSE]
  /\ UNCHANGED <<status, attempts, owner, ready, tasks, alive, effectVars, faultVars>>

Heartbeating(e) ==
  \E t \in tasks : t.event = e /\ t.pc \in Working /\ Owns(t)

\* The lock timeout passes: the holder died, or has no runner for the event.
LockExpires(e) ==
  /\ status[e] = "processing"
  /\ ~expired[e]
  /\ ~Heartbeating(e)
  /\ \A t \in tasks : t.event = e /\ Owns(t) => ~Startable(t)
  /\ expired' = [expired EXCEPT ![e] = TRUE]
  /\ UNCHANGED <<status, attempts, owner, ready, tasks, alive, effectVars, faultVars>>

\* ... or its heartbeats failed all that time.
HeartbeatFails(e) ==
  /\ status[e] = "processing"
  /\ ~expired[e]
  /\ Heartbeating(e)
  /\ faults < MaxFaults
  /\ faults' = faults + 1
  /\ expired' = [expired EXCEPT ![e] = TRUE]
  /\ UNCHANGED <<status, attempts, owner, ready, tasks, alive, effectVars, throws>>

Crash(w) ==
  /\ w \in alive
  /\ faults < MaxFaults
  /\ faults' = faults + 1
  /\ alive' = alive \ {w}
  /\ tasks' = {t \in tasks : t.worker # w}
  /\ UNCHANGED <<rowVars, effectVars, throws>>

BackoffPasses(e) ==
  /\ status[e] = "pending"
  /\ ~ready[e]
  /\ ready' = [ready EXCEPT ![e] = TRUE]
  /\ UNCHANGED <<status, attempts, owner, expired, tasks, alive, effectVars, faultVars>>

\* POST /admin/outbox/retry
retryFailedOutboxEvents(e) ==
  /\ status[e] = "failed"
  /\ status' = [status EXCEPT ![e] = "pending"]
  /\ attempts' = [attempts EXCEPT ![e] = 0]
  /\ ready' = [ready EXCEPT ![e] = TRUE]
  /\ UNCHANGED <<owner, expired, tasks, alive, effectVars, faultVars>>

Init ==
  /\ status = [e \in Events |-> "none"]
  /\ attempts = [e \in Events |-> 0]
  /\ owner = [e \in Events |-> NoOwner]
  /\ expired = [e \in Events |-> FALSE]
  /\ ready = [e \in Events |-> FALSE]
  /\ tasks = {}
  /\ alive = Workers
  /\ rows = [e \in Events |-> 0]
  /\ jobs = [e \in Events |-> 0]
  /\ faults = 0
  /\ throws = 0

Claims(w) == \E S \in Batches : claimOutboxBatch(w, S)

\* What processClaimedEvent does with a task that a runner may take.
ProcessTask(t) ==
  \/ StartTask(t)
  \/ HandlerInserts(t)
  \/ HandlerEnqueues(t)
  \/ HandlerThrows(t)
  \/ markProcessed(t)
  \/ markFailed(t)

EventNext(e) ==
  \/ Enqueue(e)
  \/ LockExpires(e)
  \/ HeartbeatFails(e)
  \/ BackoffPasses(e)
  \/ retryFailedOutboxEvents(e)

Next ==
  \/ \E w \in Workers : Claims(w) \/ Crash(w)
  \/ \E t \in tasks : ProcessTask(t) \/ MarkFailedThrows(t) \/ Heartbeat(t)
  \/ \E e \in Events : EventNext(e)

(***************************************************************************)
(* The poller of a live process ticks every second, a handler returns or   *)
(* throws (its Redis and queue calls have timeouts), and clocks advance.   *)
(***************************************************************************)
Fairness ==
  /\ \A w \in Workers : WF_vars(Claims(w))
  /\ \A w \in Workers, e \in Events :
       WF_vars(\E t \in tasks : t.worker = w /\ t.event = e /\ ProcessTask(t))
  /\ \A e \in Events : WF_vars(LockExpires(e)) /\ WF_vars(BackoffPasses(e))

Spec == Init /\ [][Next]_vars /\ Fairness

----------------------------------------------------------------------------
(* Properties *)

Tasks ==
  [worker : Workers, event : Events, attempts : 1 .. MaxAttempts,
   batch : {"current", "orphan"}, pc : Working \cup {"waiting"}]

(***************************************************************************)
(* Type invariant, with the check constraint of the table: a lock exists   *)
(* exactly while an event is processing.                                   *)
(***************************************************************************)
TypeOK ==
  /\ status \in [Events -> {"none", "pending", "processing", "processed", "failed"}]
  /\ attempts \in [Events -> 0 .. MaxAttempts]
  /\ owner \in [Events -> Workers \cup {NoOwner}]
  /\ expired \in [Events -> BOOLEAN]
  /\ ready \in [Events -> BOOLEAN]
  /\ tasks \subseteq Tasks
  /\ alive \subseteq Workers
  /\ rows \in [Events -> Nat]
  /\ jobs \in [Events -> Nat]
  /\ faults \in 0 .. MaxFaults
  /\ throws \in 0 .. MaxThrows
  /\ \A e \in Events : /\ (status[e] = "processing") <=> (owner[e] # NoOwner)
                       /\ expired[e] => status[e] = "processing"

(***************************************************************************)
(* Delivery at least once, effects at most once: an event is processed     *)
(* only after some handler wrote its notification and queued its delivery, *)
(* and however often workers repeat each other's work, there is one row    *)
(* and one job.                                                            *)
(***************************************************************************)
DeliveredOnce ==
  \A e \in Events :
    /\ status[e] = "processed" => rows[e] = 1 /\ jobs[e] = 1
    /\ rows[e] <= 1 /\ jobs[e] <= rows[e]

(***************************************************************************)
(* A worker that lost its lock does not decide: only a handler that owns   *)
(* the row closes or reopens it, and a processed event stays processed.    *)
(***************************************************************************)
ProcessedIsFinal ==
  [][\A e \in Events :
       /\ status[e] = "processed" => status'[e] = "processed"
       /\ status[e] = "processing" /\ status'[e] \in {"processed", "pending"}
            => \E t \in tasks \ tasks' : t.event = e /\ t.worker = owner[e]]_vars

\* What has become of each event, whoever holds it and however often it was tried.
fateBar ==
  [e \in Events |-> CASE status[e] \in {"pending", "processing"} -> "due"
                     [] status[e] = "processed" -> "done"
                     [] status[e] = "failed" -> "dead"
                     [] OTHER -> "none"]

Promise == INSTANCE Effects WITH fate <- fateBar, told <- rows, queued <- jobs

(***************************************************************************)
(* The promises together.  Refinement: through leases that expire under    *)
(* running handlers, retries, crashes and several workers on one event the *)
(* outbox implements Effects, so nothing undoes or reorders an effect; and *)
(* each event is decided once, by the worker that holds it.                *)
(***************************************************************************)
EventDecidedOnce == []DeliveredOnce /\ Promise!Spec /\ ProcessedIsFinal

(***************************************************************************)
(* No event is forgotten: through crashes, lost locks and failed handlers, *)
(* an enqueued event ends processed or failed, unless a markFailed query   *)
(* itself failed (see PendingIsClaimable).                                 *)
(***************************************************************************)
EventSettles ==
  \A e \in Events :
    status[e] = "pending" ~> status[e] \in {"processed", "failed"} \/ throws > 0

(***************************************************************************)
(* The documentation: "retries with exponential backoff, and moves         *)
(* exhausted events to failed".  A pending event can be claimed again; an  *)
(* exhausted one is not left pending, where no statement looks at it.      *)
(***************************************************************************)
PendingIsClaimable ==
  \A e \in Events : status[e] = "pending" => attempts[e] < MaxAttempts
=============================================================================
