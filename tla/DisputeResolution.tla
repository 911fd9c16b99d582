------------------------- MODULE DisputeResolution --------------------------
(***************************************************************************)
(* How an admin's decision on a dispute is carried out:                    *)
(* disputes/dispute-resolution.service.ts and POST /disputes/:id/resolve.  *)
(* The decision is first claimed (persisted with an operation id), then    *)
(* the escrow transaction of Escrow runs, then the dispute is finalized.   *)
(* The three are separate transactions: a process may crash or lose its    *)
(* answer between any two, and a claim older than 15 minutes may be taken  *)
(* over by another process while the first is still running.               *)
(***************************************************************************)
EXTENDS Naturals

CONSTANTS
  Disputes,    \* rows of disputes, each of one order
  Executors,   \* concurrent calls of resolveDisputeResolution
  DisputeAdmins,  \* users that start with role admin
  Demotable,   \* the ones that may lose it
  MaxFaults    \* bound: crashes and failed escrow calls in a behaviour

ASSUME AdminsAssumption == Demotable \subseteq DisputeAdmins

ASSUME FaultAssumption == MaxFaults \in Nat

None == "none"
Decisions == {"refund", "release"}

VARIABLES
  dstatus,     \* disputes.status
  decision,    \* resolution_decision
  op,          \* resolution_operation_id: 0 is null, each randomUUID is new
  claimant,    \* admin_id
  fresh,       \* resolving_started_at is less than 15 minutes old
  order,       \* status of the disputed order
  announced,   \* dispute_resolved timeline events (and messages) written
  admins,      \* users whose role is admin now
  call,        \* the progress of each executor
  faults       \* crashes and failures so far

rowVars == <<dstatus, decision, op, claimant, fresh, announced>>
disputeVars == <<rowVars, order, admins, call, faults>>

Idle == [pc |-> "idle"]

\* A call past its claim holds the decision, operation and admin of the row.
Call(pc, d, dec, o, a) ==
  [pc |-> pc, dispute |-> d, decision |-> dec, op |-> o, admin |-> a]

Goto(x, pc) == call' = [call EXCEPT ![x].pc = pc]

Return(x) == call' = [call EXCEPT ![x] = Idle]

----------------------------------------------------------------------------
(* Helpers of dispute-resolution.service.ts *)

terminalDecision(orderStatus) ==
  CASE orderStatus = "refunded"  -> "refund"
    [] orderStatus = "completed" -> "release"
    [] OTHER -> None

\* Mutant: a second admin may ask for another decision.
assertDecisionMatches_Any(persisted, requested) == TRUE

assertDecisionMatches(persisted, requested) == persisted \in {None, requested}

assertOrderCanContinue(d, dec) ==
  \/ terminalDecision(order[d]) = dec
  \/ order[d] = "disputed"

\* Mutant: a claim left behind by a crash is never old enough.
Stale_Never(d) == FALSE

Stale(d) == ~fresh[d]

\* Where a call continues once it has claimed.
AfterClaim(d) == IF terminalDecision(order[d]) = None THEN "escrow" ELSE "finalize"

----------------------------------------------------------------------------
ClaimOpen(x, d, dec, a) ==
  /\ dstatus[d] = "open"
  /\ dstatus' = [dstatus EXCEPT ![d] = "resolving"]
  /\ decision' = [decision EXCEPT ![d] = dec]
  /\ op' = [op EXCEPT ![d] = @ + 1]
  /\ claimant' = [claimant EXCEPT ![d] = a]
  /\ fresh' = [fresh EXCEPT ![d] = TRUE]
  /\ call' = [call EXCEPT ![x] = Call(AfterClaim(d), d, dec, op[d] + 1, a)]

Continue(x, d, dec, pc) ==
  call' = [call EXCEPT ![x] = Call(pc, d, dec, op[d], claimant[d])]

ClaimFailed(x, d, dec) ==
  /\ dstatus[d] = "resolution_failed"
  /\ dstatus' = [dstatus EXCEPT ![d] = "resolving"]
  /\ fresh' = [fresh EXCEPT ![d] = TRUE]
  /\ Continue(x, d, dec, AfterClaim(d))
  /\ UNCHANGED <<decision, op, claimant>>

\* A resolving dispute whose escrow already moved only needs finalizing.
ClaimApplied(x, d, dec) ==
  /\ dstatus[d] = "resolving"
  /\ terminalDecision(order[d]) = dec
  /\ Continue(x, d, dec, "finalize")
  /\ UNCHANGED <<dstatus, decision, op, claimant, fresh>>

ClaimStale(x, d, dec) ==
  /\ dstatus[d] = "resolving"
  /\ terminalDecision(order[d]) # dec
  /\ Stale(d)
  /\ fresh' = [fresh EXCEPT ![d] = TRUE]
  /\ Continue(x, d, dec, AfterClaim(d))
  /\ UNCHANGED <<dstatus, decision, op, claimant>>

claimResolution(x, d, dec, a) ==
  /\ assertDecisionMatches(decision[d], dec)
  /\ assertOrderCanContinue(d, dec)
  /\ \/ ClaimOpen(x, d, dec, a)
     \/ ClaimFailed(x, d, dec)
     \/ ClaimApplied(x, d, dec)
     \/ ClaimStale(x, d, dec)
  /\ UNCHANGED <<announced, order, admins, faults>>

\* POST /disputes/:id/resolve by a current admin.
AdminResolves(x, d, dec, a) ==
  /\ call[x] = Idle
  /\ a \in admins
  /\ claimResolution(x, d, dec, a)

\* recoverStaleDisputeResolutions reads the stale claim without a lock ...
RecoveryReads(x, d) ==
  /\ call[x] = Idle
  /\ dstatus[d] = "resolving"
  /\ ~fresh[d]
  /\ call' = [call EXCEPT
       ![x] = Call("recover", d, decision[d], op[d], claimant[d])]
  /\ UNCHANGED <<rowVars, order, admins, faults>>

\* ... and then claims it, for the operation it read.
RecoveryClaims(x) ==
  LET c == call[x]
  IN  /\ c.pc = "recover"
      /\ op[c.dispute] = c.op
      /\ claimResolution(x, c.dispute, c.decision, c.admin)

\* The row changed meanwhile: resolved, or claimed afresh by someone else.
RecoveryConflicts(x) ==
  LET c == call[x]
      d == c.dispute
  IN  /\ c.pc = "recover"
      /\ \/ op[d] # c.op
         \/ ~assertDecisionMatches(decision[d], c.decision)
         \/ ~assertOrderCanContinue(d, c.decision)
         \/ dstatus[d] = "resolved"
         \/ dstatus[d] = "resolving" /\ terminalDecision(order[d]) # c.decision /\ ~Stale(d)
      /\ Return(x)
      /\ UNCHANGED <<rowVars, order, admins, faults>>

----------------------------------------------------------------------------
(***************************************************************************)
(* The escrow call: refundEscrow or releaseEscrow of module Escrow, which  *)
(* commit only for a disputed order and only if the admin of the claim is  *)
(* still one (assertActorPermission reads the role again).                 *)
(***************************************************************************)
terminalStatus(dec) == IF dec = "refund" THEN "refunded" ELSE "completed"

EscrowAllowed(c) == order[c.dispute] = "disputed" /\ c.admin \in admins

EscrowCommits(x) ==
  LET c == call[x]
  IN  /\ c.pc = "escrow"
      /\ EscrowAllowed(c)
      /\ order' = [order EXCEPT ![c.dispute] = terminalStatus(c.decision)]
      /\ Goto(x, "finalize")
      /\ UNCHANGED <<rowVars, admins, faults>>

\* The transaction commits but the caller sees an error.
EscrowAnswerLost(x) ==
  LET c == call[x]
  IN  /\ c.pc = "escrow"
      /\ EscrowAllowed(c)
      /\ faults < MaxFaults
      /\ faults' = faults + 1
      /\ order' = [order EXCEPT ![c.dispute] = terminalStatus(c.decision)]
      /\ Goto(x, "caught")
      /\ UNCHANGED <<rowVars, admins>>

EscrowRefused(x) ==
  /\ call[x].pc = "escrow"
  /\ ~EscrowAllowed(call[x])
  /\ Goto(x, "caught")
  /\ UNCHANGED <<rowVars, order, admins, faults>>

EscrowFails(x) ==
  /\ call[x].pc = "escrow"
  /\ faults < MaxFaults
  /\ faults' = faults + 1
  /\ Goto(x, "caught")
  /\ UNCHANGED <<rowVars, order, admins>>

----------------------------------------------------------------------------
(* finalizeIfApplied: one transaction, called after success and in catch *)

Applied(c) == terminalDecision(order[c.dispute]) = c.decision

\* Mutant: a dispute another call resolved meanwhile is resolved again.
AlreadyResolved_Ignored(d) == FALSE

AlreadyResolved(d) == dstatus[d] = "resolved"

ClaimStands(c) ==
  /\ assertDecisionMatches(decision[c.dispute], c.decision)
  /\ op[c.dispute] = c.op

finalizeIfApplied(x) ==
  LET c == call[x]
      d == c.dispute
  IN  /\ c.pc \in {"finalize", "caught"}
      /\ ClaimStands(c)
      /\ \/ /\ AlreadyResolved(d)
            /\ Return(x)
            /\ UNCHANGED rowVars
         \/ /\ ~AlreadyResolved(d)
            /\ Applied(c)
            /\ dstatus' = [dstatus EXCEPT ![d] = "resolved"]
            /\ announced' = [announced EXCEPT ![d] = @ + 1]
            /\ Return(x)
            /\ UNCHANGED <<decision, op, claimant, fresh>>
         \/ /\ ~AlreadyResolved(d)
            /\ ~Applied(c)
            /\ Goto(x, "mark")
            /\ UNCHANGED rowVars
      /\ UNCHANGED <<order, admins, faults>>

\* markResolutionFailed, then the error is thrown to the caller.
markResolutionFailed(x) ==
  LET c == call[x]
      d == c.dispute
  IN  /\ c.pc = "mark"
      /\ dstatus' = IF op[d] = c.op /\ dstatus[d] = "resolving"
                    THEN [dstatus EXCEPT ![d] = "resolution_failed"] ELSE dstatus
      /\ Return(x)
      /\ UNCHANGED <<decision, op, claimant, fresh, announced, order, admins, faults>>

----------------------------------------------------------------------------
(* The environment *)

\* Fifteen minutes pass on a claim.
ClaimAges(d) ==
  /\ dstatus[d] = "resolving"
  /\ fresh[d]
  /\ fresh' = [fresh EXCEPT ![d] = FALSE]
  /\ UNCHANGED <<dstatus, decision, op, claimant, announced, order, admins, call, faults>>

\* The process running the call dies.
Crash(x) ==
  /\ call[x] # Idle
  /\ faults < MaxFaults
  /\ faults' = faults + 1
  /\ Return(x)
  /\ UNCHANGED <<rowVars, order, admins>>

\* PATCH /admin/users/:id takes the admin role away.
Demote(a) ==
  /\ a \in admins \cap Demotable
  /\ admins' = admins \ {a}
  /\ UNCHANGED <<rowVars, order, call, faults>>

DisputeInit ==
  /\ dstatus = [d \in Disputes |-> "open"]
  /\ decision = [d \in Disputes |-> None]
  /\ op = [d \in Disputes |-> 0]
  /\ claimant = [d \in Disputes |-> None]
  /\ fresh = [d \in Disputes |-> FALSE]
  /\ order = [d \in Disputes |-> "disputed"]
  /\ announced = [d \in Disputes |-> 0]
  /\ admins = DisputeAdmins
  /\ call = [x \in Executors |-> Idle]
  /\ faults = 0

CallNext(x) ==
  \/ RecoveryClaims(x)
  \/ RecoveryConflicts(x)
  \/ EscrowCommits(x)
  \/ EscrowAnswerLost(x)
  \/ EscrowRefused(x)
  \/ EscrowFails(x)
  \/ finalizeIfApplied(x)
  \/ markResolutionFailed(x)

DisputeNext ==
  \/ \E x \in Executors, d \in Disputes, dec \in Decisions, a \in DisputeAdmins :
       AdminResolves(x, d, dec, a)
  \/ \E x \in Executors, d \in Disputes : RecoveryReads(x, d)
  \/ \E x \in Executors : CallNext(x) \/ Crash(x)
  \/ \E d \in Disputes : ClaimAges(d)
  \/ \E a \in Demotable : Demote(a)

(***************************************************************************)
(* A running call proceeds, time passes, the dispute_timer job (every five *)
(* minutes) recovers stale claims, and an admin who is shown a failed      *)
(* resolution retries the decision it offers.                              *)
(***************************************************************************)
Retries(d) ==
  \E x \in Executors, dec \in Decisions, a \in DisputeAdmins :
    dstatus[d] = "resolution_failed" /\ AdminResolves(x, d, dec, a)

Recovers(d) == \E x \in Executors : RecoveryReads(x, d)

DisputeFairness ==
  /\ \A x \in Executors : WF_disputeVars(CallNext(x))
  /\ \A d \in Disputes : /\ WF_disputeVars(ClaimAges(d))
                         /\ SF_disputeVars(Recovers(d))
                         /\ SF_disputeVars(Retries(d))

DisputeSpec == DisputeInit /\ [][DisputeNext]_disputeVars /\ DisputeFairness

----------------------------------------------------------------------------
(* Properties *)

CallStates ==
  [pc : {"recover", "escrow", "caught", "finalize", "mark"}, dispute : Disputes,
   decision : Decisions, op : Nat, admin : DisputeAdmins]

\* Type invariant.
DisputeTypeOK ==
  /\ dstatus \in [Disputes -> {"open", "resolving", "resolved", "resolution_failed"}]
  /\ decision \in [Disputes -> Decisions \cup {None}]
  /\ op \in [Disputes -> Nat]
  /\ claimant \in [Disputes -> DisputeAdmins \cup {None}]
  /\ fresh \in [Disputes -> BOOLEAN]
  /\ order \in [Disputes -> {"disputed", "completed", "refunded"}]
  /\ announced \in [Disputes -> Nat]
  /\ admins \subseteq DisputeAdmins
  /\ call \in [Executors -> CallStates \cup {Idle}]
  /\ faults \in 0 .. MaxFaults

(***************************************************************************)
(* Money moves only the way the persisted decision says, and a dispute is  *)
(* closed only after it did: whoever runs the escrow call, however late.   *)
(***************************************************************************)
DecisionGovernsOrder ==
  \A d \in Disputes :
    /\ order[d] # "disputed" => decision[d] = terminalDecision(order[d])
    /\ dstatus[d] = "resolved" => order[d] # "disputed"

(***************************************************************************)
(* The resolution is announced exactly once, although an original call, a  *)
(* retry and the recovery job may all reach finalizeIfApplied.             *)
(***************************************************************************)
ResolutionAnnouncedOnce ==
  \A d \in Disputes : announced[d] = IF dstatus[d] = "resolved" THEN 1 ELSE 0

\* Where the money in dispute is, by the status of the order.
moneyBar ==
  [d \in Disputes |-> CASE order[d] = "refunded"  -> "buyer"
                       [] order[d] = "completed" -> "seller"
                       [] OTHER -> "held"]

closedBar == [d \in Disputes |-> dstatus[d] = "resolved"]

R == INSTANCE Resolution
     WITH verdict <- decision, money <- moneyBar, closed <- closedBar, notices <- announced

(***************************************************************************)
(* Refinement: the three transactions of a call, and whatever other calls, *)
(* retries, recoveries and crashes come between them, implement Resolution.*)
(* A decision is made once and never replaced, only the decided transfer   *)
(* is made, and finalizeIfApplied closes and announces in one transaction. *)
(***************************************************************************)
ResolvesOnce == R!Spec

(***************************************************************************)
(* A claimed resolution completes, through crashes, lost answers and       *)
(* failed escrow calls, unless the admin who claimed it stops being one.   *)
(***************************************************************************)
ResolutionCompletesForAdmin ==
  \A d \in Disputes :
    dstatus[d] # "open" ~> dstatus[d] = "resolved" \/ claimant[d] \notin admins

(***************************************************************************)
(* What the documentation says of resolution_failed without that proviso:  *)
(* the escrow call failed retryably, so some admin's retry carries the     *)
(* persisted decision out.                                                 *)
(***************************************************************************)
ClaimedResolutionCompletes ==
  \A d \in Disputes : dstatus[d] # "open" ~> dstatus[d] = "resolved"
=============================================================================
