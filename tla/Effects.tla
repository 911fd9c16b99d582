------------------------------ MODULE Effects -------------------------------
(***************************************************************************)
(* What the outbox promises about an event that a business transaction     *)
(* recorded: its notification is written once, after it the delivery job   *)
(* is queued once, and only after both is the event done, for good.  An    *)
(* event that is given up may be taken up again, and effects of attempts   *)
(* that were given up stay.                                                *)
(***************************************************************************)
EXTENDS Naturals

CONSTANT Events

VARIABLES
  fate,     \* "none" before it is recorded, then "due", "done" or "dead"
  told,     \* notifications written for the event
  queued    \* delivery jobs queued for it

promiseVars == <<fate, told, queued>>

Init ==
  /\ fate = [e \in Events |-> "none"]
  /\ told = [e \in Events |-> 0]
  /\ queued = [e \in Events |-> 0]

Turn(e, from, to) ==
  /\ fate[e] = from
  /\ fate' = [fate EXCEPT ![e] = to]
  /\ UNCHANGED <<told, queued>>

Record(e) == Turn(e, "none", "due")

Tell(e) ==
  /\ fate[e] # "none"
  /\ told[e] = 0
  /\ told' = [told EXCEPT ![e] = 1]
  /\ UNCHANGED <<fate, queued>>

Queue(e) ==
  /\ told[e] = 1
  /\ queued[e] = 0
  /\ queued' = [queued EXCEPT ![e] = 1]
  /\ UNCHANGED <<fate, told>>

Finish(e) == told[e] = 1 /\ queued[e] = 1 /\ Turn(e, "due", "done")

\* Several at once: a claim gives up all events that are out of attempts.
GiveUp(S) ==
  /\ \A e \in S : fate[e] = "due"
  /\ fate' = [e \in Events |-> IF e \in S THEN "dead" ELSE fate[e]]
  /\ UNCHANGED <<told, queued>>

TakeUp(e) == Turn(e, "dead", "due")

Next ==
  \/ \E e \in Events : Record(e) \/ Tell(e) \/ Queue(e) \/ Finish(e) \/ TakeUp(e)
  \/ \E S \in SUBSET Events : GiveUp(S)

Spec == Init /\ [][Next]_promiseVars
=============================================================================
