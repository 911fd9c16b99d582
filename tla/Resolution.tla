----------------------------- MODULE Resolution -----------------------------
(***************************************************************************)
(* What the marketplace promises about a dispute: it is decided once, the  *)
(* money held for it leaves once, the way that was decided, and then the   *)
(* dispute is closed and its parties are told, in one step and once.       *)
(***************************************************************************)
EXTENDS Naturals

CONSTANT Disputes

VARIABLES
  verdict,   \* the decision on each dispute, or "none"
  money,     \* who has the money in dispute: "held", "buyer" or "seller"
  closed,    \* the dispute is over
  notices    \* how often its end was announced

resolutionVars == <<verdict, money, closed, notices>>

Init ==
  /\ verdict = [d \in Disputes |-> "none"]
  /\ money = [d \in Disputes |-> "held"]
  /\ closed = [d \in Disputes |-> FALSE]
  /\ notices = [d \in Disputes |-> 0]

Decide(d) ==
  /\ verdict[d] = "none"
  /\ \E v \in {"refund", "release"} : verdict' = [verdict EXCEPT ![d] = v]
  /\ UNCHANGED <<money, closed, notices>>

Pay(d, decided, to) ==
  /\ verdict[d] = decided
  /\ money[d] = "held"
  /\ money' = [money EXCEPT ![d] = to]
  /\ UNCHANGED <<verdict, closed, notices>>

Close(d) ==
  /\ money[d] # "held"
  /\ ~closed[d]
  /\ closed' = [closed EXCEPT ![d] = TRUE]
  /\ notices' = [notices EXCEPT ![d] = @ + 1]
  /\ UNCHANGED <<verdict, money>>

Next ==
  \E d \in Disputes :
    Decide(d) \/ Pay(d, "refund", "buyer") \/ Pay(d, "release", "seller") \/ Close(d)

Spec == Init /\ [][Next]_resolutionVars
=============================================================================
