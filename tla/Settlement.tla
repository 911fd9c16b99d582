----------------------------- MODULE Settlement -----------------------------
(***************************************************************************)
(* What the marketplace promises about the money of an order: it is taken  *)
(* from the buyer once, held, and then leaves escrow once, in full, either *)
(* to the seller (less the fee) or back to the buyer.                      *)
(***************************************************************************)
CONSTANT Orders

VARIABLE funds   \* where the money of each order is

Init == funds = [o \in Orders |-> "unpaid"]

Hold(o) ==
  /\ funds[o] = "unpaid"
  /\ funds' = [funds EXCEPT ![o] = "held"]

PayOut(o) ==
  /\ funds[o] = "held"
  /\ funds' = [funds EXCEPT ![o] = "seller"]

PayBack(o) ==
  /\ funds[o] = "held"
  /\ funds' = [funds EXCEPT ![o] = "buyer"]

Next == \E o \in Orders : Hold(o) \/ PayOut(o) \/ PayBack(o)

Spec == Init /\ [][Next]_funds
=============================================================================
