------------------------------ MODULE MCEscrow ------------------------------
(***************************************************************************)
(* Instances of Escrow: two orders that compete for the units of one       *)
(* listing, and one order of an instant listing paid through a gateway.    *)
(***************************************************************************)
EXTENDS Escrow, TLC

CONSTANTS buyer, rival, seller, admin, service, instant, o1, o2

MCUsers == {buyer, rival, seller, admin}

TwoBuyers == (o1 :> buyer) @@ (o2 :> rival)
TwoQuantities == (o1 :> 1) @@ (o2 :> 2)
TwoAmounts == (o1 :> 5) @@ (o2 :> 8)
ServiceSeller == (service :> seller)
ServiceOrders == (o1 :> service) @@ (o2 :> service)

OneBuyer == (o1 :> buyer)
OneQuantity == (o1 :> 1)
OneAmount == (o1 :> 5)
InstantSeller == (instant :> seller)
InstantOrder == (o1 :> instant)
=============================================================================
