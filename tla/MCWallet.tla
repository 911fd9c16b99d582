------------------------------ MODULE MCWallet ------------------------------
(* Two users, a top-up each, adjustments both ways and two payouts. *)
EXTENDS Wallet, TLC

CONSTANTS u1, u2, t1, t2, p1, p2, up, down, c1, c2

MCOwnerOf ==
  (t1 :> u1) @@ (t2 :> u2) @@ (p1 :> u1) @@ (p2 :> u1) @@ (up :> u1) @@ (down :> u2)
MCCentsOf ==
  (t1 :> 5) @@ (t2 :> 2) @@ (p1 :> 4) @@ (p2 :> 3) @@ (up :> 1) @@ (down :> -2)
=============================================================================
