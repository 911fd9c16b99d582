------------------------------ MODULE MCOutbox ------------------------------
(* Two events and two worker processes. *)
EXTENDS Outbox

CONSTANTS e1, e2, w1, w2
=============================================================================
