----------------------------- MODULE MCDispute ------------------------------
(* One dispute, two admins, and the calls that may overlap on it. *)
EXTENDS DisputeResolution

CONSTANTS x1, x2, x3, a1, a2, d1
=============================================================================
