----------------------------- MODULE MCIdentity -----------------------------
(***************************************************************************)
(* One account's sessions on the server, and the tabs of one browser that  *)
(* sign in and out of it.  The components share no state: a behaviour      *)
(* follows one of them, the focus, and the other stays in its initial      *)
(* state.                                                                  *)
(***************************************************************************)
EXTENDS Sessions, AuthTabs, TLC

CONSTANTS b1, r1, r2, t1, t2

Interchangeable == Permutations(Requests) \cup Permutations(Pages)

VARIABLE focus

identityVars == <<focus, vars, authVars>>

IdentityInit ==
  /\ focus \in {"sessions", "tabs"}
  /\ Init /\ AuthInit

IdentityNext ==
  /\ UNCHANGED focus
  /\ \/ focus = "sessions" /\ Next /\ UNCHANGED authVars
     \/ focus = "tabs" /\ AuthNext /\ UNCHANGED vars

\* The variables of the other component are constant in a behaviour.
IdentityView == IF focus = "sessions" THEN <<focus, vars>> ELSE <<focus, authVars>>

IdentitySpec == IdentityInit /\ [][IdentityNext]_identityVars
=============================================================================
