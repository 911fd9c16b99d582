---------------------------- MODULE MCOperations ----------------------------
(***************************************************************************)
(* What follows an order, and what guards the service: the gateway's       *)
(* confirmation of an instant order, the resolution of a dispute, the news *)
(* of both on their way to the page, to a Telegram chat and to an open     *)
(* connection, the two semaphores of the media routes, the codes that      *)
(* prove who an account's owner is, and the release gate.  The components  *)
(* share no state, so a behaviour follows one of them, the focus, and the  *)
(* others stay in one initial state, where none of their fair actions is   *)
(* enabled, so their fairness asks nothing.                                *)
(***************************************************************************)
EXTENDS Escrow, DisputeResolution, Delivery, EventBus, RealtimeClient, MediaGate,
        TwoFactor, ReleaseGate, TLC

CONSTANTS buyer, rival, seller, admin, instant, o1

MCUsers == {buyer, rival, seller, admin}
OneBuyer == (o1 :> buyer)
OneQuantity == (o1 :> 1)
OneAmount == (o1 :> 5)
InstantSeller == (instant :> seller)
InstantOrder == (o1 :> instant)

\* The frozen file: a symbol that ends where the next begins, and an anchor.
MCBaseText == <<"start", "text", "end", "anchor">>
MCSymbolRule ==
  [expectedStarts |-> 1, startOccurrence |-> 1, end |-> TRUE, toEnd |-> FALSE,
   expectedEnds |-> 1, endOccurrence |-> 1, includeBefore |-> 0, includeAfter |-> 0,
   includeEnd |-> FALSE]
MCAnchorRule == [expected |-> 1, before |-> 0, after |-> 0]

\* The policy's exceptions: a good one of each package, and one of each flaw.
GoodEntry(p) ==
  [advisory |-> "ghsa", package |-> p, maxSeverity |-> "high", reference |-> "documented",
   expires |-> "later"]
MCListedEntries ==
  {GoodEntry("p"), GoodEntry("q"),
   [GoodEntry("p") EXCEPT !.expires = "past"],
   [GoodEntry("q") EXCEPT !.reference = "dangling"],
   [GoodEntry("p") EXCEPT !.maxSeverity = "other"],
   [GoodEntry("q") EXCEPT !.advisory = "malformed"]}

VARIABLE focus

operationsVars ==
  <<focus, vars, disputeVars, deliveryVars, busVars, realtimeVars, mediaVars, twoFactorVars,
    gateVars>>

Components ==
  {"escrow", "dispute", "delivery", "bus", "client", "reads", "images", "twoFactor", "gate"}

\* Components with several initial states wait in one of them.
OthersPinned ==
  /\ focus # "escrow" => stock = [p \in Products |-> 1]
  /\ focus # "client" => visible = TRUE /\ online = TRUE

OperationsInit ==
  /\ focus \in Components
  /\ OthersPinned
  /\ Init /\ DisputeInit /\ DeliveryInit /\ BusInit /\ RealtimeInit /\ MediaInit
  /\ TwoFactorInit /\ GateInit

\* A step of the component in focus; the others stay as they are.
Only(c) ==
  /\ focus = c /\ UNCHANGED focus
  /\ c # "escrow" => UNCHANGED vars
  /\ c # "dispute" => UNCHANGED disputeVars
  /\ c # "delivery" => UNCHANGED deliveryVars
  /\ c # "bus" => UNCHANGED busVars
  /\ c # "client" => UNCHANGED realtimeVars
  /\ c \notin {"reads", "images"} => UNCHANGED mediaVars
  /\ c # "twoFactor" => UNCHANGED twoFactorVars
  /\ c # "gate" => UNCHANGED gateVars

OperationsNext ==
  \/ Only("escrow") /\ Next
  \/ Only("dispute") /\ DisputeNext
  \/ Only("delivery") /\ DeliveryNext
  \/ Only("bus") /\ BusNext
  \/ Only("client") /\ RealtimeNext
  \/ Only("reads") /\ MediaNext /\ UNCHANGED procVars
  \/ Only("images") /\ MediaNext /\ UNCHANGED readVars
  \/ Only("twoFactor") /\ TwoFactorNext
  \/ Only("gate") /\ GateNext

OperationsSpec ==
  /\ OperationsInit /\ [][OperationsNext]_operationsVars
  /\ Fairness /\ DisputeFairness
=============================================================================
