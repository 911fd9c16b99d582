--------------------------- MODULE Escrow_proofs ----------------------------
(***************************************************************************)
(* Proofs about Escrow, for any number of orders, products, users and      *)
(* providers: the type invariant, that the ledger follows the lifecycle,   *)
(* that a dispute freezes the funds, that Escrow implements Settlement,    *)
(* that wallets and ledger agree and that escrow covers the open orders.   *)
(* Then about DisputeResolution, for any number of disputes, calls and     *)
(* admins and any number of crashes: its type invariant, that the decision *)
(* governs the order, that a resolution is announced once, that a decision *)
(* once taken is never replaced, and that it implements Resolution.        *)
(***************************************************************************)
EXTENDS Escrow, DisputeResolution, Ledger_proofs

\* The inductive invariant: the types alone would not rule out a release that
\* posts a second entry for an order.
IInv == TypeOK /\ MoneyFollowsStatus

----------------------------------------------------------------------------
(* Facts about the operators *)

\* The platform fee never exceeds the amount it is taken from.
LEMMA FeeWithinAmount ==
  ASSUME NEW o \in Orders
  PROVE  PlatformFeeCents(AmountOf[o], FeeBps) \in 0 .. AmountOf[o]
<1> DEFINE a == AmountOf[o]
           p == a * FeeBps
<1>1. a \in Nat
  BY OrderAssumption, MoneyAssumption DEF MoneyCents
<1> HIDE DEF a
<1>2. p \in Nat /\ p <= a * 10000
  BY <1>1, FeeAssumption, Z3
<1> HIDE DEF p
<1>3. p \div 10000 \in 0 .. a
  BY <1>1, <1>2, Z3
<1> QED
  BY <1>3 DEF PlatformFeeCents, p, a

\* The graph has no self-loop, and no edge leaves a settled status.
LEMMA TransitionGraph ==
  ASSUME NEW from, NEW to, canTransitionOrder(from, to)
  PROVE  /\ from # to
         /\ from \in {"pending", "paid", "in_progress", "delivered", "disputed"}
         /\ to = "completed" => from \in {"delivered", "disputed"}
         /\ to = "refunded" => from \in {"paid", "in_progress", "delivered", "disputed"}
         /\ to = "disputed" => from \in {"paid", "in_progress", "delivered"}
         /\ to = "in_progress" => from = "paid"
  BY DEF canTransitionOrder, orderTransitions, OrderStatus

\* A transition the graph allows is never taken for an idempotent repeat.
LEMMA TransitionEffect ==
  ASSUME NEW o, NEW in, status[o] # in.to, transitionOrder(o, in)
  PROVE  /\ status' = [status EXCEPT ![o] = in.to]
         /\ timer' = [timer EXCEPT ![o] = @ \/ in.to = "delivered"]
         /\ events' = events \cup {OrderEvent(o, in)}
         /\ outbox' = outbox \cup {<<outboxEventType[in.reason], o>>}
  BY DEF transitionOrder, isIdempotentRepeat

\* What posting an entry leaves in the journal.
LEMMA PostedAfter ==
  ASSUME NEW j, NEW e, NEW k
  PROVE  Posted(PostLedgerEntry(j, e), k) <=> Posted(j, k) \/ k = e.key
  BY DEF Posted, PostLedgerEntry

LEMMA JournalTyped ==
  ASSUME NEW j, NEW e, NEW K, \A x \in j : x.key \in K, e.key \in K
  PROVE  \A x \in PostLedgerEntry(j, e) : x.key \in K
  BY DEF PostLedgerEntry

LEMMA TransitionTyped ==
  ASSUME OrderTypeOK, NEW o \in Orders, NEW to \in OrderStatus,
         NEW id \in ActorIds, NEW role, NEW reason \in Reasons, NEW from,
         status[o] # to,
         transitionOrder(o, TransitionInput(to, id, role, reason, from))
  PROVE  /\ OrderTypeOK'
         /\ status' = [status EXCEPT ![o] = to]
<1> DEFINE in == TransitionInput(to, id, role, reason, from)
<1>1. in.to = to /\ in.reason = reason /\ in.actor.id = id
  BY DEF TransitionInput, Actor
<1>2. /\ status' = [status EXCEPT ![o] = to]
      /\ timer' = [timer EXCEPT ![o] = @ \/ to = "delivered"]
      /\ events' = events \cup {OrderEvent(o, in)}
      /\ outbox' = outbox \cup {<<outboxEventType[reason], o>>}
  BY <1>1, TransitionEffect
<1>3. status' \in [Orders -> OrderStatus \cup {"none"}]
  BY <1>2 DEF OrderTypeOK
<1>4. timer' \in [Orders -> BOOLEAN]
  BY <1>2 DEF OrderTypeOK
<1>5. OrderEvent(o, in).order = o /\ OrderEvent(o, in).to = to
      /\ OrderEvent(o, in).reason = reason /\ OrderEvent(o, in).actor.id = id
  BY <1>1 DEF OrderEvent
<1>6. \A e \in events' : /\ e.order \in Orders
                         /\ e.to \in OrderStatus
                         /\ e.reason \in Reasons
                         /\ e.actor.id \in ActorIds
  BY <1>2, <1>5 DEF OrderTypeOK
<1>7. outboxEventType[reason] \in EventTypes
  BY DEF outboxEventType, EventTypes, Reasons
<1>8. outbox' \subseteq EventTypes \X Orders
  BY <1>2, <1>7 DEF OrderTypeOK
<1> QED
  BY <1>2, <1>3, <1>4, <1>6, <1>8 DEF OrderTypeOK

----------------------------------------------------------------------------
(* The three money transactions preserve the invariant *)

LEMMA LockEscrowInv ==
  ASSUME IInv, NEW o \in Orders, NEW id \in ActorIds, NEW role,
         lockEscrow(o, id, role)
  PROVE  /\ OrderTypeOK'
         /\ fee' \in [Orders -> MoneyCents]
         /\ ProductTypeOK'
         /\ WalletTypeOK'
         /\ MoneyFollowsStatus'
         /\ status[o] = "pending"
         /\ status' \in {[status EXCEPT ![o] = "paid"], [status EXCEPT ![o] = "delivered"]}
<1> DEFINE to == IF ProductOf[o] \in InstantProducts THEN "delivered" ELSE "paid"
<1>1. /\ status[o] = "pending"
      /\ stock[ProductOf[o]] >= QuantityOf[o]
      /\ escrowed[Seller(o)] + AmountOf[o] <= MaxCents
  BY DEF lockEscrow, CaptureAllowed, Purchasable, CanAdd
<1>2. /\ ProductOf[o] \in Products /\ Seller(o) \in Users
      /\ QuantityOf[o] \in Nat /\ AmountOf[o] \in MoneyCents /\ AmountOf[o] \in Nat
      /\ AmountOf[o] <= MaxCents
  BY OrderAssumption, CatalogAssumption, MoneyAssumption DEF Seller, MoneyCents
<1>3. OrderTypeOK' /\ status' = [status EXCEPT ![o] = to]
  <2>1. transitionOrder(o, TransitionInput(to, id, role, "payment_captured", {"pending"}))
    BY DEF lockEscrow, CaptureInput
  <2>2. to \in OrderStatus /\ to # "pending" /\ "payment_captured" \in Reasons
    BY DEF OrderStatus, Reasons
  <2> QED
    BY <1>1, <2>1, <2>2, TransitionTyped DEF IInv, TypeOK
<1>4. fee' \in [Orders -> MoneyCents]
  <2> DEFINE f == PlatformFeeCents(AmountOf[o], FeeBps)
  <2>1. f \in 0 .. AmountOf[o]
    BY FeeWithinAmount
  <2> HIDE DEF f
  <2>2. f \in MoneyCents
    BY <1>2, <2>1, MoneyAssumption DEF MoneyCents
  <2> QED
    BY <2>2 DEF lockEscrow, IInv, TypeOK, f
<1>5. ProductTypeOK'
  BY <1>1, <1>2 DEF lockEscrow, IInv, TypeOK, ProductTypeOK
<1>6. WalletTypeOK'
  <2>1. escrowed' \in [Users -> MoneyCents]
    BY <1>1, <1>2, MoneyAssumption DEF lockEscrow, IInv, TypeOK, WalletTypeOK, MoneyCents
  <2>2. CaptureEntry(o).key \in Orders \X EntryKinds
    BY DEF CaptureEntry, Entry, EntryKinds
  <2>3. \A e \in journal' : e.key \in Orders \X EntryKinds
    BY <2>2, JournalTyped DEF lockEscrow, IInv, TypeOK, WalletTypeOK
  <2> QED
    BY <2>1, <2>3 DEF lockEscrow, IInv, TypeOK, WalletTypeOK
<1>7. MoneyFollowsStatus'
  <2>1. CaptureEntry(o).key = <<o, "payment_capture">>
    BY DEF CaptureEntry, Entry
  <2>2. \A k : Posted(journal', k) <=> Posted(journal, k) \/ k = <<o, "payment_capture">>
    BY <2>1, PostedAfter DEF lockEscrow
  <2>3. to \in {"paid", "delivered"}
    OBVIOUS
  <2> HIDE DEF to
  <2> QED
    BY <1>1, <1>3, <2>2, <2>3
    DEF IInv, TypeOK, OrderTypeOK, MoneyFollowsStatus, HeldStatuses
<1> QED
  BY <1>1, <1>3, <1>4, <1>5, <1>6, <1>7

LEMMA ReleaseEscrowInv ==
  ASSUME IInv, NEW o \in Orders, NEW source \in ReleaseSources \cup {"dispute"},
         NEW id \in ActorIds, releaseEscrow(o, source, id)
  PROVE  /\ OrderTypeOK'
         /\ fee' \in [Orders -> MoneyCents]
         /\ ProductTypeOK'
         /\ WalletTypeOK'
         /\ MoneyFollowsStatus'
         /\ status[o] \in {"delivered", "disputed"}
         /\ status' = [status EXCEPT ![o] = "completed"]
<1>1. /\ canTransitionOrder(status[o], "completed")
      /\ fee[o] <= AmountOf[o]
      /\ AmountOf[o] <= escrowed[Seller(o)]
      /\ available[Seller(o)] + (AmountOf[o] - fee[o]) <= MaxCents
      /\ revenue + fee[o] <= MaxCents
  BY DEF releaseEscrow, ReleaseAllowed, CanAdd, CanSubtract
<1>2. /\ ProductOf[o] \in Products /\ Seller(o) \in Users
      /\ QuantityOf[o] \in Nat /\ AmountOf[o] \in Nat
      /\ fee[o] \in Nat /\ revenue \in Nat /\ MaxCents \in Nat
      /\ escrowed[Seller(o)] \in 0 .. MaxCents /\ available[Seller(o)] \in 0 .. MaxCents
  BY OrderAssumption, CatalogAssumption, MoneyAssumption
  DEF Seller, MoneyCents, IInv, TypeOK, WalletTypeOK
<1>3. status[o] \in {"delivered", "disputed"}
  BY <1>1, TransitionGraph
<1>4. OrderTypeOK' /\ status' = [status EXCEPT ![o] = "completed"]
  <2>1. "completed" \in OrderStatus /\ "auto-release-worker" \in ActorIds
        /\ {"buyer_confirmed", "auto_released", "dispute_released"} \subseteq Reasons
    BY DEF OrderStatus, ActorIds, Reasons
  <2>2. CASE source = "buyer_confirmed"
    <3>1. transitionOrder(o, TransitionInput("completed", id, "buyer",
                                             "buyer_confirmed", {"delivered"}))
      BY <2>2 DEF releaseEscrow, ReleaseInput
    <3> QED
      BY <1>3, <2>1, <3>1, TransitionTyped DEF IInv, TypeOK
  <2>3. CASE source = "auto"
    <3>1. transitionOrder(o, TransitionInput("completed", "auto-release-worker",
                              "auto_release", "auto_released", {"delivered"}))
      BY <2>3 DEF releaseEscrow, ReleaseInput
    <3> QED
      BY <1>3, <2>1, <3>1, TransitionTyped DEF IInv, TypeOK
  <2>4. CASE source = "dispute"
    <3>1. transitionOrder(o, TransitionInput("completed", id, "admin",
                                             "dispute_released", {"disputed"}))
      BY <2>4 DEF releaseEscrow, ReleaseInput
    <3> QED
      BY <1>3, <2>1, <3>1, TransitionTyped DEF IInv, TypeOK
  <2> QED
    BY <2>2, <2>3, <2>4 DEF ReleaseSources
<1>5. fee' \in [Orders -> MoneyCents]
  BY DEF releaseEscrow, IInv, TypeOK
<1>6. ProductTypeOK'
  BY <1>2 DEF releaseEscrow, IInv, TypeOK, ProductTypeOK
<1>7. WalletTypeOK'
  <2>1. escrowed' \in [Users -> MoneyCents]
    BY <1>1, <1>2 DEF releaseEscrow, IInv, TypeOK, WalletTypeOK, MoneyCents
  <2>2. available' \in [Users -> MoneyCents]
    BY <1>1, <1>2 DEF releaseEscrow, IInv, TypeOK, WalletTypeOK, MoneyCents
  <2>3. revenue' \in MoneyCents
    BY <1>1, <1>2 DEF releaseEscrow, MoneyCents
  <2>4. ReleaseEntry(o).key \in Orders \X EntryKinds
    BY DEF ReleaseEntry, Entry, EntryKinds
  <2>5. \A e \in journal' : e.key \in Orders \X EntryKinds
    BY <2>4, JournalTyped DEF releaseEscrow, IInv, TypeOK, WalletTypeOK
  <2> QED
    BY <2>1, <2>2, <2>3, <2>5 DEF WalletTypeOK
<1>8. MoneyFollowsStatus'
  <2>1. ReleaseEntry(o).key = <<o, "escrow_release">>
    BY DEF ReleaseEntry, Entry
  <2>2. \A k : Posted(journal', k) <=> Posted(journal, k) \/ k = <<o, "escrow_release">>
    BY <2>1, PostedAfter DEF releaseEscrow
  <2> QED
    BY <1>3, <1>4, <2>2
    DEF IInv, TypeOK, OrderTypeOK, MoneyFollowsStatus, HeldStatuses
<1> QED
  BY <1>3, <1>4, <1>5, <1>6, <1>7, <1>8

LEMMA RefundEscrowInv ==
  ASSUME IInv, NEW o \in Orders, NEW a \in Users, refundEscrow(o, a)
  PROVE  /\ OrderTypeOK'
         /\ fee' \in [Orders -> MoneyCents]
         /\ ProductTypeOK'
         /\ WalletTypeOK'
         /\ MoneyFollowsStatus'
         /\ status[o] \in HeldStatuses
         /\ status' = [status EXCEPT ![o] = "refunded"]
<1>1. /\ canTransitionOrder(status[o], "refunded")
      /\ AmountOf[o] <= escrowed[Seller(o)]
      /\ available[BuyerOf[o]] + AmountOf[o] <= MaxCents
  BY DEF refundEscrow, RefundAllowed, CanAdd, CanSubtract
<1>2. /\ Seller(o) \in Users /\ BuyerOf[o] \in Users
      /\ AmountOf[o] \in Nat /\ MaxCents \in Nat
      /\ escrowed[Seller(o)] \in 0 .. MaxCents /\ available[BuyerOf[o]] \in 0 .. MaxCents
  BY OrderAssumption, CatalogAssumption, MoneyAssumption
  DEF Seller, MoneyCents, IInv, TypeOK, WalletTypeOK
<1>3. status[o] \in HeldStatuses
  BY <1>1, TransitionGraph DEF HeldStatuses
<1>4. OrderTypeOK' /\ status' = [status EXCEPT ![o] = "refunded"]
  <2>1. "refunded" \in OrderStatus /\ a \in ActorIds /\ "dispute_refunded" \in Reasons
        /\ status[o] # "refunded"
    BY <1>3 DEF OrderStatus, ActorIds, Reasons, HeldStatuses
  <2>2. transitionOrder(o, TransitionInput("refunded", a, "admin",
                                           "dispute_refunded", {"disputed"}))
    BY DEF refundEscrow, RefundInput
  <2> QED
    BY <2>1, <2>2, TransitionTyped DEF IInv, TypeOK
<1>5. fee' \in [Orders -> MoneyCents] /\ ProductTypeOK'
  BY DEF refundEscrow, IInv, TypeOK, ProductTypeOK, productVars
<1>6. WalletTypeOK'
  <2>1. escrowed' \in [Users -> MoneyCents]
    BY <1>1, <1>2 DEF refundEscrow, IInv, TypeOK, WalletTypeOK, MoneyCents
  <2>2. available' \in [Users -> MoneyCents]
    BY <1>1, <1>2 DEF refundEscrow, IInv, TypeOK, WalletTypeOK, MoneyCents
  <2>3. RefundEntry(o).key \in Orders \X EntryKinds
    BY DEF RefundEntry, Entry, EntryKinds
  <2>4. \A e \in journal' : e.key \in Orders \X EntryKinds
    BY <2>3, JournalTyped DEF refundEscrow, IInv, TypeOK, WalletTypeOK
  <2> QED
    BY <2>1, <2>2, <2>4 DEF refundEscrow, IInv, TypeOK, WalletTypeOK
<1>7. MoneyFollowsStatus'
  <2>1. RefundEntry(o).key = <<o, "refund">>
    BY DEF RefundEntry, Entry
  <2>2. \A k : Posted(journal', k) <=> Posted(journal, k) \/ k = <<o, "refund">>
    BY <2>1, PostedAfter DEF refundEscrow
  <2> QED
    BY <1>3, <1>4, <2>2
    DEF IInv, TypeOK, OrderTypeOK, MoneyFollowsStatus, HeldStatuses
<1> QED
  BY <1>3, <1>4, <1>5, <1>6, <1>7

(***************************************************************************)
(* A transition that moves no money stays among the statuses before the    *)
(* capture or among those between the capture and the settlement.          *)
(***************************************************************************)
LEMMA PlainTransitionInv ==
  ASSUME IInv, NEW o \in Orders, NEW to \in OrderStatus,
         NEW id \in ActorIds, NEW role, NEW reason \in Reasons, NEW from,
         status[o] # to,
         \/ status[o] = "pending" /\ to = "canceled"
         \/ status[o] \in HeldStatuses /\ to \in HeldStatuses,
         transitionOrder(o, TransitionInput(to, id, role, reason, from)),
         journal' = journal
  PROVE  OrderTypeOK' /\ MoneyFollowsStatus' /\ status' = [status EXCEPT ![o] = to]
<1>1. OrderTypeOK' /\ status' = [status EXCEPT ![o] = to]
  BY TransitionTyped DEF IInv, TypeOK
<1> QED
  BY <1>1 DEF IInv, TypeOK, OrderTypeOK, MoneyFollowsStatus, HeldStatuses

----------------------------------------------------------------------------
(* The invariant is inductive *)

LEMMA InitInv == Init => IInv
<1> SUFFICES ASSUME Init PROVE IInv
  OBVIOUS
<1>1. 0 \in MoneyCents
  BY MoneyAssumption DEF MoneyCents
<1>2. OrderTypeOK /\ ProductTypeOK /\ RequestTypeOK
  BY CatalogAssumption
  DEF Init, OrderTypeOK, ProductTypeOK, RequestTypeOK, OrderStatus, ListingStatus
<1>3. WalletTypeOK /\ fee \in [Orders -> MoneyCents] /\ reviewed \subseteq Orders
  BY <1>1 DEF Init, WalletTypeOK
<1>4. MoneyFollowsStatus
  BY DEF Init, MoneyFollowsStatus, Posted, HeldStatuses
<1> QED
  BY <1>2, <1>3, <1>4 DEF IInv, TypeOK

\* Steps that change neither an order's status nor the journal.
LEMMA QuietInv ==
  ASSUME IInv, status' = status, journal' = journal
  PROVE  MoneyFollowsStatus'
  BY DEF IInv, MoneyFollowsStatus

LEMMA OrderStepInv ==
  ASSUME IInv, NEW o \in Orders, OrderNext(o)
  PROVE  IInv'
<1> USE DEF productVars, walletVars, orderVars, paymentVars
<1>0. Users \subseteq ActorIds /\ BuyerOf[o] \in Users /\ Seller(o) \in Users
  BY OrderAssumption, CatalogAssumption DEF ActorIds, Seller
<1>1. CASE CreateOrder(o)
  <2>1. OrderTypeOK'
    BY <1>1 DEF CreateOrder, IInv, TypeOK, OrderTypeOK, OrderStatus, EventTypes
  <2>2. MoneyFollowsStatus'
    BY <1>1 DEF CreateOrder, IInv, TypeOK, OrderTypeOK, MoneyFollowsStatus, HeldStatuses
  <2> QED
    BY <1>1, <2>1, <2>2
    DEF CreateOrder, IInv, TypeOK, ProductTypeOK, WalletTypeOK, RequestTypeOK
<1>2. ASSUME NEW role \in PayerRoles, Pay(o, role) PROVE IInv'
  <2>1. lockEscrow(o, BuyerOf[o], role)
    BY <1>2 DEF Pay
  <2>2. OrderTypeOK' /\ fee' \in [Orders -> MoneyCents] /\ ProductTypeOK'
        /\ WalletTypeOK' /\ MoneyFollowsStatus'
    BY <1>0, <2>1, LockEscrowInv
  <2> QED
    BY <1>2, <2>2 DEF Pay, IInv, TypeOK, RequestTypeOK
<1>3. ASSUME NEW role \in PayerRoles, TestPaymentFails(o, role) PROVE IInv'
  <2>1. /\ status[o] = "pending" /\ journal' = journal
        /\ transitionOrder(o, TransitionInput("canceled", BuyerOf[o], role,
                                              "test_payment_failed", {"pending"}))
    BY <1>3 DEF TestPaymentFails
  <2>2. "canceled" \in OrderStatus /\ "test_payment_failed" \in Reasons
    BY DEF OrderStatus, Reasons
  <2>3. OrderTypeOK' /\ MoneyFollowsStatus'
    BY <1>0, <2>1, <2>2, PlainTransitionInv
  <2> QED
    BY <1>3, <2>3
    DEF TestPaymentFails, IInv, TypeOK, ProductTypeOK, WalletTypeOK, RequestTypeOK
<1>4. ASSUME NEW to \in {"in_progress", "delivered"}, NEW reason \in Reasons, NEW from,
             from \subseteq {"paid", "in_progress"}, SellerMoves(o, to, reason, from)
      PROVE  IInv'
  <2>1. /\ canTransitionOrder(status[o], to) /\ journal' = journal
        /\ transitionOrder(o, TransitionInput(to, Seller(o), "seller", reason, from))
        /\ TransitionAccepted(o, TransitionInput(to, Seller(o), "seller", reason, from))
    BY <1>4 DEF SellerMoves
  <2>2. status[o] # to
    BY <2>1, TransitionGraph
  <2>3. status[o] \in from
    BY <2>1, <2>2 DEF TransitionAccepted, isIdempotentRepeat, TransitionInput
  <2>4. to \in OrderStatus /\ to \in HeldStatuses /\ status[o] \in HeldStatuses
    BY <1>4, <2>3 DEF OrderStatus, HeldStatuses
  <2>5. OrderTypeOK' /\ MoneyFollowsStatus'
    BY <1>0, <2>1, <2>2, <2>4, PlainTransitionInv
  <2> QED
    BY <1>4, <2>5
    DEF SellerMoves, IInv, TypeOK, ProductTypeOK, WalletTypeOK, RequestTypeOK
<1>5. CASE StartOrder(o) \/ DeliverOrder(o)
  <2>1. {"seller_started", "seller_delivered"} \subseteq Reasons
    BY DEF Reasons
  <2> QED
    BY <1>4, <1>5, <2>1 DEF StartOrder, DeliverOrder
<1>6. CASE SweepListsDue(o) \/ ConfirmChecked(o) \/ AdminRequestsRelease(o)
  <2>1. MoneyFollowsStatus'
    BY <1>6, QuietInv DEF SweepListsDue, ConfirmChecked, AdminRequestsRelease
  <2> QED
    BY <1>6, <2>1
    DEF SweepListsDue, ConfirmChecked, AdminRequestsRelease, Release, ReleaseSources,
        IInv, TypeOK, OrderTypeOK, ProductTypeOK, WalletTypeOK, RequestTypeOK
<1>7. ASSUME NEW u \in Users, OpenDispute(o, u) PROVE IInv'
  <2>1. /\ canTransitionOrder(status[o], "disputed") /\ journal' = journal
        /\ transitionOrder(o, TransitionInput("disputed", u, "participant",
                "dispute_opened", {"paid", "in_progress", "delivered"}))
    BY <1>7 DEF OpenDispute
  <2>2. status[o] \in {"paid", "in_progress", "delivered"}
    BY <2>1, TransitionGraph
  <2>3. "disputed" \in OrderStatus /\ "dispute_opened" \in Reasons
        /\ "disputed" \in HeldStatuses /\ status[o] \in HeldStatuses
    BY <2>2 DEF OrderStatus, Reasons, HeldStatuses
  <2>4. OrderTypeOK' /\ MoneyFollowsStatus'
    BY <1>0, <2>1, <2>2, <2>3, PlainTransitionInv
  <2> QED
    BY <1>7, <2>4
    DEF OpenDispute, IInv, TypeOK, ProductTypeOK, WalletTypeOK, RequestTypeOK
<1>8. ASSUME NEW a \in Admins, ResolveRelease(o, a) PROVE IInv'
  <2>1. OrderTypeOK' /\ fee' \in [Orders -> MoneyCents] /\ ProductTypeOK'
        /\ WalletTypeOK' /\ MoneyFollowsStatus'
    BY <1>0, <1>8, AdminAssumption, ReleaseEscrowInv DEF ResolveRelease
  <2> QED
    BY <1>8, <2>1 DEF ResolveRelease, IInv, TypeOK, RequestTypeOK
<1>9. ASSUME NEW a \in Admins, ResolveRefund(o, a) PROVE IInv'
  <2>1. OrderTypeOK' /\ fee' \in [Orders -> MoneyCents] /\ ProductTypeOK'
        /\ WalletTypeOK' /\ MoneyFollowsStatus'
    BY <1>9, AdminAssumption, RefundEscrowInv DEF ResolveRefund
  <2> QED
    BY <1>9, <2>1 DEF ResolveRefund, IInv, TypeOK, RequestTypeOK
<1>10. CASE ReviewOrder(o)
  <2>1. MoneyFollowsStatus'
    BY <1>10, QuietInv DEF ReviewOrder
  <2>2. OrderTypeOK'
    BY <1>10 DEF ReviewOrder, IInv, TypeOK, OrderTypeOK, EventTypes
  <2> QED
    BY <1>10, <2>1, <2>2
    DEF ReviewOrder, IInv, TypeOK, ProductTypeOK, WalletTypeOK, RequestTypeOK
<1>11. ASSUME NEW a \in Admins, ConfirmManualPayment(o, a) PROVE IInv'
  <2>1. lockEscrow(o, a, "admin") /\ a \in ActorIds
    BY <1>0, <1>11, AdminAssumption DEF ConfirmManualPayment
  <2>2. OrderTypeOK' /\ fee' \in [Orders -> MoneyCents] /\ ProductTypeOK'
        /\ WalletTypeOK' /\ MoneyFollowsStatus'
    BY <2>1, LockEscrowInv
  <2> QED
    BY <1>11, <2>2 DEF ConfirmManualPayment, IInv, TypeOK, RequestTypeOK
<1> QED
  BY <1>1, <1>2, <1>3, <1>5, <1>6, <1>7, <1>8, <1>9, <1>10, <1>11
  DEF OrderNext

LEMMA ReleaseStepInv ==
  ASSUME IInv, NEW o \in Orders, NEW source \in ReleaseSources, ReleaseNext(o, source)
  PROVE  IInv'
<1> USE DEF productVars, walletVars, orderVars, paymentVars
<1>1. CASE RunRelease(o, source)
  <2>1. BuyerOf[o] \in ActorIds
    BY OrderAssumption DEF ActorIds
  <2>2. OrderTypeOK' /\ fee' \in [Orders -> MoneyCents] /\ ProductTypeOK'
        /\ WalletTypeOK' /\ MoneyFollowsStatus'
    BY <1>1, <2>1, ReleaseEscrowInv DEF RunRelease
  <2> QED
    BY <1>1, <2>2 DEF RunRelease, IInv, TypeOK, RequestTypeOK
<1>2. CASE ReleaseRejected(o, source) \/ ReleaseLost(o, source)
  <2>1. MoneyFollowsStatus'
    BY <1>2, QuietInv DEF ReleaseRejected, ReleaseLost
  <2> QED
    BY <1>2, <2>1
    DEF ReleaseRejected, ReleaseLost, IInv, TypeOK, OrderTypeOK, ProductTypeOK,
        WalletTypeOK, RequestTypeOK
<1> QED
  BY <1>1, <1>2 DEF ReleaseNext

LEMMA PaymentStepInv ==
  ASSUME IInv, NEW o \in Orders, NEW p \in Providers, PaymentNext(o, p)
  PROVE  IInv'
<1> USE DEF productVars, walletVars, orderVars, paymentVars
<1>1. CASE CreateCheckout(o, p) \/ ProviderCharges(o, p) \/ WebhookTerminal(o, p)
  <2>1. MoneyFollowsStatus'
    BY <1>1, QuietInv DEF CreateCheckout, ProviderCharges, WebhookTerminal
  <2>2. RequestTypeOK'
    BY <1>1 DEF CreateCheckout, ProviderCharges, WebhookTerminal, IInv, TypeOK,
                RequestTypeOK
  <2> QED
    BY <1>1, <2>1, <2>2
    DEF CreateCheckout, ProviderCharges, WebhookTerminal, IInv, TypeOK, OrderTypeOK,
        ProductTypeOK, WalletTypeOK
<1>2. CASE WebhookCaptures(o, p)
  <2>1. p \in ActorIds
    BY DEF ActorIds
  <2>2. OrderTypeOK' /\ fee' \in [Orders -> MoneyCents] /\ ProductTypeOK'
        /\ WalletTypeOK' /\ MoneyFollowsStatus'
    BY <1>2, <2>1, LockEscrowInv DEF WebhookCaptures
  <2> QED
    BY <1>2, <2>2 DEF WebhookCaptures, IInv, TypeOK, RequestTypeOK
<1> QED
  BY <1>1, <1>2 DEF PaymentNext

LEMMA ListingStepInv ==
  ASSUME IInv, NEW p \in Products, ListingNext(p)
  PROVE  IInv'
<1> USE DEF productVars, walletVars, orderVars, paymentVars
<1>1. MoneyFollowsStatus'
  BY QuietInv DEF ListingNext, EditListing, DeleteListing, ModerateListing
<1>2. ProductTypeOK'
  <2>1. stock[p] \in Nat /\ StockLevels \subseteq Nat
    BY CatalogAssumption DEF IInv, TypeOK, ProductTypeOK
  <2> QED
    BY <2>1, ModeAssumption
    DEF ListingNext, EditListing, DeleteListing, ModerateListing, ListingStatus, IInv, TypeOK, ProductTypeOK
<1> QED
  BY <1>1, <1>2
  DEF ListingNext, EditListing, DeleteListing, ModerateListing, IInv, TypeOK, OrderTypeOK, WalletTypeOK,
      RequestTypeOK

LEMMA StepInv == IInv /\ [Next]_vars => IInv'
<1> SUFFICES ASSUME IInv, [Next]_vars PROVE IInv'
  OBVIOUS
<1>1. CASE UNCHANGED vars
  BY <1>1
  DEF vars, productVars, walletVars, orderVars, paymentVars, IInv, TypeOK, OrderTypeOK,
      ProductTypeOK, WalletTypeOK, RequestTypeOK, MoneyFollowsStatus
<1> QED
  BY <1>1, OrderStepInv, ReleaseStepInv, PaymentStepInv, ListingStepInv DEF Next

LEMMA Invariance == Spec => []IInv
  BY InitInv, StepInv, PTL DEF Spec

(***************************************************************************)
(* Every reachable state is typed: in particular no balance leaves the     *)
(* range of a bigint and no listing is oversold into negative stock.       *)
(***************************************************************************)
THEOREM TypeCorrect == Spec => []TypeOK
<1>1. IInv => TypeOK
  BY DEF IInv
<1> QED
  BY <1>1, Invariance, PTL

(***************************************************************************)
(* The ledger holds a capture, a release or a refund of an order exactly   *)
(* when its status says so, whatever the interleaving of payments, sweeps, *)
(* confirmations and disputes.                                             *)
(***************************************************************************)
THEOREM LedgerFollowsLifecycle == Spec => []MoneyFollowsStatus
<1>1. IInv => MoneyFollowsStatus
  BY DEF IInv
<1> QED
  BY <1>1, Invariance, PTL

----------------------------------------------------------------------------
(* Escrow implements Settlement *)

\* The step posts one entry, of this kind and for this order.
Posts(o, kind) ==
  \A k : Posted(journal', k) <=> Posted(journal, k) \/ k = <<o, kind>>

LEMMA LockEscrowPosts ==
  ASSUME NEW o \in Orders, NEW id, NEW role, lockEscrow(o, id, role)
  PROVE  Posts(o, "payment_capture") /\ status[o] = "pending"
<1>1. CaptureEntry(o).key = <<o, "payment_capture">>
  BY DEF CaptureEntry, Entry
<1> QED
  BY <1>1, PostedAfter DEF Posts, lockEscrow, CaptureAllowed

LEMMA ReleaseEscrowPosts ==
  ASSUME NEW o \in Orders, NEW source, NEW id, releaseEscrow(o, source, id)
  PROVE  Posts(o, "escrow_release") /\ status[o] \in HeldStatuses
<1>1. ReleaseEntry(o).key = <<o, "escrow_release">>
  BY DEF ReleaseEntry, Entry
<1>2. canTransitionOrder(status[o], "completed")
  BY DEF releaseEscrow, ReleaseAllowed
<1>3. status[o] \in HeldStatuses
  BY <1>2, TransitionGraph DEF HeldStatuses
<1> QED
  BY <1>1, <1>3, PostedAfter DEF Posts, releaseEscrow

LEMMA RefundEscrowPosts ==
  ASSUME NEW o \in Orders, NEW a, refundEscrow(o, a)
  PROVE  Posts(o, "refund") /\ status[o] \in HeldStatuses
<1>1. RefundEntry(o).key = <<o, "refund">>
  BY DEF RefundEntry, Entry
<1>2. canTransitionOrder(status[o], "refunded")
  BY DEF refundEscrow, RefundAllowed
<1>3. status[o] \in HeldStatuses
  BY <1>2, TransitionGraph DEF HeldStatuses
<1> QED
  BY <1>1, <1>3, PostedAfter DEF Posts, refundEscrow

\* A step either leaves the journal alone or is one of the three transactions.
LEMMA StepPosts ==
  ASSUME [Next]_vars
  PROVE  \/ journal' = journal
         \/ \E o \in Orders :
              \/ Posts(o, "payment_capture") /\ status[o] = "pending"
              \/ Posts(o, "escrow_release") /\ status[o] \in HeldStatuses
              \/ Posts(o, "refund") /\ status[o] \in HeldStatuses
<1> USE DEF walletVars
<1>1. CASE UNCHANGED vars
  BY <1>1 DEF vars
<1>2. ASSUME NEW o \in Orders, OrderNext(o)
      PROVE  \/ journal' = journal
             \/ Posts(o, "payment_capture") /\ status[o] = "pending"
             \/ Posts(o, "escrow_release") /\ status[o] \in HeldStatuses
             \/ Posts(o, "refund") /\ status[o] \in HeldStatuses
  <2>1. ASSUME NEW role, Pay(o, role)
        PROVE  Posts(o, "payment_capture") /\ status[o] = "pending"
    BY <2>1, LockEscrowPosts DEF Pay
  <2>5. ASSUME NEW a, ConfirmManualPayment(o, a)
        PROVE  Posts(o, "payment_capture") /\ status[o] = "pending"
    BY <2>5, LockEscrowPosts DEF ConfirmManualPayment
  <2>2. ASSUME NEW a, ResolveRelease(o, a)
        PROVE  Posts(o, "escrow_release") /\ status[o] \in HeldStatuses
    BY <2>2, ReleaseEscrowPosts DEF ResolveRelease
  <2>3. ASSUME NEW a, ResolveRefund(o, a)
        PROVE  Posts(o, "refund") /\ status[o] \in HeldStatuses
    BY <2>3, RefundEscrowPosts DEF ResolveRefund
  <2>4. CASE \/ CreateOrder(o) \/ StartOrder(o)
             \/ \E role \in PayerRoles : TestPaymentFails(o, role)
             \/ DeliverOrder(o) \/ SweepListsDue(o) \/ ConfirmChecked(o)
             \/ AdminRequestsRelease(o) \/ ReviewOrder(o)
             \/ \E u \in Users : OpenDispute(o, u)
    BY <2>4
    DEF CreateOrder, TestPaymentFails, StartOrder, DeliverOrder, SellerMoves,
        SweepListsDue, ConfirmChecked, AdminRequestsRelease, ReviewOrder, OpenDispute
  <2> QED
    BY <1>2, <2>1, <2>2, <2>3, <2>4, <2>5 DEF OrderNext
<1>3. ASSUME NEW o \in Orders, NEW source, ReleaseNext(o, source)
      PROVE  \/ journal' = journal
             \/ Posts(o, "escrow_release") /\ status[o] \in HeldStatuses
  BY <1>3, ReleaseEscrowPosts DEF ReleaseNext, RunRelease, ReleaseRejected, ReleaseLost
<1>4. ASSUME NEW o \in Orders, NEW p, PaymentNext(o, p)
      PROVE  \/ journal' = journal
             \/ Posts(o, "payment_capture") /\ status[o] = "pending"
  BY <1>4, LockEscrowPosts
  DEF PaymentNext, CreateCheckout, ProviderCharges, WebhookTerminal, WebhookCaptures
<1>5. ASSUME NEW p, ListingNext(p) PROVE journal' = journal
  BY <1>5 DEF ListingNext, EditListing, DeleteListing, ModerateListing
<1> QED
  BY <1>1, <1>2, <1>3, <1>4, <1>5 DEF Next

LEMMA StepSettles == IInv /\ [Next]_vars => [S!Next]_fundsBar
<1> SUFFICES ASSUME IInv, [Next]_vars PROVE S!Next \/ fundsBar' = fundsBar
  OBVIOUS
<1>1. CASE journal' = journal
  BY <1>1 DEF fundsBar
<1>2. ASSUME NEW o \in Orders, Posts(o, "payment_capture"), status[o] = "pending"
      PROVE  S!Hold(o)
  <2>1. /\ ~Posted(journal, <<o, "refund">>) /\ ~Posted(journal, <<o, "escrow_release">>)
        /\ ~Posted(journal, <<o, "payment_capture">>)
    BY <1>2 DEF IInv, MoneyFollowsStatus, HeldStatuses
  <2> QED
    BY <1>2, <2>1 DEF S!Hold, fundsBar, Posts
<1>3. ASSUME NEW o \in Orders, Posts(o, "escrow_release"), status[o] \in HeldStatuses
      PROVE  S!PayOut(o)
  <2>1. /\ ~Posted(journal, <<o, "refund">>) /\ ~Posted(journal, <<o, "escrow_release">>)
        /\ Posted(journal, <<o, "payment_capture">>)
    BY <1>3 DEF IInv, MoneyFollowsStatus, HeldStatuses
  <2> QED
    BY <1>3, <2>1 DEF S!PayOut, fundsBar, Posts
<1>4. ASSUME NEW o \in Orders, Posts(o, "refund"), status[o] \in HeldStatuses
      PROVE  S!PayBack(o)
  <2>1. /\ ~Posted(journal, <<o, "refund">>) /\ ~Posted(journal, <<o, "escrow_release">>)
        /\ Posted(journal, <<o, "payment_capture">>)
    BY <1>4 DEF IInv, MoneyFollowsStatus, HeldStatuses
  <2> QED
    BY <1>4, <2>1 DEF S!PayBack, fundsBar, Posts
<1> QED
  BY <1>1, <1>2, <1>3, <1>4, StepPosts DEF S!Next

(***************************************************************************)
(* The orders, wallets, webhooks, sweeps and disputes of Escrow implement  *)
(* Settlement: the money of an order is taken once and leaves escrow once, *)
(* to the seller or to the buyer.                                          *)
(***************************************************************************)
THEOREM EscrowSettlesOnce == Spec => SettlesOnce
<1>1. Init => S!Init
  BY DEF Init, S!Init, fundsBar, Posted
<1> QED
  BY <1>1, Invariance, StepSettles, PTL DEF Spec, SettlesOnce, S!Spec

----------------------------------------------------------------------------
(* A dispute freezes the funds *)

DisputeReasons == {"dispute_released", "dispute_refunded"}
Settled == {"completed", "refunded"}

(***************************************************************************)
(* Strengthening: an admin's decision is on the timeline only of an order  *)
(* it settled, so the event that takes an order out of disputed is new.    *)
(***************************************************************************)
DecisionsSettled ==
  \A e \in events : e.reason \in DisputeReasons => status[e.order] \in Settled

\* One order moves along the graph and its timeline records why.
Moves(o, to, reason) ==
  /\ canTransitionOrder(status[o], to)
  /\ status' = [status EXCEPT ![o] = to]
  /\ \E e : events' = events \cup {e} /\ e.order = o /\ e.reason = reason
  /\ status[o] = "disputed" => reason \in DisputeReasons
  /\ reason \in DisputeReasons => to \in Settled

LEMMA TransitionMoves ==
  ASSUME NEW o \in Orders, NEW to, NEW id, NEW role, NEW reason, NEW from,
         canTransitionOrder(status[o], to),
         TransitionAccepted(o, TransitionInput(to, id, role, reason, from)),
         transitionOrder(o, TransitionInput(to, id, role, reason, from)),
         "disputed" \in from => reason \in DisputeReasons,
         reason \in DisputeReasons => to \in Settled
  PROVE  Moves(o, to, reason)
<1> DEFINE in == TransitionInput(to, id, role, reason, from)
<1>1. in.to = to /\ in.reason = reason /\ in.expectedFrom = from
  BY DEF TransitionInput
<1>2. status[o] # to
  BY TransitionGraph
<1>3. status' = [status EXCEPT ![o] = to] /\ events' = events \cup {OrderEvent(o, in)}
  BY <1>1, <1>2, TransitionEffect
<1>4. OrderEvent(o, in).order = o /\ OrderEvent(o, in).reason = reason
  BY <1>1 DEF OrderEvent
<1>5. status[o] \in from
  BY <1>1, <1>2 DEF TransitionAccepted, isIdempotentRepeat
<1> QED
  BY <1>3, <1>4, <1>5 DEF Moves

LEMMA LockEscrowMoves ==
  ASSUME NEW o \in Orders, NEW id, NEW role, lockEscrow(o, id, role)
  PROVE  \E to, reason : Moves(o, to, reason)
<1> DEFINE to == IF ProductOf[o] \in InstantProducts THEN "delivered" ELSE "paid"
<1>1. /\ status[o] = "pending"
      /\ TransitionAccepted(o, TransitionInput(to, id, role, "payment_captured", {"pending"}))
      /\ transitionOrder(o, TransitionInput(to, id, role, "payment_captured", {"pending"}))
  BY DEF lockEscrow, CaptureAllowed, CaptureInput
<1>2. canTransitionOrder(status[o], to)
  BY <1>1 DEF canTransitionOrder, orderTransitions, OrderStatus
<1>3. Moves(o, to, "payment_captured")
  BY <1>1, <1>2, TransitionMoves DEF DisputeReasons
<1> QED
  BY <1>3

LEMMA ReleaseEscrowMoves ==
  ASSUME NEW o \in Orders, NEW source \in ReleaseSources \cup {"dispute"}, NEW id,
         releaseEscrow(o, source, id)
  PROVE  \E to, reason : Moves(o, to, reason)
<1>1. /\ canTransitionOrder(status[o], "completed")
      /\ TransitionAccepted(o, ReleaseInput(o, source, id))
      /\ transitionOrder(o, ReleaseInput(o, source, id))
  BY DEF releaseEscrow, ReleaseAllowed
<1>2. CASE source = "buyer_confirmed"
  BY <1>1, <1>2, TransitionMoves DEF ReleaseInput, DisputeReasons, Settled
<1>3. CASE source = "auto"
  BY <1>1, <1>3, TransitionMoves DEF ReleaseInput, DisputeReasons, Settled
<1>4. CASE source = "dispute"
  BY <1>1, <1>4, TransitionMoves DEF ReleaseInput, DisputeReasons, Settled
<1> QED
  BY <1>2, <1>3, <1>4 DEF ReleaseSources

LEMMA RefundEscrowMoves ==
  ASSUME NEW o \in Orders, NEW a, refundEscrow(o, a)
  PROVE  \E to, reason : Moves(o, to, reason)
  BY TransitionMoves
  DEF refundEscrow, RefundAllowed, RefundInput, DisputeReasons, Settled

\* What a step may do to statuses and timelines.
LEMMA StepMoves ==
  ASSUME [Next]_vars
  PROVE  \/ status' = status /\ events' = events
         \/ \E o \in Orders : /\ status[o] = "none"
                              /\ status' = [status EXCEPT ![o] = "pending"]
                              /\ events' = events
         \/ \E o \in Orders : \E to, reason : Moves(o, to, reason)
<1> USE DEF orderVars
<1>1. CASE UNCHANGED vars
  BY <1>1 DEF vars
<1>2. ASSUME NEW o \in Orders, OrderNext(o)
      PROVE  \/ status' = status /\ events' = events
             \/ /\ status[o] = "none"
                /\ status' = [status EXCEPT ![o] = "pending"]
                /\ events' = events
             \/ \E to, reason : Moves(o, to, reason)
  <2>1. ASSUME NEW role, Pay(o, role) PROVE \E to, reason : Moves(o, to, reason)
    BY <2>1, LockEscrowMoves DEF Pay
  <2>9. ASSUME NEW a, ConfirmManualPayment(o, a)
        PROVE  \E to, reason : Moves(o, to, reason)
    BY <2>9, LockEscrowMoves DEF ConfirmManualPayment
  <2>2. ASSUME NEW a, ResolveRelease(o, a) PROVE \E to, reason : Moves(o, to, reason)
    BY <2>2, ReleaseEscrowMoves DEF ResolveRelease
  <2>3. ASSUME NEW a, ResolveRefund(o, a) PROVE \E to, reason : Moves(o, to, reason)
    BY <2>3, RefundEscrowMoves DEF ResolveRefund
  <2>4. ASSUME NEW role, TestPaymentFails(o, role)
        PROVE  \E to, reason : Moves(o, to, reason)
    <3>1. canTransitionOrder(status[o], "canceled")
      BY <2>4 DEF TestPaymentFails, canTransitionOrder, orderTransitions, OrderStatus
    <3>2. Moves(o, "canceled", "test_payment_failed")
      BY <2>4, <3>1, TransitionMoves DEF TestPaymentFails, DisputeReasons
    <3> QED
      BY <3>2
  <2>5. CASE StartOrder(o)
    <3>1. Moves(o, "in_progress", "seller_started")
      BY <2>5, TransitionMoves DEF StartOrder, SellerMoves, DisputeReasons
    <3> QED
      BY <3>1
  <2>6. CASE DeliverOrder(o)
    <3>1. Moves(o, "delivered", "seller_delivered")
      BY <2>6, TransitionMoves DEF DeliverOrder, SellerMoves, DisputeReasons
    <3> QED
      BY <3>1
  <2>7. ASSUME NEW u, OpenDispute(o, u) PROVE \E to, reason : Moves(o, to, reason)
    <3>1. Moves(o, "disputed", "dispute_opened")
      BY <2>7, TransitionMoves DEF OpenDispute, DisputeReasons
    <3> QED
      BY <3>1
  <2>8. CASE \/ SweepListsDue(o) \/ ConfirmChecked(o) \/ AdminRequestsRelease(o)
             \/ ReviewOrder(o) \/ CreateOrder(o)
    BY <2>8
    DEF SweepListsDue, ConfirmChecked, AdminRequestsRelease, ReviewOrder, CreateOrder
  <2> QED
    BY <1>2, <2>1, <2>2, <2>3, <2>4, <2>5, <2>6, <2>7, <2>8,
       <2>9 DEF OrderNext
<1>3. ASSUME NEW o \in Orders, NEW source \in ReleaseSources, ReleaseNext(o, source)
      PROVE  \/ status' = status /\ events' = events
             \/ \E to, reason : Moves(o, to, reason)
  BY <1>3, ReleaseEscrowMoves DEF ReleaseNext, RunRelease, ReleaseRejected, ReleaseLost
<1>4. ASSUME NEW o \in Orders, NEW p, PaymentNext(o, p)
      PROVE  \/ status' = status /\ events' = events
             \/ \E to, reason : Moves(o, to, reason)
  BY <1>4, LockEscrowMoves
  DEF PaymentNext, CreateCheckout, ProviderCharges, WebhookTerminal, WebhookCaptures
<1>5. ASSUME NEW p, ListingNext(p) PROVE status' = status /\ events' = events
  BY <1>5 DEF ListingNext, EditListing, DeleteListing, ModerateListing
<1> QED
  BY <1>1, <1>2, <1>3, <1>4, <1>5 DEF Next

LEMMA DecisionsInvariant == Spec => []DecisionsSettled
<1>1. Init => DecisionsSettled
  BY DEF Init, DecisionsSettled
<1>2. IInv /\ DecisionsSettled /\ [Next]_vars => DecisionsSettled'
  <2> SUFFICES ASSUME IInv, DecisionsSettled, [Next]_vars PROVE DecisionsSettled'
    OBVIOUS
  <2>0. status \in [Orders -> OrderStatus \cup {"none"}] /\ \A e \in events : e.order \in Orders
    BY DEF IInv, TypeOK, OrderTypeOK
  <2>1. CASE status' = status /\ events' = events
    BY <2>1 DEF DecisionsSettled
  <2>2. CASE \E o \in Orders : /\ status[o] = "none"
                               /\ status' = [status EXCEPT ![o] = "pending"]
                               /\ events' = events
    BY <2>0, <2>2 DEF DecisionsSettled, Settled
  <2>3. ASSUME NEW o \in Orders, NEW to, NEW reason, Moves(o, to, reason)
        PROVE  DecisionsSettled'
    <3>1. status[o] \notin Settled
      BY <2>3, TransitionGraph DEF Moves, Settled
    <3> QED
      BY <2>0, <2>3, <3>1 DEF Moves, DecisionsSettled
  <2> QED
    BY <2>1, <2>2, <2>3, StepMoves
<1> QED
  BY <1>1, <1>2, Invariance, PTL DEF Spec

(***************************************************************************)
(* Whatever is in flight when a dispute opens, only an admin's decision    *)
(* takes the order out of it, and the timeline gains that decision.        *)
(***************************************************************************)
THEOREM DisputeHolds == Spec => DisputeFreezesFunds
<1>1. IInv /\ DecisionsSettled /\ [Next]_vars
        => [\A o \in Orders :
              status[o] = "disputed" /\ status'[o] # "disputed"
                => \E e \in events' \ events :
                     e.order = o /\ e.reason \in {"dispute_released", "dispute_refunded"}]_vars
  <2> SUFFICES ASSUME IInv, DecisionsSettled, [Next]_vars, NEW o \in Orders,
                      status[o] = "disputed", status'[o] # "disputed"
               PROVE  \E e \in events' \ events :
                        e.order = o /\ e.reason \in DisputeReasons
    BY DEF DisputeReasons
  <2>0. status \in [Orders -> OrderStatus \cup {"none"}]
    BY DEF IInv, TypeOK, OrderTypeOK
  <2>1. PICK to, reason : Moves(o, to, reason)
    BY <2>0, StepMoves DEF Moves
  <2>2. PICK e : events' = events \cup {e} /\ e.order = o /\ e.reason = reason
    BY <2>1 DEF Moves
  <2>3. reason \in DisputeReasons
    BY <2>1 DEF Moves
  <2>4. e \notin events
    BY <2>2, <2>3 DEF DecisionsSettled, Settled
  <2> QED
    BY <2>2, <2>3, <2>4
<1> QED
  BY <1>1, Invariance, DecisionsInvariant, PTL DEF Spec, DisputeFreezesFunds

----------------------------------------------------------------------------
(* The books agree with the wallets, and the escrow with the orders *)

\* What a step does to money: nothing, or it is one of the three transactions.
NoMoneyMoves ==
  /\ UNCHANGED <<available, escrowed, revenue, journal, sales>>
  /\ \A o \in Orders : /\ status'[o] \in HeldStatuses <=> status[o] \in HeldStatuses
                       /\ status'[o] = "completed" <=> status[o] = "completed"
  /\ \E o : \A q \in Orders : q # o => status'[q] = status[q]

MoneyMoves(o) ==
  \/ \E id \in ActorIds : \E role : lockEscrow(o, id, role)
  \/ \E source \in ReleaseSources \cup {"dispute"}, id \in ActorIds : releaseEscrow(o, source, id)
  \/ \E a \in Users : refundEscrow(o, a)

LEMMA PlainTransitionIdle ==
  ASSUME IInv, NEW o \in Orders, NEW to, NEW id, NEW role, NEW reason, NEW from,
         status[o] # to,
         \/ status[o] \in {"none", "pending"} /\ to = "canceled"
         \/ status[o] \in HeldStatuses /\ to \in HeldStatuses,
         transitionOrder(o, TransitionInput(to, id, role, reason, from)),
         UNCHANGED <<productVars, walletVars>>
  PROVE  NoMoneyMoves
<1>1. status' = [status EXCEPT ![o] = to]
  BY TransitionEffect DEF TransitionInput
<1> QED
  BY <1>1 DEF NoMoneyMoves, productVars, walletVars, HeldStatuses, IInv, TypeOK, OrderTypeOK

LEMMA SameStatusIdle ==
  ASSUME status' = status, UNCHANGED <<available, escrowed, revenue, journal, sales>>
  PROVE  NoMoneyMoves
BY DEF NoMoneyMoves

LEMMA StepMoney ==
  ASSUME IInv, [Next]_vars
  PROVE  NoMoneyMoves \/ \E o \in Orders : MoneyMoves(o)
<1> USE DEF productVars, walletVars, orderVars, paymentVars
<1>0. \A o \in Orders : BuyerOf[o] \in Users /\ BuyerOf[o] \in ActorIds
  BY OrderAssumption DEF ActorIds
<1>00. Admins \subseteq Users /\ Admins \subseteq ActorIds /\ Providers \subseteq ActorIds
  BY AdminAssumption DEF ActorIds
<1>1. CASE UNCHANGED vars
  BY <1>1, SameStatusIdle DEF vars
<1>2. ASSUME NEW o \in Orders, OrderNext(o)
      PROVE  NoMoneyMoves \/ MoneyMoves(o)
  <2>1. ASSUME NEW role, Pay(o, role) PROVE MoneyMoves(o)
    BY <1>0, <2>1 DEF Pay, MoneyMoves
  <2>2. ASSUME NEW a \in Admins, ConfirmManualPayment(o, a) PROVE MoneyMoves(o)
    BY <1>00, <2>2 DEF ConfirmManualPayment, MoneyMoves
  <2>3. ASSUME NEW a \in Admins, ResolveRelease(o, a) PROVE MoneyMoves(o)
    BY <1>00, <2>3 DEF ResolveRelease, MoneyMoves
  <2>4. ASSUME NEW a \in Admins, ResolveRefund(o, a) PROVE MoneyMoves(o)
    BY <1>00, <2>4 DEF ResolveRefund, MoneyMoves
  <2>5. ASSUME NEW role, TestPaymentFails(o, role) PROVE NoMoneyMoves
    BY <2>5, PlainTransitionIdle DEF TestPaymentFails
  <2>6. ASSUME NEW to \in {"in_progress", "delivered"}, NEW reason, NEW from,
               from \subseteq {"paid", "in_progress"}, SellerMoves(o, to, reason, from)
        PROVE  NoMoneyMoves
    <3>1. /\ canTransitionOrder(status[o], to)
          /\ transitionOrder(o, TransitionInput(to, Seller(o), "seller", reason, from))
          /\ TransitionAccepted(o, TransitionInput(to, Seller(o), "seller", reason, from))
          /\ UNCHANGED <<productVars, walletVars>>
      BY <2>6 DEF SellerMoves
    <3>2. status[o] # to
      BY <3>1, TransitionGraph
    <3>3. status[o] \in from
      BY <3>1, <3>2 DEF TransitionAccepted, isIdempotentRepeat, TransitionInput
    <3> QED
      BY <2>6, <3>1, <3>2, <3>3, PlainTransitionIdle DEF HeldStatuses
  <2>7. CASE StartOrder(o) \/ DeliverOrder(o)
    BY <2>6, <2>7 DEF StartOrder, DeliverOrder
  <2>8. ASSUME NEW u, OpenDispute(o, u) PROVE NoMoneyMoves
    <3>1. /\ canTransitionOrder(status[o], "disputed") /\ UNCHANGED <<productVars, walletVars>>
          /\ transitionOrder(o, TransitionInput("disputed", u, "participant",
                "dispute_opened", {"paid", "in_progress", "delivered"}))
      BY <2>8 DEF OpenDispute
    <3>2. status[o] \in {"paid", "in_progress", "delivered"}
      BY <3>1, TransitionGraph
    <3> QED
      BY <3>1, <3>2, PlainTransitionIdle DEF HeldStatuses
  <2>9. CASE SweepListsDue(o) \/ ConfirmChecked(o) \/ AdminRequestsRelease(o) \/ ReviewOrder(o)
    BY <2>9, SameStatusIdle DEF SweepListsDue, ConfirmChecked, AdminRequestsRelease, ReviewOrder
  <2>10. CASE CreateOrder(o)
    BY <2>10 DEF CreateOrder, NoMoneyMoves, HeldStatuses, IInv, TypeOK, OrderTypeOK
  <2> QED
    BY <1>2, <2>1, <2>2, <2>3, <2>4, <2>5, <2>7, <2>8, <2>9, <2>10 DEF OrderNext
<1>3. ASSUME NEW o \in Orders, NEW source \in ReleaseSources, ReleaseNext(o, source)
      PROVE  NoMoneyMoves \/ MoneyMoves(o)
  BY <1>0, <1>3, SameStatusIdle DEF ReleaseNext, RunRelease, ReleaseRejected, ReleaseLost, MoneyMoves
<1>4. ASSUME NEW o \in Orders, NEW p \in Providers, PaymentNext(o, p)
      PROVE  NoMoneyMoves \/ MoneyMoves(o)
  BY <1>00, <1>4, SameStatusIdle
  DEF PaymentNext, CreateCheckout, ProviderCharges, WebhookTerminal, WebhookCaptures, MoneyMoves
<1>5. ASSUME NEW p, ListingNext(p) PROVE NoMoneyMoves
  BY <1>5, SameStatusIdle DEF ListingNext, EditListing, DeleteListing, ModerateListing
<1> QED
  BY <1>1, <1>2, <1>3, <1>4, <1>5 DEF Next

----------------------------------------------------------------------------
(* Wallets and ledger *)

Accounts ==
  {PlatformRevenue} \cup {UserPayable(u) : u \in Users} \cup {SellerEscrow(u) : u \in Users}

\* The journal is finite and its entries move numbers.
JournalAdds ==
  /\ IsFiniteSet(journal)
  /\ \A e \in journal : \A a \in Accounts : EntryNet(e, a) \in Int

BooksAgree == JournalAdds /\ WalletsReconcile

LEMMA AccountsDiffer ==
  /\ \A u : UserPayable(u) # ProviderClearing /\ UserPayable(u) # PlatformRevenue
  /\ \A u : SellerEscrow(u) # ProviderClearing /\ SellerEscrow(u) # PlatformRevenue
  /\ \A u, v : UserPayable(u) # SellerEscrow(v)
  /\ \A u, v : UserPayable(u) = UserPayable(v) <=> u = v
  /\ \A u, v : SellerEscrow(u) = SellerEscrow(v) <=> u = v
  /\ PlatformRevenue # ProviderClearing
BY DEF UserPayable, SellerEscrow, PlatformRevenue, ProviderClearing

\* A new entry changes every balance by what it moves.
LEMMA JournalGrows ==
  ASSUME JournalAdds, NEW entry, ~Posted(journal, entry.key),
         \A a \in Accounts : EntryNet(entry, a) \in Int,
         journal' = PostLedgerEntry(journal, entry)
  PROVE  /\ JournalAdds'
         /\ \A a \in Accounts : LedgerBalance(journal', a)
                                  = LedgerBalance(journal, a) + EntryNet(entry, a)
<1>1. IsFiniteSet(journal \cup {entry})
  BY FS_AddElement DEF JournalAdds
<1>2. \A e \in journal \cup {entry} : \A a \in Accounts : EntryNet(e, a) \in Int
  BY DEF JournalAdds
<1>3. journal' = journal \cup {entry}
  BY DEF PostLedgerEntry
<1>4. ASSUME NEW a \in Accounts
      PROVE  LedgerBalance(journal', a) = LedgerBalance(journal, a) + EntryNet(entry, a)
  BY <1>2, BalanceOfPost DEF JournalAdds
<1> QED
  BY <1>1, <1>2, <1>3, <1>4 DEF JournalAdds

\* What the three entries move.
LEMMA EntriesMove ==
  ASSUME IInv, NEW o \in Orders, NEW a \in Accounts
  PROVE  /\ EntryNet(CaptureEntry(o), a)
              = IF a = SellerEscrow(Seller(o)) THEN AmountOf[o] ELSE 0
         /\ EntryNet(RefundEntry(o), a)
              = IF a = UserPayable(BuyerOf[o]) THEN AmountOf[o]
                ELSE IF a = SellerEscrow(Seller(o)) THEN 0 - AmountOf[o] ELSE 0
         /\ fee[o] <= AmountOf[o] =>
              EntryNet(ReleaseEntry(o), a)
                = IF a = UserPayable(Seller(o)) THEN AmountOf[o] - fee[o]
                  ELSE IF a = PlatformRevenue THEN fee[o]
                  ELSE IF a = SellerEscrow(Seller(o)) THEN 0 - AmountOf[o] ELSE 0
<1>1. AmountOf[o] \in Nat /\ AmountOf[o] \in Int /\ fee[o] \in Nat
  BY OrderAssumption, MoneyAssumption DEF MoneyCents, IInv, TypeOK
<1>2. a # ProviderClearing
  BY AccountsDiffer DEF Accounts
<1>3. EntryNet(CaptureEntry(o), a) = IF a = SellerEscrow(Seller(o)) THEN AmountOf[o] ELSE 0
  BY <1>1, <1>2, AccountsDiffer, NetOfTransfer DEF CaptureEntry
<1>4. EntryNet(RefundEntry(o), a)
        = IF a = UserPayable(BuyerOf[o]) THEN AmountOf[o]
          ELSE IF a = SellerEscrow(Seller(o)) THEN 0 - AmountOf[o] ELSE 0
  <2>1. SellerEscrow(Seller(o)) # UserPayable(BuyerOf[o])
    BY AccountsDiffer
  <2> QED
    BY <1>1, <2>1, NetOfTransfer DEF RefundEntry
<1>5. ASSUME fee[o] <= AmountOf[o]
      PROVE  EntryNet(ReleaseEntry(o), a)
               = IF a = UserPayable(Seller(o)) THEN AmountOf[o] - fee[o]
                 ELSE IF a = PlatformRevenue THEN fee[o]
                 ELSE IF a = SellerEscrow(Seller(o)) THEN 0 - AmountOf[o] ELSE 0
  <2>1. /\ SellerEscrow(Seller(o)) # UserPayable(Seller(o))
        /\ SellerEscrow(Seller(o)) # PlatformRevenue /\ UserPayable(Seller(o)) # PlatformRevenue
    BY AccountsDiffer
  <2>2. AmountOf[o] - fee[o] \in Nat
    BY <1>1, <1>5
  <2> QED
    BY <1>1, <2>1, <2>2, NetOfSplit DEF ReleaseEntry
<1> QED
  BY <1>3, <1>4, <1>5

LEMMA BooksStep ==
  ASSUME IInv, BooksAgree, [Next]_vars
  PROVE  BooksAgree'
<1>0. /\ available \in [Users -> MoneyCents] /\ escrowed \in [Users -> MoneyCents]
      /\ revenue \in Int /\ \A m \in MoneyCents : m \in Int
      /\ \A u \in Users : /\ UserPayable(u) \in Accounts /\ SellerEscrow(u) \in Accounts
                          /\ LedgerBalance(journal, UserPayable(u)) = available[u]
                          /\ LedgerBalance(journal, SellerEscrow(u)) = escrowed[u]
                          /\ available[u] \in Int /\ escrowed[u] \in Int
      /\ PlatformRevenue \in Accounts
      /\ LedgerBalance(journal, PlatformRevenue) = revenue
  BY MoneyAssumption
  DEF IInv, TypeOK, WalletTypeOK, MoneyCents, BooksAgree, WalletsReconcile, Accounts
<1>1. CASE NoMoneyMoves
  BY <1>1 DEF NoMoneyMoves, BooksAgree, JournalAdds, WalletsReconcile
<1>2. ASSUME NEW o \in Orders, NEW id \in ActorIds, NEW role, lockEscrow(o, id, role)
      PROVE  BooksAgree'
  <2>1. Seller(o) \in Users /\ AmountOf[o] \in Int
    BY OrderAssumption, CatalogAssumption, <1>0 DEF Seller
  <2>2. CaptureEntry(o).key = <<o, "payment_capture">> /\ status[o] = "pending"
    BY <1>2 DEF CaptureEntry, Entry, lockEscrow, CaptureAllowed
  <2>3. ~Posted(journal, CaptureEntry(o).key)
    BY <2>2 DEF IInv, MoneyFollowsStatus, HeldStatuses
  <2>4. \A a \in Accounts : EntryNet(CaptureEntry(o), a)
                              = IF a = SellerEscrow(Seller(o)) THEN AmountOf[o] ELSE 0
    BY EntriesMove
  <2>5. /\ journal' = PostLedgerEntry(journal, CaptureEntry(o))
        /\ escrowed' = [escrowed EXCEPT ![Seller(o)] = @ + AmountOf[o]]
        /\ UNCHANGED <<available, revenue>>
    BY <1>2 DEF lockEscrow
  <2>6. /\ JournalAdds'
        /\ \A a \in Accounts : LedgerBalance(journal', a)
                                 = LedgerBalance(journal, a) + EntryNet(CaptureEntry(o), a)
    BY <2>1, <2>3, <2>4, <2>5, JournalGrows DEF BooksAgree
  <2>7. \A u \in Users : /\ LedgerBalance(journal', UserPayable(u)) = available'[u]
                         /\ LedgerBalance(journal', SellerEscrow(u)) = escrowed'[u]
    BY <1>0, <2>1, <2>4, <2>5, <2>6, AccountsDiffer
  <2>8. LedgerBalance(journal', PlatformRevenue) = revenue'
    BY <1>0, <2>4, <2>5, <2>6, AccountsDiffer
  <2> QED
    BY <2>6, <2>7, <2>8 DEF BooksAgree, WalletsReconcile
<1>3. ASSUME NEW o \in Orders, NEW source, NEW id, releaseEscrow(o, source, id)
      PROVE  BooksAgree'
  <2>1. Seller(o) \in Users /\ AmountOf[o] \in Int /\ fee[o] \in Int /\ fee[o] <= AmountOf[o]
    BY OrderAssumption, CatalogAssumption, <1>0, <1>3
    DEF Seller, IInv, TypeOK, releaseEscrow, ReleaseAllowed
  <2>2. /\ ReleaseEntry(o).key = <<o, "escrow_release">>
        /\ canTransitionOrder(status[o], "completed")
    BY <1>3 DEF ReleaseEntry, Entry, releaseEscrow, ReleaseAllowed
  <2>3. ~Posted(journal, ReleaseEntry(o).key)
    BY <2>2, TransitionGraph DEF IInv, MoneyFollowsStatus
  <2>4. \A a \in Accounts :
          EntryNet(ReleaseEntry(o), a)
            = IF a = UserPayable(Seller(o)) THEN AmountOf[o] - fee[o]
              ELSE IF a = PlatformRevenue THEN fee[o]
              ELSE IF a = SellerEscrow(Seller(o)) THEN 0 - AmountOf[o] ELSE 0
    BY <2>1, EntriesMove
  <2>5. /\ journal' = PostLedgerEntry(journal, ReleaseEntry(o))
        /\ escrowed' = [escrowed EXCEPT ![Seller(o)] = @ - AmountOf[o]]
        /\ available' = [available EXCEPT ![Seller(o)] = @ + (AmountOf[o] - fee[o])]
        /\ revenue' = revenue + fee[o]
    BY <1>3 DEF releaseEscrow
  <2>6. /\ JournalAdds'
        /\ \A a \in Accounts : LedgerBalance(journal', a)
                                 = LedgerBalance(journal, a) + EntryNet(ReleaseEntry(o), a)
    <3>1. \A a \in Accounts : EntryNet(ReleaseEntry(o), a) \in Int
      BY <2>1, <2>4
    <3> QED
      BY <2>3, <2>5, <3>1, JournalGrows DEF BooksAgree
  <2>7. \A u \in Users : LedgerBalance(journal', UserPayable(u)) = available'[u]
    BY <1>0, <2>1, <2>4, <2>5, <2>6, AccountsDiffer
  <2>8. \A u \in Users : LedgerBalance(journal', SellerEscrow(u)) = escrowed'[u]
    BY <1>0, <2>1, <2>4, <2>5, <2>6, AccountsDiffer
  <2>9. LedgerBalance(journal', PlatformRevenue) = revenue'
    BY <1>0, <2>4, <2>5, <2>6, AccountsDiffer
  <2> QED
    BY <2>6, <2>7, <2>8, <2>9 DEF BooksAgree, WalletsReconcile
<1>4. ASSUME NEW o \in Orders, NEW a \in Users, refundEscrow(o, a)
      PROVE  BooksAgree'
  <2>1. Seller(o) \in Users /\ BuyerOf[o] \in Users /\ AmountOf[o] \in Int
    BY OrderAssumption, CatalogAssumption, <1>0 DEF Seller
  <2>2. RefundEntry(o).key = <<o, "refund">> /\ canTransitionOrder(status[o], "refunded")
    BY <1>4 DEF RefundEntry, Entry, refundEscrow, RefundAllowed
  <2>3. ~Posted(journal, RefundEntry(o).key)
    BY <2>2, TransitionGraph DEF IInv, MoneyFollowsStatus
  <2>4. \A b \in Accounts :
          EntryNet(RefundEntry(o), b)
            = IF b = UserPayable(BuyerOf[o]) THEN AmountOf[o]
              ELSE IF b = SellerEscrow(Seller(o)) THEN 0 - AmountOf[o] ELSE 0
    BY EntriesMove
  <2>5. /\ journal' = PostLedgerEntry(journal, RefundEntry(o))
        /\ escrowed' = [escrowed EXCEPT ![Seller(o)] = @ - AmountOf[o]]
        /\ available' = [available EXCEPT ![BuyerOf[o]] = @ + AmountOf[o]]
        /\ UNCHANGED revenue
    BY <1>4 DEF refundEscrow
  <2>6. /\ JournalAdds'
        /\ \A b \in Accounts : LedgerBalance(journal', b)
                                 = LedgerBalance(journal, b) + EntryNet(RefundEntry(o), b)
    <3>1. \A b \in Accounts : EntryNet(RefundEntry(o), b) \in Int
      BY <2>1, <2>4
    <3> QED
      BY <2>3, <2>5, <3>1, JournalGrows DEF BooksAgree
  <2>7. \A u \in Users : LedgerBalance(journal', UserPayable(u)) = available'[u]
    BY <1>0, <2>1, <2>4, <2>5, <2>6, AccountsDiffer
  <2>8. \A u \in Users : LedgerBalance(journal', SellerEscrow(u)) = escrowed'[u]
    BY <1>0, <2>1, <2>4, <2>5, <2>6, AccountsDiffer
  <2>9. LedgerBalance(journal', PlatformRevenue) = revenue'
    BY <1>0, <2>4, <2>5, <2>6, AccountsDiffer
  <2> QED
    BY <2>6, <2>7, <2>8, <2>9 DEF BooksAgree, WalletsReconcile
<1> QED
  BY <1>1, <1>2, <1>3, <1>4, StepMoney DEF MoneyMoves

(***************************************************************************)
(* Reconciliation finds no difference, however captures, releases and      *)
(* refunds interleave: wallets and ledger are updated by the same amounts. *)
(***************************************************************************)
THEOREM BooksReconcile == Spec => []WalletsReconcile
<1>1. Init => BooksAgree
  <2> SUFFICES ASSUME Init PROVE BooksAgree
    OBVIOUS
  <2>1. IsFiniteSet({}) /\ journal = {}
    BY FS_EmptySet DEF Init
  <2> QED
    BY <2>1, BalanceOfNothing DEF Init, BooksAgree, JournalAdds, WalletsReconcile
<1>2. Spec => []BooksAgree
  BY <1>1, Invariance, BooksStep, PTL DEF Spec
<1>3. BooksAgree => WalletsReconcile
  BY DEF BooksAgree
<1> QED
  BY <1>2, <1>3, PTL

----------------------------------------------------------------------------
(* Escrow and orders *)

HeldFor(u) == {o \in Orders : Seller(o) = u /\ status[o] \in HeldStatuses}
SoldOf(p) == {o \in Orders : ProductOf[o] = p /\ status[o] = "completed"}

\* Only finitely many orders exist, so the sums are over finite sets.
OrdersExist == IsFiniteSet({o \in Orders : status[o] # "none"})

Backed ==
  /\ OrdersExist
  /\ \A u \in Users : escrowed[u] = SumFunctionOnSet(AmountOf, HeldFor(u))
  /\ \A p \in Products : sales[p] = SumFunctionOnSet(QuantityOf, SoldOf(p))

LEMMA SetsAreFinite ==
  ASSUME OrdersExist
  PROVE  /\ \A u \in Users : IsFiniteSet(HeldFor(u))
         /\ \A p \in Products : IsFiniteSet(SoldOf(p))
<1> DEFINE Existing == {o \in Orders : status[o] # "none"}
<1>1. /\ \A u \in Users : HeldFor(u) \in SUBSET Existing
      /\ \A p \in Products : SoldOf(p) \in SUBSET Existing
  BY DEF HeldFor, SoldOf, HeldStatuses
<1>2. IsFiniteSet(Existing)
  BY DEF OrdersExist
<1> HIDE DEF Existing
<1> QED
  BY <1>1, <1>2, FS_Subset

LEMMA AmountsAreNumbers ==
  \A s \in SUBSET Orders : Numbers(AmountOf, s) /\ Numbers(QuantityOf, s)
BY OrderAssumption, MoneyAssumption DEF Numbers, MoneyCents

LEMMA OrdersStayFinite ==
  ASSUME OrdersExist, NEW o, \A q \in Orders : q # o => status'[q] = status[q]
  PROVE  OrdersExist'
<1> DEFINE Existing == {q \in Orders : status[q] # "none"}
           Later == {q \in Orders : status'[q] # "none"}
<1>1. Later \in SUBSET (Existing \cup {o})
  OBVIOUS
<1>2. IsFiniteSet(Existing)
  BY DEF OrdersExist
<1> HIDE DEF Existing, Later
<1>3. IsFiniteSet(Existing \cup {o})
  BY <1>2, FS_AddElement
<1>4. IsFiniteSet(Later)
  BY <1>1, <1>3, FS_Subset
<1> QED
  BY <1>4 DEF Later, OrdersExist

\* An order of the seller joins the held ones, or leaves them.
LEMMA HeldSum ==
  ASSUME IInv, OrdersExist, NEW o \in Orders
  PROVE  /\ status[o] \notin HeldStatuses =>
              /\ SumFunctionOnSet(AmountOf, HeldFor(Seller(o))) \in Int
              /\ SumFunctionOnSet(AmountOf, HeldFor(Seller(o)) \cup {o})
                   = SumFunctionOnSet(AmountOf, HeldFor(Seller(o))) + AmountOf[o]
         /\ status[o] \in HeldStatuses =>
              /\ SumFunctionOnSet(AmountOf, HeldFor(Seller(o)) \ {o}) \in Int
              /\ SumFunctionOnSet(AmountOf, HeldFor(Seller(o)))
                   = SumFunctionOnSet(AmountOf, HeldFor(Seller(o)) \ {o}) + AmountOf[o]
         /\ status[o] # "completed" =>
              /\ SumFunctionOnSet(QuantityOf, SoldOf(ProductOf[o])) \in Int
              /\ SumFunctionOnSet(QuantityOf, SoldOf(ProductOf[o]) \cup {o})
                   = SumFunctionOnSet(QuantityOf, SoldOf(ProductOf[o])) + QuantityOf[o]
<1> DEFINE held == HeldFor(Seller(o))
           sold == SoldOf(ProductOf[o])
           rest == held \ {o}
<1>1. /\ held \in SUBSET Orders /\ sold \in SUBSET Orders /\ rest \in SUBSET Orders
      /\ held \cup {o} \in SUBSET Orders /\ sold \cup {o} \in SUBSET Orders
      /\ rest \cup {o} \in SUBSET Orders
      /\ status[o] \in HeldStatuses <=> o \in held
      /\ status[o] = "completed" <=> o \in sold
      /\ o \notin rest
      /\ o \in held => rest \cup {o} = held
  BY DEF HeldFor, SoldOf
<1>2. IsFiniteSet(held) /\ IsFiniteSet(sold)
  BY SetsAreFinite, OrderAssumption, CatalogAssumption DEF Seller
<1>3. IsFiniteSet(rest)
  BY <1>2, FS_RemoveElement
<1> HIDE DEF held, sold, rest
<1>4. ASSUME o \notin sold
      PROVE  /\ SumFunctionOnSet(QuantityOf, sold) \in Int
             /\ SumFunctionOnSet(QuantityOf, sold \cup {o})
                  = SumFunctionOnSet(QuantityOf, sold) + QuantityOf[o]
  BY <1>1, <1>2, <1>4, AmountsAreNumbers, SumGrows
<1>5. /\ o \notin held => /\ SumFunctionOnSet(AmountOf, held) \in Int
                          /\ SumFunctionOnSet(AmountOf, held \cup {o})
                               = SumFunctionOnSet(AmountOf, held) + AmountOf[o]
      /\ o \in held => /\ SumFunctionOnSet(AmountOf, rest) \in Int
                       /\ SumFunctionOnSet(AmountOf, held)
                            = SumFunctionOnSet(AmountOf, rest) + AmountOf[o]
  <2>1. ASSUME o \notin held
        PROVE  /\ SumFunctionOnSet(AmountOf, held) \in Int
               /\ SumFunctionOnSet(AmountOf, held \cup {o})
                    = SumFunctionOnSet(AmountOf, held) + AmountOf[o]
    BY <1>1, <1>2, <2>1, AmountsAreNumbers, SumGrows
  <2>2. ASSUME o \in held
        PROVE  /\ SumFunctionOnSet(AmountOf, rest) \in Int
               /\ SumFunctionOnSet(AmountOf, held)
                    = SumFunctionOnSet(AmountOf, rest) + AmountOf[o]
    <3>1. Numbers(AmountOf, rest \cup {o})
      BY <1>1, AmountsAreNumbers
    <3>2. /\ SumFunctionOnSet(AmountOf, rest) \in Int
          /\ SumFunctionOnSet(AmountOf, rest \cup {o})
               = SumFunctionOnSet(AmountOf, rest) + AmountOf[o]
      BY <1>1, <1>3, <3>1, SumGrows
    <3> QED
      BY <1>1, <2>2, <3>2
  <2> QED
    BY <2>1, <2>2
<1> QED
  BY <1>1, <1>4, <1>5 DEF held, sold, rest

\* How the sets change when one order moves.
LEMMA SetsMove ==
  ASSUME IInv, NEW o \in Orders, NEW to, status' = [status EXCEPT ![o] = to]
  PROVE  /\ \A u : u # Seller(o) => HeldFor(u)' = HeldFor(u)
         /\ \A p : p # ProductOf[o] => SoldOf(p)' = SoldOf(p)
         /\ to \in HeldStatuses => HeldFor(Seller(o))' = HeldFor(Seller(o)) \cup {o}
         /\ to \notin HeldStatuses => HeldFor(Seller(o))' = HeldFor(Seller(o)) \ {o}
         /\ to = "completed" => SoldOf(ProductOf[o])' = SoldOf(ProductOf[o]) \cup {o}
         /\ to # "completed" => SoldOf(ProductOf[o])' = SoldOf(ProductOf[o]) \ {o}
<1>1. \A q \in Orders : status'[q] = IF q = o THEN to ELSE status[q]
  BY DEF IInv, TypeOK, OrderTypeOK
<1> QED
  BY <1>1 DEF HeldFor, SoldOf, Seller

LEMMA BackedStep ==
  ASSUME IInv, Backed, [Next]_vars
  PROVE  Backed'
<1>0. /\ escrowed \in [Users -> MoneyCents] /\ sales \in [Products -> Nat]
      /\ \A u \in Users : escrowed[u] \in Int
      /\ \A o \in Orders : /\ Seller(o) \in Users /\ ProductOf[o] \in Products
                           /\ AmountOf[o] \in Int /\ QuantityOf[o] \in Int
  BY MoneyAssumption, OrderAssumption, CatalogAssumption
  DEF IInv, TypeOK, WalletTypeOK, ProductTypeOK, MoneyCents, Seller
<1>1. CASE NoMoneyMoves
  <2>1. /\ \A u \in Users : HeldFor(u)' = HeldFor(u)
        /\ \A p \in Products : SoldOf(p)' = SoldOf(p)
    BY <1>1 DEF NoMoneyMoves, HeldFor, SoldOf
  <2>2. OrdersExist'
    BY <1>1, OrdersStayFinite DEF NoMoneyMoves, Backed
  <2> QED
    BY <1>1, <2>1, <2>2 DEF NoMoneyMoves, Backed
<1>2. ASSUME NEW o \in Orders, NEW to, status' = [status EXCEPT ![o] = to]
      PROVE  OrdersExist'
  BY <1>2, OrdersStayFinite DEF Backed, IInv, TypeOK, OrderTypeOK
<1>3. ASSUME NEW o \in Orders, NEW id \in ActorIds, NEW role, lockEscrow(o, id, role)
      PROVE  Backed'
  <2>1. PICK to \in {"paid", "delivered"} :
          status[o] = "pending" /\ status' = [status EXCEPT ![o] = to]
    BY <1>3, LockEscrowInv
  <2>2. /\ escrowed' = [escrowed EXCEPT ![Seller(o)] = @ + AmountOf[o]] /\ sales' = sales
        /\ to \in HeldStatuses /\ to # "completed"
        /\ status[o] \notin HeldStatuses /\ status[o] # "completed"
    BY <1>3, <2>1 DEF lockEscrow, HeldStatuses
  <2>3. SoldOf(ProductOf[o]) \ {o} = SoldOf(ProductOf[o])
    BY <2>2 DEF SoldOf
  <2>4. \A u \in Users : escrowed'[u] = SumFunctionOnSet(AmountOf, HeldFor(u)')
    BY <1>0, <2>1, <2>2, SetsMove, HeldSum DEF Backed
  <2>5. \A p \in Products : sales'[p] = SumFunctionOnSet(QuantityOf, SoldOf(p)')
    BY <2>1, <2>2, <2>3, SetsMove DEF Backed
  <2> QED
    BY <1>2, <2>1, <2>4, <2>5 DEF Backed
<1>4. ASSUME NEW o \in Orders, NEW source \in ReleaseSources \cup {"dispute"},
             NEW id \in ActorIds, releaseEscrow(o, source, id)
      PROVE  Backed'
  <2>1. status[o] \in {"delivered", "disputed"} /\ status' = [status EXCEPT ![o] = "completed"]
    BY <1>4, ReleaseEscrowInv
  <2>2. /\ escrowed' = [escrowed EXCEPT ![Seller(o)] = @ - AmountOf[o]]
        /\ sales' = [sales EXCEPT ![ProductOf[o]] = @ + QuantityOf[o]]
        /\ "completed" \notin HeldStatuses
        /\ status[o] \in HeldStatuses /\ status[o] # "completed"
    BY <1>4, <2>1 DEF releaseEscrow, HeldStatuses
  <2>3. \A u \in Users : escrowed'[u] = SumFunctionOnSet(AmountOf, HeldFor(u)')
    <3>1. /\ HeldFor(Seller(o))' = HeldFor(Seller(o)) \ {o}
          /\ \A u : u # Seller(o) => HeldFor(u)' = HeldFor(u)
      BY <2>1, <2>2, SetsMove
    <3>2. /\ SumFunctionOnSet(AmountOf, HeldFor(Seller(o)) \ {o}) \in Int
          /\ escrowed[Seller(o)]
               = SumFunctionOnSet(AmountOf, HeldFor(Seller(o)) \ {o}) + AmountOf[o]
      BY <1>0, <2>1, <2>2, HeldSum DEF Backed
    <3>3. escrowed'[Seller(o)] = SumFunctionOnSet(AmountOf, HeldFor(Seller(o)) \ {o})
      <4>1. escrowed'[Seller(o)] = escrowed[Seller(o)] - AmountOf[o]
        BY <1>0, <2>2
      <4> QED
        BY <1>0, <3>2, <4>1
    <3>4. \A u \in Users : u # Seller(o) => escrowed'[u] = escrowed[u]
      BY <1>0, <2>2
    <3> QED
      BY <3>1, <3>3, <3>4 DEF Backed
  <2>4. \A p \in Products : sales'[p] = SumFunctionOnSet(QuantityOf, SoldOf(p)')
    BY <1>0, <2>1, <2>2, SetsMove, HeldSum DEF Backed
  <2> QED
    BY <1>2, <2>1, <2>3, <2>4 DEF Backed
<1>5. ASSUME NEW o \in Orders, NEW a \in Users, refundEscrow(o, a)
      PROVE  Backed'
  <2>1. status[o] \in HeldStatuses /\ status' = [status EXCEPT ![o] = "refunded"]
    BY <1>5, RefundEscrowInv
  <2>2. /\ escrowed' = [escrowed EXCEPT ![Seller(o)] = @ - AmountOf[o]] /\ sales' = sales
        /\ "refunded" \notin HeldStatuses /\ "refunded" # "completed"
        /\ status[o] # "completed"
    BY <1>5, <2>1 DEF refundEscrow, productVars, HeldStatuses
  <2>3. SoldOf(ProductOf[o]) \ {o} = SoldOf(ProductOf[o])
    BY <2>2 DEF SoldOf
  <2>4. \A u \in Users : escrowed'[u] = SumFunctionOnSet(AmountOf, HeldFor(u)')
    <3>1. /\ HeldFor(Seller(o))' = HeldFor(Seller(o)) \ {o}
          /\ \A u : u # Seller(o) => HeldFor(u)' = HeldFor(u)
      BY <2>1, <2>2, SetsMove
    <3>2. /\ SumFunctionOnSet(AmountOf, HeldFor(Seller(o)) \ {o}) \in Int
          /\ escrowed[Seller(o)]
               = SumFunctionOnSet(AmountOf, HeldFor(Seller(o)) \ {o}) + AmountOf[o]
      BY <1>0, <2>1, <2>2, HeldSum DEF Backed
    <3>3. escrowed'[Seller(o)] = SumFunctionOnSet(AmountOf, HeldFor(Seller(o)) \ {o})
      <4>1. escrowed'[Seller(o)] = escrowed[Seller(o)] - AmountOf[o]
        BY <1>0, <2>2
      <4> QED
        BY <1>0, <3>2, <4>1
    <3>4. \A u \in Users : u # Seller(o) => escrowed'[u] = escrowed[u]
      BY <1>0, <2>2
    <3> QED
      BY <3>1, <3>3, <3>4 DEF Backed
  <2>5. \A p \in Products : sales'[p] = SumFunctionOnSet(QuantityOf, SoldOf(p)')
    BY <2>1, <2>2, <2>3, SetsMove DEF Backed
  <2> QED
    BY <1>2, <2>1, <2>4, <2>5 DEF Backed
<1> QED
  BY <1>1, <1>3, <1>4, <1>5, StepMoney DEF MoneyMoves

(***************************************************************************)
(* A seller's escrow is the money of the orders still undecided and the    *)
(* sales count is the units of the completed ones, so no release and no    *)
(* refund ever finds the escrow of its order short.                        *)
(***************************************************************************)
THEOREM EscrowIsBacked == Spec => []EscrowBacksOpenOrders
<1>1. Init => Backed
  <2> SUFFICES ASSUME Init PROVE Backed
    OBVIOUS
  <2>1. \A o \in Orders : status[o] = "none"
    BY DEF Init
  <2>2. /\ \A u \in Users : HeldFor(u) = {}
        /\ \A p \in Products : SoldOf(p) = {}
        /\ {o \in Orders : status[o] # "none"} = {}
    BY <2>1 DEF HeldFor, SoldOf, HeldStatuses
  <2> QED
    BY <2>2, SumOfNothing, FS_EmptySet DEF Init, Backed, OrdersExist
<1>2. Spec => []Backed
  BY <1>1, Invariance, BackedStep, PTL DEF Spec
<1>3. Backed => EscrowBacksOpenOrders
  BY DEF Backed, EscrowBacksOpenOrders, HeldFor, SoldOf
<1> QED
  BY <1>2, <1>3, PTL

----------------------------------------------------------------------------
(* Announcements *)

EventsOf(o) == {e \in events : e.order = o}
KeysOf(o) ==
  {k \in outbox : k[2] = o} \ {<<"order.created", o>>, <<"review.created", o>>}

\* How far along the lifecycle a status lies, and what an event type tells.
Rank(s) ==
  IF s \in {"none", "pending"} THEN 0
  ELSE IF s = "paid" THEN 1
  ELSE IF s = "in_progress" THEN 2
  ELSE IF s = "delivered" THEN 3
  ELSE IF s = "disputed" THEN 4 ELSE 5

TypeRank(type) ==
  IF type = "order.paid" THEN 1
  ELSE IF type = "order.started" THEN 2
  ELSE IF type = "order.delivered" THEN 3
  ELSE IF type = "dispute.opened" THEN 4 ELSE 5

(***************************************************************************)
(* Nothing is announced ahead of its time: the timeline and the outbox of  *)
(* an order tell of no status beyond the one it has.  As every transition  *)
(* leads further along the graph, its event and its key are therefore new. *)
(***************************************************************************)
NothingAhead ==
  \A o \in Orders :
    /\ IsFiniteSet(EventsOf(o)) /\ IsFiniteSet(KeysOf(o))
    /\ \A e \in EventsOf(o) : Rank(e.to) <= Rank(status[o])
    /\ \A k \in KeysOf(o) : TypeRank(k[1]) <= Rank(status[o])

Announced == NothingAhead /\ EveryTransitionAnnounced

\* A step that announces nothing, and one that moves order o.
NothingAnnounced ==
  /\ events' = events
  /\ \A o \in Orders : KeysOf(o)' = KeysOf(o) /\ Rank(status'[o]) = Rank(status[o])

TransitionOf(o) ==
  \E e, type :
    /\ e.order = o
    /\ Rank(status[o]) < TypeRank(type) /\ TypeRank(type) <= Rank(e.to)
    /\ type \notin {"order.created", "review.created"}
    /\ status' = [status EXCEPT ![o] = e.to]
    /\ events' = events \cup {e}
    /\ outbox' = outbox \cup {<<type, o>>}

LEMMA RankIsNumber == \A s : Rank(s) \in Nat /\ TypeRank(s) \in Nat
BY DEF Rank, TypeRank

LEMMA TransitionAnnounces ==
  ASSUME NEW o \in Orders, NEW to, NEW id, NEW role, NEW reason \in Reasons, NEW from,
         transitionOrder(o, TransitionInput(to, id, role, reason, from)),
         Rank(status[o]) < TypeRank(outboxEventType[reason]),
         TypeRank(outboxEventType[reason]) <= Rank(to)
  PROVE  TransitionOf(o)
<1> DEFINE in == TransitionInput(to, id, role, reason, from)
           e == OrderEvent(o, in)
           type == outboxEventType[reason]
<1>1. status[o] # to
  BY RankIsNumber
<1>2. in.to = to /\ in.reason = reason /\ e.order = o /\ e.to = to
  BY DEF TransitionInput, OrderEvent
<1>3. type \notin {"order.created", "review.created"}
  BY DEF outboxEventType, Reasons
<1>4. /\ status' = [status EXCEPT ![o] = e.to]
      /\ events' = events \cup {e}
      /\ outbox' = outbox \cup {<<type, o>>}
  BY <1>1, <1>2, TransitionEffect
<1> HIDE DEF e, type
<1>5. Rank(status[o]) < TypeRank(type) /\ TypeRank(type) <= Rank(e.to)
  BY <1>2 DEF type
<1> QED
  BY <1>2, <1>3, <1>4, <1>5 DEF TransitionOf

LEMMA CaptureAnnounces ==
  ASSUME NEW o \in Orders, NEW id, NEW role, lockEscrow(o, id, role)
  PROVE  TransitionOf(o)
<1> DEFINE to == IF ProductOf[o] \in InstantProducts THEN "delivered" ELSE "paid"
<1>1. /\ status[o] = "pending"
      /\ transitionOrder(o, TransitionInput(to, id, role, "payment_captured", {"pending"}))
  BY DEF lockEscrow, CaptureAllowed, CaptureInput
<1>2. to \in {"delivered", "paid"}
  OBVIOUS
<1> HIDE DEF to
<1>3. /\ "payment_captured" \in Reasons
      /\ Rank(status[o]) < TypeRank(outboxEventType["payment_captured"])
      /\ TypeRank(outboxEventType["payment_captured"]) <= Rank(to)
  BY <1>1, <1>2 DEF Rank, TypeRank, outboxEventType, Reasons
<1> QED
  BY <1>1, <1>3, TransitionAnnounces

LEMMA ReleaseAnnounces ==
  ASSUME NEW o \in Orders, NEW source \in ReleaseSources \cup {"dispute"}, NEW id,
         releaseEscrow(o, source, id)
  PROVE  TransitionOf(o)
<1>1. canTransitionOrder(status[o], "completed")
  BY DEF releaseEscrow, ReleaseAllowed
<1>2. status[o] \in {"delivered", "disputed"}
  BY <1>1, TransitionGraph
<1>3. ASSUME NEW actor, NEW role, NEW from,
             NEW reason \in {"buyer_confirmed", "auto_released", "dispute_released"},
             transitionOrder(o, TransitionInput("completed", actor, role, reason, from))
      PROVE  TransitionOf(o)
  <2>1. /\ reason \in Reasons
        /\ Rank(status[o]) < TypeRank(outboxEventType[reason])
        /\ TypeRank(outboxEventType[reason]) <= Rank("completed")
    BY <1>2, <1>3 DEF Rank, TypeRank, outboxEventType, Reasons
  <2> QED
    BY <1>3, <2>1, TransitionAnnounces
<1>4. CASE source = "buyer_confirmed"
  BY <1>3, <1>4 DEF releaseEscrow, ReleaseInput
<1>5. CASE source = "auto"
  BY <1>3, <1>5 DEF releaseEscrow, ReleaseInput
<1>6. CASE source = "dispute"
  BY <1>3, <1>6 DEF releaseEscrow, ReleaseInput
<1> QED
  BY <1>4, <1>5, <1>6 DEF ReleaseSources

LEMMA OrderStepAnnounces ==
  ASSUME IInv, NEW o \in Orders, OrderNext(o)
  PROVE  NothingAnnounced \/ TransitionOf(o)
<1>1. CASE CreateOrder(o)
  <2>1. /\ status[o] = "none" /\ status' = [status EXCEPT ![o] = "pending"]
        /\ outbox' = outbox \cup {<<"order.created", o>>} /\ events' = events
    BY <1>1 DEF CreateOrder
  <2>2. \A q \in Orders : Rank(status'[q]) = Rank(status[q])
    BY <2>1 DEF Rank, IInv, TypeOK, OrderTypeOK
  <2>3. \A q \in Orders : KeysOf(q)' = KeysOf(q)
    BY <2>1 DEF KeysOf
  <2> QED
    BY <2>1, <2>2, <2>3 DEF NothingAnnounced
<1>2. ASSUME NEW role, TestPaymentFails(o, role) PROVE TransitionOf(o)
  <2>1. /\ status[o] = "pending"
        /\ transitionOrder(o, TransitionInput("canceled", BuyerOf[o], role,
                                              "test_payment_failed", {"pending"}))
    BY <1>2 DEF TestPaymentFails
  <2>2. /\ "test_payment_failed" \in Reasons
        /\ Rank(status[o]) < TypeRank(outboxEventType["test_payment_failed"])
        /\ TypeRank(outboxEventType["test_payment_failed"]) <= Rank("canceled")
    BY <2>1 DEF Rank, TypeRank, outboxEventType, Reasons
  <2> QED
    BY <2>1, <2>2, TransitionAnnounces
<1>3. CASE StartOrder(o)
  <2>1. /\ canTransitionOrder(status[o], "in_progress")
        /\ transitionOrder(o, TransitionInput("in_progress", Seller(o), "seller",
                                              "seller_started", {"paid"}))
    BY <1>3 DEF StartOrder, SellerMoves
  <2>2. status[o] = "paid"
    BY <2>1, TransitionGraph
  <2>3. /\ "seller_started" \in Reasons
        /\ Rank(status[o]) < TypeRank(outboxEventType["seller_started"])
        /\ TypeRank(outboxEventType["seller_started"]) <= Rank("in_progress")
    BY <2>2 DEF Rank, TypeRank, outboxEventType, Reasons
  <2> QED
    BY <2>1, <2>3, TransitionAnnounces
<1>4. CASE DeliverOrder(o)
  <2>1. /\ canTransitionOrder(status[o], "delivered")
        /\ transitionOrder(o, TransitionInput("delivered", Seller(o), "seller",
                                "seller_delivered", {"paid", "in_progress"}))
        /\ TransitionAccepted(o, TransitionInput("delivered", Seller(o), "seller",
                                   "seller_delivered", {"paid", "in_progress"}))
    BY <1>4 DEF DeliverOrder, SellerMoves
  <2>2. status[o] \in {"paid", "in_progress"}
    <3>1. status[o] # "delivered"
      BY <2>1, TransitionGraph
    <3> QED
      BY <2>1, <3>1 DEF TransitionAccepted, isIdempotentRepeat, TransitionInput
  <2>3. /\ "seller_delivered" \in Reasons
        /\ Rank(status[o]) < TypeRank(outboxEventType["seller_delivered"])
        /\ TypeRank(outboxEventType["seller_delivered"]) <= Rank("delivered")
    BY <2>2 DEF Rank, TypeRank, outboxEventType, Reasons
  <2> QED
    BY <2>1, <2>3, TransitionAnnounces
<1>5. ASSUME NEW u, OpenDispute(o, u) PROVE TransitionOf(o)
  <2>1. /\ canTransitionOrder(status[o], "disputed")
        /\ transitionOrder(o, TransitionInput("disputed", u, "participant",
                                "dispute_opened", {"paid", "in_progress", "delivered"}))
    BY <1>5 DEF OpenDispute
  <2>2. status[o] \in {"paid", "in_progress", "delivered"}
    BY <2>1, TransitionGraph
  <2>3. /\ "dispute_opened" \in Reasons
        /\ Rank(status[o]) < TypeRank(outboxEventType["dispute_opened"])
        /\ TypeRank(outboxEventType["dispute_opened"]) <= Rank("disputed")
    BY <2>2 DEF Rank, TypeRank, outboxEventType, Reasons
  <2> QED
    BY <2>1, <2>3, TransitionAnnounces
<1>6. ASSUME NEW a, ResolveRefund(o, a) PROVE TransitionOf(o)
  <2>1. /\ canTransitionOrder(status[o], "refunded")
        /\ transitionOrder(o, TransitionInput("refunded", a, "admin", "dispute_refunded",
                                              {"disputed"}))
    BY <1>6 DEF ResolveRefund, refundEscrow, RefundAllowed, RefundInput
  <2>2. status[o] \in {"paid", "in_progress", "delivered", "disputed"}
    BY <2>1, TransitionGraph
  <2>3. /\ "dispute_refunded" \in Reasons
        /\ Rank(status[o]) < TypeRank(outboxEventType["dispute_refunded"])
        /\ TypeRank(outboxEventType["dispute_refunded"]) <= Rank("refunded")
    BY <2>2 DEF Rank, TypeRank, outboxEventType, Reasons
  <2> QED
    BY <2>1, <2>3, TransitionAnnounces
<1>7. CASE SweepListsDue(o) \/ ConfirmChecked(o) \/ AdminRequestsRelease(o)
  BY <1>7 DEF SweepListsDue, ConfirmChecked, AdminRequestsRelease, orderVars,
              NothingAnnounced, KeysOf
<1>8. CASE ReviewOrder(o)
  <2>1. /\ status' = status /\ events' = events
        /\ outbox' = outbox \cup {<<"review.created", o>>}
    BY <1>8 DEF ReviewOrder
  <2>2. \A q \in Orders : KeysOf(q)' = KeysOf(q)
    BY <2>1 DEF KeysOf
  <2> QED
    BY <2>1, <2>2 DEF NothingAnnounced
<1>9. ASSUME NEW role, Pay(o, role) PROVE TransitionOf(o)
  BY <1>9, CaptureAnnounces DEF Pay
<1>10. ASSUME NEW a, ConfirmManualPayment(o, a) PROVE TransitionOf(o)
  BY <1>10, CaptureAnnounces DEF ConfirmManualPayment
<1>11. ASSUME NEW a, ResolveRelease(o, a) PROVE TransitionOf(o)
  BY <1>11, ReleaseAnnounces DEF ResolveRelease
<1> QED
  BY <1>1, <1>2, <1>3, <1>4, <1>5, <1>6, <1>7, <1>8, <1>9, <1>10, <1>11 DEF OrderNext

LEMMA StepAnnounces ==
  ASSUME IInv, [Next]_vars
  PROVE  NothingAnnounced \/ \E o \in Orders : TransitionOf(o)
<1>1. ASSUME UNCHANGED orderVars PROVE NothingAnnounced
  BY <1>1 DEF orderVars, NothingAnnounced, KeysOf
<1>2. CASE UNCHANGED vars
  BY <1>1, <1>2 DEF vars
<1>3. ASSUME NEW o \in Orders, OrderNext(o)
      PROVE  NothingAnnounced \/ TransitionOf(o)
  BY <1>3, OrderStepAnnounces
<1>4. ASSUME NEW o \in Orders, NEW source \in ReleaseSources, ReleaseNext(o, source)
      PROVE  NothingAnnounced \/ TransitionOf(o)
  BY <1>1, <1>4, ReleaseAnnounces DEF ReleaseNext, RunRelease, ReleaseRejected, ReleaseLost
<1>5. ASSUME NEW o \in Orders, NEW p \in Providers, PaymentNext(o, p)
      PROVE  NothingAnnounced \/ TransitionOf(o)
  <2>1. CASE WebhookCaptures(o, p)
    BY <2>1, CaptureAnnounces DEF WebhookCaptures
  <2> QED
    BY <1>1, <1>5, <2>1 DEF PaymentNext, CreateCheckout, ProviderCharges, WebhookTerminal
<1>6. ASSUME NEW p, ListingNext(p) PROVE NothingAnnounced
  BY <1>1, <1>6 DEF ListingNext, EditListing, DeleteListing, ModerateListing
<1> QED
  BY <1>2, <1>3, <1>4, <1>5, <1>6 DEF Next

LEMMA AnnouncedStep ==
  ASSUME IInv, Announced, [Next]_vars
  PROVE  Announced'
<1>0. \A s : Rank(s) \in Nat /\ TypeRank(s) \in Nat
  BY RankIsNumber
<1>1. CASE NothingAnnounced
  <2>1. \A o \in Orders : EventsOf(o)' = EventsOf(o) /\ KeysOf(o)' = KeysOf(o)
                          /\ Rank(status'[o]) = Rank(status[o])
    BY <1>1 DEF NothingAnnounced, EventsOf
  <2>2. NothingAhead'
    BY <2>1 DEF Announced, NothingAhead
  <2>3. EveryTransitionAnnounced'
    BY <2>1 DEF Announced, EveryTransitionAnnounced, EventsOf, KeysOf
  <2> QED
    BY <2>2, <2>3 DEF Announced
<1>2. ASSUME NEW o \in Orders, TransitionOf(o) PROVE Announced'
  <2>1. PICK e, type : /\ e.order = o
                       /\ Rank(status[o]) < TypeRank(type) /\ TypeRank(type) <= Rank(e.to)
                       /\ type \notin {"order.created", "review.created"}
                       /\ status' = [status EXCEPT ![o] = e.to]
                       /\ events' = events \cup {e}
                       /\ outbox' = outbox \cup {<<type, o>>}
    BY <1>2 DEF TransitionOf
  <2>2. /\ \A q \in Orders : status'[q] = IF q = o THEN e.to ELSE status[q]
        /\ Rank(status[o]) < Rank(e.to)
    BY <1>0, <2>1 DEF IInv, TypeOK, OrderTypeOK
  <2>3. \A q \in Orders : /\ EventsOf(q)' = EventsOf(q) \cup (IF q = o THEN {e} ELSE {})
                          /\ KeysOf(q)' = KeysOf(q) \cup (IF q = o THEN {<<type, o>>} ELSE {})
    BY <2>1 DEF EventsOf, KeysOf
  <2>4. e \notin EventsOf(o) /\ <<type, o>> \notin KeysOf(o)
    BY <1>0, <2>1, <2>2 DEF Announced, NothingAhead
  <2>5. ASSUME NEW q \in Orders
        PROVE  /\ IsFiniteSet(EventsOf(q)') /\ IsFiniteSet(KeysOf(q)')
               /\ Cardinality(EventsOf(q)') = Cardinality(KeysOf(q)')
    <3>1. /\ IsFiniteSet(EventsOf(q)) /\ IsFiniteSet(KeysOf(q))
          /\ Cardinality(EventsOf(q)) = Cardinality(KeysOf(q))
      BY DEF Announced, NothingAhead, EveryTransitionAnnounced, EventsOf, KeysOf
    <3>2. CASE q = o
      <4>1. /\ EventsOf(q)' = EventsOf(q) \cup {e} /\ e \notin EventsOf(q)
            /\ KeysOf(q)' = KeysOf(q) \cup {<<type, o>>} /\ <<type, o>> \notin KeysOf(q)
        BY <2>3, <2>4, <3>2
      <4>2. /\ IsFiniteSet(EventsOf(q) \cup {e})
            /\ Cardinality(EventsOf(q) \cup {e}) = Cardinality(EventsOf(q)) + 1
        BY <3>1, <4>1, FS_AddElement
      <4>3. /\ IsFiniteSet(KeysOf(q) \cup {<<type, o>>})
            /\ Cardinality(KeysOf(q) \cup {<<type, o>>}) = Cardinality(KeysOf(q)) + 1
        BY <3>1, <4>1, FS_AddElement
      <4> QED
        BY <3>1, <4>1, <4>2, <4>3
    <3>3. CASE q # o
      BY <2>3, <3>1, <3>3
    <3> QED
      BY <3>2, <3>3
  <2>6. ASSUME NEW q \in Orders
        PROVE  /\ \A x \in EventsOf(q)' : Rank(x.to) <= Rank(status'[q])
               /\ \A k \in KeysOf(q)' : TypeRank(k[1]) <= Rank(status'[q])
    BY <1>0, <2>1, <2>2, <2>3 DEF Announced, NothingAhead
  <2>7. NothingAhead'
    BY <2>5, <2>6 DEF NothingAhead
  <2>8. EveryTransitionAnnounced'
    BY <2>5 DEF EveryTransitionAnnounced, EventsOf, KeysOf
  <2> QED
    BY <2>7, <2>8 DEF Announced
<1> QED
  BY <1>1, <1>2, StepAnnounces

(***************************************************************************)
(* Every status change of an order is announced under an outbox key of its *)
(* own: the key, unique per order and event type, never swallows one.      *)
(***************************************************************************)
THEOREM TransitionsAreAnnounced == Spec => []EveryTransitionAnnounced
<1>1. Init => Announced
  <2> SUFFICES ASSUME Init PROVE Announced
    OBVIOUS
  <2>1. \A o \in Orders : EventsOf(o) = {} /\ KeysOf(o) = {}
    BY DEF Init, EventsOf, KeysOf
  <2>2. NothingAhead
    BY <2>1, FS_EmptySet DEF NothingAhead
  <2>3. EveryTransitionAnnounced
    BY <2>1 DEF EveryTransitionAnnounced, EventsOf, KeysOf
  <2> QED
    BY <2>2, <2>3 DEF Announced
<1>2. Spec => []Announced
  BY <1>1, Invariance, AnnouncedStep, PTL DEF Spec
<1>3. Announced => EveryTransitionAnnounced
  BY DEF Announced
<1> QED
  BY <1>2, <1>3, PTL

----------------------------------------------------------------------------
(* The resolution of a dispute *)

(***************************************************************************)
(* What a row and a call past its claim know of each other: a dispute has a*)
(* decision and a claimant from the first claim on, and every call, however*)
(* old its claim is, carries the decision of the row it claimed.           *)
(***************************************************************************)
ClaimsAgree ==
  /\ \A d \in Disputes : /\ dstatus[d] = "open" <=> decision[d] = None
                         /\ dstatus[d] # "open" => claimant[d] \in DisputeAdmins
  /\ \A x \in Executors : call[x] # Idle => decision[call[x].dispute] = call[x].decision

\* The inductive invariant.
DisputeIInv ==
  DisputeTypeOK /\ ClaimsAgree /\ DecisionGovernsOrder /\ ResolutionAnnouncedOnce

----------------------------------------------------------------------------
(* Facts about the operators *)

\* The decision an order's status shows, and the status a decision leads to.
LEMMA TerminalDecision ==
  /\ terminalDecision("disputed") = None
  /\ \A dec \in Decisions : /\ terminalDecision(terminalStatus(dec)) = dec
                            /\ terminalStatus(dec) \in {"completed", "refunded"}
                            /\ dec # None
  BY DEF terminalDecision, terminalStatus, Decisions, None

\* A call that is not idle has all its fields.
LEMMA CallTyped ==
  ASSUME DisputeTypeOK, NEW x \in Executors, call[x].pc # "idle"
  PROVE  /\ call[x] \in CallStates
         /\ call[x] # Idle
         /\ call[x].dispute \in Disputes /\ call[x].decision \in Decisions
         /\ call[x].op \in Nat /\ call[x].admin \in DisputeAdmins
  BY DEF DisputeTypeOK, CallStates, Idle

\* Moving a call on keeps what it claimed.
LEMMA GotoTyped ==
  ASSUME DisputeTypeOK, NEW x \in Executors, call[x].pc # "idle",
         NEW pc \in {"recover", "escrow", "caught", "finalize", "mark"}, Goto(x, pc)
  PROVE  /\ call' \in [Executors -> CallStates \cup {Idle}]
         /\ \A y \in Executors :
              call'[y] # Idle => /\ call[y] # Idle
                                 /\ call'[y].dispute = call[y].dispute
                                 /\ call'[y].decision = call[y].decision
<1>1. call[x] \in CallStates /\ call[x] # Idle
  BY CallTyped
<1>2. call' = [call EXCEPT ![x] = [call[x] EXCEPT !.pc = pc]]
  BY DEF Goto
<1>3. [call[x] EXCEPT !.pc = pc] \in CallStates
  BY <1>1 DEF CallStates
<1>4. /\ [call[x] EXCEPT !.pc = pc].dispute = call[x].dispute
      /\ [call[x] EXCEPT !.pc = pc].decision = call[x].decision
  BY <1>1 DEF CallStates
<1> QED
  BY <1>1, <1>2, <1>3, <1>4 DEF DisputeTypeOK

LEMMA ReturnTyped ==
  ASSUME DisputeTypeOK, NEW x \in Executors, Return(x)
  PROVE  /\ call' \in [Executors -> CallStates \cup {Idle}]
         /\ \A y \in Executors : call'[y] # Idle => call'[y] = call[y]
  BY DEF DisputeTypeOK, Return

----------------------------------------------------------------------------
(* The claim: the only step that gives a call a decision *)

LEMMA ClaimInv ==
  ASSUME DisputeIInv, NEW x \in Executors, NEW d \in Disputes, NEW dec \in Decisions,
         NEW a \in DisputeAdmins, claimResolution(x, d, dec, a)
  PROVE  /\ DisputeIInv'
         /\ decision' = [decision EXCEPT ![d] = dec]
         /\ decision[d] \in {None, dec}
         /\ dstatus[d] # "resolved" /\ dstatus' = [dstatus EXCEPT ![d] = "resolving"]
         /\ UNCHANGED <<announced, order>>
<1> USE DEF claimResolution
<1>1. /\ decision[d] \in {None, dec}
      /\ UNCHANGED <<announced, order, admins, faults>>
      /\ dec # None
  BY TerminalDecision DEF assertDecisionMatches
<1>2. \E pc \in {"escrow", "finalize"}, o \in Nat, b \in DisputeAdmins :
        call' = [call EXCEPT ![x] = Call(pc, d, dec, o, b)]
  <2>1. AfterClaim(d) \in {"escrow", "finalize"}
    BY DEF AfterClaim
  <2>2. op[d] \in Nat /\ op[d] + 1 \in Nat
    BY DEF DisputeIInv, DisputeTypeOK
  <2>3. CASE ClaimOpen(x, d, dec, a)
    BY <2>1, <2>2, <2>3 DEF ClaimOpen
  <2>4. CASE ClaimFailed(x, d, dec) \/ ClaimApplied(x, d, dec) \/ ClaimStale(x, d, dec)
    <3>1. claimant[d] \in DisputeAdmins
      BY <2>4 DEF ClaimFailed, ClaimApplied, ClaimStale, DisputeIInv, ClaimsAgree
    <3> QED
      BY <2>1, <2>2, <2>4, <3>1 DEF ClaimFailed, ClaimApplied, ClaimStale, Continue
  <2> QED
    BY <2>3, <2>4
<1>3. /\ dstatus[d] # "resolved"
      /\ dstatus' = [dstatus EXCEPT ![d] = "resolving"]
      /\ decision' = [decision EXCEPT ![d] = dec]
      /\ dstatus[d] # "open" => claimant' = claimant
      /\ claimant' \in [Disputes -> DisputeAdmins \cup {None}]
      /\ claimant'[d] \in DisputeAdmins
      /\ \A e \in Disputes : e # d => claimant'[e] = claimant[e]
      /\ op' \in [Disputes -> Nat]
      /\ fresh' \in [Disputes -> BOOLEAN]
  <2>1. CASE ClaimOpen(x, d, dec, a)
    BY <2>1 DEF ClaimOpen, DisputeIInv, DisputeTypeOK
  <2>2. CASE ClaimFailed(x, d, dec) \/ ClaimApplied(x, d, dec) \/ ClaimStale(x, d, dec)
    <3>1. dstatus[d] \in {"resolving", "resolution_failed"}
      BY <2>2 DEF ClaimFailed, ClaimApplied, ClaimStale
    <3>2. decision[d] = dec /\ claimant[d] \in DisputeAdmins
      BY <1>1, <3>1, TerminalDecision DEF DisputeIInv, ClaimsAgree
    <3> QED
      BY <2>2, <3>1, <3>2
      DEF ClaimFailed, ClaimApplied, ClaimStale, DisputeIInv, DisputeTypeOK
  <2> QED
    BY <2>1, <2>2
<1>4. DisputeTypeOK'
  BY <1>1, <1>2, <1>3 DEF DisputeIInv, DisputeTypeOK, Call, CallStates
<1>5. ClaimsAgree'
  <2>1. ASSUME NEW e \in Disputes, dstatus'[e] # "open"
        PROVE  claimant'[e] \in DisputeAdmins
    BY <1>3, <2>1 DEF DisputeIInv, DisputeTypeOK, ClaimsAgree
  <2>3. \A e \in Disputes : dstatus'[e] = "open" <=> decision'[e] = None
    BY <1>1, <1>3 DEF DisputeIInv, DisputeTypeOK, ClaimsAgree
  <2>2. ASSUME NEW y \in Executors, call'[y] # Idle
        PROVE  decision'[call'[y].dispute] = call'[y].decision
    <3>1. CASE y = x
      BY <1>2, <1>3, <3>1 DEF Call, DisputeIInv, DisputeTypeOK
    <3>2. CASE y # x
      <4>1. call'[y] = call[y] /\ call[y] # Idle /\ call[y] \in CallStates
        BY <1>2, <2>2, <3>2 DEF DisputeIInv, DisputeTypeOK
      <4>2. decision[call[y].dispute] = call[y].decision /\ call[y].decision # None
        BY <4>1, TerminalDecision DEF DisputeIInv, ClaimsAgree, CallStates
      <4>3. call[y].dispute = d => call[y].decision = dec
        BY <1>1, <4>2
      <4> QED
        BY <1>3, <4>1, <4>2, <4>3 DEF DisputeIInv, DisputeTypeOK
    <3> QED
      BY <3>1, <3>2
  <2> QED
    BY <2>1, <2>2, <2>3 DEF ClaimsAgree
<1>6. DecisionGovernsOrder'
  <2>1. order[d] # "disputed" => decision[d] = dec
    BY <1>1, TerminalDecision
    DEF DisputeIInv, DecisionGovernsOrder, DisputeTypeOK, terminalDecision, None
  <2> QED
    BY <1>1, <1>3, <2>1 DEF DisputeIInv, DisputeTypeOK, DecisionGovernsOrder
<1>7. ResolutionAnnouncedOnce'
  BY <1>1, <1>3 DEF DisputeIInv, DisputeTypeOK, ResolutionAnnouncedOnce
<1> QED
  BY <1>1, <1>3, <1>4, <1>5, <1>6, <1>7 DEF DisputeIInv

----------------------------------------------------------------------------
(* The escrow call and the transactions that follow it *)

\* An escrow transaction that commits settles the order as decided.
LEMMA EscrowInv ==
  ASSUME DisputeIInv, NEW x \in Executors, EscrowCommits(x) \/ EscrowAnswerLost(x)
  PROVE  DisputeIInv'
<1> DEFINE c == call[x]
<1>1. /\ c.pc = "escrow" /\ EscrowAllowed(c)
      /\ order' = [order EXCEPT ![c.dispute] = terminalStatus(c.decision)]
      /\ Goto(x, "finalize") \/ Goto(x, "caught")
      /\ UNCHANGED <<rowVars, admins>>
      /\ faults' = faults \/ (faults < MaxFaults /\ faults' = faults + 1)
  BY DEF EscrowCommits, EscrowAnswerLost
<1>2. DisputeTypeOK /\ DecisionGovernsOrder /\ ResolutionAnnouncedOnce /\ ClaimsAgree
  BY DEF DisputeIInv
<1>3. /\ c \in CallStates /\ c # Idle /\ c.dispute \in Disputes /\ c.decision \in Decisions
      /\ decision[c.dispute] = c.decision
  BY <1>1, <1>2, CallTyped DEF ClaimsAgree
<1>4. /\ call' \in [Executors -> CallStates \cup {Idle}]
      /\ \A y \in Executors :
           call'[y] # Idle => /\ call[y] # Idle
                              /\ call'[y].dispute = call[y].dispute
                              /\ call'[y].decision = call[y].decision
  BY <1>1, <1>2, GotoTyped
<1>5. terminalStatus(c.decision) \in {"completed", "refunded"}
      /\ terminalDecision(terminalStatus(c.decision)) = c.decision
  BY <1>3, TerminalDecision
<1>6. DisputeTypeOK'
  <2>1. faults' \in 0 .. MaxFaults
    BY <1>1, <1>2, FaultAssumption DEF DisputeTypeOK
  <2>2. order' \in [Disputes -> {"disputed", "completed", "refunded"}]
    BY <1>1, <1>2, <1>5 DEF DisputeTypeOK
  <2> QED
    BY <1>1, <1>2, <1>4, <2>1, <2>2 DEF DisputeTypeOK, rowVars
<1>7. ClaimsAgree'
  BY <1>1, <1>2, <1>4 DEF ClaimsAgree, rowVars
<1>8. DecisionGovernsOrder'
  BY <1>1, <1>2, <1>3, <1>5 DEF DecisionGovernsOrder, DisputeTypeOK, rowVars
<1>9. ResolutionAnnouncedOnce'
  BY <1>1, <1>2 DEF ResolutionAnnouncedOnce, rowVars
<1> QED
  BY <1>6, <1>7, <1>8, <1>9 DEF DisputeIInv

\* Steps that move a call and leave rows and orders alone.
LEMMA CallStepInv ==
  ASSUME DisputeIInv, NEW x \in Executors,
         \/ RecoveryConflicts(x) \/ EscrowRefused(x) \/ EscrowFails(x) \/ Crash(x)
  PROVE  DisputeIInv'
<1>1. /\ UNCHANGED <<rowVars, order, admins>>
      /\ faults' = faults \/ (faults < MaxFaults /\ faults' = faults + 1)
      /\ Return(x) \/ (call[x].pc = "escrow" /\ Goto(x, "caught"))
  BY DEF RecoveryConflicts, EscrowRefused, EscrowFails, Crash
<1>2. DisputeTypeOK /\ DecisionGovernsOrder /\ ResolutionAnnouncedOnce /\ ClaimsAgree
  BY DEF DisputeIInv
<1>3. /\ call' \in [Executors -> CallStates \cup {Idle}]
      /\ \A y \in Executors :
           call'[y] # Idle => /\ call[y] # Idle
                              /\ call'[y].dispute = call[y].dispute
                              /\ call'[y].decision = call[y].decision
  BY <1>1, <1>2, GotoTyped, ReturnTyped
<1>4. DisputeTypeOK'
  BY <1>1, <1>2, <1>3, FaultAssumption DEF DisputeTypeOK, rowVars
<1>5. ClaimsAgree' /\ DecisionGovernsOrder' /\ ResolutionAnnouncedOnce'
  BY <1>1, <1>2, <1>3
  DEF ClaimsAgree, DecisionGovernsOrder, ResolutionAnnouncedOnce, rowVars
<1> QED
  BY <1>4, <1>5 DEF DisputeIInv

\* finalizeIfApplied closes a dispute only after its order moved.
LEMMA FinalizeInv ==
  ASSUME DisputeIInv, NEW x \in Executors, finalizeIfApplied(x)
  PROVE  DisputeIInv'
<1> DEFINE c == call[x]
           d == c.dispute
<1>1. /\ c.pc \in {"finalize", "caught"}
      /\ UNCHANGED <<decision, op, claimant, fresh, order, admins, faults>>
      /\ Return(x) \/ Goto(x, "mark")
      /\ \/ UNCHANGED <<dstatus, announced>>
         \/ /\ dstatus[d] # "resolved" /\ Applied(c)
            /\ dstatus' = [dstatus EXCEPT ![d] = "resolved"]
            /\ announced' = [announced EXCEPT ![d] = @ + 1]
  BY DEF finalizeIfApplied, AlreadyResolved, rowVars
<1>2. DisputeTypeOK /\ DecisionGovernsOrder /\ ResolutionAnnouncedOnce /\ ClaimsAgree
  BY DEF DisputeIInv
<1>3. /\ c \in CallStates /\ c # Idle /\ d \in Disputes /\ c.decision \in Decisions
      /\ decision[d] = c.decision
  BY <1>1, <1>2, CallTyped DEF ClaimsAgree
<1>4. /\ call' \in [Executors -> CallStates \cup {Idle}]
      /\ \A y \in Executors :
           call'[y] # Idle => /\ call[y] # Idle
                              /\ call'[y].dispute = call[y].dispute
                              /\ call'[y].decision = call[y].decision
  BY <1>1, <1>2, GotoTyped, ReturnTyped
<1>5. CASE UNCHANGED <<dstatus, announced>>
  <2>1. DisputeTypeOK'
    BY <1>1, <1>2, <1>4, <1>5 DEF DisputeTypeOK
  <2>2. ClaimsAgree' /\ DecisionGovernsOrder' /\ ResolutionAnnouncedOnce'
    BY <1>1, <1>2, <1>4, <1>5
    DEF ClaimsAgree, DecisionGovernsOrder, ResolutionAnnouncedOnce
  <2> QED
    BY <2>1, <2>2 DEF DisputeIInv
<1>6. CASE /\ dstatus[d] # "resolved" /\ Applied(c)
           /\ dstatus' = [dstatus EXCEPT ![d] = "resolved"]
           /\ announced' = [announced EXCEPT ![d] = @ + 1]
  <2>1. /\ terminalDecision(order[d]) = decision[d] /\ decision[d] # None
        /\ order[d] # "disputed" /\ dstatus[d] # "open"
    BY <1>2, <1>3, <1>6, TerminalDecision DEF Applied, ClaimsAgree
  <2>2. DisputeTypeOK'
    BY <1>1, <1>2, <1>3, <1>4, <1>6 DEF DisputeTypeOK
  <2>3. ClaimsAgree'
    BY <1>1, <1>2, <1>3, <1>4, <1>6, <2>1 DEF ClaimsAgree, DisputeTypeOK
  <2>4. DecisionGovernsOrder'
    BY <1>1, <1>2, <1>3, <1>6, <2>1 DEF DecisionGovernsOrder, DisputeTypeOK
  <2>5. ResolutionAnnouncedOnce'
    BY <1>1, <1>2, <1>3, <1>6 DEF ResolutionAnnouncedOnce, DisputeTypeOK
  <2> QED
    BY <2>2, <2>3, <2>4, <2>5 DEF DisputeIInv
<1> QED
  BY <1>1, <1>5, <1>6

\* markResolutionFailed never reopens a dispute another call has closed.
LEMMA MarkFailedInv ==
  ASSUME DisputeIInv, NEW x \in Executors, markResolutionFailed(x)
  PROVE  DisputeIInv'
<1> DEFINE d == call[x].dispute
<1>1. /\ call[x].pc = "mark"
      /\ UNCHANGED <<decision, op, claimant, fresh, announced, order, admins, faults>>
      /\ Return(x)
      /\ \/ dstatus' = dstatus
         \/ dstatus[d] = "resolving" /\ dstatus' = [dstatus EXCEPT ![d] = "resolution_failed"]
  BY DEF markResolutionFailed
<1>2. DisputeTypeOK /\ DecisionGovernsOrder /\ ResolutionAnnouncedOnce /\ ClaimsAgree
  BY DEF DisputeIInv
<1>3. d \in Disputes
  BY <1>1, <1>2, CallTyped
<1>4. /\ call' \in [Executors -> CallStates \cup {Idle}]
      /\ \A y \in Executors : call'[y] # Idle => call'[y] = call[y]
  BY <1>1, <1>2, ReturnTyped
<1>5. DisputeTypeOK'
  BY <1>1, <1>2, <1>3, <1>4 DEF DisputeTypeOK
<1>6. ClaimsAgree'
  BY <1>1, <1>2, <1>3, <1>4 DEF ClaimsAgree, DisputeTypeOK
<1>7. DecisionGovernsOrder' /\ ResolutionAnnouncedOnce'
  BY <1>1, <1>2, <1>3 DEF DecisionGovernsOrder, ResolutionAnnouncedOnce, DisputeTypeOK
<1> QED
  BY <1>5, <1>6, <1>7 DEF DisputeIInv

----------------------------------------------------------------------------
(* The specification *)

LEMMA RecoveryReadsInv ==
  ASSUME DisputeIInv, NEW x \in Executors, NEW d \in Disputes, RecoveryReads(x, d)
  PROVE  DisputeIInv'
<1>1. /\ dstatus[d] = "resolving"
      /\ call' = [call EXCEPT ![x] = Call("recover", d, decision[d], op[d], claimant[d])]
      /\ UNCHANGED <<rowVars, order, admins, faults>>
  BY DEF RecoveryReads
<1>2. DisputeTypeOK /\ DecisionGovernsOrder /\ ResolutionAnnouncedOnce /\ ClaimsAgree
  BY DEF DisputeIInv
<1>3. decision[d] \in Decisions /\ claimant[d] \in DisputeAdmins /\ op[d] \in Nat
  BY <1>1, <1>2 DEF ClaimsAgree, DisputeTypeOK
<1>4. Call("recover", d, decision[d], op[d], claimant[d]) \in CallStates
  BY <1>3 DEF Call, CallStates
<1>5. DisputeTypeOK'
  BY <1>1, <1>2, <1>4 DEF DisputeTypeOK, rowVars
<1>6. ClaimsAgree'
  BY <1>1, <1>2 DEF ClaimsAgree, DisputeTypeOK, rowVars, Call
<1>7. DecisionGovernsOrder' /\ ResolutionAnnouncedOnce'
  BY <1>1, <1>2 DEF DecisionGovernsOrder, ResolutionAnnouncedOnce, rowVars
<1> QED
  BY <1>5, <1>6, <1>7 DEF DisputeIInv

LEMMA DisputeInitInv == DisputeInit => DisputeIInv
  BY AdminsAssumption, FaultAssumption, TerminalDecision
  DEF DisputeInit, DisputeIInv, DisputeTypeOK, ClaimsAgree, DecisionGovernsOrder,
      ResolutionAnnouncedOnce, Decisions

\* Every claim is made for a decision of the two, on behalf of an admin.
LEMMA RecoveryClaimInv ==
  ASSUME DisputeIInv, NEW x \in Executors, RecoveryClaims(x)
  PROVE  \E d \in Disputes, dec \in Decisions, a \in DisputeAdmins :
           claimResolution(x, d, dec, a)
  BY CallTyped DEF RecoveryClaims, DisputeIInv

LEMMA DisputeNextInv == DisputeIInv /\ [DisputeNext]_disputeVars => DisputeIInv'
<1> SUFFICES ASSUME DisputeIInv, [DisputeNext]_disputeVars PROVE DisputeIInv'
  OBVIOUS
<1>1. CASE UNCHANGED disputeVars
  BY <1>1
  DEF disputeVars, rowVars, DisputeIInv, DisputeTypeOK, ClaimsAgree,
      DecisionGovernsOrder, ResolutionAnnouncedOnce
<1>2. ASSUME NEW x \in Executors, NEW d \in Disputes, NEW dec \in Decisions,
             NEW a \in DisputeAdmins, AdminResolves(x, d, dec, a)
      PROVE  DisputeIInv'
  BY <1>2, ClaimInv DEF AdminResolves
<1>3. ASSUME NEW x \in Executors, NEW d \in Disputes, RecoveryReads(x, d)
      PROVE  DisputeIInv'
  BY <1>3, RecoveryReadsInv
<1>4. ASSUME NEW x \in Executors, CallNext(x) \/ Crash(x) PROVE DisputeIInv'
  <2>1. CASE RecoveryClaims(x)
    BY <2>1, RecoveryClaimInv, ClaimInv
  <2>2. CASE EscrowCommits(x) \/ EscrowAnswerLost(x)
    BY <2>2, EscrowInv
  <2>3. CASE RecoveryConflicts(x) \/ EscrowRefused(x) \/ EscrowFails(x) \/ Crash(x)
    BY <2>3, CallStepInv
  <2>4. CASE finalizeIfApplied(x)
    BY <2>4, FinalizeInv
  <2>5. CASE markResolutionFailed(x)
    BY <2>5, MarkFailedInv
  <2> QED
    BY <1>4, <2>1, <2>2, <2>3, <2>4, <2>5 DEF CallNext
<1>5. ASSUME NEW d \in Disputes, ClaimAges(d) PROVE DisputeIInv'
  BY <1>5
  DEF ClaimAges, DisputeIInv, DisputeTypeOK, ClaimsAgree, DecisionGovernsOrder,
      ResolutionAnnouncedOnce
<1>6. ASSUME NEW a \in Demotable, Demote(a) PROVE DisputeIInv'
  BY <1>6
  DEF Demote, rowVars, DisputeIInv, DisputeTypeOK, ClaimsAgree, DecisionGovernsOrder,
      ResolutionAnnouncedOnce
<1> QED
  BY <1>1, <1>2, <1>3, <1>4, <1>5, <1>6 DEF DisputeNext

LEMMA DisputeInvariant == DisputeSpec => []DisputeIInv
  BY DisputeInitInv, DisputeNextInv, PTL DEF DisputeSpec

\* Rows, calls and bounds keep their types in every reachable state.
THEOREM DisputeTypeCorrect == DisputeSpec => []DisputeTypeOK
<1>1. DisputeIInv => DisputeTypeOK
  BY DEF DisputeIInv
<1> QED
  BY <1>1, DisputeInvariant, PTL

(***************************************************************************)
(* dispute-resolution.service.ts carries out the decision that was claimed:*)
(* however many calls overlap or crash, money moves only that way, and a   *)
(* dispute is closed only after it moved.                                  *)
(***************************************************************************)
THEOREM OrderFollowsDecision == DisputeSpec => []DecisionGovernsOrder
<1>1. DisputeIInv => DecisionGovernsOrder
  BY DEF DisputeIInv
<1> QED
  BY <1>1, DisputeInvariant, PTL

\* finalizeIfApplied announces a resolution once, whoever reaches it again.
THEOREM AnnouncedOnce == DisputeSpec => []ResolutionAnnouncedOnce
<1>1. DisputeIInv => ResolutionAnnouncedOnce
  BY DEF DisputeIInv
<1> QED
  BY <1>1, DisputeInvariant, PTL

(***************************************************************************)
(* assertDecisionMatches: a decision once persisted is never replaced, by  *)
(* another admin, a retry or the recovery job, and it stays on the row.    *)
(***************************************************************************)
DecisionIsKept ==
  [][\A d \in Disputes : decision[d] # None => decision'[d] = decision[d]]_disputeVars

THEOREM DecisionNeverReplaced == DisputeSpec => DecisionIsKept
<1> DEFINE Kept == \A d \in Disputes : decision[d] # None => decision'[d] = decision[d]
<1>1. DisputeIInv /\ [DisputeNext]_disputeVars => [Kept]_disputeVars
  <2> SUFFICES ASSUME DisputeIInv, DisputeNext PROVE Kept
    OBVIOUS
  <2>1. ASSUME NEW x \in Executors, NEW d \in Disputes, NEW dec \in Decisions,
               NEW a \in DisputeAdmins, claimResolution(x, d, dec, a)
        PROVE  Kept
    BY <2>1, ClaimInv DEF DisputeIInv, DisputeTypeOK
  <2>2. ASSUME NEW x \in Executors, CallNext(x) \/ Crash(x) PROVE Kept
    <3>1. CASE RecoveryClaims(x)
      BY <2>1, <3>1, RecoveryClaimInv
    <3>2. CASE ~RecoveryClaims(x)
      BY <2>2, <3>2
      DEF CallNext, RecoveryConflicts, EscrowCommits, EscrowAnswerLost, EscrowRefused,
          EscrowFails, finalizeIfApplied, markResolutionFailed, Crash, rowVars
    <3> QED
      BY <3>1, <3>2
  <2> QED
    BY <2>1, <2>2 DEF DisputeNext, AdminResolves, RecoveryReads, ClaimAges, Demote, rowVars
<1> QED
  BY <1>1, DisputeInvariant, PTL DEF DisputeSpec, DecisionIsKept

----------------------------------------------------------------------------
(* DisputeResolution implements Resolution *)

\* The first claim of a dispute decides it; a later one repeats the decision.
LEMMA ClaimDecides ==
  ASSUME DisputeIInv, NEW x \in Executors, NEW d \in Disputes, NEW dec \in Decisions,
         NEW a \in DisputeAdmins, claimResolution(x, d, dec, a)
  PROVE  [R!Next]_R!resolutionVars
<1>1. /\ decision' = [decision EXCEPT ![d] = dec] /\ decision[d] \in {None, dec}
      /\ dstatus[d] # "resolved" /\ dstatus' = [dstatus EXCEPT ![d] = "resolving"]
      /\ UNCHANGED <<announced, order>>
      /\ decision \in [Disputes -> Decisions \cup {None}]
      /\ dstatus \in [Disputes -> {"open", "resolving", "resolved", "resolution_failed"}]
  BY ClaimInv DEF DisputeIInv, DisputeTypeOK
<1>2. moneyBar' = moneyBar
  BY <1>1 DEF moneyBar
<1>3. closedBar' = closedBar
  BY <1>1 DEF closedBar
<1>4. CASE decision[d] = None
  BY <1>1, <1>2, <1>3, <1>4 DEF R!Next, R!Decide, Decisions, None
<1>5. CASE decision[d] = dec
  BY <1>1, <1>2, <1>3, <1>5 DEF R!resolutionVars
<1> QED
  BY <1>1, <1>4, <1>5

\* An escrow transaction that commits is the decided transfer.
LEMMA EscrowPays ==
  ASSUME DisputeIInv, NEW x \in Executors, EscrowCommits(x) \/ EscrowAnswerLost(x)
  PROVE  R!Next
<1> DEFINE c == call[x]
           d == c.dispute
<1>1. /\ c.pc = "escrow" /\ order[d] = "disputed"
      /\ order' = [order EXCEPT ![d] = terminalStatus(c.decision)]
      /\ UNCHANGED rowVars
  BY DEF EscrowCommits, EscrowAnswerLost, EscrowAllowed
<1>2. d \in Disputes /\ c.decision \in Decisions /\ decision[d] = c.decision
  BY <1>1, CallTyped DEF DisputeIInv, ClaimsAgree
<1>3. order \in [Disputes -> {"disputed", "completed", "refunded"}]
  BY DEF DisputeIInv, DisputeTypeOK
<1>4. decision' = decision /\ closedBar' = closedBar /\ announced' = announced
  BY <1>1 DEF closedBar, rowVars
<1>5. moneyBar[d] = "held"
  BY <1>1, <1>2 DEF moneyBar
<1> HIDE DEF c, d
<1>6. ASSUME NEW dec, NEW to, c.decision = dec,
             \/ dec = "refund" /\ to = "buyer"
             \/ dec = "release" /\ to = "seller"
      PROVE  R!Pay(d, dec, to)
  <2>1. moneyBar' = [moneyBar EXCEPT ![d] = to]
    <3>1. order'[d] = terminalStatus(dec) /\ \A e \in Disputes : e # d => order'[e] = order[e]
      BY <1>1, <1>2, <1>3, <1>6
    <3> QED
      BY <1>2, <1>6, <3>1 DEF moneyBar, terminalStatus
  <2> QED
    BY <1>2, <1>4, <1>5, <1>6, <2>1 DEF R!Pay
<1>7. R!Pay(d, "refund", "buyer") \/ R!Pay(d, "release", "seller")
  <2>1. c.decision = "refund" \/ c.decision = "release"
    BY <1>2 DEF Decisions
  <2>2. CASE c.decision = "refund"
    BY <1>6, <2>2
  <2>3. CASE c.decision = "release"
    BY <1>6, <2>3
  <2> QED
    BY <2>1, <2>2, <2>3
<1> QED
  BY <1>2, <1>7 DEF R!Next

\* finalizeIfApplied closes and announces, or leaves the dispute as it is.
LEMMA FinalizeCloses ==
  ASSUME DisputeIInv, NEW x \in Executors, finalizeIfApplied(x)
  PROVE  [R!Next]_R!resolutionVars
<1> DEFINE c == call[x]
           d == c.dispute
<1>1. /\ c.pc \in {"finalize", "caught"} /\ UNCHANGED <<decision, order>>
      /\ \/ UNCHANGED <<dstatus, announced>>
         \/ /\ dstatus[d] # "resolved" /\ Applied(c)
            /\ dstatus' = [dstatus EXCEPT ![d] = "resolved"]
            /\ announced' = [announced EXCEPT ![d] = @ + 1]
  BY DEF finalizeIfApplied, AlreadyResolved, rowVars
<1>2. d \in Disputes /\ c.decision \in Decisions
  BY <1>1, CallTyped DEF DisputeIInv
<1>3. moneyBar' = moneyBar
  BY <1>1 DEF moneyBar
<1>4. CASE UNCHANGED <<dstatus, announced>>
  BY <1>1, <1>3, <1>4 DEF closedBar, R!resolutionVars
<1>5. CASE /\ dstatus[d] # "resolved" /\ Applied(c)
           /\ dstatus' = [dstatus EXCEPT ![d] = "resolved"]
           /\ announced' = [announced EXCEPT ![d] = @ + 1]
  <2>1. moneyBar[d] # "held"
    <3>1. order[d] = "refunded" \/ order[d] = "completed"
      BY <1>2, <1>5, TerminalDecision DEF Applied, terminalDecision
    <3> QED
      BY <1>2, <3>1 DEF moneyBar
  <2>2. ~closedBar[d] /\ closedBar' = [closedBar EXCEPT ![d] = TRUE]
    BY <1>2, <1>5 DEF closedBar, DisputeIInv, DisputeTypeOK
  <2> QED
    BY <1>1, <1>2, <1>3, <1>5, <2>1, <2>2 DEF R!Next, R!Close
<1> QED
  BY <1>1, <1>4, <1>5

\* Every other step is a stutter: it moves calls, or leaves the dispute open.
LEMMA ResolutionStep ==
  DisputeIInv /\ [DisputeNext]_disputeVars => [R!Next]_R!resolutionVars
<1> SUFFICES ASSUME DisputeIInv, [DisputeNext]_disputeVars
             PROVE  [R!Next]_R!resolutionVars
  OBVIOUS
<1>1. ASSUME UNCHANGED <<rowVars, order>> PROVE [R!Next]_R!resolutionVars
  BY <1>1 DEF rowVars, moneyBar, closedBar, R!resolutionVars
<1>2. CASE UNCHANGED disputeVars
  BY <1>1, <1>2 DEF disputeVars
<1>3. ASSUME NEW x \in Executors, NEW d \in Disputes, NEW dec \in Decisions,
             NEW a \in DisputeAdmins, AdminResolves(x, d, dec, a)
      PROVE  [R!Next]_R!resolutionVars
  BY <1>3, ClaimDecides DEF AdminResolves
<1>4. ASSUME NEW x \in Executors, CallNext(x) \/ Crash(x)
      PROVE  [R!Next]_R!resolutionVars
  <2>1. CASE RecoveryClaims(x)
    BY <2>1, RecoveryClaimInv, ClaimDecides
  <2>2. CASE EscrowCommits(x) \/ EscrowAnswerLost(x)
    BY <2>2, EscrowPays
  <2>3. CASE RecoveryConflicts(x) \/ EscrowRefused(x) \/ EscrowFails(x) \/ Crash(x)
    BY <1>1, <2>3 DEF RecoveryConflicts, EscrowRefused, EscrowFails, Crash
  <2>4. CASE finalizeIfApplied(x)
    BY <2>4, FinalizeCloses
  <2>5. CASE markResolutionFailed(x)
    <3>1. /\ UNCHANGED <<decision, announced, order>>
          /\ \/ dstatus' = dstatus
             \/ /\ dstatus[call[x].dispute] = "resolving"
                /\ dstatus' = [dstatus EXCEPT ![call[x].dispute] = "resolution_failed"]
      BY <2>5 DEF markResolutionFailed
    <3>2. closedBar' = closedBar
      BY <3>1 DEF closedBar, DisputeIInv, DisputeTypeOK
    <3> QED
      BY <3>1, <3>2 DEF moneyBar, R!resolutionVars
  <2> QED
    BY <1>4, <2>1, <2>2, <2>3, <2>4, <2>5 DEF CallNext
<1>5. ASSUME NEW x \in Executors, NEW d \in Disputes, RecoveryReads(x, d)
      PROVE  [R!Next]_R!resolutionVars
  BY <1>1, <1>5 DEF RecoveryReads
<1>6. ASSUME NEW d \in Disputes, ClaimAges(d) PROVE [R!Next]_R!resolutionVars
  BY <1>6 DEF ClaimAges, moneyBar, closedBar, R!resolutionVars
<1>7. ASSUME NEW a \in Demotable, Demote(a) PROVE [R!Next]_R!resolutionVars
  BY <1>1, <1>7 DEF Demote
<1> QED
  BY <1>2, <1>3, <1>4, <1>5, <1>6, <1>7 DEF DisputeNext

(***************************************************************************)
(* Resolution: a dispute is decided once, the decided transfer is made     *)
(* once, and its end is announced with it, once, although claiming, paying *)
(* and finalising are transactions of their own, and other calls, retries, *)
(* the recovery job and crashes of dispute-resolution.service.ts come      *)
(* between them.                                                           *)
(***************************************************************************)
THEOREM DisputeResolvesOnce == DisputeSpec => ResolvesOnce
<1>1. DisputeInit => R!Init
  BY DEF DisputeInit, R!Init, moneyBar, closedBar, None
<1> QED
  BY <1>1, DisputeInvariant, ResolutionStep, PTL DEF DisputeSpec, ResolvesOnce, R!Spec
=============================================================================
