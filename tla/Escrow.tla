------------------------------- MODULE Escrow -------------------------------
(***************************************************************************)
(* The order lifecycle and the escrow behind it: modules/orders (routes,   *)
(* order-transition.service, ledger.service, auto-release), the part of    *)
(* modules/payments that turns a provider's confirmation into a capture,   *)
(* and the part of modules/disputes and modules/marketplace that changes   *)
(* an order or a listing.                                                  *)
(*                                                                         *)
(* Every transaction locks its order row first, so a transaction is one    *)
(* step.  What the code reads outside a transaction and acts upon later    *)
(* (the check of /confirm, the sweep's list of due orders, the checkout    *)
(* page and the webhook that follows it) is a step of its own.             *)
(***************************************************************************)
EXTENDS Ledger

CONSTANTS
  Products,       \* rows of products
  SellerOf,       \* products.seller_id
  InstantProducts,\* delivery_type = 'instant' with a delivery_template
  StockLevels,    \* bound: the values the seller's edit form sends
  Orders,         \* ids of the orders that may be created
  BuyerOf,        \* orders.buyer_id, product_id, quantity and amount_cents:
  ProductOf,      \*   the columns written at creation and never again
  QuantityOf,
  AmountOf,
  Providers,      \* gateways with a webhook: liqpay, monobank, wayforpay
  Admins,         \* users with role admin
  FeeBps,         \* PLATFORM_FEE_BPS
  TestPayments,   \* testPaymentsEnabled: simulated payments, in test mode only
  ModeratorSets   \* bound: the statuses moderators give listings

ASSUME CatalogAssumption ==
  /\ SellerOf \in [Products -> Users]
  /\ InstantProducts \subseteq Products
  /\ StockLevels \subseteq Nat

ASSUME OrderAssumption ==
  /\ BuyerOf \in [Orders -> Users]
  /\ ProductOf \in [Orders -> Products]
  /\ QuantityOf \in [Orders -> Nat \ {0}]
  /\ AmountOf \in [Orders -> MoneyCents \ {0}]

ASSUME FeeAssumption == FeeBps \in 0 .. 10000

ASSUME AdminAssumption == Admins \subseteq Users

ASSUME ModeAssumption ==
  /\ TestPayments \in BOOLEAN
  /\ ModeratorSets \subseteq {"active", "paused", "blocked", "deleted"}

VARIABLES
  status,      \* orders.status, "none" before the row exists
  fee,         \* orders.fee_cents
  timer,       \* orders.auto_release_at is set
  events,      \* order_events rows written by transitionOrder
  outbox,      \* event keys inserted into outbox_events
  reviewed,    \* orders with a row in reviews
  stock,       \* products.stock
  listing,     \* products.status
  sales,       \* products.sales_count
  available,   \* wallets.available_cents
  escrowed,    \* wallets.escrow_cents
  revenue,     \* platform_wallets.revenue_cents
  journal,     \* ledger_entries with their ledger_lines
  inflight,    \* releases past their unlocked check, not yet in a transaction
  checkouts,   \* hosted payment pages the buyer was given
  charged,     \* payments the provider reports as successful
  acked        \* confirmations answered with 200 and never sent again

orderVars   == <<status, timer, events, outbox>>
walletVars  == <<available, escrowed, revenue, journal>>
productVars == <<stock, listing, sales>>
paymentVars == <<checkouts, charged, acked>>
vars == <<orderVars, fee, reviewed, productVars, walletVars, inflight,
          paymentVars>>

Seller(o) == SellerOf[ProductOf[o]]

----------------------------------------------------------------------------
(* orders/order-transitions.ts *)

OrderStatus == {"pending", "paid", "in_progress", "delivered", "completed",
                "disputed", "refunded", "canceled"}

orderTransitions ==
  [pending     |-> {"paid", "delivered", "canceled"},
   paid        |-> {"in_progress", "delivered", "disputed", "refunded"},
   in_progress |-> {"delivered", "disputed", "refunded"},
   delivered   |-> {"completed", "disputed", "refunded"},
   disputed    |-> {"completed", "refunded"},
   completed   |-> {},
   refunded    |-> {},
   canceled    |-> {}]

canTransitionOrder(from, to) ==
  from \in OrderStatus /\ to \in orderTransitions[from]

(***************************************************************************)
(* orders/order-transition.service.ts.  An input is what callers pass to   *)
(* transitionOrder: the target status, the actor (an id and the role it    *)
(* claims), the reason and the statuses the caller expects to leave.  The  *)
(* reasons service_released and service_refunded, which no caller passes,  *)
(* are left out.                                                           *)
(***************************************************************************)
Reasons == {"payment_captured", "test_payment_failed", "seller_started",
            "seller_delivered", "buyer_confirmed", "auto_released",
            "dispute_opened", "dispute_released", "dispute_refunded"}

REASON_POLICIES ==
  [payment_captured    |-> [to |-> {"paid", "delivered"},
                            roles |-> {"buyer", "admin", "payment_provider",
                                       "test_payment"}],
   test_payment_failed |-> [to |-> {"canceled"},    roles |-> {"test_payment"}],
   seller_started      |-> [to |-> {"in_progress"}, roles |-> {"seller"}],
   seller_delivered    |-> [to |-> {"delivered"},   roles |-> {"seller"}],
   buyer_confirmed     |-> [to |-> {"completed"},   roles |-> {"buyer"}],
   auto_released       |-> [to |-> {"completed"},   roles |-> {"auto_release"}],
   dispute_opened      |-> [to |-> {"disputed"},    roles |-> {"participant"}],
   dispute_released    |-> [to |-> {"completed"},   roles |-> {"admin"}],
   dispute_refunded    |-> [to |-> {"refunded"},    roles |-> {"admin"}]]

\* Mutant: a delivery is announced under the key of the start.
outboxEventType_KeyReused ==
  [payment_captured    |-> "order.paid",
   test_payment_failed |-> "order.canceled",
   seller_started      |-> "order.started",
   seller_delivered    |-> "order.started",
   buyer_confirmed     |-> "order.completed",
   auto_released       |-> "order.completed",
   dispute_opened      |-> "dispute.opened",
   dispute_released    |-> "order.completed",
   dispute_refunded    |-> "order.refunded"]

\* The outbox event type each reason announces; with the order it is the key.
outboxEventType ==
  [payment_captured    |-> "order.paid",
   test_payment_failed |-> "order.canceled",
   seller_started      |-> "order.started",
   seller_delivered    |-> "order.delivered",
   buyer_confirmed     |-> "order.completed",
   auto_released       |-> "order.completed",
   dispute_opened      |-> "dispute.opened",
   dispute_released    |-> "order.completed",
   dispute_refunded    |-> "order.refunded"]

Actor(id, role) == [id |-> id, role |-> role]

assertActorPermission(o, actor, reason, to) ==
  /\ to \in REASON_POLICIES[reason].to
  /\ actor.role \in REASON_POLICIES[reason].roles
  /\ actor.role \in {"buyer", "test_payment"} => actor.id = BuyerOf[o]
  /\ actor.role = "seller" => actor.id = Seller(o)
  /\ actor.role = "participant" => actor.id \in {BuyerOf[o], Seller(o)}
  /\ actor.role = "admin" => actor.id \in Admins

OrderEvent(o, in) ==
  [order |-> o, to |-> in.to, reason |-> in.reason, actor |-> in.actor]

isIdempotentRepeat(o, in) ==
  /\ status[o] = in.to
  /\ \E e \in events : /\ e.order = o
                       /\ e.to = in.to
                       /\ e.reason = in.reason
                       /\ e.actor = in.actor

\* transitionOrder returns (rather than throws) exactly when this holds.
TransitionAccepted(o, in) ==
  \/ isIdempotentRepeat(o, in)
  \/ /\ status[o] \in in.expectedFrom
     /\ canTransitionOrder(status[o], in.to)
     /\ assertActorPermission(o, in.actor, in.reason, in.to)

\* Mutant: only a seller's delivery starts the auto-release timer.
transitionOrder_NoTimerForInstant(o, in) ==
  IF isIdempotentRepeat(o, in)
  THEN UNCHANGED orderVars
  ELSE /\ status' = [status EXCEPT ![o] = in.to]
       /\ timer' = [timer EXCEPT ![o] = @ \/ in.reason = "seller_delivered"]
       /\ events' = events \cup {OrderEvent(o, in)}
       /\ outbox' = outbox \cup {<<outboxEventType[in.reason], o>>}

\* The row update, the timeline event and the outbox intent.
transitionOrder(o, in) ==
  IF isIdempotentRepeat(o, in)
  THEN UNCHANGED orderVars
  ELSE /\ status' = [status EXCEPT ![o] = in.to]
       /\ timer' = [timer EXCEPT ![o] = @ \/ in.to = "delivered"]
       /\ events' = events \cup {OrderEvent(o, in)}
       /\ outbox' = outbox \cup {<<outboxEventType[in.reason], o>>}

TransitionInput(to, id, role, reason, expectedFrom) ==
  [to |-> to, actor |-> Actor(id, role), reason |-> reason,
   expectedFrom |-> expectedFrom]

----------------------------------------------------------------------------
(* Ledger entries of orders/accounting.service.ts *)

CaptureEntry(o) ==
  Entry(<<o, "payment_capture">>,
        {Debit(ProviderClearing, AmountOf[o]),
         Credit(SellerEscrow(Seller(o)), AmountOf[o])})

ReleaseEntry(o) ==
  Entry(<<o, "escrow_release">>,
        {Debit(SellerEscrow(Seller(o)), AmountOf[o])}
          \cup CreditIfAny(UserPayable(Seller(o)), AmountOf[o] - fee[o])
          \cup CreditIfAny(PlatformRevenue, fee[o]))

RefundEntry(o) ==
  Entry(<<o, "refund">>,
        {Debit(SellerEscrow(Seller(o)), AmountOf[o]),
         Credit(UserPayable(BuyerOf[o]), AmountOf[o])})

----------------------------------------------------------------------------
(***************************************************************************)
(* The three transactions of orders/ledger.service.ts.  Each is a guard,   *)
(* false when the transaction throws and rolls back, and an effect.        *)
(***************************************************************************)
CaptureInput(o, id, role) ==
  TransitionInput(IF ProductOf[o] \in InstantProducts THEN "delivered" ELSE "paid",
                  id, role, "payment_captured", {"pending"})

\* Mutant: the stock is not compared with the quantity.
Purchasable_AnyStock(o) == listing[ProductOf[o]] = "active"

Purchasable(o) ==
  /\ listing[ProductOf[o]] = "active"
  /\ stock[ProductOf[o]] >= QuantityOf[o]

\* Mutant: lockEscrow does not ask for a pending order.
CaptureAllowed_AnyStatus(o, id, role) ==
  /\ Purchasable(o)
  /\ CanAdd(escrowed[Seller(o)], AmountOf[o])
  /\ Postable(CaptureEntry(o))
  /\ TransitionAccepted(o, CaptureInput(o, id, role))

CaptureAllowed(o, id, role) ==
  /\ status[o] = "pending"
  /\ Purchasable(o)
  /\ CanAdd(escrowed[Seller(o)], AmountOf[o])
  /\ Postable(CaptureEntry(o))
  /\ TransitionAccepted(o, CaptureInput(o, id, role))

lockEscrow(o, id, role) ==
  /\ CaptureAllowed(o, id, role)
  /\ stock' = [stock EXCEPT ![ProductOf[o]] = @ - QuantityOf[o]]
  /\ escrowed' = [escrowed EXCEPT ![Seller(o)] = @ + AmountOf[o]]
  /\ journal' = PostLedgerEntry(journal, CaptureEntry(o))
  /\ fee' = [fee EXCEPT ![o] = PlatformFeeCents(AmountOf[o], FeeBps)]
  /\ transitionOrder(o, CaptureInput(o, id, role))
  /\ UNCHANGED <<available, revenue, listing, sales>>

\* Mutant: the sweep may also release a disputed order.
ReleaseInput_AutoFromDisputed(o, source, id) ==
  CASE source = "buyer_confirmed" ->
         TransitionInput("completed", id, "buyer", "buyer_confirmed", {"delivered"})
    [] source = "auto" ->
         TransitionInput("completed", "auto-release-worker", "auto_release",
                         "auto_released", {"delivered", "disputed"})
    [] source = "dispute" ->
         TransitionInput("completed", id, "admin", "dispute_released", {"disputed"})

\* Actor, reason and expected statuses by the source of the release.
ReleaseInput(o, source, id) ==
  CASE source = "buyer_confirmed" ->
         TransitionInput("completed", id, "buyer", "buyer_confirmed", {"delivered"})
    [] source = "auto" ->
         TransitionInput("completed", "auto-release-worker", "auto_release",
                         "auto_released", {"delivered"})
    [] source = "dispute" ->
         TransitionInput("completed", id, "admin", "dispute_released", {"disputed"})

\* Mutant: the release relies on transitionOrder alone to refuse a repeat.
ReleaseAllowed_NoGraphCheck(o, source, id) ==
  /\ TransitionAccepted(o, ReleaseInput(o, source, id))
  /\ fee[o] <= AmountOf[o]
  /\ CanSubtract(escrowed[Seller(o)], AmountOf[o])
  /\ CanAdd(available[Seller(o)], AmountOf[o] - fee[o])
  /\ CanAdd(revenue, fee[o])
  /\ Postable(ReleaseEntry(o))

ReleaseAllowed(o, source, id) ==
  /\ canTransitionOrder(status[o], "completed")
  /\ TransitionAccepted(o, ReleaseInput(o, source, id))
  /\ fee[o] <= AmountOf[o]
  /\ CanSubtract(escrowed[Seller(o)], AmountOf[o])
  /\ CanAdd(available[Seller(o)], AmountOf[o] - fee[o])
  /\ CanAdd(revenue, fee[o])
  /\ Postable(ReleaseEntry(o))

releaseEscrow(o, source, id) ==
  /\ ReleaseAllowed(o, source, id)
  /\ transitionOrder(o, ReleaseInput(o, source, id))
  /\ escrowed' = [escrowed EXCEPT ![Seller(o)] = @ - AmountOf[o]]
  /\ available' = [available EXCEPT ![Seller(o)] = @ + (AmountOf[o] - fee[o])]
  /\ revenue' = revenue + fee[o]
  /\ journal' = PostLedgerEntry(journal, ReleaseEntry(o))
  /\ sales' = [sales EXCEPT ![ProductOf[o]] = @ + QuantityOf[o]]
  /\ UNCHANGED <<fee, stock, listing>>

RefundInput(a) ==
  TransitionInput("refunded", a, "admin", "dispute_refunded", {"disputed"})

\* Mutant: the refund looks at the wallets and not at the order.
RefundAllowed_AnyStatus(o, a) ==
  /\ CanSubtract(escrowed[Seller(o)], AmountOf[o])
  /\ CanAdd(available[BuyerOf[o]], AmountOf[o])
  /\ Postable(RefundEntry(o))

RefundAllowed(o, a) ==
  /\ canTransitionOrder(status[o], "refunded")
  /\ TransitionAccepted(o, RefundInput(a))
  /\ CanSubtract(escrowed[Seller(o)], AmountOf[o])
  /\ CanAdd(available[BuyerOf[o]], AmountOf[o])
  /\ Postable(RefundEntry(o))

\* The units of a refunded order do not return to the listing's stock.
refundEscrow(o, a) ==
  /\ RefundAllowed(o, a)
  /\ transitionOrder(o, RefundInput(a))
  /\ escrowed' = [escrowed EXCEPT ![Seller(o)] = @ - AmountOf[o]]
  /\ available' = [available EXCEPT ![BuyerOf[o]] = @ + AmountOf[o]]
  /\ journal' = PostLedgerEntry(journal, RefundEntry(o))
  /\ UNCHANGED <<fee, revenue, productVars>>

----------------------------------------------------------------------------
(* Init and the handlers *)

Init ==
  /\ status = [o \in Orders |-> "none"]
  /\ fee = [o \in Orders |-> 0]
  /\ timer = [o \in Orders |-> FALSE]
  /\ events = {}
  /\ outbox = {}
  /\ reviewed = {}
  /\ stock \in [Products -> StockLevels]
  /\ listing = [p \in Products |-> "active"]
  /\ sales = [p \in Products |-> 0]
  /\ available = [u \in Users |-> 0]
  /\ escrowed = [u \in Users |-> 0]
  /\ revenue = 0
  /\ journal = {}
  /\ inflight = {}
  /\ checkouts = {}
  /\ charged = {}
  /\ acked = {}

\* POST /orders: stock is checked here and taken only at capture.
CreateOrder(o) ==
  /\ status[o] = "none"
  /\ Purchasable(o)
  /\ BuyerOf[o] # Seller(o)
  /\ status' = [status EXCEPT ![o] = "pending"]
  /\ outbox' = outbox \cup {<<"order.created", o>>}
  /\ UNCHANGED <<fee, timer, events, reviewed, productVars, walletVars, inflight,
                 paymentVars>>

PayerRoles == IF TestPayments THEN {"buyer", "test_payment"} ELSE {"buyer"}

\* POST /payments/orders/:id/pay, and the simulated test payment.
Pay(o, role) ==
  /\ lockEscrow(o, BuyerOf[o], role)
  /\ UNCHANGED <<reviewed, inflight, paymentVars>>

\* POST /admin/orders/:id/confirm-payment: an admin saw the bank transfer.
ConfirmManualPayment(o, a) ==
  /\ lockEscrow(o, a, "admin")
  /\ UNCHANGED <<reviewed, inflight, paymentVars>>

\* simulateTestPaymentFailure, where test payments are enabled.
TestPaymentFails(o, role) ==
  LET in == TransitionInput("canceled", BuyerOf[o], role,
                            "test_payment_failed", {"pending"})
  IN  /\ status[o] = "pending"
      /\ TransitionAccepted(o, in)
      /\ transitionOrder(o, in)
      /\ UNCHANGED <<fee, reviewed, productVars, walletVars, inflight, paymentVars>>

\* POST .../checkout: the status is read without a lock.
CreateCheckout(o, p) ==
  /\ status[o] = "pending"
  /\ checkouts' = checkouts \cup {<<o, p>>}
  /\ UNCHANGED <<orderVars, fee, reviewed, productVars, walletVars, inflight,
                 charged, acked>>

\* The buyer pays at the provider, at any time after the page was created.
ProviderCharges(o, p) ==
  /\ <<o, p>> \in checkouts
  /\ charged' = charged \cup {<<o, p>>}
  /\ UNCHANGED <<orderVars, fee, reviewed, productVars, walletVars, inflight,
                 checkouts, acked>>

\* A webhook, possibly repeated, whose payment the server captures.
WebhookCaptures(o, p) ==
  /\ <<o, p>> \in charged
  /\ lockEscrow(o, p, "payment_provider")
  /\ acked' = acked \cup {<<o, p>>}
  /\ UNCHANGED <<reviewed, inflight, checkouts, charged>>

\* persistConfirmedWebhookOutcome answers 200 to a 4xx of lockEscrow.
WebhookTerminal(o, p) ==
  /\ <<o, p>> \in charged
  /\ ~CaptureAllowed(o, p, "payment_provider")
  /\ acked' = acked \cup {<<o, p>>}
  /\ UNCHANGED <<orderVars, fee, reviewed, productVars, walletVars, inflight,
                 checkouts, charged>>

SellerMoves(o, to, reason, expectedFrom) ==
  LET in == TransitionInput(to, Seller(o), "seller", reason, expectedFrom)
  IN  /\ canTransitionOrder(status[o], to)
      /\ TransitionAccepted(o, in)
      /\ transitionOrder(o, in)
      /\ UNCHANGED <<fee, reviewed, productVars, walletVars, inflight, paymentVars>>

\* POST /orders/:id/start
StartOrder(o) == SellerMoves(o, "in_progress", "seller_started", {"paid"})

\* POST /orders/:id/deliver
DeliverOrder(o) ==
  SellerMoves(o, "delivered", "seller_delivered", {"paid", "in_progress"})

Release(o, source) == [order |-> o, source |-> source]

\* POST /orders/:id/confirm, the check it makes before releaseEscrow.
ConfirmChecked(o) ==
  /\ status[o] = "delivered"
  /\ inflight' = inflight \cup {Release(o, "buyer_confirmed")}
  /\ UNCHANGED <<orderVars, fee, reviewed, productVars, walletVars, paymentVars>>

(***************************************************************************)
(* processEscrowRelease and runAutoReleaseSweep list the delivered orders  *)
(* whose auto_release_at has passed.  It passes at some unknown time after *)
(* the delivery, so a sweep may list any delivered order that has one.     *)
(***************************************************************************)
SweepListsDue(o) ==
  /\ status[o] = "delivered"
  /\ timer[o]
  /\ inflight' = inflight \cup {Release(o, "auto")}
  /\ UNCHANGED <<orderVars, fee, reviewed, productVars, walletVars, paymentVars>>

\* An admin enqueues escrow_release for one order: its due time is not asked.
AdminRequestsRelease(o) ==
  /\ status[o] = "delivered"
  /\ inflight' = inflight \cup {Release(o, "auto")}
  /\ UNCHANGED <<orderVars, fee, reviewed, productVars, walletVars, paymentVars>>

\* A release in flight reaches its transaction.
RunRelease(o, source) ==
  /\ Release(o, source) \in inflight
  /\ releaseEscrow(o, source, BuyerOf[o])
  /\ inflight' = inflight \ {Release(o, source)}
  /\ UNCHANGED <<reviewed, paymentVars>>

\* ... which throws (400 to the buyer, a log line in the sweep) ...
ReleaseRejected(o, source) ==
  /\ Release(o, source) \in inflight
  /\ ~ReleaseAllowed(o, source, BuyerOf[o])
  /\ inflight' = inflight \ {Release(o, source)}
  /\ UNCHANGED <<orderVars, fee, reviewed, productVars, walletVars, paymentVars>>

\* ... or never happens: the process died or the database refused it thrice.
ReleaseLost(o, source) ==
  /\ Release(o, source) \in inflight
  /\ inflight' = inflight \ {Release(o, source)}
  /\ UNCHANGED <<orderVars, fee, reviewed, productVars, walletVars, paymentVars>>

\* POST /orders/:orderId/dispute; a repeat returns the dispute that exists.
OpenDispute(o, u) ==
  LET in == TransitionInput("disputed", u, "participant", "dispute_opened",
                            {"paid", "in_progress", "delivered"})
  IN  /\ u \in {BuyerOf[o], Seller(o)}
      /\ canTransitionOrder(status[o], "disputed")
      /\ TransitionAccepted(o, in)
      /\ transitionOrder(o, in)
      /\ UNCHANGED <<fee, reviewed, productVars, walletVars, inflight, paymentVars>>

\* The escrow step of a dispute's resolution (see DisputeResolution).
ResolveRelease(o, a) ==
  /\ releaseEscrow(o, "dispute", a)
  /\ UNCHANGED <<reviewed, inflight, paymentVars>>

ResolveRefund(o, a) ==
  /\ refundEscrow(o, a)
  /\ UNCHANGED <<reviewed, inflight, paymentVars>>

\* POST /orders/:id/review; a second review is a replay or a 409.
ReviewOrder(o) ==
  /\ o \notin reviewed
  /\ status[o] = "completed"
  /\ reviewed' = reviewed \cup {o}
  /\ outbox' = outbox \cup {<<"review.created", o>>}
  /\ UNCHANGED <<status, timer, events, fee, productVars, walletVars, inflight,
                 paymentVars>>

ListingStatus == {"active", "paused", "blocked", "deleted"}

\* PATCH /products/:id: the stock is the number the form holds.
EditListing(p, n, s) ==
  /\ listing[p] # "deleted"
  /\ stock' = [stock EXCEPT ![p] = n]
  /\ listing' = [listing EXCEPT ![p] = s]
  /\ UNCHANGED <<orderVars, fee, reviewed, sales, walletVars, inflight, paymentVars>>

\* DELETE /products/:id
DeleteListing(p) ==
  /\ listing[p] # "deleted"
  /\ listing' = [listing EXCEPT ![p] = "deleted"]
  /\ UNCHANGED <<orderVars, fee, reviewed, stock, sales, walletVars, inflight,
                 paymentVars>>

\* PATCH /admin/listings/:id sets any status, that of a deleted listing too.
ModerateListing(p, s) ==
  /\ listing' = [listing EXCEPT ![p] = s]
  /\ UNCHANGED <<orderVars, fee, reviewed, stock, sales, walletVars, inflight,
                 paymentVars>>

ReleaseSources == {"buyer_confirmed", "auto"}

OrderNext(o) ==
  \/ CreateOrder(o)
  \/ \E role \in PayerRoles : Pay(o, role)
  \/ \E a \in Admins : ConfirmManualPayment(o, a)
  \/ \E role \in PayerRoles \ {"buyer"} : TestPaymentFails(o, role)
  \/ StartOrder(o)
  \/ DeliverOrder(o)
  \/ SweepListsDue(o)
  \/ ConfirmChecked(o)
  \/ AdminRequestsRelease(o)
  \/ \E u \in Users : OpenDispute(o, u)
  \/ \E a \in Admins : ResolveRelease(o, a)
  \/ \E a \in Admins : ResolveRefund(o, a)
  \/ ReviewOrder(o)

ReleaseNext(o, source) ==
  \/ RunRelease(o, source)
  \/ ReleaseRejected(o, source)
  \/ ReleaseLost(o, source)

PaymentNext(o, p) ==
  \/ CreateCheckout(o, p)
  \/ ProviderCharges(o, p)
  \/ WebhookCaptures(o, p)
  \/ WebhookTerminal(o, p)

ListingNext(p) ==
  \/ \E n \in StockLevels \cup {stock[p]}, s \in {"active", "paused"} :
       EditListing(p, n, s)
  \/ DeleteListing(p)
  \/ \E s \in ModeratorSets : ModerateListing(p, s)

Next ==
  \/ \E o \in Orders : OrderNext(o)
  \/ \E o \in Orders, source \in ReleaseSources : ReleaseNext(o, source)
  \/ \E o \in Orders, p \in Providers : PaymentNext(o, p)
  \/ \E p \in Products : ListingNext(p)

(***************************************************************************)
(* Time passes, and the sweep is a repeating job (every minute).  A release*)
(* may be lost to a crash, but not every one forever: strong fairness.     *)
(***************************************************************************)
Fairness ==
  \A o \in Orders : /\ WF_vars(SweepListsDue(o))
                    /\ SF_vars(RunRelease(o, "auto"))

Spec == Init /\ [][Next]_vars /\ Fairness

----------------------------------------------------------------------------
(* Properties *)

EntryKinds == {"payment_capture", "escrow_release", "refund"}

ActorIds == Users \cup Providers \cup {"auto-release-worker"}

EventTypes == {"order.created", "order.paid", "order.canceled", "order.started",
               "order.delivered", "order.completed", "dispute.opened",
               "order.refunded", "review.created"}

OrderTypeOK ==
  /\ status \in [Orders -> OrderStatus \cup {"none"}]
  /\ timer \in [Orders -> BOOLEAN]
  /\ \A e \in events : /\ e.order \in Orders
                       /\ e.to \in OrderStatus
                       /\ e.reason \in Reasons
                       /\ e.actor.id \in ActorIds
  /\ outbox \subseteq EventTypes \X Orders

ProductTypeOK ==
  /\ stock \in [Products -> Nat]
  /\ listing \in [Products -> ListingStatus]
  /\ sales \in [Products -> Nat]

WalletTypeOK ==
  /\ available \in [Users -> MoneyCents]
  /\ escrowed \in [Users -> MoneyCents]
  /\ revenue \in MoneyCents
  /\ \A e \in journal : e.key \in Orders \X EntryKinds

RequestTypeOK ==
  /\ inflight \subseteq [order : Orders, source : ReleaseSources]
  /\ checkouts \subseteq Orders \X Providers
  /\ charged \subseteq checkouts
  /\ acked \subseteq charged

\* Type invariant: balances stay within a bigint, stock never goes negative,
\* only charged payments are acknowledged.
TypeOK ==
  /\ OrderTypeOK
  /\ fee \in [Orders -> MoneyCents]
  /\ reviewed \subseteq Orders
  /\ ProductTypeOK
  /\ WalletTypeOK
  /\ RequestTypeOK

HeldStatuses == {"paid", "in_progress", "delivered", "disputed"}

(***************************************************************************)
(* The books and the lifecycle agree, order by order: money was captured   *)
(* exactly for the orders that went past pending, released exactly for the *)
(* completed ones and refunded exactly for the refunded ones.              *)
(***************************************************************************)
MoneyFollowsStatus ==
  \A o \in Orders :
    /\ Posted(journal, <<o, "payment_capture">>)
         <=> status[o] \in HeldStatuses \cup {"completed", "refunded"}
    /\ Posted(journal, <<o, "escrow_release">>) <=> status[o] = "completed"
    /\ Posted(journal, <<o, "refund">>) <=> status[o] = "refunded"

(***************************************************************************)
(* runReconciliation finds no difference: wallets and platform revenue,    *)
(* which the transactions update, equal what the ledger entries add up to. *)
(***************************************************************************)
WalletsReconcile ==
  /\ \A u \in Users : /\ available[u] = LedgerBalance(journal, UserPayable(u))
                      /\ escrowed[u] = LedgerBalance(journal, SellerEscrow(u))
  /\ revenue = LedgerBalance(journal, PlatformRevenue)

(***************************************************************************)
(* A seller's escrow is exactly the money of the orders still undecided,   *)
(* so no release or refund can ever find it insufficient; the sales count  *)
(* is the units of the completed orders.                                   *)
(***************************************************************************)
EscrowBacksOpenOrders ==
  LET Held(u) == {o \in Orders : Seller(o) = u /\ status[o] \in HeldStatuses}
      Sold(p) == {o \in Orders : ProductOf[o] = p /\ status[o] = "completed"}
  IN  /\ \A u \in Users : escrowed[u] = SumFunctionOnSet(AmountOf, Held(u))
      /\ \A p \in Products : sales[p] = SumFunctionOnSet(QuantityOf, Sold(p))

(***************************************************************************)
(* Every status change is announced: the outbox key, unique per order and  *)
(* event type, never swallows the announcement of a second, different one. *)
(***************************************************************************)
EveryTransitionAnnounced ==
  \A o \in Orders :
    Cardinality({e \in events : e.order = o})
      = Cardinality({k \in outbox : k[2] = o} \
                      {<<"order.created", o>>, <<"review.created", o>>})

(***************************************************************************)
(* Once a dispute is open only an admin's decision moves the order: neither*)
(* a confirmation checked before the dispute nor a sweep that listed the   *)
(* order before it can still pay the seller.                               *)
(***************************************************************************)
DisputeFreezesFunds ==
  [][\A o \in Orders :
       status[o] = "disputed" /\ status'[o] # "disputed"
         => \E e \in events' \ events :
              e.order = o /\ e.reason \in {"dispute_released", "dispute_refunded"}]_vars

\* The money of an order, read off the ledger.
fundsBar ==
  [o \in Orders |->
     IF Posted(journal, <<o, "refund">>) THEN "buyer"
     ELSE IF Posted(journal, <<o, "escrow_release">>) THEN "seller"
     ELSE IF Posted(journal, <<o, "payment_capture">>) THEN "held"
     ELSE "unpaid"]

S == INSTANCE Settlement WITH funds <- fundsBar

\* The ledger takes an order's money once and settles it once, one way only.
SettlesOnce == S!Spec

(***************************************************************************)
(* A delivered order does not stay delivered: if the buyer neither confirms*)
(* nor disputes, the timer runs out and the sweep releases it.             *)
(***************************************************************************)
DeliveredOrderSettles ==
  \A o \in Orders : status[o] = "delivered" ~> status[o] # "delivered"

(***************************************************************************)
(* What persistConfirmedWebhookOutcome says of the confirmations it answers*)
(* with 200 although lockEscrow refused them: such an order cannot become  *)
(* payable again.                                                          *)
(***************************************************************************)
AckedPaymentNeverPayableAgain ==
  \A o \in Orders, p \in Providers :
    <<o, p>> \in acked => ~CaptureAllowed(o, p, "payment_provider")
=============================================================================
