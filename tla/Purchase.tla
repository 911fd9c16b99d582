------------------------------ MODULE Purchase ------------------------------
(***************************************************************************)
(* Creating an order once: the product page's buy button with its          *)
(* idempotency key (ProductPageClient.tsx), POST /orders and               *)
(* runIdempotentTransaction (idempotency.service.ts), which claims the key *)
(* with an insert, creates the order and stores the answer in one          *)
(* transaction.                                                            *)
(*                                                                         *)
(* PostgreSQL at READ COMMITTED is external: an insert that meets another  *)
(* transaction's uncommitted row of the same key waits for its end; now()  *)
(* is the time the transaction began.  The page may give up on a request   *)
(* that the server still works on.                                         *)
(***************************************************************************)
EXTENDS Integers, FiniteSets

CONSTANTS
  PurchaseCalls,   \* POST /orders requests
  OrderKeys,       \* idempotency keys, the ones a page may generate
  OfferedProducts,        \* the payloads: a product each
  TTL,             \* a key's lifetime in clock ticks
  MaxTime          \* bound on the clock

VARIABLES
  pageProduct,   \* the product the page shows
  pageKey,       \* orderIdempotencyKey.current
  waiting,       \* the request the mutation waits for, or NoCall
  usedKeys,      \* keys generated
  purchase,          \* each request: its state, key, payload, the transaction's now(), the expiry, the answer
  keyRow,        \* committed idempotency_keys rows
  claimedBy,     \* the transaction with an uncommitted insert of each key
  deletedBy,     \* the transaction with an uncommitted delete of each key's row
  placed,        \* committed orders
  time

pageVars == <<pageProduct, pageKey, waiting, usedKeys>>
rowVars == <<keyRow, claimedBy, deletedBy, placed>>
purchaseVars == <<pageVars, purchase, rowVars, time>>

NoKey == "no-key"
NoPurchase == "no-call"
NoRow == [absent |-> TRUE]
NoOrder == [absent |-> TRUE]

ASSUME PurchaseAssumption ==
  /\ NoKey \notin OrderKeys /\ NoPurchase \notin PurchaseCalls
  /\ TTL \in Nat \ {0} /\ MaxTime \in Nat

IdlePurchase == [state |-> "unsent", key |-> NoKey, product |-> NoKey, now |-> 0,
                 expires |-> 0, answer |-> NoOrder]

-----------------------------------------------------------------------------
(* The page *)

Send(q, key) ==
  /\ purchase[q].state = "unsent"
  /\ purchase' = [purchase EXCEPT ![q] = [@ EXCEPT !.state = "sent", !.key = key, !.product = pageProduct]]

(* The button is disabled while the mutation is pending. *)
buySecurely ==
  /\ waiting = NoPurchase
  /\ \E q \in PurchaseCalls, key \in OrderKeys :
       /\ IF pageKey = NoKey THEN key \notin usedKeys ELSE key = pageKey
       /\ Send(q, key)
       /\ pageKey' = key /\ waiting' = q /\ usedKeys' = usedKeys \union {key}
  /\ UNCHANGED <<pageProduct, rowVars, time>>

(* Another product, or the page loaded again: a new page with no key. *)
OpenPage ==
  /\ \E p \in OfferedProducts : pageProduct' = p
  /\ pageKey' = NoKey /\ waiting' = NoPurchase
  /\ UNCHANGED <<usedKeys, purchase, rowVars, time>>

(* A client that repeats a key with another payload. *)
ReuseKey ==
  /\ \E q \in PurchaseCalls, key \in usedKeys : Send(q, key)
  /\ UNCHANGED <<pageVars, rowVars, time>>

(* The answer reaches the page; only success forgets the key. *)
MutationSettles ==
  /\ waiting # NoPurchase
  /\ \/ /\ purchase[waiting].state = "answered"
        /\ pageKey' = NoKey
     \/ UNCHANGED pageKey    \* an error, or the answer is lost or late
  /\ waiting' = NoPurchase
  /\ UNCHANGED <<pageProduct, usedKeys, purchase, rowVars, time>>

-----------------------------------------------------------------------------
(* runIdempotentTransaction *)

Expired(key, now) == keyRow[key] # NoRow /\ keyRow[key].expires <= now

(* The transaction begins and deletes expired keys: its own, waiting for    *)
(* whoever else holds it, and others that nobody has locked.                *)
cleanupExpiredKeys_Any(q) ==
  {key \in OrderKeys : keyRow[key] # NoRow /\ deletedBy[key] = NoPurchase}
cleanupExpiredKeys(q) ==
  {key \in OrderKeys : Expired(key, time) /\ deletedBy[key] = NoPurchase}

BeginPurchase(q) ==
  /\ purchase[q].state = "sent"
  /\ Expired(purchase[q].key, time) => deletedBy[purchase[q].key] = NoPurchase
  /\ deletedBy' = [key \in OrderKeys |-> IF key \in cleanupExpiredKeys(q) THEN q ELSE deletedBy[key]]
  /\ purchase' = [purchase EXCEPT ![q] = [@ EXCEPT !.state = "begun", !.now = time]]
  /\ UNCHANGED <<pageVars, keyRow, claimedBy, placed, time>>

(* insert ... on conflict do nothing: it waits while another transaction has *)
(* the key inserted or its row deleted, inserts with an expiry from the      *)
(* application's clock, or finds a committed row.                            *)
ClaimKey(q) ==
  LET key == purchase[q].key
      gone == keyRow[key] = NoRow \/ deletedBy[key] = q
  IN  /\ purchase[q].state = "begun"
      /\ claimedBy[key] = NoPurchase /\ deletedBy[key] \in {NoPurchase, q}
      /\ IF gone
         THEN /\ claimedBy' = [claimedBy EXCEPT ![key] = q]
              /\ purchase' = [purchase EXCEPT ![q] = [@ EXCEPT !.state = "claimed", !.expires = time + TTL]]
         ELSE purchase' = [purchase EXCEPT ![q].state = "conflict"] /\ UNCHANGED claimedBy
      /\ UNCHANGED <<pageVars, keyRow, deletedBy, placed, time>>

Released(locks, q) == [key \in OrderKeys |-> IF locks[key] = q THEN NoPurchase ELSE locks[key]]

Ended(q, state, answer) ==
  /\ purchase' = [purchase EXCEPT ![q] = [@ EXCEPT !.state = state, !.answer = answer]]
  /\ claimedBy' = Released(claimedBy, q) /\ deletedBy' = Released(deletedBy, q)
  /\ UNCHANGED <<pageVars, time>>

KeptRows(q) == [key \in OrderKeys |-> IF deletedBy[key] = q THEN NoRow ELSE keyRow[key]]

(* The row that was in the way: gone meanwhile (an error), of another payload *)
(* (409), or completed, whose stored answer is given again.                   *)
ReplayPurchase(q) ==
  LET row == keyRow[purchase[q].key]
  IN  /\ purchase[q].state = "conflict"
      /\ IF row = NoRow \/ row.requestHash # purchase[q].product
         THEN Ended(q, "failed", NoOrder) /\ UNCHANGED <<keyRow, placed>>
         ELSE Ended(q, "answered", row.order) /\ keyRow' = KeptRows(q) /\ UNCHANGED placed

(* The order, its chat, messages and events, and the completed key row, all in *)
(* one commit.                                                                 *)
CommitPurchase(q) ==
  LET key == purchase[q].key
      order == [by |-> q, key |-> key, product |-> purchase[q].product,
                expires |-> purchase[q].expires]
      row == [requestHash |-> purchase[q].product, order |-> order, expires |-> purchase[q].expires]
  IN  /\ purchase[q].state = "claimed"
      /\ placed' = placed \union {order}
      /\ keyRow' = [KeptRows(q) EXCEPT ![key] = row]
      /\ Ended(q, "answered", order)

(* The listing is gone, out of stock or the buyer's own, or the server or its *)
(* connection fails: everything rolls back.                                   *)
RollbackPurchase(q) ==
  /\ purchase[q].state \in {"begun", "claimed", "conflict"}
  /\ Ended(q, "failed", NoOrder)
  /\ UNCHANGED <<keyRow, placed>>

TimePasses == time < MaxTime /\ time' = time + 1 /\ UNCHANGED <<pageVars, purchase, rowVars>>

-----------------------------------------------------------------------------

PurchaseInit ==
  /\ pageProduct \in OfferedProducts /\ pageKey = NoKey /\ waiting = NoPurchase /\ usedKeys = {}
  /\ purchase = [q \in PurchaseCalls |-> IdlePurchase]
  /\ keyRow = [key \in OrderKeys |-> NoRow] /\ placed = {} /\ time = 0
  /\ claimedBy = [key \in OrderKeys |-> NoPurchase] /\ deletedBy = [key \in OrderKeys |-> NoPurchase]

PurchaseNext ==
  \/ buySecurely \/ OpenPage \/ ReuseKey \/ MutationSettles \/ TimePasses
  \/ \E q \in PurchaseCalls :
       BeginPurchase(q) \/ ClaimKey(q) \/ ReplayPurchase(q) \/ CommitPurchase(q) \/ RollbackPurchase(q)

PurchaseSpec == PurchaseInit /\ [][PurchaseNext]_purchaseVars

(* Type invariant. *)
PurchaseTypeOK ==
  /\ pageProduct \in OfferedProducts /\ pageKey \in OrderKeys \union {NoKey}
  /\ waiting \in PurchaseCalls \union {NoPurchase} /\ usedKeys \subseteq OrderKeys
  /\ \A q \in PurchaseCalls :
       purchase[q].state \in {"unsent", "sent", "begun", "claimed", "conflict", "answered", "failed"}
  /\ claimedBy \in [OrderKeys -> PurchaseCalls \union {NoPurchase}]
  /\ deletedBy \in [OrderKeys -> PurchaseCalls \union {NoPurchase}]
  /\ time \in 0 .. MaxTime

(* One key is one order: however often the page retries while earlier         *)
(* requests are still at work, two orders of one key exist only if the later  *)
(* key was claimed (TTL before it expires) when the earlier one had expired,  *)
(* and every request that was answered was answered with an order of its own  *)
(* key and payload that exists.  The later transaction may have begun before  *)
(* that: another one can remove the expired key while it is on its way to the *)
(* insert.                                                                    *)
OneOrderPerKey ==
  /\ \A o1, o2 \in placed :
       o1 # o2 /\ o1.key = o2.key =>
         o1.expires + TTL <= o2.expires \/ o2.expires + TTL <= o1.expires
  /\ \A q \in PurchaseCalls :
       purchase[q].state = "answered" =>
         purchase[q].answer \in placed /\ purchase[q].answer.key = purchase[q].key
           /\ purchase[q].answer.product = purchase[q].product
=============================================================================
