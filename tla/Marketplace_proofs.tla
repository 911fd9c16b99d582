--------------------------- MODULE Marketplace_proofs ---------------------------
(***************************************************************************)
(* Proofs about buying and publishing: Purchase, that one idempotency key  *)
(* is one order; Catalog, that every section points at its own schema;     *)
(* PublicCache, that what is served is public and fresh; Paging, that a    *)
(* walk sees every row once; Chat, that a message is stored and shown once.*)
(***************************************************************************)
EXTENDS Purchase, Catalog, PublicCache, Paging, Chat,
        FiniteSetTheorems, FunctionTheorems, SequenceTheorems, TLAPS

----------------------------------------------------------------------------
(* Purchases: the inductive invariant *)

Answers == [by : PurchaseCalls, key : OrderKeys, product : OfferedProducts, expires : Nat]
Requests ==
  [state : {"unsent", "sent", "begun", "claimed", "conflict", "answered", "failed"},
   key : OrderKeys \union {NoKey}, product : OfferedProducts \union {NoKey},
   now : Nat, expires : Nat, answer : Answers \union {NoOrder}]
KeyRows == [requestHash : OfferedProducts, order : Answers, expires : Nat]

PurchaseShape ==
  /\ pageProduct \in OfferedProducts
  /\ usedKeys \subseteq OrderKeys
  /\ purchase \in [PurchaseCalls -> Requests]
  /\ \A q \in PurchaseCalls :
       /\ purchase[q].state # "unsent" => purchase[q].key \in OrderKeys /\ purchase[q].product \in OfferedProducts
       /\ purchase[q].now <= time
  /\ keyRow \in [OrderKeys -> KeyRows \union {NoRow}]
  /\ claimedBy \in [OrderKeys -> PurchaseCalls \union {NoPurchase}]
  /\ deletedBy \in [OrderKeys -> PurchaseCalls \union {NoPurchase}]
  /\ placed \subseteq Answers
  /\ time \in Nat

\* The locks: an uncommitted insert belongs to the request that claimed, the
\* row it goes beside is gone or its own to delete, and what a transaction
\* deletes had expired when it began.
LocksHeld ==
  /\ \A q \in PurchaseCalls : purchase[q].state = "claimed" => claimedBy[purchase[q].key] = q
  /\ \A key \in OrderKeys : claimedBy[key] # NoPurchase =>
       /\ purchase[claimedBy[key]].state = "claimed" /\ purchase[claimedBy[key]].key = key
       /\ keyRow[key] = NoRow \/ deletedBy[key] = claimedBy[key]
  /\ \A key \in OrderKeys : deletedBy[key] # NoPurchase =>
       /\ keyRow[key] # NoRow /\ keyRow[key].expires <= purchase[deletedBy[key]].now
       /\ purchase[deletedBy[key]].state \in {"begun", "claimed", "conflict"}

\* A committed row is that of an order of its key and payload.
RowsHaveOrders ==
  \A key \in OrderKeys : keyRow[key] # NoRow =>
    /\ keyRow[key].order \in placed /\ keyRow[key].order.key = key
    /\ keyRow[key].order.product = keyRow[key].requestHash
    /\ keyRow[key].order.expires = keyRow[key].expires

\* An order whose key has not expired still has its row.
LiveKeysHaveRows ==
  \A o \in placed : o.expires <= time \/ (keyRow[o.key] # NoRow /\ keyRow[o.key].order = o)

\* A key is claimed when all its earlier orders have expired.
ClaimsAreFresh ==
  \A q \in PurchaseCalls : purchase[q].state = "claimed" =>
    /\ purchase[q].expires <= time + TTL
    /\ \A o \in placed : o.key = purchase[q].key => o.expires + TTL <= purchase[q].expires

PurchaseIInv ==
  /\ PurchaseShape /\ LocksHeld /\ RowsHaveOrders /\ LiveKeysHaveRows /\ ClaimsAreFresh
  /\ OneOrderPerKey
LEMMA PurchaseInitInv == PurchaseInit => PurchaseIInv
<1> SUFFICES ASSUME PurchaseInit PROVE PurchaseIInv
  OBVIOUS
<1>1. IdlePurchase \in Requests
  BY DEF IdlePurchase, Requests
<1>2. PurchaseShape
  BY <1>1 DEF PurchaseInit, PurchaseShape, IdlePurchase
<1>3. \A q \in PurchaseCalls : purchase[q].state = "unsent"
  BY DEF PurchaseInit, IdlePurchase
<1>4. LocksHeld /\ RowsHaveOrders /\ LiveKeysHaveRows /\ ClaimsAreFresh /\ OneOrderPerKey
  BY <1>3 DEF PurchaseInit, LocksHeld, RowsHaveOrders, LiveKeysHaveRows, ClaimsAreFresh, OneOrderPerKey
<1> QED
  BY <1>2, <1>4 DEF PurchaseIInv

\* No row that is there is the absent one.
LEMMA RowsAreThere == \A row \in KeyRows : row # NoRow
<1> SUFFICES ASSUME NEW row \in KeyRows, row = NoRow PROVE FALSE
  OBVIOUS
<1>1. DOMAIN row = {"requestHash", "order", "expires"}
  BY DEF KeyRows
<1>2. DOMAIN NoRow = {"absent"}
  BY DEF NoRow
<1> QED
  BY <1>1, <1>2

----------------------------------------------------------------------------
(* The page and the clock *)

\* What the page does beside sending a request.
LEMMA BrowserNext ==
  ASSUME PurchaseIInv, OpenPage \/ MutationSettles
  PROVE  PurchaseIInv'
<1>1. /\ usedKeys' = usedKeys /\ purchase' = purchase /\ keyRow' = keyRow /\ claimedBy' = claimedBy
      /\ deletedBy' = deletedBy /\ placed' = placed /\ time' = time
      /\ pageProduct' \in OfferedProducts
  BY DEF PurchaseIInv, PurchaseShape, OpenPage, MutationSettles, pageVars, rowVars
<1>2. PurchaseShape'
  BY <1>1 DEF PurchaseIInv, PurchaseShape
<1>3. LocksHeld' /\ RowsHaveOrders'
  BY <1>1 DEF PurchaseIInv, LocksHeld, RowsHaveOrders
<1>4. LiveKeysHaveRows' /\ ClaimsAreFresh' /\ OneOrderPerKey'
  BY <1>1 DEF PurchaseIInv, LiveKeysHaveRows, ClaimsAreFresh, OneOrderPerKey
<1> QED
  BY <1>2, <1>3, <1>4 DEF PurchaseIInv

LEMMA ClockNext ==
  ASSUME PurchaseIInv, TimePasses
  PROVE  PurchaseIInv'
<1>1. /\ usedKeys' = usedKeys /\ purchase' = purchase /\ keyRow' = keyRow /\ claimedBy' = claimedBy
      /\ deletedBy' = deletedBy /\ placed' = placed /\ time \in Nat /\ time' = time + 1
      /\ pageProduct' = pageProduct
  BY DEF PurchaseIInv, PurchaseShape, TimePasses, pageVars, rowVars
<1>2. PurchaseShape'
  <2>1. \A q \in PurchaseCalls : purchase[q].now \in Nat /\ purchase[q].now <= time
    BY DEF PurchaseIInv, PurchaseShape, Requests
  <2>2. \A q \in PurchaseCalls : purchase[q].now <= time'
    BY <1>1, <2>1
  <2> QED
    BY <1>1, <2>2 DEF PurchaseIInv, PurchaseShape
<1>3. LocksHeld' /\ RowsHaveOrders' /\ OneOrderPerKey'
  BY <1>1 DEF PurchaseIInv, LocksHeld, RowsHaveOrders, OneOrderPerKey
<1>4. LiveKeysHaveRows'
  <2>1. \A o \in placed : o.expires \in Nat
    BY DEF PurchaseIInv, PurchaseShape, Answers
  <2> QED
    BY <1>1, <2>1 DEF PurchaseIInv, LiveKeysHaveRows
<1>5. ClaimsAreFresh'
  <2>1. \A q \in PurchaseCalls : purchase[q].expires \in Nat
    BY DEF PurchaseIInv, PurchaseShape, Requests
  <2> QED
    BY <1>1, <2>1, PurchaseAssumption DEF PurchaseIInv, ClaimsAreFresh
<1> QED
  BY <1>2, <1>3, <1>4, <1>5 DEF PurchaseIInv

----------------------------------------------------------------------------
(* A request *)

\* A step of one request leaves the others as they are.
LEMMA OneRequestMoves ==
  ASSUME purchase \in [PurchaseCalls -> Requests], NEW q \in PurchaseCalls, NEW r \in Requests,
         purchase' = [purchase EXCEPT ![q] = r]
  PROVE  /\ purchase' \in [PurchaseCalls -> Requests] /\ purchase'[q] = r
         /\ \A p \in PurchaseCalls \ {q} : purchase'[p] = purchase[p]
OBVIOUS

\* A request before the insert holds nothing but what it has deleted.
LEMMA SendNext ==
  ASSUME PurchaseIInv, buySecurely \/ ReuseKey
  PROVE  PurchaseIInv'
<1>1. PICK q \in PurchaseCalls, key \in OrderKeys : Send(q, key) /\ usedKeys' \subseteq OrderKeys
  BY DEF buySecurely, ReuseKey, pageVars, PurchaseIInv, PurchaseShape
<1>2. /\ keyRow' = keyRow /\ claimedBy' = claimedBy /\ pageProduct' = pageProduct
      /\ deletedBy' = deletedBy /\ placed' = placed /\ time' = time
  BY DEF buySecurely, ReuseKey, pageVars, rowVars
<1> DEFINE r == [purchase[q] EXCEPT !.state = "sent", !.key = key, !.product = pageProduct]
<1>3. purchase[q] \in Requests /\ purchase[q].state = "unsent" /\ purchase' = [purchase EXCEPT ![q] = r]
  BY <1>1 DEF Send, PurchaseIInv, PurchaseShape
<1>4. pageProduct \in OfferedProducts
  BY DEF PurchaseIInv, PurchaseShape
<1>5. /\ r \in Requests /\ r.state = "sent" /\ r.key = key /\ r.product = pageProduct
      /\ r.now = purchase[q].now
  BY <1>3, <1>4 DEF Requests
<1> HIDE DEF r
<1>6. /\ purchase' \in [PurchaseCalls -> Requests] /\ purchase'[q] = r
      /\ \A p \in PurchaseCalls \ {q} : purchase'[p] = purchase[p]
  BY <1>3, <1>5, OneRequestMoves DEF PurchaseIInv, PurchaseShape
<1>7. PurchaseShape'
  BY <1>1, <1>2, <1>4, <1>5, <1>6 DEF PurchaseIInv, PurchaseShape
<1>8. LocksHeld'
  <2>1. \A key1 \in OrderKeys : claimedBy[key1] # q /\ deletedBy[key1] # q
    BY <1>3, PurchaseAssumption DEF PurchaseIInv, LocksHeld
  <2>2. \A key1 \in OrderKeys : /\ claimedBy[key1] \in (PurchaseCalls \ {q}) \union {NoPurchase}
                                /\ deletedBy[key1] \in (PurchaseCalls \ {q}) \union {NoPurchase}
    BY <2>1 DEF PurchaseIInv, PurchaseShape
  <2> QED
    BY <1>2, <1>5, <1>6, <2>2 DEF PurchaseIInv, LocksHeld
<1>9. RowsHaveOrders' /\ LiveKeysHaveRows'
  BY <1>2 DEF PurchaseIInv, RowsHaveOrders, LiveKeysHaveRows
<1>10. ClaimsAreFresh'
  BY <1>2, <1>5, <1>6 DEF PurchaseIInv, ClaimsAreFresh
<1>11. OneOrderPerKey'
  BY <1>2, <1>5, <1>6 DEF PurchaseIInv, OneOrderPerKey
<1> QED
  BY <1>7, <1>8, <1>9, <1>10, <1>11 DEF PurchaseIInv

LEMMA BeginNext ==
  ASSUME PurchaseIInv, NEW q \in PurchaseCalls, BeginPurchase(q)
  PROVE  PurchaseIInv'
<1> DEFINE r == [purchase[q] EXCEPT !.state = "begun", !.now = time]
<1>1. /\ keyRow' = keyRow /\ claimedBy' = claimedBy /\ pageProduct' = pageProduct
      /\ usedKeys' = usedKeys /\ placed' = placed /\ time' = time /\ time \in Nat
      /\ deletedBy' = [key \in OrderKeys |-> IF key \in cleanupExpiredKeys(q) THEN q ELSE deletedBy[key]]
  BY DEF BeginPurchase, pageVars, PurchaseIInv, PurchaseShape
<1>2. purchase[q] \in Requests /\ purchase[q].state = "sent" /\ purchase' = [purchase EXCEPT ![q] = r]
  BY DEF BeginPurchase, PurchaseIInv, PurchaseShape
<1>3. /\ r \in Requests /\ r.state = "begun" /\ r.key = purchase[q].key
      /\ r.product = purchase[q].product /\ r.now = time
  BY <1>1, <1>2 DEF Requests
<1> HIDE DEF r
<1>4. /\ purchase' \in [PurchaseCalls -> Requests] /\ purchase'[q] = r
      /\ \A p \in PurchaseCalls \ {q} : purchase'[p] = purchase[p]
  BY <1>2, <1>3, OneRequestMoves DEF PurchaseIInv, PurchaseShape
<1>5. \A key \in OrderKeys : key \in cleanupExpiredKeys(q) =>
        keyRow[key] # NoRow /\ keyRow[key].expires <= time /\ deletedBy[key] = NoPurchase
  BY DEF cleanupExpiredKeys, Expired
<1>6. \A key \in OrderKeys : deletedBy'[key] = deletedBy[key]
        \/ (deletedBy'[key] = q /\ keyRow[key] # NoRow /\ keyRow[key].expires <= time
              /\ deletedBy[key] = NoPurchase)
  BY <1>1, <1>5
<1> HIDE DEF cleanupExpiredKeys
<1>7. PurchaseShape'
  <2>1. deletedBy' \in [OrderKeys -> PurchaseCalls \union {NoPurchase}]
    BY <1>1 DEF PurchaseIInv, PurchaseShape
  <2> QED
    BY <1>1, <1>2, <1>3, <1>4, <2>1 DEF PurchaseIInv, PurchaseShape
<1>8. LocksHeld'
  <2>1. \A key \in OrderKeys : /\ claimedBy[key] \in (PurchaseCalls \ {q}) \union {NoPurchase}
                               /\ deletedBy[key] \in (PurchaseCalls \ {q}) \union {NoPurchase}
    <3>1. \A key \in OrderKeys : claimedBy[key] # q /\ deletedBy[key] # q
      BY <1>2, PurchaseAssumption DEF PurchaseIInv, LocksHeld
    <3> QED
      BY <3>1 DEF PurchaseIInv, PurchaseShape
  <2>2. \A p \in PurchaseCalls : purchase'[p].state = "claimed" => claimedBy'[purchase'[p].key] = p
    BY <1>1, <1>3, <1>4 DEF PurchaseIInv, LocksHeld
  <2>3. \A key \in OrderKeys : claimedBy'[key] # NoPurchase =>
          /\ purchase'[claimedBy'[key]].state = "claimed" /\ purchase'[claimedBy'[key]].key = key
          /\ keyRow'[key] = NoRow \/ deletedBy'[key] = claimedBy'[key]
    <3> SUFFICES ASSUME NEW key \in OrderKeys, claimedBy[key] # NoPurchase
                 PROVE  /\ purchase'[claimedBy[key]].state = "claimed" /\ purchase'[claimedBy[key]].key = key
                        /\ keyRow[key] = NoRow \/ deletedBy'[key] = claimedBy[key]
      BY <1>1
    <3>1. /\ purchase[claimedBy[key]].state = "claimed" /\ purchase[claimedBy[key]].key = key
          /\ keyRow[key] = NoRow \/ deletedBy[key] = claimedBy[key]
      BY DEF PurchaseIInv, LocksHeld
    <3> QED
      BY <3>1, <1>4, <1>6, <2>1
  <2>4. \A key \in OrderKeys : deletedBy'[key] # NoPurchase =>
          /\ keyRow'[key] # NoRow /\ keyRow'[key].expires <= purchase'[deletedBy'[key]].now
          /\ purchase'[deletedBy'[key]].state \in {"begun", "claimed", "conflict"}
    <3> SUFFICES ASSUME NEW key \in OrderKeys, deletedBy'[key] # NoPurchase
                 PROVE  /\ keyRow[key] # NoRow /\ keyRow[key].expires <= purchase'[deletedBy'[key]].now
                        /\ purchase'[deletedBy'[key]].state \in {"begun", "claimed", "conflict"}
      BY <1>1
    <3>1. CASE deletedBy'[key] = deletedBy[key]
      BY <3>1, <1>4, <2>1 DEF PurchaseIInv, LocksHeld
    <3>2. CASE deletedBy'[key] = q /\ keyRow[key] # NoRow /\ keyRow[key].expires <= time
      BY <3>2, <1>3, <1>4
    <3> QED
      BY <3>1, <3>2, <1>6
  <2> QED
    BY <2>2, <2>3, <2>4 DEF LocksHeld
<1>9. RowsHaveOrders' /\ LiveKeysHaveRows'
  BY <1>1 DEF PurchaseIInv, RowsHaveOrders, LiveKeysHaveRows
<1>10. ClaimsAreFresh'
  BY <1>1, <1>3, <1>4 DEF PurchaseIInv, ClaimsAreFresh
<1>11. OneOrderPerKey'
  BY <1>1, <1>3, <1>4 DEF PurchaseIInv, OneOrderPerKey
<1> QED
  BY <1>7, <1>8, <1>9, <1>10, <1>11 DEF PurchaseIInv
\* The insert finds the committed row.
LEMMA ConflictNext ==
  ASSUME PurchaseIInv, NEW q \in PurchaseCalls, ClaimKey(q),
         ~(keyRow[purchase[q].key] = NoRow \/ deletedBy[purchase[q].key] = q)
  PROVE  PurchaseIInv'
<1> DEFINE r == [purchase[q] EXCEPT !.state = "conflict"]
<1>1. /\ keyRow' = keyRow /\ claimedBy' = claimedBy /\ pageProduct' = pageProduct
      /\ usedKeys' = usedKeys /\ placed' = placed /\ time' = time /\ deletedBy' = deletedBy
  BY DEF ClaimKey, pageVars
<1>2. purchase[q] \in Requests /\ purchase[q].state = "begun" /\ purchase' = [purchase EXCEPT ![q] = r]
  BY DEF ClaimKey, PurchaseIInv, PurchaseShape
<1>3. /\ r \in Requests /\ r.state = "conflict" /\ r.key = purchase[q].key
      /\ r.product = purchase[q].product /\ r.now = purchase[q].now
  BY <1>2 DEF Requests
<1> HIDE DEF r
<1>4. /\ purchase' \in [PurchaseCalls -> Requests] /\ purchase'[q] = r
      /\ \A p \in PurchaseCalls \ {q} : purchase'[p] = purchase[p]
  BY <1>2, <1>3, OneRequestMoves DEF PurchaseIInv, PurchaseShape
<1>5. PurchaseShape'
  BY <1>1, <1>2, <1>3, <1>4 DEF PurchaseIInv, PurchaseShape
<1>6. LocksHeld'
  <2>1. \A p \in PurchaseCalls : purchase'[p].state = "claimed" => claimedBy'[purchase'[p].key] = p
    BY <1>1, <1>3, <1>4 DEF PurchaseIInv, LocksHeld
  <2>2. \A key \in OrderKeys : claimedBy[key] \in (PurchaseCalls \ {q}) \union {NoPurchase}
    <3>1. \A key \in OrderKeys : claimedBy[key] # q
      BY <1>2, PurchaseAssumption DEF PurchaseIInv, LocksHeld
    <3> QED
      BY <3>1 DEF PurchaseIInv, PurchaseShape
  <2>3. \A key \in OrderKeys : deletedBy[key] \in PurchaseCalls \union {NoPurchase}
    BY DEF PurchaseIInv, PurchaseShape
  <2>4. \A p \in PurchaseCalls : /\ purchase'[p].now = purchase[p].now /\ purchase'[p].key = purchase[p].key
                                 /\ purchase'[p].state = IF p = q THEN "conflict" ELSE purchase[p].state
    BY <1>3, <1>4
  <2> QED
    BY <1>1, <1>4, <2>1, <2>2, <2>3, <2>4 DEF PurchaseIInv, LocksHeld
<1>7. RowsHaveOrders' /\ LiveKeysHaveRows'
  BY <1>1 DEF PurchaseIInv, RowsHaveOrders, LiveKeysHaveRows
<1>8. ClaimsAreFresh'
  BY <1>1, <1>3, <1>4 DEF PurchaseIInv, ClaimsAreFresh
<1>9. OneOrderPerKey'
  BY <1>1, <1>3, <1>4 DEF PurchaseIInv, OneOrderPerKey
<1> QED
  BY <1>5, <1>6, <1>7, <1>8, <1>9 DEF PurchaseIInv

\* The insert succeeds: the row is gone, or this transaction deletes it, so
\* that every order of the key has expired.
LEMMA ClaimNext ==
  ASSUME PurchaseIInv, NEW q \in PurchaseCalls, ClaimKey(q),
         keyRow[purchase[q].key] = NoRow \/ deletedBy[purchase[q].key] = q
  PROVE  PurchaseIInv'
<1> DEFINE key == purchase[q].key
           r == [purchase[q] EXCEPT !.state = "claimed", !.expires = time + TTL]
<1>1. /\ keyRow' = keyRow /\ pageProduct' = pageProduct /\ time \in Nat
      /\ usedKeys' = usedKeys /\ placed' = placed /\ time' = time /\ deletedBy' = deletedBy
      /\ claimedBy' = [claimedBy EXCEPT ![key] = q] /\ claimedBy[key] = NoPurchase
      /\ TTL \in Nat
  BY PurchaseAssumption DEF ClaimKey, pageVars, PurchaseIInv, PurchaseShape
<1>2. purchase[q] \in Requests /\ purchase[q].state = "begun" /\ purchase' = [purchase EXCEPT ![q] = r]
  BY DEF ClaimKey, PurchaseIInv, PurchaseShape
<1>3. /\ r \in Requests /\ r.state = "claimed" /\ r.key = key
      /\ r.product = purchase[q].product /\ r.now = purchase[q].now /\ r.expires = time + TTL
  <2>1. time + TTL \in Nat
    BY <1>1
  <2> DEFINE until == time + TTL
  <2> HIDE DEF until
  <2>2. r = [purchase[q] EXCEPT !.state = "claimed", !.expires = until] /\ until \in Nat
    BY <2>1 DEF until
  <2>3. /\ r \in Requests /\ r.state = "claimed" /\ r.key = purchase[q].key
        /\ r.product = purchase[q].product /\ r.now = purchase[q].now /\ r.expires = until
    BY <1>2, <2>2 DEF Requests
  <2> QED
    BY <2>3 DEF until
<1>4. key \in OrderKeys
  BY <1>2 DEF PurchaseIInv, PurchaseShape
<1> HIDE DEF r
<1>5. /\ purchase' \in [PurchaseCalls -> Requests] /\ purchase'[q] = r
      /\ \A p \in PurchaseCalls \ {q} : purchase'[p] = purchase[p]
  BY <1>2, <1>3, OneRequestMoves DEF PurchaseIInv, PurchaseShape
<1>6. PurchaseShape'
  <2>1. claimedBy' \in [OrderKeys -> PurchaseCalls \union {NoPurchase}]
    BY <1>1 DEF PurchaseIInv, PurchaseShape
  <2> QED
    BY <1>1, <1>2, <1>3, <1>5, <2>1 DEF PurchaseIInv, PurchaseShape
<1>7. \A k \in OrderKeys : claimedBy'[k] = IF k = key THEN q ELSE claimedBy[k]
  BY <1>1 DEF PurchaseIInv, PurchaseShape
<1>8. \A p \in PurchaseCalls : /\ purchase'[p].now = purchase[p].now /\ purchase'[p].key = purchase[p].key
                               /\ purchase'[p].state = IF p = q THEN "claimed" ELSE purchase[p].state
  BY <1>3, <1>5
<1> HIDE DEF key
<1>9. LocksHeld'
  <2>1. \A p \in PurchaseCalls : purchase'[p].state = "claimed" => claimedBy'[purchase'[p].key] = p
    <3> SUFFICES ASSUME NEW p \in PurchaseCalls, purchase'[p].state = "claimed"
                 PROVE  claimedBy'[purchase[p].key] = p
      BY <1>8
    <3>1. CASE p = q
      BY <3>1, <1>4, <1>7 DEF key
    <3>2. CASE p # q
      <4>1. purchase[p].state = "claimed"
        BY <3>2, <1>8
      <4>2. claimedBy[purchase[p].key] = p /\ purchase[p].key \in OrderKeys
        BY <4>1 DEF PurchaseIInv, LocksHeld, PurchaseShape
      <4>3. purchase[p].key # key
        BY <4>2, <1>1, PurchaseAssumption
      <4> QED
        BY <4>2, <4>3, <1>7
    <3> QED
      BY <3>1, <3>2
  <2>2. \A k \in OrderKeys : claimedBy'[k] # NoPurchase =>
          /\ purchase'[claimedBy'[k]].state = "claimed" /\ purchase'[claimedBy'[k]].key = k
          /\ keyRow'[k] = NoRow \/ deletedBy'[k] = claimedBy'[k]
    <3> SUFFICES ASSUME NEW k \in OrderKeys, claimedBy'[k] # NoPurchase
                 PROVE  /\ purchase'[claimedBy'[k]].state = "claimed" /\ purchase'[claimedBy'[k]].key = k
                        /\ keyRow[k] = NoRow \/ deletedBy[k] = claimedBy'[k]
      BY <1>1
    <3>1. CASE k = key
      BY <3>1, <1>7, <1>8 DEF key
    <3>2. CASE k # key
      <4>1. claimedBy'[k] = claimedBy[k] /\ claimedBy[k] \in PurchaseCalls
        BY <3>2, <1>7 DEF PurchaseIInv, PurchaseShape
      <4> QED
        BY <4>1, <1>8 DEF PurchaseIInv, LocksHeld
    <3> QED
      BY <3>1, <3>2
  <2>3. \A k \in OrderKeys : deletedBy[k] \in PurchaseCalls \union {NoPurchase}
    BY DEF PurchaseIInv, PurchaseShape
  <2>4. \A k \in OrderKeys : deletedBy'[k] # NoPurchase =>
          /\ keyRow'[k] # NoRow /\ keyRow'[k].expires <= purchase'[deletedBy'[k]].now
          /\ purchase'[deletedBy'[k]].state \in {"begun", "claimed", "conflict"}
    BY <1>1, <1>8, <2>3 DEF PurchaseIInv, LocksHeld
  <2> QED
    BY <2>1, <2>2, <2>4 DEF LocksHeld
<1>10. RowsHaveOrders' /\ LiveKeysHaveRows'
  BY <1>1 DEF PurchaseIInv, RowsHaveOrders, LiveKeysHaveRows
<1>11. \A o \in placed : o.expires \in Nat
  BY DEF PurchaseIInv, PurchaseShape, Answers
<1>12. \A o \in placed : o.key = key => o.expires <= time
  <2> SUFFICES ASSUME NEW o \in placed, o.key = key, ~(o.expires <= time) PROVE FALSE
    OBVIOUS
  <2>1. keyRow[key] # NoRow /\ keyRow[key].order = o
    BY DEF PurchaseIInv, LiveKeysHaveRows
  <2>2. deletedBy[key] = q /\ q # NoPurchase
    BY <2>1, PurchaseAssumption DEF key
  <2>3. keyRow[key].expires <= purchase[q].now /\ keyRow[key].expires = o.expires
    BY <1>4, <2>1, <2>2 DEF PurchaseIInv, LocksHeld, RowsHaveOrders
  <2>4. purchase[q].now <= time /\ purchase[q].now \in Nat
    BY <1>2 DEF PurchaseIInv, PurchaseShape, Requests
  <2> QED
    BY <1>1, <1>11, <2>3, <2>4
<1>13. ClaimsAreFresh'
  <2> SUFFICES ASSUME NEW p \in PurchaseCalls, purchase'[p].state = "claimed"
               PROVE  /\ purchase'[p].expires <= time + TTL
                      /\ \A o \in placed : o.key = purchase'[p].key => o.expires + TTL <= purchase'[p].expires
    BY <1>1 DEF ClaimsAreFresh
  <2>1. CASE p = q
    BY <2>1, <1>1, <1>3, <1>5, <1>11, <1>12
  <2>2. CASE p # q
    BY <2>2, <1>5 DEF PurchaseIInv, ClaimsAreFresh
  <2> QED
    BY <2>1, <2>2
<1>14. OneOrderPerKey'
  BY <1>1, <1>2, <1>3, <1>5 DEF PurchaseIInv, OneOrderPerKey
<1> QED
  BY <1>6, <1>9, <1>10, <1>13, <1>14 DEF PurchaseIInv

----------------------------------------------------------------------------
(* The end of a transaction *)

\* Its locks are released, and those of the others stay.
LEMMA EndedReleases ==
  ASSUME PurchaseIInv, NEW q \in PurchaseCalls, NEW st \in {"answered", "failed"},
         NEW answer \in Answers \union {NoOrder}, Ended(q, st, answer), purchase[q].state # "unsent"
  PROVE  /\ purchase' \in [PurchaseCalls -> Requests]
         /\ purchase'[q].state = st /\ purchase'[q].answer = answer
         /\ \A p \in PurchaseCalls : /\ purchase'[p].key = purchase[p].key
                                     /\ purchase'[p].product = purchase[p].product
                                     /\ purchase'[p].now = purchase[p].now
                                     /\ purchase'[p].expires = purchase[p].expires
         /\ \A p \in PurchaseCalls \ {q} : purchase'[p] = purchase[p]
         /\ claimedBy' \in [OrderKeys -> (PurchaseCalls \ {q}) \union {NoPurchase}]
         /\ deletedBy' \in [OrderKeys -> (PurchaseCalls \ {q}) \union {NoPurchase}]
         /\ \A key \in OrderKeys :
              /\ claimedBy'[key] = IF claimedBy[key] = q THEN NoPurchase ELSE claimedBy[key]
              /\ deletedBy'[key] = IF deletedBy[key] = q THEN NoPurchase ELSE deletedBy[key]
         /\ pageProduct' = pageProduct /\ usedKeys' = usedKeys /\ time' = time
<1> DEFINE r == [purchase[q] EXCEPT !.state = st, !.answer = answer]
<1>1. purchase[q] \in Requests /\ purchase' = [purchase EXCEPT ![q] = r]
  BY DEF Ended, PurchaseIInv, PurchaseShape
<1>2. /\ r \in Requests /\ r.state = st /\ r.answer = answer /\ r.key = purchase[q].key
      /\ r.product = purchase[q].product /\ r.now = purchase[q].now /\ r.expires = purchase[q].expires
  BY <1>1 DEF Requests
<1> HIDE DEF r
<1>3. /\ purchase' \in [PurchaseCalls -> Requests] /\ purchase'[q] = r
      /\ \A p \in PurchaseCalls \ {q} : purchase'[p] = purchase[p]
  BY <1>1, <1>2, OneRequestMoves DEF PurchaseIInv, PurchaseShape
<1>4. /\ claimedBy \in [OrderKeys -> PurchaseCalls \union {NoPurchase}]
      /\ deletedBy \in [OrderKeys -> PurchaseCalls \union {NoPurchase}] /\ q # NoPurchase
  BY PurchaseAssumption DEF PurchaseIInv, PurchaseShape
<1>5. /\ claimedBy' = [key \in OrderKeys |-> IF claimedBy[key] = q THEN NoPurchase ELSE claimedBy[key]]
      /\ deletedBy' = [key \in OrderKeys |-> IF deletedBy[key] = q THEN NoPurchase ELSE deletedBy[key]]
  BY DEF Ended, Released
<1>6. pageProduct' = pageProduct /\ usedKeys' = usedKeys /\ time' = time
  BY DEF Ended, pageVars
<1> QED
  BY <1>2, <1>3, <1>4, <1>5, <1>6

\* Nothing is committed but the deletions of expired rows, or not even those.
LEMMA EndWithoutOrder ==
  ASSUME PurchaseIInv, NEW q \in PurchaseCalls, NEW st \in {"answered", "failed"},
         NEW answer \in Answers \union {NoOrder}, Ended(q, st, answer), purchase[q].state # "unsent",
         placed' = placed, keyRow' = keyRow \/ (keyRow' = KeptRows(q) /\ purchase[q].state # "claimed"),
         st = "answered" => answer \in placed /\ answer.key = purchase[q].key
                              /\ answer.product = purchase[q].product
  PROVE  PurchaseIInv'
<1>1. /\ purchase' \in [PurchaseCalls -> Requests]
      /\ purchase'[q].state = st /\ purchase'[q].answer = answer
      /\ \A p \in PurchaseCalls : /\ purchase'[p].key = purchase[p].key
                                  /\ purchase'[p].product = purchase[p].product
                                  /\ purchase'[p].now = purchase[p].now
                                  /\ purchase'[p].expires = purchase[p].expires
      /\ \A p \in PurchaseCalls \ {q} : purchase'[p] = purchase[p]
      /\ claimedBy' \in [OrderKeys -> (PurchaseCalls \ {q}) \union {NoPurchase}]
      /\ deletedBy' \in [OrderKeys -> (PurchaseCalls \ {q}) \union {NoPurchase}]
      /\ \A key \in OrderKeys :
           /\ claimedBy'[key] = IF claimedBy[key] = q THEN NoPurchase ELSE claimedBy[key]
           /\ deletedBy'[key] = IF deletedBy[key] = q THEN NoPurchase ELSE deletedBy[key]
      /\ pageProduct' = pageProduct /\ usedKeys' = usedKeys /\ time' = time
  BY EndedReleases
<1>2. keyRow \in [OrderKeys -> KeyRows \union {NoRow}]
  BY DEF PurchaseIInv, PurchaseShape
<1>3. /\ keyRow' \in [OrderKeys -> KeyRows \union {NoRow}]
      /\ \A key \in OrderKeys : keyRow'[key] = keyRow[key] \/ (keyRow'[key] = NoRow /\ deletedBy[key] = q)
  BY <1>2 DEF KeptRows
<1>4. PurchaseShape'
  BY <1>1, <1>3 DEF PurchaseIInv, PurchaseShape
<1>5. \A key \in OrderKeys : claimedBy'[key] # NoPurchase => claimedBy'[key] = claimedBy[key]
  BY <1>1
<1>6. \A key \in OrderKeys : deletedBy'[key] # NoPurchase =>
        deletedBy'[key] = deletedBy[key] /\ keyRow'[key] = keyRow[key]
  BY <1>1, <1>3
<1>7. LocksHeld'
  <2>1. \A p \in PurchaseCalls : purchase'[p].state = "claimed" => claimedBy'[purchase'[p].key] = p
    <3> SUFFICES ASSUME NEW p \in PurchaseCalls, purchase'[p].state = "claimed"
                 PROVE  claimedBy'[purchase[p].key] = p
      BY <1>1
    <3>1. p # q
      BY <1>1
    <3>2. purchase[p].state = "claimed"
      BY <3>1, <1>1
    <3>3. claimedBy[purchase[p].key] = p /\ purchase[p].key \in OrderKeys
      BY <3>2 DEF PurchaseIInv, LocksHeld, PurchaseShape
    <3> QED
      BY <3>1, <3>3, <1>1
  <2>2. \A k \in OrderKeys : claimedBy'[k] # NoPurchase =>
          /\ purchase'[claimedBy'[k]].state = "claimed" /\ purchase'[claimedBy'[k]].key = k
          /\ keyRow'[k] = NoRow \/ deletedBy'[k] = claimedBy'[k]
    <3> SUFFICES ASSUME NEW k \in OrderKeys, claimedBy'[k] # NoPurchase
                 PROVE  /\ purchase'[claimedBy'[k]].state = "claimed" /\ purchase'[claimedBy'[k]].key = k
                        /\ keyRow'[k] = NoRow \/ deletedBy'[k] = claimedBy'[k]
      OBVIOUS
    <3>1. claimedBy'[k] = claimedBy[k] /\ claimedBy[k] \in PurchaseCalls \ {q}
      BY <1>1, <1>5
    <3>2. /\ purchase[claimedBy[k]].state = "claimed" /\ purchase[claimedBy[k]].key = k
          /\ keyRow[k] = NoRow \/ deletedBy[k] = claimedBy[k]
      BY <3>1 DEF PurchaseIInv, LocksHeld
    <3>3. keyRow'[k] = NoRow \/ deletedBy'[k] = claimedBy[k]
      BY <3>1, <3>2, <1>1, <1>3
    <3> QED
      BY <3>1, <3>2, <3>3, <1>1
  <2>3. \A k \in OrderKeys : deletedBy'[k] # NoPurchase =>
          /\ keyRow'[k] # NoRow /\ keyRow'[k].expires <= purchase'[deletedBy'[k]].now
          /\ purchase'[deletedBy'[k]].state \in {"begun", "claimed", "conflict"}
    <3> SUFFICES ASSUME NEW k \in OrderKeys, deletedBy'[k] # NoPurchase
                 PROVE  /\ keyRow[k] # NoRow /\ keyRow[k].expires <= purchase'[deletedBy[k]].now
                        /\ purchase'[deletedBy[k]].state \in {"begun", "claimed", "conflict"}
      BY <1>6
    <3>1. deletedBy[k] \in PurchaseCalls \ {q} /\ deletedBy[k] # NoPurchase
      BY <1>1, <1>6
    <3> QED
      BY <3>1, <1>1 DEF PurchaseIInv, LocksHeld
  <2> QED
    BY <2>1, <2>2, <2>3 DEF LocksHeld
<1>8. RowsHaveOrders'
  BY <1>3 DEF PurchaseIInv, RowsHaveOrders
<1>9. LiveKeysHaveRows'
  <2> SUFFICES ASSUME NEW o \in placed, ~(o.expires <= time)
               PROVE  keyRow'[o.key] # NoRow /\ keyRow'[o.key].order = o
    BY <1>1 DEF LiveKeysHaveRows
  <2>1. /\ keyRow[o.key] # NoRow /\ keyRow[o.key].order = o
        /\ o.key \in OrderKeys /\ o.expires \in Nat
    BY DEF PurchaseIInv, LiveKeysHaveRows, PurchaseShape, Answers
  <2>2. CASE deletedBy[o.key] = q
    <3>1. keyRow[o.key].expires <= purchase[q].now /\ keyRow[o.key].expires = o.expires
      BY <2>1, <2>2, PurchaseAssumption DEF PurchaseIInv, LocksHeld, RowsHaveOrders
    <3>2. purchase[q].now <= time /\ purchase[q].now \in Nat /\ time \in Nat
      BY DEF PurchaseIInv, PurchaseShape, Requests
    <3> QED
      BY <2>1, <3>1, <3>2
  <2>3. CASE deletedBy[o.key] # q
    BY <2>1, <2>3, <1>3
  <2> QED
    BY <2>2, <2>3
<1>10. ClaimsAreFresh'
  BY <1>1 DEF PurchaseIInv, ClaimsAreFresh
<1>11. OneOrderPerKey'
  BY <1>1 DEF PurchaseIInv, OneOrderPerKey
<1> QED
  BY <1>4, <1>7, <1>8, <1>9, <1>10, <1>11 DEF PurchaseIInv
LEMMA ReplayNext ==
  ASSUME PurchaseIInv, NEW q \in PurchaseCalls, ReplayPurchase(q)
  PROVE  PurchaseIInv'
<1> DEFINE row == keyRow[purchase[q].key]
<1>1. purchase[q].state = "conflict"
  BY DEF ReplayPurchase
<1>2. purchase[q].key \in OrderKeys /\ row \in KeyRows \union {NoRow}
  BY <1>1 DEF PurchaseIInv, PurchaseShape
<1>3. CASE row = NoRow \/ row.requestHash # purchase[q].product
  <2>1. Ended(q, "failed", NoOrder) /\ keyRow' = keyRow /\ placed' = placed
    BY <1>3 DEF ReplayPurchase
  <2> QED
    BY <1>1, <2>1, EndWithoutOrder
<1>4. CASE ~(row = NoRow \/ row.requestHash # purchase[q].product)
  <2>1. Ended(q, "answered", row.order) /\ keyRow' = KeptRows(q) /\ placed' = placed
    BY <1>4 DEF ReplayPurchase
  <2>2. /\ row.order \in placed /\ row.order.key = purchase[q].key
        /\ row.order.product = purchase[q].product
    BY <1>2, <1>4 DEF PurchaseIInv, RowsHaveOrders
  <2>3. row.order \in Answers
    BY <1>2, <1>4 DEF KeyRows
  <2> HIDE DEF row
  <2> QED
    BY <1>1, <2>1, <2>2, <2>3, EndWithoutOrder
<1> QED
  BY <1>3, <1>4

LEMMA RollbackNext ==
  ASSUME PurchaseIInv, NEW q \in PurchaseCalls, RollbackPurchase(q)
  PROVE  PurchaseIInv'
<1>1. Ended(q, "failed", NoOrder) /\ keyRow' = keyRow /\ placed' = placed /\ purchase[q].state # "unsent"
  BY DEF RollbackPurchase
<1> QED
  BY <1>1, EndWithoutOrder

\* The order and its row.  The orders of the key before it have expired, and
\* so have those whose rows this transaction deletes.
LEMMA CommitNext ==
  ASSUME PurchaseIInv, NEW q \in PurchaseCalls, CommitPurchase(q)
  PROVE  PurchaseIInv'
<1> DEFINE key == purchase[q].key
           order == [by |-> q, key |-> key, product |-> purchase[q].product,
                     expires |-> purchase[q].expires]
           row == [requestHash |-> purchase[q].product, order |-> order, expires |-> purchase[q].expires]
<1>1. /\ purchase[q].state = "claimed" /\ placed' = placed \union {order}
      /\ keyRow' = [KeptRows(q) EXCEPT ![key] = row]
      /\ Ended(q, "answered", order)
  BY DEF CommitPurchase
<1>2. key \in OrderKeys /\ purchase[q].product \in OfferedProducts /\ purchase[q].expires \in Nat
  BY <1>1 DEF PurchaseIInv, PurchaseShape, Requests
<1>3. /\ order \in Answers /\ order.key = key /\ order.product = purchase[q].product
      /\ order.expires = purchase[q].expires
  BY <1>2 DEF Answers
<1>4. /\ row \in KeyRows /\ row.order = order /\ row.expires = purchase[q].expires
      /\ row.requestHash = purchase[q].product
  BY <1>2, <1>3 DEF KeyRows
<1>5. row # NoRow
  BY <1>4, RowsAreThere
<1> HIDE DEF row, order
<1>6. /\ purchase' \in [PurchaseCalls -> Requests]
      /\ purchase'[q].state = "answered" /\ purchase'[q].answer = order
      /\ \A p \in PurchaseCalls : /\ purchase'[p].key = purchase[p].key
                                  /\ purchase'[p].product = purchase[p].product
                                  /\ purchase'[p].now = purchase[p].now
                                  /\ purchase'[p].expires = purchase[p].expires
      /\ \A p \in PurchaseCalls \ {q} : purchase'[p] = purchase[p]
      /\ claimedBy' \in [OrderKeys -> (PurchaseCalls \ {q}) \union {NoPurchase}]
      /\ deletedBy' \in [OrderKeys -> (PurchaseCalls \ {q}) \union {NoPurchase}]
      /\ \A k \in OrderKeys :
           /\ claimedBy'[k] = IF claimedBy[k] = q THEN NoPurchase ELSE claimedBy[k]
           /\ deletedBy'[k] = IF deletedBy[k] = q THEN NoPurchase ELSE deletedBy[k]
      /\ pageProduct' = pageProduct /\ usedKeys' = usedKeys /\ time' = time
  BY <1>1, <1>3, EndedReleases
<1>7. keyRow \in [OrderKeys -> KeyRows \union {NoRow}]
  BY DEF PurchaseIInv, PurchaseShape
<1>8. /\ keyRow' \in [OrderKeys -> KeyRows \union {NoRow}]
      /\ \A k \in OrderKeys : keyRow'[k] = IF k = key THEN row
                                           ELSE IF deletedBy[k] = q THEN NoRow ELSE keyRow[k]
  BY <1>1, <1>2, <1>4, <1>7 DEF KeptRows
<1>9. claimedBy[key] = q
  BY <1>1, <1>2 DEF PurchaseIInv, LocksHeld
<1>10. keyRow[key] = NoRow \/ deletedBy[key] = q
  BY <1>2, <1>9, PurchaseAssumption DEF PurchaseIInv, LocksHeld
<1>11. deletedBy[key] \in {NoPurchase, q}
  BY <1>2, <1>10 DEF PurchaseIInv, LocksHeld
<1>12. /\ purchase[q].expires <= time + TTL
       /\ \A o \in placed : o.key = key => o.expires + TTL <= purchase[q].expires
  BY <1>1 DEF PurchaseIInv, ClaimsAreFresh
<1>13. time \in Nat /\ TTL \in Nat /\ \A o \in placed : o \in Answers /\ o.key \in OrderKeys /\ o.expires \in Nat
  BY PurchaseAssumption DEF PurchaseIInv, PurchaseShape, Answers
<1>14. \A p \in PurchaseCalls \ {q} : purchase[p].state = "claimed" => purchase[p].key # key
  BY <1>2, <1>9 DEF PurchaseIInv, LocksHeld
<1> HIDE DEF key
<1>15. PurchaseShape'
  BY <1>1, <1>3, <1>6, <1>8 DEF PurchaseIInv, PurchaseShape
<1>16. LocksHeld'
  <2>1. \A p \in PurchaseCalls : purchase'[p].state = "claimed" => claimedBy'[purchase'[p].key] = p
    <3> SUFFICES ASSUME NEW p \in PurchaseCalls, purchase'[p].state = "claimed"
                 PROVE  claimedBy'[purchase[p].key] = p
      BY <1>6
    <3>1. p # q
      BY <1>6
    <3>2. purchase[p].state = "claimed"
      BY <3>1, <1>6
    <3>3. claimedBy[purchase[p].key] = p /\ purchase[p].key \in OrderKeys
      BY <3>2 DEF PurchaseIInv, LocksHeld, PurchaseShape
    <3> QED
      BY <3>1, <3>3, <1>6
  <2>2. \A k \in OrderKeys : claimedBy'[k] # NoPurchase =>
          /\ purchase'[claimedBy'[k]].state = "claimed" /\ purchase'[claimedBy'[k]].key = k
          /\ keyRow'[k] = NoRow \/ deletedBy'[k] = claimedBy'[k]
    <3> SUFFICES ASSUME NEW k \in OrderKeys, claimedBy'[k] # NoPurchase
                 PROVE  /\ purchase'[claimedBy'[k]].state = "claimed" /\ purchase'[claimedBy'[k]].key = k
                        /\ keyRow'[k] = NoRow \/ deletedBy'[k] = claimedBy'[k]
      OBVIOUS
    <3>1. claimedBy'[k] = claimedBy[k] /\ claimedBy[k] \in PurchaseCalls \ {q}
      BY <1>6
    <3>2. /\ purchase[claimedBy[k]].state = "claimed" /\ purchase[claimedBy[k]].key = k
          /\ keyRow[k] = NoRow \/ deletedBy[k] = claimedBy[k]
      BY <3>1, PurchaseAssumption DEF PurchaseIInv, LocksHeld
    <3>3. k # key
      BY <3>1, <1>9
    <3>4. keyRow'[k] = NoRow \/ deletedBy'[k] = claimedBy[k]
      BY <3>1, <3>2, <3>3, <1>6, <1>8
    <3> QED
      BY <3>1, <3>2, <3>4, <1>6
  <2>3. \A k \in OrderKeys : deletedBy'[k] # NoPurchase =>
          /\ keyRow'[k] # NoRow /\ keyRow'[k].expires <= purchase'[deletedBy'[k]].now
          /\ purchase'[deletedBy'[k]].state \in {"begun", "claimed", "conflict"}
    <3> SUFFICES ASSUME NEW k \in OrderKeys, deletedBy'[k] # NoPurchase
                 PROVE  /\ keyRow'[k] # NoRow /\ keyRow'[k].expires <= purchase'[deletedBy'[k]].now
                        /\ purchase'[deletedBy'[k]].state \in {"begun", "claimed", "conflict"}
      OBVIOUS
    <3>1. deletedBy'[k] = deletedBy[k] /\ deletedBy[k] \in PurchaseCalls \ {q} /\ deletedBy[k] # NoPurchase
      BY <1>6
    <3>2. k # key
      BY <3>1, <1>11
    <3>3. keyRow'[k] = keyRow[k]
      BY <3>1, <3>2, <1>8
    <3> QED
      BY <3>1, <3>3, <1>6 DEF PurchaseIInv, LocksHeld
  <2> QED
    BY <2>1, <2>2, <2>3 DEF LocksHeld
<1>17. RowsHaveOrders'
  BY <1>1, <1>2, <1>3, <1>4, <1>8 DEF PurchaseIInv, RowsHaveOrders
<1>18. \A o \in placed : o.key = key => o.expires <= time
  BY <1>2, <1>12, <1>13
<1>19. LiveKeysHaveRows'
  <2>1. keyRow'[order.key] # NoRow /\ keyRow'[order.key].order = order
    BY <1>2, <1>3, <1>4, <1>5, <1>8
  <2>2. \A o \in placed : o.expires <= time \/ (keyRow'[o.key] # NoRow /\ keyRow'[o.key].order = o)
    <3> SUFFICES ASSUME NEW o \in placed, ~(o.expires <= time)
                 PROVE  keyRow'[o.key] # NoRow /\ keyRow'[o.key].order = o
      OBVIOUS
    <3>1. keyRow[o.key] # NoRow /\ keyRow[o.key].order = o /\ o.key \in OrderKeys /\ o.key # key
      BY <1>13, <1>18 DEF PurchaseIInv, LiveKeysHaveRows
    <3>2. deletedBy[o.key] # q
      <4> SUFFICES ASSUME deletedBy[o.key] = q PROVE FALSE
        OBVIOUS
      <4>1. keyRow[o.key].expires <= purchase[q].now /\ keyRow[o.key].expires = o.expires
        BY <3>1, PurchaseAssumption DEF PurchaseIInv, LocksHeld, RowsHaveOrders
      <4>2. purchase[q].now <= time /\ purchase[q].now \in Nat
        BY DEF PurchaseIInv, PurchaseShape, Requests
      <4> QED
        BY <4>1, <4>2, <1>13
    <3> QED
      BY <3>1, <3>2, <1>8
  <2> QED
    BY <1>1, <1>6, <2>1, <2>2 DEF LiveKeysHaveRows
<1>20. ClaimsAreFresh'
  <2> SUFFICES ASSUME NEW p \in PurchaseCalls, purchase'[p].state = "claimed"
               PROVE  /\ purchase'[p].expires <= time + TTL
                      /\ \A o \in placed' : o.key = purchase'[p].key => o.expires + TTL <= purchase'[p].expires
    BY <1>6 DEF ClaimsAreFresh
  <2>1. p # q /\ purchase'[p] = purchase[p]
    BY <1>6
  <2>2. order.key # purchase[p].key
    BY <2>1, <1>3, <1>14
  <2>3. /\ purchase[p].expires <= time + TTL
        /\ \A o \in placed : o.key = purchase[p].key => o.expires + TTL <= purchase[p].expires
    BY <2>1 DEF PurchaseIInv, ClaimsAreFresh
  <2> QED
    BY <2>1, <2>2, <2>3, <1>1
<1>21. OneOrderPerKey'
  <2>1. \A o1, o2 \in placed' :
          o1 # o2 /\ o1.key = o2.key => o1.expires + TTL <= o2.expires \/ o2.expires + TTL <= o1.expires
    <3>1. \A o \in placed : o.key = order.key => o.expires + TTL <= order.expires
      BY <1>3, <1>12
    <3> QED
      BY <3>1, <1>1 DEF PurchaseIInv, OneOrderPerKey
  <2>2. \A p \in PurchaseCalls : purchase'[p].state = "answered" =>
          /\ purchase'[p].answer \in placed' /\ purchase'[p].answer.key = purchase'[p].key
          /\ purchase'[p].answer.product = purchase'[p].product
    <3> SUFFICES ASSUME NEW p \in PurchaseCalls, purchase'[p].state = "answered"
                 PROVE  /\ purchase'[p].answer \in placed' /\ purchase'[p].answer.key = purchase'[p].key
                        /\ purchase'[p].answer.product = purchase'[p].product
      OBVIOUS
    <3>1. CASE p = q
      BY <3>1, <1>1, <1>3, <1>6 DEF key
    <3>2. CASE p # q
      BY <3>2, <1>1, <1>6 DEF PurchaseIInv, OneOrderPerKey
    <3> QED
      BY <3>1, <3>2
  <2> QED
    BY <2>1, <2>2, <1>6 DEF OneOrderPerKey
<1> QED
  BY <1>15, <1>16, <1>17, <1>19, <1>20, <1>21 DEF PurchaseIInv

----------------------------------------------------------------------------
(* The theorem *)

LEMMA PurchaseNextInv == PurchaseIInv /\ [PurchaseNext]_purchaseVars => PurchaseIInv'
<1> SUFFICES ASSUME PurchaseIInv, [PurchaseNext]_purchaseVars PROVE PurchaseIInv'
  OBVIOUS
<1>1. CASE buySecurely \/ ReuseKey
  BY <1>1, SendNext
<1>2. CASE OpenPage \/ MutationSettles
  BY <1>2, BrowserNext
<1>3. CASE TimePasses
  BY <1>3, ClockNext
<1>4. ASSUME NEW q \in PurchaseCalls,
             BeginPurchase(q) \/ ClaimKey(q) \/ ReplayPurchase(q) \/ CommitPurchase(q) \/ RollbackPurchase(q)
      PROVE  PurchaseIInv'
  BY <1>4, BeginNext, ClaimNext, ConflictNext, ReplayNext, CommitNext, RollbackNext
<1>5. CASE UNCHANGED purchaseVars
  BY <1>5 DEF purchaseVars, pageVars, rowVars, PurchaseIInv, PurchaseShape, LocksHeld, RowsHaveOrders,
              LiveKeysHaveRows, ClaimsAreFresh, OneOrderPerKey
<1> QED
  BY <1>1, <1>2, <1>3, <1>4, <1>5 DEF PurchaseNext

(* One key is one order: runIdempotentTransaction, for any number of         *)
(* requests, keys and payloads: while a key lives, retries are answered with *)
(* the one order it stands for, however the transactions interleave.         *)
THEOREM OneKeyOneOrder == PurchaseSpec => []OneOrderPerKey
<1>1. PurchaseIInv => OneOrderPerKey
  BY DEF PurchaseIInv
<1> QED
  BY <1>1, PurchaseInitInv, PurchaseNextInv, PTL DEF PurchaseSpec
----------------------------------------------------------------------------
(* The catalog: the inductive invariant *)

Schemas == [status : SchemaStatus, edition : Nat]
ListedLots == [status : ProductStatus \cup {"none"}, place : Places, ver : 0 .. MaxVersions, edition : Nat]
AdminCalls ==
  [op : {"idle", "publishSection", "delete", "counted", "newVersion", "editVersion",
         "publishVersion", "publishing"},
   level : Levels, ver : 0 .. MaxVersions, previous : 0 .. MaxVersions,
   draft : BOOLEAN, empty : BOOLEAN, products : BOOLEAN]

CatalogShape ==
  /\ currentVersion \in 0 .. MaxVersions
  /\ schema \in [Versions -> Schemas]
  /\ lot \in [Lots -> ListedLots]
  /\ \A l \in Lots : lot[l].status = "none" => lot[l].place = "none"
  /\ call \in [CatalogAdmins -> AdminCalls]
  /\ \A a \in CatalogAdmins :
       call[a].op \in {"newVersion", "editVersion", "publishVersion", "publishing"} => call[a].ver \in Versions

CatalogIInv == CatalogShape /\ SectionPointsAtItsSchema

\* What a listing may be pinned to.
PublishedOnce(v) == v # 0 /\ schema[v].status \in {"active", "archived"}

LEMMA VersionsBound == \A v \in Versions : v \in 0 .. MaxVersions /\ v # 0
BY CatalogAssumption DEF Versions

LEMMA CatalogInitInv == CatalogInit => CatalogIInv
<1> SUFFICES ASSUME CatalogInit PROVE CatalogIInv
  OBVIOUS
<1>1. MaxVersions \in Nat \ {0} /\ 0 \in 0 .. MaxVersions
  BY CatalogAssumption
<1>2. \A v \in Versions : schema[v] \in Schemas /\ schema[v].status # "active"
  BY DEF CatalogInit, Schemas, NoVersion, SchemaStatus
<1>3. schema \in [Versions -> Schemas]
  BY <1>2 DEF CatalogInit
<1>4. NoLot \in ListedLots /\ NoCall \in AdminCalls
  BY <1>1 DEF NoLot, NoCall, ListedLots, AdminCalls, Levels, Places
<1>5. CatalogShape
  BY <1>1, <1>3, <1>4 DEF CatalogInit, CatalogShape, NoLot, NoCall
<1>6. SectionPointsAtItsSchema
  <2>1. \A l \in Lots : lot[l].place = "none"
    BY DEF CatalogInit, NoLot
  <2>2. ActiveVersions = {}
    BY <1>2 DEF ActiveVersions
  <2>3. currentVersion = 0
    BY DEF CatalogInit
  <2> QED
    BY <2>1, <2>2, <2>3 DEF SectionPointsAtItsSchema
<1> QED
  BY <1>5, <1>6 DEF CatalogIInv

----------------------------------------------------------------------------
(* Steps that leave the schemas alone *)

\* An admin's call goes on.
LEMMA OneCallMoves ==
  ASSUME call \in [CatalogAdmins -> AdminCalls], NEW a \in CatalogAdmins, NEW c \in AdminCalls,
         call' = [call EXCEPT ![a] = c]
  PROVE  /\ call' \in [CatalogAdmins -> AdminCalls]
         /\ \A b \in CatalogAdmins : call'[b] = IF b = a THEN c ELSE call[b]
OBVIOUS

\* A call's next query, when the schemas and the listings stay.
LEMMA CallNext ==
  ASSUME CatalogIInv, NEW a \in CatalogAdmins, NEW c \in AdminCalls,
         call' = [call EXCEPT ![a] = c],
         c.op \in {"newVersion", "editVersion", "publishVersion", "publishing"} => c.ver \in Versions,
         UNCHANGED <<currentVersion, schema, lot>>
  PROVE  CatalogIInv'
<1>1. /\ call' \in [CatalogAdmins -> AdminCalls]
      /\ \A b \in CatalogAdmins : call'[b] = IF b = a THEN c ELSE call[b]
  BY OneCallMoves DEF CatalogIInv, CatalogShape
<1>2. CatalogShape'
  BY <1>1 DEF CatalogIInv, CatalogShape
<1>3. SectionPointsAtItsSchema'
  BY DEF CatalogIInv, SectionPointsAtItsSchema, ActiveVersions
<1> QED
  BY <1>2, <1>3 DEF CatalogIInv

LEMMA StatusNext ==
  ASSUME CatalogIInv, UNCHANGED <<currentVersion, schema, lot, call>>
  PROVE  CatalogIInv'
BY DEF CatalogIInv, CatalogShape, SectionPointsAtItsSchema, ActiveVersions

\* The first query of a call.
LEMMA BeginsNext ==
  ASSUME CatalogIInv, NEW a \in CatalogAdmins, NEW c \in AdminCalls, Begins(a, c),
         c.op \in {"newVersion", "editVersion", "publishVersion", "publishing"} => c.ver \in Versions,
         UNCHANGED <<levelStatus, currentVersion, schema, lot>>
  PROVE  CatalogIInv'
BY CallNext DEF Begins

LEMMA AdminCallNext ==
  ASSUME CatalogIInv, NEW a \in CatalogAdmins,
         \/ publishCatalogSection(a)
         \/ \E lv \in Levels : ReadDoomed(a, lv)
         \/ createSchemaVersion(a)
         \/ \E v \in Versions : updateSchemaVersion(a, v) \/ publishSchemaVersion(a, v)
  PROVE  CatalogIInv'
<1>1. NoCall \in AdminCalls /\ NoCall.op = "idle"
  BY CatalogAssumption DEF NoCall, AdminCalls, Levels
<1>2. CASE publishCatalogSection(a)
  <2> DEFINE c == [NoCall EXCEPT !.op = "publishSection"]
  <2>1. c \in AdminCalls /\ c.op = "publishSection"
    BY <1>1 DEF AdminCalls
  <2>2. Begins(a, c) /\ UNCHANGED <<levelStatus, currentVersion, schema, lot>>
    BY <1>2 DEF publishCatalogSection
  <2> HIDE DEF c
  <2> QED
    BY <2>1, <2>2, BeginsNext
<1>3. ASSUME NEW lv \in Levels, ReadDoomed(a, lv) PROVE CatalogIInv'
  <2> DEFINE draft == levelStatus[lv] = "draft"
             c == [NoCall EXCEPT !.op = "delete", !.level = lv, !.draft = draft]
  <2>1. draft \in BOOLEAN
    OBVIOUS
  <2>2. Begins(a, c) /\ UNCHANGED <<levelStatus, currentVersion, schema, lot>>
    BY <1>3 DEF ReadDoomed
  <2> HIDE DEF draft
  <2>3. c \in AdminCalls /\ c.op = "delete"
    BY <1>1, <2>1 DEF AdminCalls
  <2> HIDE DEF c
  <2> QED
    BY <2>2, <2>3, BeginsNext
<1>4. CASE createSchemaVersion(a)
  <2>1. PICK v \in Versions : Begins(a, [NoCall EXCEPT !.op = "newVersion", !.ver = v])
    BY <1>4 DEF createSchemaVersion
  <2> DEFINE c == [NoCall EXCEPT !.op = "newVersion", !.ver = v]
  <2>2. c \in AdminCalls /\ c.ver = v
    BY <1>1, VersionsBound DEF AdminCalls
  <2>3. Begins(a, c) /\ UNCHANGED <<levelStatus, currentVersion, schema, lot>>
    BY <1>4, <2>1 DEF createSchemaVersion
  <2> HIDE DEF c
  <2> QED
    BY <2>2, <2>3, BeginsNext
<1>5. ASSUME NEW v \in Versions, updateSchemaVersion(a, v) PROVE CatalogIInv'
  <2> DEFINE c == [NoCall EXCEPT !.op = "editVersion", !.ver = v]
  <2>1. c \in AdminCalls /\ c.ver = v
    BY <1>1, VersionsBound DEF AdminCalls
  <2>2. Begins(a, c) /\ UNCHANGED <<levelStatus, currentVersion, schema, lot>>
    BY <1>5 DEF updateSchemaVersion
  <2> HIDE DEF c
  <2> QED
    BY <2>1, <2>2, BeginsNext
<1>6. ASSUME NEW v \in Versions, publishSchemaVersion(a, v) PROVE CatalogIInv'
  <2> DEFINE c == [NoCall EXCEPT !.op = "publishVersion", !.ver = v]
  <2>1. c \in AdminCalls /\ c.ver = v
    BY <1>1, VersionsBound DEF AdminCalls
  <2>2. Begins(a, c) /\ UNCHANGED <<levelStatus, currentVersion, schema, lot>>
    BY <1>6 DEF publishSchemaVersion
  <2> HIDE DEF c
  <2> QED
    BY <2>1, <2>2, BeginsNext
<1> QED
  BY <1>2, <1>3, <1>4, <1>5, <1>6

\* The queries between the first and the last.
LEMMA ReadOnNext ==
  ASSUME CatalogIInv, NEW a \in CatalogAdmins, CountChildren(a) \/ ReadPreviousActive(a)
  PROVE  CatalogIInv'
<1>1. call[a] \in AdminCalls
  BY DEF CatalogIInv, CatalogShape
<1>2. CASE CountChildren(a)
  <2> DEFINE lv == call[a].level
             products == Products(lv) # {}
             empty == ~HasChildren(lv) /\ Products(lv) = {}
             c == [call[a] EXCEPT !.op = "counted", !.products = products, !.empty = empty]
  <2>1. products \in BOOLEAN /\ empty \in BOOLEAN
    OBVIOUS
  <2>2. call' = [call EXCEPT ![a].op = "counted", ![a].products = products, ![a].empty = empty]
    BY <1>2 DEF CountChildren
  <2> HIDE DEF products, empty
  <2>3. call' = [call EXCEPT ![a] = c]
    BY <2>2 DEF CatalogIInv, CatalogShape
  <2>4. c \in AdminCalls /\ c.op = "counted"
    BY <1>1, <2>1 DEF AdminCalls
  <2>5. UNCHANGED <<currentVersion, schema, lot>>
    BY <1>2 DEF CountChildren
  <2> HIDE DEF c
  <2> QED
    BY <2>3, <2>4, <2>5, CallNext
<1>3. CASE ReadPreviousActive(a)
  <2>1. PICK p \in IF ActiveVersions = {} THEN {0} ELSE ActiveVersions :
          call' = [call EXCEPT ![a].op = "publishing", ![a].previous = p]
    BY <1>3 DEF ReadPreviousActive
  <2>2. p \in 0 .. MaxVersions
    BY <2>1, CatalogAssumption DEF ActiveVersions, Versions
  <2> DEFINE c == [call[a] EXCEPT !.op = "publishing", !.previous = p]
  <2>3. call' = [call EXCEPT ![a] = c]
    BY <2>1 DEF CatalogIInv, CatalogShape
  <2>4. c \in AdminCalls /\ c.ver = call[a].ver
    BY <1>1, <2>2 DEF AdminCalls
  <2>5. UNCHANGED <<currentVersion, schema, lot>> /\ call[a].op = "publishVersion"
    BY <1>3 DEF ReadPreviousActive
  <2>6. c.ver \in Versions
    BY <2>4, <2>5 DEF CatalogIInv, CatalogShape
  <2> HIDE DEF c
  <2> QED
    BY <2>3, <2>4, <2>5, <2>6, CallNext
<1> QED
  BY <1>2, <1>3
----------------------------------------------------------------------------
(* Steps that write schemas *)

\* The call returns; the other calls stay.
LEMMA ReturnsShape ==
  ASSUME CatalogIInv, NEW a \in CatalogAdmins, Returns(a)
  PROVE  /\ call' \in [CatalogAdmins -> AdminCalls]
         /\ \A b \in CatalogAdmins :
              call'[b].op \in {"newVersion", "editVersion", "publishVersion", "publishing"}
                => call'[b].ver \in Versions
<1>1. NoCall \in AdminCalls /\ NoCall.op = "idle"
  BY CatalogAssumption DEF NoCall, AdminCalls, Levels
<1>2. call' = [call EXCEPT ![a] = NoCall]
  BY DEF Returns
<1>3. /\ call' \in [CatalogAdmins -> AdminCalls]
      /\ \A b \in CatalogAdmins : call'[b] = IF b = a THEN NoCall ELSE call[b]
  BY <1>1, <1>2, OneCallMoves DEF CatalogIInv, CatalogShape
<1> QED
  BY <1>1, <1>3 DEF CatalogIInv, CatalogShape

\* What the property reads of the schemas is which are active and that the
\* published stay published.
LEMMA SchemasNext ==
  ASSUME CatalogIInv, NEW a \in CatalogAdmins, Returns(a), lot' = lot,
         schema' \in [Versions -> Schemas], currentVersion' = currentVersion,
         \A v \in Versions : schema'[v].status = schema[v].status
           \/ (schema[v].status = "absent" /\ schema'[v].status = "draft")
  PROVE  CatalogIInv'
<1>1. CatalogShape'
  BY ReturnsShape DEF CatalogIInv, CatalogShape
<1>2. ActiveVersions' = ActiveVersions
  BY DEF ActiveVersions
<1>3. \A l \in Lots : lot[l].place = "section" => lot[l].ver \in Versions
  BY CatalogAssumption DEF CatalogIInv, CatalogShape, SectionPointsAtItsSchema, ListedLots, Versions
<1>4. SectionPointsAtItsSchema'
  BY <1>2, <1>3 DEF CatalogIInv, SectionPointsAtItsSchema
<1> QED
  BY <1>1, <1>4 DEF CatalogIInv

LEMMA WriteVersionNext ==
  ASSUME CatalogIInv, NEW a \in CatalogAdmins, InsertVersion(a) \/ WriteEdition(a) \/ WritePublished(a)
  PROVE  CatalogIInv'
<1>1. schema \in [Versions -> Schemas]
  BY DEF CatalogIInv, CatalogShape
<1>2. CASE WritePublished(a)
  <2>1. Returns(a) /\ lot' = lot /\ schema' = schema /\ currentVersion' = currentVersion
    BY <1>2 DEF WritePublished
  <2> QED
    BY <1>1, <2>1, SchemasNext
<1> DEFINE v == call[a].ver
<1>3. CASE InsertVersion(a)
  <2>1. /\ Returns(a) /\ lot' = lot /\ currentVersion' = currentVersion /\ v \in Versions
        /\ \/ schema' = schema
           \/ schema[v].status = "absent" /\ schema' = [schema EXCEPT ![v].status = "draft"]
    BY <1>3 DEF InsertVersion, CatalogIInv, CatalogShape
  <2>2. schema[v] \in Schemas
    BY <1>1, <2>1
  <2> DEFINE draft == [schema[v] EXCEPT !.status = "draft"]
  <2>3. draft \in Schemas /\ draft.status = "draft"
    BY <2>2 DEF Schemas, SchemaStatus
  <2>4. schema' = schema \/ (schema[v].status = "absent" /\ schema' = [schema EXCEPT ![v] = draft])
    BY <1>1, <2>1
  <2> HIDE DEF draft, v
  <2> QED
    BY <1>1, <2>1, <2>3, <2>4, SchemasNext
<1>4. CASE WriteEdition(a)
  <2>1. /\ Returns(a) /\ lot' = lot /\ currentVersion' = currentVersion /\ v \in Versions
        /\ schema' = schema \/ schema' = [schema EXCEPT ![v].edition = @ + 1]
    BY <1>4 DEF WriteEdition, CatalogIInv, CatalogShape
  <2>2. schema[v] \in Schemas /\ schema[v].edition \in Nat
    BY <1>1, <2>1 DEF Schemas
  <2> DEFINE more == schema[v].edition + 1
             edited == [schema[v] EXCEPT !.edition = more]
  <2>3. more \in Nat
    BY <2>2
  <2>4. schema' = schema \/ schema' = [schema EXCEPT ![v] = edited]
    BY <1>1, <2>1
  <2> HIDE DEF more
  <2>5. edited \in Schemas /\ edited.status = schema[v].status
    BY <2>2, <2>3 DEF Schemas
  <2> HIDE DEF edited, v
  <2> QED
    BY <1>1, <2>1, <2>4, <2>5, SchemasNext
<1> QED
  BY <1>2, <1>3, <1>4

\* A section that is deleted for good has no listing, with whatever schemas.
LEMMA DeleteNext ==
  ASSUME CatalogIInv, NEW a \in CatalogAdmins, WriteDeleted(a)
  PROVE  CatalogIInv'
<1>1. Returns(a) /\ lot' = lot
  BY DEF WriteDeleted
<1>2. CASE currentVersion' = currentVersion /\ schema' = schema
  <2>1. schema' \in [Versions -> Schemas]
    BY <1>2 DEF CatalogIInv, CatalogShape
  <2> QED
    BY <1>1, <1>2, <2>1, SchemasNext
<1>3. CASE ~(currentVersion' = currentVersion /\ schema' = schema)
  <2> DEFINE lv == call[a].level
  <2>1. HardDelete(lv)
    BY <1>3 DEF WriteDeleted
  <2>2. /\ Products(lv) = {} /\ lv # "group"
        /\ currentVersion' = 0 /\ schema' = [v \in Versions |-> NoVersion]
    BY <1>3, <2>1 DEF HardDelete
  <2>3. lv \in {"item", "section"}
    BY <2>2 DEF CatalogIInv, CatalogShape, AdminCalls, Levels
  <2>4. Rows({"section"}) = {}
    BY <2>2, <2>3 DEF Products, Rows
  <2>5. \A l \in Lots : lot[l].place # "section"
    BY <2>4 DEF Rows, CatalogIInv, CatalogShape
  <2>6. NoVersion \in Schemas /\ NoVersion.status = "absent"
    BY DEF NoVersion, Schemas, SchemaStatus
  <2>7. CatalogShape'
    BY <1>1, <2>2, <2>6, ReturnsShape, CatalogAssumption DEF CatalogIInv, CatalogShape
  <2>8. ActiveVersions' = {}
    BY <2>2, <2>6 DEF ActiveVersions
  <2>9. SectionPointsAtItsSchema'
    BY <1>1, <2>2, <2>5, <2>8 DEF SectionPointsAtItsSchema
  <2> QED
    BY <2>7, <2>9 DEF CatalogIInv
<1> QED
  BY <1>2, <1>3

\* Two admins may publish at once and read the same active version: the
\* unique index lets a transaction end only with the one it activated.
LEMMA PublicationNext ==
  ASSUME CatalogIInv, NEW a \in CatalogAdmins, WritePublication(a)
  PROVE  CatalogIInv'
<1> DEFINE v == call[a].ver
           table == Republished(v, call[a].previous)
<1>1. Returns(a) /\ lot' = lot /\ v \in Versions /\ schema \in [Versions -> Schemas]
  BY DEF WritePublication, CatalogIInv, CatalogShape
<1>2. CASE currentVersion' = currentVersion /\ schema' = schema
  BY <1>1, <1>2, SchemasNext
<1>3. CASE ~(currentVersion' = currentVersion /\ schema' = schema)
  <2>1. schema[v].status # "absent" /\ OneActive(table) /\ schema' = table /\ currentVersion' = v
    BY <1>3 DEF WritePublication
  <2> DEFINE status(w) == IF w = v THEN "active"
                          ELSE IF w = call[a].previous /\ schema[w].status # "absent" THEN "archived"
                          ELSE schema[w].status
  <2>2. \A w \in Versions : schema[w] \in Schemas /\ status(w) \in SchemaStatus
    BY <1>1 DEF Schemas, SchemaStatus
  <2>3. \A w \in Versions : table[w] = [schema[w] EXCEPT !.status = status(w)]
    BY DEF Republished
  <2>4. table = [w \in Versions |-> table[w]]
    BY DEF Republished
  <2> HIDE DEF status, table
  <2>5. \A w \in Versions : table[w] \in Schemas /\ table[w].status = status(w)
    BY <2>2, <2>3 DEF Schemas
  <2>6. schema' \in [Versions -> Schemas]
    BY <2>1, <2>4, <2>5
  <2>7. ActiveVersions' = {v}
    <3> DEFINE A == {w \in Versions : table[w].status = "active"}
    <3>1. v \in A
      BY <1>1, <2>5 DEF status
    <3>2. IsFiniteSet(A) /\ Cardinality(A) <= 1
      <4>1. IsFiniteSet(1 .. MaxVersions)
        BY FS_Interval, CatalogAssumption
      <4>2. A \subseteq 1 .. MaxVersions
        BY DEF Versions
      <4> QED
        BY <4>1, <4>2, <2>1, FS_Subset DEF OneActive
    <3>3. ActiveVersions' = A
      BY <2>1 DEF ActiveVersions
    <3> HIDE DEF A
    <3>4. IsFiniteSet(A \ {v}) /\ Cardinality(A \ {v}) = Cardinality(A) - 1 /\ Cardinality(A) \in Nat
      BY <3>1, <3>2, FS_RemoveElement, FS_CardinalityType
    <3>5. Cardinality(A \ {v}) = 0
      BY <3>2, <3>4, FS_CardinalityType
    <3>6. A \ {v} = {}
      BY <3>4, <3>5, FS_EmptySet
    <3> QED
      BY <3>1, <3>3, <3>6
  <2>8. CatalogShape'
    BY <1>1, <2>1, <2>6, ReturnsShape, VersionsBound DEF CatalogIInv, CatalogShape
  <2>9. SectionPointsAtItsSchema'
    <3>1. v # 0
      BY <1>1, VersionsBound
    <3>2. \A l \in Lots : lot[l].place = "section" =>
            lot[l].ver # 0 /\ table[lot[l].ver].status \in {"active", "archived"}
      <4> SUFFICES ASSUME NEW l \in Lots, lot[l].place = "section"
                   PROVE  lot[l].ver # 0 /\ table[lot[l].ver].status \in {"active", "archived"}
        OBVIOUS
      <4>1. lot[l].ver # 0 /\ schema[lot[l].ver].status \in {"active", "archived"}
        BY DEF CatalogIInv, SectionPointsAtItsSchema
      <4>2. lot[l].ver \in Versions
        BY <4>1, CatalogAssumption DEF CatalogIInv, CatalogShape, ListedLots, Versions
      <4> QED
        BY <4>1, <4>2, <2>5 DEF status
    <3> QED
      BY <1>1, <2>1, <2>7, <3>1, <3>2 DEF SectionPointsAtItsSchema
  <2> QED
    BY <2>8, <2>9 DEF CatalogIInv
<1> QED
  BY <1>2, <1>3
----------------------------------------------------------------------------
(* Listings *)

\* A listing changes; in a section it is pinned to a published version.
LEMMA OneLotMoves ==
  ASSUME CatalogIInv, NEW l \in Lots, NEW x \in ListedLots,
         lot' = [lot EXCEPT ![l] = x], x.status # "none",
         x.place = "section" => PublishedOnce(x.ver),
         UNCHANGED <<currentVersion, schema, call>>
  PROVE  CatalogIInv'
<1>1. /\ lot' \in [Lots -> ListedLots]
      /\ \A m \in Lots : lot'[m] = IF m = l THEN x ELSE lot[m]
  BY DEF CatalogIInv, CatalogShape
<1>2. CatalogShape'
  BY <1>1 DEF CatalogIInv, CatalogShape
<1>3. SectionPointsAtItsSchema'
  BY <1>1 DEF CatalogIInv, SectionPointsAtItsSchema, ActiveVersions, PublishedOnce
<1> QED
  BY <1>2, <1>3 DEF CatalogIInv

\* The stamp is of the active version when the chain is.
LEMMA StampIsPublished ==
  ASSUME CatalogIInv, NEW place \in Places
  PROVE  /\ validateLotMetadata(place).ver \in 0 .. MaxVersions
         /\ resolveActiveSectionChain => /\ PublishedOnce(currentVersion)
                                         /\ validateLotMetadata(place).edition \in Nat
         /\ place # "section" => validateLotMetadata(place).edition = 0
         /\ place = "section" => validateLotMetadata(place).ver = currentVersion
<1>1. currentVersion \in 0 .. MaxVersions /\ schema \in [Versions -> Schemas] /\ 0 \in 0 .. MaxVersions
  BY CatalogAssumption DEF CatalogIInv, CatalogShape
<1>2. currentVersion # 0 => currentVersion \in Versions
  BY <1>1, CatalogAssumption DEF Versions
<1>3. resolveActiveSectionChain => PublishedOnce(currentVersion) /\ schema[currentVersion].edition \in Nat
  BY <1>1, <1>2 DEF resolveActiveSectionChain, PublishedOnce, Schemas
<1> QED
  BY <1>1, <1>3 DEF validateLotMetadata

LEMMA CreateLotNext ==
  ASSUME CatalogIInv, NEW l \in Lots, NEW place \in Places, CreateLot(l, place)
  PROVE  CatalogIInv'
<1> DEFINE stamp == validateLotMetadata(place)
           x == [status |-> "active", place |-> place, ver |-> stamp.ver, edition |-> stamp.edition]
<1>1. lot' = [lot EXCEPT ![l] = x] /\ UNCHANGED <<currentVersion, schema, call>>
  BY DEF CreateLot
<1>2. place = "section" => resolveActiveSectionChain
  BY DEF CreateLot, resolveCategorization
<1>3. stamp.ver \in 0 .. MaxVersions /\ stamp.edition \in Nat
  BY <1>2, StampIsPublished
<1>4. place = "section" => PublishedOnce(stamp.ver)
  BY <1>2, StampIsPublished
<1> HIDE DEF stamp
<1>5. /\ x \in ListedLots /\ x.status # "none" /\ x.place = place /\ x.ver = stamp.ver
  BY <1>3 DEF ListedLots, ProductStatus
<1> HIDE DEF x
<1> QED
  BY <1>1, <1>4, <1>5, OneLotMoves

\* Whoever stamps a listing of a section has resolved its chain; whoever does
\* not leaves the stamp and the section.
LEMMA PatchLotNext ==
  ASSUME CatalogIInv, NEW l \in Lots, NEW to \in Places \cup {"keep"}, NEW metadata \in BOOLEAN,
         NEW st \in {"keep", "active", "paused"}, PatchLot(l, to, metadata, st)
  PROVE  CatalogIInv'
<1> DEFINE was == lot[l].place
           place == IF to = "keep" THEN was ELSE to
           moved == (place = "section") # (was = "section")
           validated == metadata \/ st = "active"
           stamp == IF validated THEN validateLotMetadata(place)
                    ELSE [ver |-> lot[l].ver, edition |-> lot[l].edition]
           status == IF st = "keep" THEN lot[l].status ELSE st
           x == [status |-> status, place |-> place, ver |-> stamp.ver, edition |-> stamp.edition]
<1>1. lot[l] \in ListedLots /\ lot \in [Lots -> ListedLots]
  BY DEF CatalogIInv, CatalogShape
<1>2. /\ lot[l].status \notin {"none", "deleted"}
      /\ moved => metadata
      /\ (to = "section" \/ (was = "section" /\ ~moved /\ validated)) => resolveActiveSectionChain
      /\ UNCHANGED <<currentVersion, schema, call>>
  BY DEF PatchLot
<1>3. lot' = [lot EXCEPT ![l] = x]
  BY <1>1 DEF PatchLot
<1>4. place \in Places /\ status \in ProductStatus
  BY <1>1, <1>2 DEF ListedLots, ProductStatus
<1>5. place = "section" /\ validated => resolveActiveSectionChain
  BY <1>2
<1>6. place = "section" /\ ~validated => was = "section"
  BY <1>2
<1>7. stamp.ver \in 0 .. MaxVersions /\ stamp.edition \in Nat
  <2>1. CASE validated
    BY <2>1, <1>4, <1>5, StampIsPublished
  <2>2. CASE ~validated
    BY <2>2, <1>1 DEF ListedLots
  <2> QED
    BY <2>1, <2>2
<1>8. place = "section" => PublishedOnce(stamp.ver)
  <2>1. CASE validated
    BY <2>1, <1>4, <1>5, StampIsPublished
  <2>2. CASE ~validated
    BY <2>2, <1>6 DEF CatalogIInv, SectionPointsAtItsSchema, PublishedOnce
  <2> QED
    BY <2>1, <2>2
<1> HIDE DEF stamp, place, status
<1>9. x \in ListedLots /\ x.status = status /\ x.place = place /\ x.ver = stamp.ver
  BY <1>4, <1>7 DEF ListedLots
<1>10. x.status # "none"
  BY <1>4, <1>9 DEF ProductStatus
<1> HIDE DEF x
<1> QED
  BY <1>2, <1>3, <1>8, <1>9, <1>10, OneLotMoves

\* Moderation and deletion change the status only.
LEMMA LotStatusNext ==
  ASSUME CatalogIInv, NEW l \in Lots, DeleteLot(l) \/ \E st \in ProductStatus : ModerateLot(l, st)
  PROVE  CatalogIInv'
<1>1. PICK st \in ProductStatus :
        /\ lot' = [lot EXCEPT ![l].status = st] /\ lot[l].status # "none"
        /\ UNCHANGED <<currentVersion, schema, call>>
  BY DEF DeleteLot, ModerateLot, ProductStatus
<1>2. lot[l] \in ListedLots /\ lot \in [Lots -> ListedLots]
  BY DEF CatalogIInv, CatalogShape
<1> DEFINE x == [lot[l] EXCEPT !.status = st]
<1>3. lot' = [lot EXCEPT ![l] = x]
  BY <1>1, <1>2
<1>4. x \in ListedLots /\ x.status = st /\ x.place = lot[l].place /\ x.ver = lot[l].ver
  BY <1>2 DEF ListedLots
<1>5. x.status # "none"
  BY <1>4 DEF ProductStatus
<1>6. x.place = "section" => PublishedOnce(x.ver)
  BY <1>4 DEF CatalogIInv, SectionPointsAtItsSchema, PublishedOnce
<1> HIDE DEF x
<1> QED
  BY <1>1, <1>3, <1>4, <1>5, <1>6, OneLotMoves

----------------------------------------------------------------------------
(* The theorem *)

\* The handlers of one query.
LEMMA LevelNext ==
  ASSUME CatalogIInv, NEW a \in CatalogAdmins, NEW st,
         \/ createCatalogGroup(a, st) \/ updateCatalogGroup(a, st)
         \/ createCatalogItem(a, st) \/ updateCatalogItem(a, st)
         \/ createCatalogSection(a, st) \/ updateCatalogSection(a, st) \/ setCatalogSectionStatus(a, st)
  PROVE  CatalogIInv'
<1>1. UNCHANGED <<currentVersion, schema, lot, call>>
  BY DEF createCatalogGroup, updateCatalogGroup, createCatalogItem, updateCatalogItem,
         createCatalogSection, updateCatalogSection, setCatalogSectionStatus, UpdateStatus
<1> QED
  BY <1>1, StatusNext

LEMMA CatalogNextInv == CatalogIInv /\ [CatalogNext]_catalogVars => CatalogIInv'
<1> SUFFICES ASSUME CatalogIInv, [CatalogNext]_catalogVars PROVE CatalogIInv'
  OBVIOUS
<1>1. CASE UNCHANGED catalogVars
  BY <1>1, StatusNext DEF catalogVars
<1>2. ASSUME NEW a \in CatalogAdmins,
             \/ GroupRoutes(a) \/ ItemRoutes(a) \/ SectionRoutes(a)
             \/ SchemaRoutes(a) \/ SectionLifecycleRoutes(a)
      PROVE  CatalogIInv'
  <2>1. CASE \/ publishCatalogSection(a)
             \/ \E lv \in Levels : ReadDoomed(a, lv)
             \/ createSchemaVersion(a)
             \/ \E v \in Versions : updateSchemaVersion(a, v) \/ publishSchemaVersion(a, v)
    BY <2>1, AdminCallNext
  <2>2. ASSUME NEW st \in STATUS_VALUES,
               \/ createCatalogGroup(a, st) \/ updateCatalogGroup(a, st)
               \/ createCatalogItem(a, st) \/ updateCatalogItem(a, st)
               \/ createCatalogSection(a, st) \/ updateCatalogSection(a, st) \/ setCatalogSectionStatus(a, st)
        PROVE  CatalogIInv'
    BY <2>2, LevelNext
  <2>3. {"group", "item", "section"} = Levels /\ "hidden" \in STATUS_VALUES
    BY DEF Levels, STATUS_VALUES
  <2> QED
    BY <1>2, <2>1, <2>2, <2>3 DEF GroupRoutes, ItemRoutes, SectionRoutes, SchemaRoutes,
                                  SectionLifecycleRoutes
<1>3. ASSUME NEW a \in CatalogAdmins, ContinueCall(a) PROVE CatalogIInv'
  BY <1>3, ReadOnNext, WriteVersionNext, DeleteNext, PublicationNext DEF ContinueCall
<1>4. ASSUME NEW l \in Lots, SellerRoutes(l) \/ \E st \in ProductStatus : ModerateLot(l, st)
      PROVE  CatalogIInv'
  <2>1. CASE DeleteLot(l) \/ \E st \in ProductStatus : ModerateLot(l, st)
    BY <2>1, LotStatusNext
  <2>2. CASE \E place \in Places : CreateLot(l, place)
    BY <2>2, CreateLotNext
  <2>3. CASE \E to \in Places \cup {"keep"}, metadata \in BOOLEAN, st \in {"keep", "active", "paused"} :
               PatchLot(l, to, metadata, st)
    BY <2>3, PatchLotNext
  <2> QED
    BY <1>4, <2>1, <2>2, <2>3 DEF SellerRoutes
<1> QED
  BY <1>1, <1>2, <1>3, <1>4 DEF CatalogNext

(* The section points at its one active schema, and a listing is pinned to a *)
(* version that was published and is still there: publishSchemaVersion, the  *)
(* delete handlers and the listing routes, with any number of admins.        *)
THEOREM SectionsPointAtTheirSchema == CatalogSpec => []SectionPointsAtItsSchema
<1>1. CatalogIInv => SectionPointsAtItsSchema
  BY DEF CatalogIInv
<1> QED
  BY <1>1, CatalogInitInv, CatalogNextInv, PTL DEF CatalogSpec
----------------------------------------------------------------------------
(* The public cache: the inductive invariant *)

Visits ==
  [pc : {"idle", "read", "check", "query", "store", "answered"}, preview : BOOLEAN, snapshot : Int,
   items : SUBSET Items, edition : Nat, during : SUBSET Items, floor : Nat]
Entries == [gen : Int, items : SUBSET Items, edition : Nat, there : BOOLEAN]

CacheShape ==
  /\ edition \in Nat /\ generation \in Nat /\ floor \in Nat /\ floor <= edition
  /\ restarted \in BOOLEAN
  /\ cacheEntry \in Entries
  /\ visit \in [Visitors -> Visits]

\* A current entry is no older than the last advance of the generation.
EntryIsCurrent ==
  restarted \/ (/\ cacheEntry.gen <= generation
                /\ Current(cacheEntry) => cacheEntry.edition >= floor)

\* A request in progress knows what has been public since it began; what it
\* is about to store under the current generation was read after the advance.
VisitIsFair(r) ==
  /\ r.pc \notin {"idle", "answered"} => PublicItems \subseteq r.during
  /\ r.pc = "store" => r.items \subseteq r.during
  /\ r.pc = "answered" => r.preview \/ r.items \subseteq r.during
  /\ r.floor <= floor
  /\ \/ restarted
     \/ /\ r.snapshot <= generation
        /\ r.pc \in {"check", "store", "answered"} => r.edition >= r.floor
        /\ r.pc = "store" /\ r.snapshot = generation => r.edition >= floor

CacheIInv == CacheShape /\ EntryIsCurrent /\ \A v \in Visitors : VisitIsFair(visit[v])

LEMMA PublicItemsAreItems == PublicItems \subseteq Items
BY DEF PublicItems, Items

LEMMA IdleIsVisit == Idle \in Visits /\ Idle.snapshot = 0
BY DEF Idle, Visits

LEMMA NoEntryIsEntry == NoEntry \in Entries /\ NoEntry.gen = 0 /\ ~NoEntry.there
BY DEF NoEntry, Entries

LEMMA CacheInitInv == CacheInit => CacheIInv
<1> SUFFICES ASSUME CacheInit PROVE CacheIInv
  OBVIOUS
<1>1. CacheShape
  <2>1. cacheEntry \in Entries /\ visit \in [Visitors -> Visits]
    BY NoEntryIsEntry, IdleIsVisit DEF CacheInit
  <2>2. edition = 0 /\ generation = 0 /\ floor = 0 /\ restarted = FALSE
    BY DEF CacheInit
  <2>3. restarted \in BOOLEAN
    BY <2>2
  <2>4. edition \in Nat /\ generation \in Nat /\ floor \in Nat /\ floor <= edition
    BY <2>2
  <2> QED
    BY <2>1, <2>3, <2>4 DEF CacheShape
<1>2. EntryIsCurrent
  BY NoEntryIsEntry DEF CacheInit, EntryIsCurrent, Current
<1>3. \A v \in Visitors : VisitIsFair(visit[v])
  BY DEF CacheInit, VisitIsFair, Idle
<1> QED
  BY <1>1, <1>2, <1>3 DEF CacheIInv

----------------------------------------------------------------------------
(* A browse request *)

\* One request goes on; at most it stores its payload.
LEMMA OneVisitMoves ==
  ASSUME CacheIInv, NEW v \in Visitors, NEW r \in Visits,
         visit' = [visit EXCEPT ![v] = r], VisitIsFair(r),
         UNCHANGED <<on, edition, generation, restarted, floor>>,
         cacheEntry' \in Entries, EntryIsCurrent'
  PROVE  CacheIInv'
<1>1. /\ visit' \in [Visitors -> Visits]
      /\ \A u \in Visitors : visit'[u] = IF u = v THEN r ELSE visit[u]
  BY DEF CacheIInv, CacheShape
<1>2. CacheShape'
  BY <1>1 DEF CacheIInv, CacheShape
<1>3. PublicItems' = PublicItems
  BY DEF PublicItems, ProductIsPublic, publicProductEligibilitySql
<1>4. \A u \in Visitors : VisitIsFair(visit[u])'
  BY <1>1, <1>3 DEF CacheIInv, VisitIsFair
<1> QED
  BY <1>2, <1>4 DEF CacheIInv

\* The same with the entry as it was.
LEMMA VisitMoves ==
  ASSUME CacheIInv, NEW v \in Visitors, NEW r \in Visits,
         visit' = [visit EXCEPT ![v] = r], VisitIsFair(r),
         UNCHANGED <<on, edition, generation, restarted, floor, cacheEntry>>
  PROVE  CacheIInv'
<1>1. cacheEntry' \in Entries /\ EntryIsCurrent'
  BY DEF CacheIInv, CacheShape, EntryIsCurrent, Current
<1> QED
  BY <1>1, OneVisitMoves

LEMMA BeginVisitNext ==
  ASSUME CacheIInv, NEW v \in Visitors, NEW preview \in BOOLEAN, BeginVisit(v, preview)
  PROVE  CacheIInv'
<1> DEFINE public == PublicItems
           since == floor
           r == [Idle EXCEPT !.pc = "read", !.preview = preview, !.during = public, !.floor = since]
<1>1. visit' = [visit EXCEPT ![v] = r] /\ UNCHANGED <<on, edition, generation, restarted, floor, cacheEntry>>
  BY DEF BeginVisit
<1>2. public \in SUBSET Items /\ since \in Nat /\ since <= floor /\ PublicItems \subseteq public
  BY PublicItemsAreItems DEF CacheIInv, CacheShape
<1> HIDE DEF public, since
<1>3. /\ r \in Visits /\ r.pc = "read" /\ r.during = public /\ r.floor = since
      /\ r.snapshot = 0
  BY <1>2, IdleIsVisit DEF Visits
<1> HIDE DEF r
<1>4. VisitIsFair(r)
  BY <1>2, <1>3 DEF VisitIsFair, CacheIInv, CacheShape
<1> QED
  BY <1>1, <1>3, <1>4, VisitMoves

\* A hit takes the payload of a current entry; a miss, the generation.
LEMMA ReadNext ==
  ASSUME CacheIInv, NEW v \in Visitors, readMarketplaceCache(v) \/ ReadFails(v)
  PROVE  CacheIInv'
<1> DEFINE x == visit[v]
<1>1. x \in Visits /\ x.pc = "read" /\ VisitIsFair(x) /\ generation \in Nat /\ cacheEntry \in Entries
  BY DEF readMarketplaceCache, ReadFails, CacheIInv, CacheShape
<1>2. UNCHANGED <<on, edition, generation, restarted, floor, cacheEntry>>
  BY DEF readMarketplaceCache, ReadFails
<1>3. CASE readMarketplaceCache(v) /\ Current(cacheEntry)
  <2> DEFINE shown == cacheEntry.items
             ed == cacheEntry.edition
             gen == generation
             r == [x EXCEPT !.pc = "check", !.snapshot = gen, !.items = shown, !.edition = ed]
  <2>1. visit' = [visit EXCEPT ![v] = r]
    BY <1>3 DEF readMarketplaceCache
  <2>2. /\ shown \in SUBSET Items /\ ed \in Nat /\ gen \in Nat /\ gen = generation
        /\ restarted \/ ed >= floor
    BY <1>1, <1>3 DEF Entries, CacheIInv, EntryIsCurrent
  <2> HIDE DEF shown, ed, gen, x
  <2>3. /\ r \in Visits /\ r.pc = "check" /\ r.snapshot = gen /\ r.edition = ed
        /\ r.during = x.during /\ r.floor = x.floor /\ r.floor \in Nat
    <3> DEFINE half == [x EXCEPT !.pc = "check", !.snapshot = gen]
    <3>0. gen \in Int
      BY <2>2
    <3>1. /\ half \in Visits /\ half.pc = "check" /\ half.snapshot = gen
          /\ half.during = x.during /\ half.floor = x.floor /\ half.floor \in Nat
      BY <1>1, <3>0 DEF Visits
    <3>2. r = [half EXCEPT !.items = shown, !.edition = ed]
      BY <1>1 DEF Visits
    <3> HIDE DEF half, r
    <3> QED
      BY <2>2, <3>1, <3>2 DEF Visits
  <2> HIDE DEF r
  <2>4. floor \in Nat
    BY DEF CacheIInv, CacheShape
  <2>5. VisitIsFair(r)
    BY <1>1, <2>2, <2>3, <2>4 DEF VisitIsFair
  <2> QED
    BY <1>2, <2>1, <2>3, <2>5, VisitMoves
<1>4. CASE ~(readMarketplaceCache(v) /\ Current(cacheEntry))
  <2>1. PICK gen \in {generation, Unreachable} : visit' = [visit EXCEPT ![v] = [x EXCEPT !.pc = "query", !.snapshot = gen]]
    <3>1. CASE readMarketplaceCache(v)
      BY <1>4, <3>1 DEF readMarketplaceCache
    <3>2. CASE ReadFails(v)
      <4>1. visit' = [visit EXCEPT ![v].pc = "query", ![v].snapshot = Unreachable]
        BY <3>2 DEF ReadFails
      <4> QED
        BY <4>1 DEF CacheIInv, CacheShape
    <3> QED
      BY <3>1, <3>2
  <2>2. gen \in Int /\ gen <= generation
    BY <1>1 DEF Unreachable
  <2> DEFINE r == [x EXCEPT !.pc = "query", !.snapshot = gen]
  <2>3. visit' = [visit EXCEPT ![v] = r]
    BY <2>1
  <2> HIDE DEF x
  <2>4. /\ r \in Visits /\ r.pc = "query" /\ r.snapshot = gen
        /\ r.during = x.during /\ r.floor = x.floor
    BY <1>1, <2>2 DEF Visits
  <2> HIDE DEF r
  <2>5. VisitIsFair(r)
    BY <1>1, <2>2, <2>4 DEF VisitIsFair
  <2> QED
    BY <1>2, <2>3, <2>4, <2>5, VisitMoves
<1> QED
  BY <1>3, <1>4

LEMMA CheckHitNext ==
  ASSUME CacheIInv, NEW v \in Visitors, CheckHit(v)
  PROVE  CacheIInv'
<1> DEFINE x == visit[v]
           next == IF cachedContentIsPublic(x.items) THEN "answered" ELSE "query"
           r == [x EXCEPT !.pc = next]
<1>1. x \in Visits /\ x.pc = "check" /\ VisitIsFair(x)
  BY DEF CheckHit, CacheIInv, CacheShape
<1>2. visit' = [visit EXCEPT ![v] = r] /\ UNCHANGED <<on, edition, generation, restarted, floor, cacheEntry>>
  BY DEF CheckHit, CacheIInv, CacheShape
<1>3. next \in {"answered", "query"} /\ (next = "answered" => x.items \subseteq PublicItems)
  BY DEF cachedContentIsPublic
<1> HIDE DEF next, x
<1>4. /\ r \in Visits /\ r.pc = next /\ r.snapshot = x.snapshot /\ r.edition = x.edition
      /\ r.during = x.during /\ r.floor = x.floor /\ r.items = x.items
  BY <1>1, <1>3 DEF Visits
<1> HIDE DEF r
<1>5. VisitIsFair(r)
  BY <1>1, <1>3, <1>4 DEF VisitIsFair
<1> QED
  BY <1>2, <1>4, <1>5, VisitMoves

\* What a query returns is public at that moment, except to a previewer.
LEMMA LoadsNext ==
  ASSUME CacheIInv, NEW v \in Visitors, NEW k, NEW items \in SUBSET Items, NEW next \in {"store", "answered"},
         Loads(v, k, items, next), items \subseteq PublicItems \/ (next = "answered" /\ visit[v].preview)
  PROVE  CacheIInv'
<1> DEFINE x == visit[v]
           ed == edition
           r == [x EXCEPT !.pc = next, !.items = items, !.edition = ed]
<1>1. /\ x \in Visits /\ x.pc = "query" /\ VisitIsFair(x) /\ ed \in Nat /\ floor \in Nat /\ floor <= ed
  BY DEF Loads, CacheIInv, CacheShape
<1>2. visit' = [visit EXCEPT ![v].pc = next, ![v].items = items, ![v].edition = edition]
  BY DEF Loads
<1>3. visit' = [visit EXCEPT ![v] = r] /\ UNCHANGED <<on, edition, generation, restarted, floor, cacheEntry>>
  BY <1>2 DEF Loads, CacheIInv, CacheShape
<1>4. x.preview => visit[v].preview
  OBVIOUS
<1>5. items \subseteq PublicItems \/ (next = "answered" /\ x.preview)
  OBVIOUS
<1> HIDE DEF x, ed
<1>6. /\ r \in Visits /\ r.pc = next /\ r.snapshot = x.snapshot /\ r.edition = ed
      /\ r.during = x.during /\ r.floor = x.floor /\ r.items = items /\ r.preview = x.preview /\ r.floor \in Nat
  BY <1>1 DEF Visits
<1> HIDE DEF r
<1>7. VisitIsFair(r)
  BY <1>1, <1>5, <1>6 DEF VisitIsFair
<1> QED
  BY <1>3, <1>6, <1>7, VisitMoves

LEMMA QueryNext ==
  ASSUME CacheIInv, NEW v \in Visitors, GetProduct(v) \/ GetProducts(v) \/ GetGames(v) \/ GetCategories(v)
  PROVE  CacheIInv'
<1> DEFINE some == PublicItems \ {"game"}
           games == PublicItems \cap {"game"}
           draft == {"product"} \cup (IF "approved" \in on THEN {"media"} ELSE {})
<1>1. /\ some \in SUBSET Items /\ some \subseteq PublicItems /\ games \in SUBSET Items
      /\ games \subseteq PublicItems /\ {} \in SUBSET Items /\ {} \subseteq PublicItems
  BY PublicItemsAreItems
<1>2. draft \in SUBSET Items
  BY DEF Items
<1>3. \/ \E k : Loads(v, k, some, "store")
      \/ \E k : Loads(v, k, games, "store")
      \/ \E k : Loads(v, k, {}, "store")
      \/ \E k : Loads(v, k, {}, "answered")
      \/ visit[v].preview /\ \E k : Loads(v, k, draft, "answered")
  BY DEF GetProduct, GetProducts, GetGames, GetCategories
<1> HIDE DEF some, games, draft
<1> QED
  BY <1>1, <1>2, <1>3, LoadsNext

LEMMA StoreNext ==
  ASSUME CacheIInv, NEW v \in Visitors, setMarketplaceCacheIfCurrent(v) \/ StoreFails(v)
  PROVE  CacheIInv'
<1> DEFINE x == visit[v]
           r == [x EXCEPT !.pc = "answered"]
           entry == [gen |-> x.snapshot, items |-> x.items, edition |-> x.edition, there |-> TRUE]
<1>1. x \in Visits /\ x.pc = "store" /\ VisitIsFair(x)
  BY DEF setMarketplaceCacheIfCurrent, StoreFails, CacheIInv, CacheShape
<1>2. visit' = [visit EXCEPT ![v] = r] /\ UNCHANGED <<on, edition, generation, restarted, floor>>
  BY DEF setMarketplaceCacheIfCurrent, StoreFails, CacheIInv, CacheShape
<1>3. cacheEntry' = cacheEntry \/ (cacheEntry' = entry /\ x.snapshot = generation)
  BY DEF setMarketplaceCacheIfCurrent, StoreFails
<1> HIDE DEF x
<1>4. /\ r \in Visits /\ r.pc = "answered" /\ r.snapshot = x.snapshot /\ r.edition = x.edition
      /\ r.during = x.during /\ r.floor = x.floor /\ r.items = x.items
  BY <1>1 DEF Visits
<1>5. entry \in Entries /\ entry.gen = x.snapshot /\ entry.edition = x.edition
  BY <1>1 DEF Visits, Entries
<1> HIDE DEF r, entry
<1>6. VisitIsFair(r)
  BY <1>1, <1>4 DEF VisitIsFair
<1>7. cacheEntry' \in Entries /\ EntryIsCurrent'
  <2>1. CASE cacheEntry' = cacheEntry
    BY <1>2, <2>1 DEF CacheIInv, CacheShape, EntryIsCurrent, Current
  <2>2. CASE cacheEntry' = entry /\ x.snapshot = generation
    <3>1. restarted \/ x.edition >= floor
      BY <1>1, <2>2 DEF VisitIsFair
    <3>2. generation \in Nat
      BY DEF CacheIInv, CacheShape
    <3> QED
      BY <1>2, <1>5, <2>2, <3>1, <3>2 DEF EntryIsCurrent, Current
  <2> QED
    BY <1>3, <2>1, <2>2
<1> QED
  BY <1>2, <1>4, <1>6, <1>7, OneVisitMoves
----------------------------------------------------------------------------
(* Changes and invalidations *)

\* The commit of a change: requests in progress see what it makes public.
LEMMA CommitContentNext ==
  ASSUME CacheIInv, NEW w \in Editors, NEW facts, NEW next, NEW announced,
         Commit(w, facts, edition + 1, next, announced)
  PROVE  CacheIInv'
<1> DEFINE shownNow == PublicItems'
<1>1. /\ edition \in Nat /\ edition' = edition + 1
      /\ generation' = generation /\ floor' = floor /\ restarted' = restarted /\ cacheEntry' = cacheEntry
      /\ floor \in Nat /\ floor <= edition /\ generation \in Nat /\ restarted \in BOOLEAN
      /\ cacheEntry \in Entries /\ visit \in [Visitors -> Visits]
  BY DEF Commit, CacheIInv, CacheShape
<1>2. visit' = [v \in Visitors |-> IF visit[v].pc \in {"idle", "answered"} THEN visit[v]
                                   ELSE [visit[v] EXCEPT !.during = @ \cup shownNow]]
  BY DEF Commit
<1>3. shownNow \in SUBSET Items
  BY DEF PublicItems, Items
<1> HIDE DEF shownNow
<1>4. ASSUME NEW v \in Visitors
      PROVE  visit'[v] \in Visits /\ VisitIsFair(visit[v])'
  <2> DEFINE x == visit[v]
             during == x.during \cup shownNow
             r == [x EXCEPT !.during = during]
  <2>1. x \in Visits /\ VisitIsFair(x)
    BY <1>1 DEF CacheIInv
  <2>2. visit'[v] = IF x.pc \in {"idle", "answered"} THEN x ELSE r
    BY <1>2
  <2>3. during \in SUBSET Items /\ x.during \subseteq during /\ shownNow \subseteq during
    BY <1>3, <2>1 DEF Visits
  <2> HIDE DEF during, x
  <2>4. /\ r \in Visits /\ r.pc = x.pc /\ r.snapshot = x.snapshot /\ r.edition = x.edition
        /\ r.during = during /\ r.floor = x.floor /\ r.items = x.items /\ r.preview = x.preview
    BY <2>1, <2>3 DEF Visits
  <2> HIDE DEF r
  <2>5. CASE x.pc \in {"idle", "answered"}
    <3>1. visit'[v] = x
      BY <2>2, <2>5
    <3>2. /\ x.pc # "store" /\ (x.pc = "answered" => x.preview \/ x.items \subseteq x.during)
          /\ x.floor <= floor
          /\ \/ restarted
             \/ /\ x.snapshot <= generation
                /\ x.pc \in {"check", "store", "answered"} => x.edition >= x.floor
      BY <2>1, <2>5 DEF VisitIsFair
    <3> QED
      BY <1>1, <2>1, <2>5, <3>1, <3>2 DEF VisitIsFair
  <2>6. CASE x.pc \notin {"idle", "answered"}
    <3>1. visit'[v] = r
      BY <2>2, <2>6
    <3>2. PublicItems' \subseteq r.during
      BY <2>3, <2>4 DEF shownNow
    <3>3. /\ x.pc = "store" => x.items \subseteq during
          /\ x.floor <= floor
          /\ \/ restarted
             \/ /\ x.snapshot <= generation
                /\ x.pc \in {"check", "store", "answered"} => x.edition >= x.floor
                /\ x.pc = "store" /\ x.snapshot = generation => x.edition >= floor
      BY <2>1, <2>3 DEF VisitIsFair
    <3> QED
      BY <1>1, <2>4, <2>6, <3>1, <3>2, <3>3 DEF VisitIsFair
  <2> QED
    BY <2>5, <2>6
<1>5. CacheShape'
  <2>1. visit' \in [Visitors -> Visits]
    BY <1>2, <1>4
  <2>2. edition' \in Nat /\ floor' <= edition'
    BY <1>1
  <2> QED
    BY <1>1, <2>1, <2>2 DEF CacheShape
<1>6. EntryIsCurrent'
  BY <1>1 DEF CacheIInv, EntryIsCurrent, Current
<1> QED
  BY <1>4, <1>5, <1>6 DEF CacheIInv

LEMMA ChangeNext ==
  ASSUME CacheIInv, NEW w \in Editors,
         \/ ChangeListing(w) \/ ModerateListing(w) \/ ModerateMedia(w) \/ BanSeller(w)
         \/ ChangeItem(w) \/ ChangeGroup(w)
  PROVE  CacheIInv'
<1>1. \E facts, next, announced : Commit(w, facts, edition + 1, next, announced)
  BY DEF ChangeListing, ModerateListing, ModerateMedia, BanSeller, ChangeItem, ChangeGroup
<1> QED
  BY <1>1, CommitContentNext

\* The generation goes beyond every entry and every reader's snapshot.
LEMMA AdvancedNext ==
  ASSUME CacheIInv, Advanced, UNCHANGED <<on, edition, cacheEntry, visit, restarted>>
  PROVE  CacheIInv'
<1>1. /\ edition \in Nat /\ generation \in Nat /\ floor \in Nat /\ floor <= edition
      /\ generation' = generation + 1 /\ floor' = edition /\ restarted \in BOOLEAN
      /\ cacheEntry \in Entries /\ visit \in [Visitors -> Visits]
  BY DEF Advanced, CacheIInv, CacheShape
<1>2. CacheShape'
  BY <1>1 DEF CacheShape
<1>3. EntryIsCurrent'
  BY <1>1 DEF CacheIInv, EntryIsCurrent, Current, Entries
<1>4. PublicItems' = PublicItems
  BY DEF PublicItems, ProductIsPublic, publicProductEligibilitySql
<1>5. ASSUME NEW v \in Visitors PROVE VisitIsFair(visit[v])'
  <2> DEFINE x == visit[v]
  <2>1. VisitIsFair(x) /\ x \in Visits /\ visit'[v] = x
    BY <1>1 DEF CacheIInv
  <2>2. x.snapshot \in Int /\ x.edition \in Nat /\ x.floor \in Nat
    BY <2>1 DEF Visits
  <2> HIDE DEF x
  <2>3. x.floor <= floor'
    BY <1>1, <2>1, <2>2 DEF VisitIsFair
  <2>4. \/ restarted
        \/ /\ x.snapshot <= generation' /\ x.snapshot # generation'
           /\ x.pc \in {"check", "store", "answered"} => x.edition >= x.floor
    BY <1>1, <2>1, <2>2 DEF VisitIsFair
  <2> QED
    BY <1>4, <2>1, <2>3, <2>4 DEF VisitIsFair
<1> QED
  BY <1>2, <1>3, <1>5 DEF CacheIInv

\* Entries go.
LEMMA EntryGoesNext ==
  ASSUME CacheIInv, cacheEntry' \in {NoEntry, cacheEntry},
         UNCHANGED <<on, edition, generation, visit, restarted, floor>>
  PROVE  CacheIInv'
<1>1. CacheShape'
  BY NoEntryIsEntry DEF CacheIInv, CacheShape
<1>2. EntryIsCurrent'
  BY NoEntryIsEntry DEF CacheIInv, CacheShape, EntryIsCurrent, Current
<1>3. PublicItems' = PublicItems
  BY DEF PublicItems, ProductIsPublic, publicProductEligibilitySql
<1>4. \A v \in Visitors : VisitIsFair(visit[v])'
  BY <1>3 DEF CacheIInv, VisitIsFair
<1> QED
  BY <1>1, <1>2, <1>4 DEF CacheIInv

LEMMA RestartNext ==
  ASSUME CacheIInv, RedisRestarts
  PROVE  CacheIInv'
<1>1. /\ UNCHANGED <<on, edition, visit, floor>> /\ generation' = 0 /\ cacheEntry' = NoEntry
      /\ restarted' = TRUE
  BY DEF RedisRestarts
<1>2. CacheShape'
  <2>1. generation' \in Nat /\ restarted' \in BOOLEAN
    BY <1>1
  <2> QED
    BY <1>1, <2>1, NoEntryIsEntry DEF CacheIInv, CacheShape
<1>3. PublicItems' = PublicItems
  BY <1>1 DEF PublicItems, ProductIsPublic, publicProductEligibilitySql
<1>4. EntryIsCurrent' /\ \A v \in Visitors : VisitIsFair(visit[v])'
  BY <1>1, <1>3 DEF CacheIInv, EntryIsCurrent, VisitIsFair
<1> QED
  BY <1>2, <1>4 DEF CacheIInv

----------------------------------------------------------------------------
(* The theorem *)

LEMMA CacheNextInv == CacheIInv /\ [CacheNext]_cacheVars => CacheIInv'
<1> SUFFICES ASSUME CacheIInv, [CacheNext]_cacheVars PROVE CacheIInv'
  OBVIOUS
<1>1. ASSUME NEW v \in Visitors,
             \/ \E preview \in BOOLEAN : BeginVisit(v, preview)
             \/ readMarketplaceCache(v) \/ ReadFails(v) \/ CheckHit(v)
             \/ GetProduct(v) \/ GetProducts(v) \/ GetGames(v) \/ GetCategories(v)
             \/ setMarketplaceCacheIfCurrent(v) \/ StoreFails(v)
      PROVE  CacheIInv'
  BY <1>1, BeginVisitNext, ReadNext, CheckHitNext, QueryNext, StoreNext
<1>2. ASSUME NEW w \in Editors,
             \/ ChangeListing(w) \/ ModerateListing(w) \/ ModerateMedia(w) \/ BanSeller(w)
             \/ ChangeItem(w) \/ ChangeGroup(w)
      PROVE  CacheIInv'
  BY <1>2, ChangeNext
<1>3. ASSUME NEW w \in Editors,
             AdvanceGeneration(w) \/ DeleteKeys(w) \/ SweepProducts(w) \/ EditorCrashes(w)
      PROVE  CacheIInv'
  <2>1. UNCHANGED <<on, edition, visit, restarted>>
    BY <1>3 DEF AdvanceGeneration, DeleteKeys, SweepProducts, EditorCrashes
  <2>2. \/ Advanced /\ cacheEntry' = cacheEntry
        \/ UNCHANGED <<generation, floor>> /\ cacheEntry' \in {NoEntry, cacheEntry}
    BY <1>3 DEF AdvanceGeneration, DeleteKeys, SweepProducts, EditorCrashes
  <2> QED
    BY <2>1, <2>2, AdvancedNext, EntryGoesNext
<1>4. CASE HandleEvent \/ HandlerFails \/ Expire
  <2>1. UNCHANGED <<on, edition, visit, restarted>>
    BY <1>4 DEF HandleEvent, HandlerFails, Expire
  <2>2. \/ Advanced /\ cacheEntry' = cacheEntry
        \/ UNCHANGED <<generation, floor>> /\ cacheEntry' \in {NoEntry, cacheEntry}
    BY <1>4 DEF HandleEvent, HandlerFails, Expire
  <2> QED
    BY <2>1, <2>2, AdvancedNext, EntryGoesNext
<1>5. CASE RedisRestarts
  BY <1>5, RestartNext
<1>6. CASE UNCHANGED cacheVars
  BY <1>6, EntryGoesNext DEF cacheVars
<1> QED
  BY <1>1, <1>2, <1>3, <1>4, <1>5, <1>6 DEF CacheNext

(* What a visitor is shown was public at some moment of the request, and not *)
(* older than the last invalidation before it: readMarketplaceCache,         *)
(* cachedContentIsPublic, setMarketplaceCacheIfCurrent against the           *)
(* invalidations, for any number of readers and editors.                     *)
THEOREM ServedIsPublic == CacheSpec => []ServedIsPublicAndFresh
<1>1. CacheIInv => ServedIsPublicAndFresh
  BY DEF CacheIInv, VisitIsFair, ServedIsPublicAndFresh
<1> QED
  BY <1>1, CacheInitInv, CacheNextInv, PTL DEF CacheSpec
----------------------------------------------------------------------------
(* Paging: the order of the rows *)

CursorKeys == [rank : Int, at : Int, id : Int]

\* Both orders are strict and total on keys, as far as the ids tell them apart.
LEMMA CursorOrder ==
  ASSUME NEW a \in CursorKeys, NEW b \in CursorKeys, NEW c \in CursorKeys
  PROVE  /\ ~marketplaceCursorWhere(a, a)
         /\ marketplaceCursorWhere(a, b) => ~marketplaceCursorWhere(b, a)
         /\ marketplaceCursorWhere(a, b) /\ marketplaceCursorWhere(b, c) => marketplaceCursorWhere(a, c)
         /\ a.id # b.id => marketplaceCursorWhere(a, b) \/ marketplaceCursorWhere(b, a)
<1>1. /\ a.rank \in Int /\ a.at \in Int /\ a.id \in Int /\ b.rank \in Int /\ b.at \in Int /\ b.id \in Int
      /\ c.rank \in Int /\ c.at \in Int /\ c.id \in Int
  BY DEF CursorKeys
<1>2. CASE list.order = "search"
  BY <1>1, <1>2 DEF marketplaceCursorWhere, searchCursorWhere
<1>3. CASE list.order # "search"
  BY <1>1, <1>3 DEF marketplaceCursorWhere, keysetWhereClause
<1> QED
  BY <1>2, <1>3

PagingShape ==
  /\ list \in Lists /\ limit \in 1 .. MaxLimit
  /\ at \in [RowIds -> Int] /\ rank \in [RowIds -> Int]
  /\ tableRows \subseteq RowIds /\ steady \subseteq tableRows
  /\ list.precise => cursor \in CursorKeys
  /\ phase \in {"first", "next", "done"}
  /\ seen \in [RowIds -> Nat]

LEMMA KeysOfRows ==
  ASSUME PagingShape, NEW r \in RowIds
  PROVE  Key(r) \in CursorKeys /\ Key(r).id = r /\ Key(r) # NoCursor
<1>1. at[r] \in Int /\ rank[r] \in Int /\ r \in Int /\ r # 0
  BY PagingAssumption DEF PagingShape, RowIds
<1> QED
  BY <1>1 DEF Key, CursorKeys, NoCursor

After(r, s) == marketplaceCursorWhere(Key(r), Key(s))

LEMMA RowOrder ==
  ASSUME PagingShape
  PROVE  /\ \A r \in RowIds : ~After(r, r)
         /\ \A r, s \in RowIds : After(r, s) => ~After(s, r)
         /\ \A r, s \in RowIds : r # s => After(r, s) \/ After(s, r)
         /\ \A r, s, t \in RowIds : After(r, s) /\ After(s, t) => After(r, t)
<1>1. \A r \in RowIds : Key(r) \in CursorKeys /\ Key(r).id = r
  BY KeysOfRows
<1> QED
  BY <1>1, CursorOrder DEF After

----------------------------------------------------------------------------
(* Paging: places in a finite set of rows *)

\* How many rows of S come before r.
Place(S, r) == Cardinality({s \in S : After(r, s)})

LEMMA RowsAreFinite ==
  ASSUME NEW S, S \subseteq RowIds
  PROVE  IsFiniteSet(S) /\ Cardinality(S) \in Nat
<1>1. IsFiniteSet(RowIds)
  BY FS_Interval, PagingAssumption DEF RowIds
<1> QED
  BY <1>1, FS_Subset, FS_CardinalityType

\* Places go from 0 to the last and follow the order.
LEMMA PlacesFollowOrder ==
  ASSUME PagingShape, NEW S, S \subseteq RowIds, NEW r \in S
  PROVE  /\ Place(S, r) \in Nat /\ Place(S, r) < Cardinality(S)
         /\ \A s \in S : After(r, s) => Place(S, s) < Place(S, r)
<1> DEFINE Below(x) == {s \in S : After(x, s)}
<1>1. \A x \in S : Below(x) \subseteq S /\ Below(x) \subseteq RowIds /\ Place(S, x) = Cardinality(Below(x))
  BY DEF Place
<1>2. r \notin Below(r) /\ r \in RowIds
  BY RowOrder
<1>3. /\ IsFiniteSet(S) /\ Cardinality(S) \in Nat
      /\ \A x \in S : IsFiniteSet(Below(x)) /\ Cardinality(Below(x)) \in Nat
  BY <1>1, RowsAreFinite
<1>4. Place(S, r) < Cardinality(S)
  <2>1. Cardinality(Below(r)) <= Cardinality(S) /\ Cardinality(Below(r)) # Cardinality(S)
    BY <1>1, <1>2, <1>3, FS_Subset
  <2> DEFINE B == Cardinality(Below(r))
             C == Cardinality(S)
  <2>2. B <= C /\ B # C /\ B \in Nat /\ C \in Nat
    BY <1>3, <2>1
  <2> HIDE DEF B, C
  <2>3. B < C
    BY <2>2
  <2> QED
    BY <1>1, <2>3 DEF B, C
<1>5. ASSUME NEW s \in S, After(r, s) PROVE Place(S, s) < Place(S, r)
  <2>1. Below(s) \subseteq Below(r)
    BY <1>5, RowOrder
  <2>2. s \in Below(r) /\ s \notin Below(s)
    BY <1>5, RowOrder
  <2>3. Cardinality(Below(s)) <= Cardinality(Below(r)) /\ Cardinality(Below(s)) # Cardinality(Below(r))
    BY <1>3, <2>1, <2>2, FS_Subset
  <2> DEFINE B == Cardinality(Below(r))
             C == Cardinality(Below(s))
  <2>4. C <= B /\ B # C /\ B \in Nat /\ C \in Nat
    BY <1>3, <2>3
  <2> HIDE DEF B, C
  <2>5. C < B
    BY <2>4
  <2> QED
    BY <1>1, <2>5 DEF B, C
<1> QED
  BY <1>1, <1>3, <1>4, <1>5

LEMMA PlacesDecideOrder ==
  ASSUME PagingShape, NEW S, S \subseteq RowIds, NEW r \in S, NEW s \in S
  PROVE  /\ Place(S, r) < Place(S, s) => After(s, r)
         /\ Place(S, r) = Place(S, s) => r = s
<1>1. Place(S, r) \in Nat /\ Place(S, s) \in Nat
  BY PlacesFollowOrder
<1>2. After(r, s) => Place(S, s) < Place(S, r)
  BY PlacesFollowOrder
<1>3. After(s, r) => Place(S, r) < Place(S, s)
  BY PlacesFollowOrder
<1>4. r = s \/ After(r, s) \/ After(s, r)
  BY RowOrder
<1> QED
  BY <1>1, <1>2, <1>3, <1>4

\* Every place is taken: there are as many rows as places and no two share one.
LEMMA EveryPlaceIsTaken ==
  ASSUME PagingShape, NEW S, S \subseteq RowIds, NEW n \in Nat, n < Cardinality(S)
  PROVE  \E r \in S : Place(S, r) = n
<1> DEFINE C == Cardinality(S)
           P == 0 .. C - 1
           f == [r \in S |-> Place(S, r)]
<1>1. IsFiniteSet(S) /\ C \in Nat
  BY RowsAreFinite
<1>2. n \in P /\ IsFiniteSet(P) /\ Cardinality(P) = C
  <2>1. C - 1 \in Int /\ 0 \in Int /\ n \in P
    BY <1>1
  <2>2. IsFiniteSet(P) /\ Cardinality(P) = IF 0 > C - 1 THEN 0 ELSE C - 1 - 0 + 1
    BY <2>1, FS_Interval
  <2> HIDE DEF P, C
  <2>3. (IF 0 > C - 1 THEN 0 ELSE C - 1 - 0 + 1) = C
    BY <1>1
  <2> QED
    BY <2>1, <2>2, <2>3
<1>3. f \in [S -> P]
  <2>1. \A r \in S : Place(S, r) \in Nat /\ Place(S, r) < C
    BY PlacesFollowOrder
  <2> HIDE DEF C
  <2>2. \A r \in S : Place(S, r) \in P
    BY <1>1, <2>1
  <2> QED
    BY <2>2
<1>4. \A r, s \in S : f[r] = f[s] => r = s
  BY PlacesDecideOrder
<1> HIDE DEF f
<1>5. f \in Injection(S, P)
  BY <1>3, <1>4 DEF Injection, IsInjective
<1>6. f \in Surjection(S, P)
  BY <1>2, <1>5, FS_Injection DEF C
<1>7. \E r \in S : f[r] = n
  BY <1>2, <1>6 DEF Surjection
<1> QED
  BY <1>7 DEF f
----------------------------------------------------------------------------
(* Paging: a page *)

LEMMA FirstRowsByPlace ==
  ASSUME NEW S, NEW n
  PROVE  FirstRows(n, S) = {r \in S : Place(S, r) < n}
BY DEF FirstRows, Place, After

\* One row more than the page is fetched: what is shown is the first rows,
\* and if no row was fetched ahead it is all of them.
LEMMA ShownRows ==
  ASSUME PagingShape, NEW S, S \subseteq RowIds, NEW n \in Nat
  PROVE  LET fetched == FirstRows(n + 1, S)
             shown   == FirstRows(n, fetched)
         IN  /\ fetched \subseteq S
             /\ shown = {r \in S : Place(S, r) < n}
             /\ Cardinality(fetched) <= n => shown = S
             /\ Cardinality(fetched) > n => Cardinality(S) > n
<1> DEFINE fetched == FirstRows(n + 1, S)
           shown   == FirstRows(n, fetched)
<1>1. fetched = {r \in S : Place(S, r) < n + 1}
  BY FirstRowsByPlace
<1>2. shown = {r \in fetched : Place(fetched, r) < n}
  BY FirstRowsByPlace
<1>3. fetched \subseteq S /\ fetched \subseteq RowIds
  BY <1>1
<1> HIDE DEF fetched, shown
<1>4. \A r \in S : Place(S, r) \in Nat /\ Place(S, r) < Cardinality(S)
  BY PlacesFollowOrder
<1>5. ASSUME NEW r \in fetched PROVE Place(fetched, r) = Place(S, r)
  <2>1. \A s \in S : After(r, s) => s \in fetched
    <3> SUFFICES ASSUME NEW s \in S, After(r, s) PROVE s \in fetched
      OBVIOUS
    <3>1. Place(S, s) < Place(S, r) /\ Place(S, r) < n + 1
      BY <1>1, PlacesFollowOrder
    <3>2. Place(S, s) < n + 1
      BY <1>1, <1>4, <3>1
    <3> QED
      BY <1>1, <3>2
  <2>2. {s \in fetched : After(r, s)} = {s \in S : After(r, s)}
    BY <1>3, <2>1
  <2> QED
    BY <2>2 DEF Place
<1>6. shown = {r \in S : Place(S, r) < n}
  BY <1>1, <1>2, <1>4, <1>5
<1>7. IsFiniteSet(S) /\ Cardinality(S) \in Nat /\ Cardinality(fetched) \in Nat
      /\ Cardinality(fetched) <= Cardinality(S)
  BY <1>3, RowsAreFinite, FS_Subset
<1>8. ASSUME Cardinality(fetched) <= n PROVE shown = S
  <2>1. Cardinality(S) <= n
    <3> SUFFICES ASSUME n < Cardinality(S) PROVE FALSE
      BY <1>7
    <3>1. PICK r \in S : Place(S, r) = n
      BY EveryPlaceIsTaken
    <3>2. r \in fetched
      BY <1>1, <3>1
    <3>3. Place(fetched, r) < Cardinality(fetched)
      BY <1>3, <3>2, PlacesFollowOrder
    <3> QED
      BY <1>5, <1>7, <1>8, <3>1, <3>2, <3>3
  <2>2. \A r \in S : Place(S, r) < n
    BY <1>4, <1>7, <2>1
  <2> QED
    BY <1>6, <2>2
<1>9. Cardinality(fetched) > n => Cardinality(S) > n
  BY <1>7
<1> QED
  BY <1>3, <1>6, <1>8, <1>9 DEF fetched, shown

\* The last row of a page that is not the last page: it is shown, and the rows
\* that come after it are those that are not.
LEMMA LastShownRow ==
  ASSUME PagingShape, NEW S, S \subseteq RowIds, NEW n \in Nat \ {0}, n < Cardinality(S)
  PROVE  LET shown == {r \in S : Place(S, r) < n}
         IN  /\ LastRow(shown) \in shown
             /\ \A r \in S : After(r, LastRow(shown)) <=> r \notin shown
<1> DEFINE shown == {r \in S : Place(S, r) < n}
<1>1. PICK z \in S : Place(S, z) = n - 1
  <2>1. n - 1 \in Nat /\ n - 1 < Cardinality(S)
    BY RowsAreFinite
  <2> QED
    BY <2>1, EveryPlaceIsTaken
<1>2. z \in shown
  BY <1>1
<1>3. \A r \in S : Place(S, r) \in Nat
  BY PlacesFollowOrder
<1>4. ASSUME NEW r \in S, Place(S, r) < n PROVE r = z \/ After(z, r)
  <2>1. Place(S, r) < Place(S, z) \/ Place(S, r) = Place(S, z)
    BY <1>1, <1>3, <1>4
  <2> QED
    BY <2>1, PlacesDecideOrder
<1>5. \A r \in shown \ {z} : marketplaceCursorWhere(Key(z), Key(r))
  BY <1>4 DEF After
<1>6. /\ LastRow(shown) \in shown
      /\ \A r \in shown \ {LastRow(shown)} : marketplaceCursorWhere(Key(LastRow(shown)), Key(r))
  BY <1>2, <1>5 DEF LastRow
<1> DEFINE y == LastRow(shown)
<1>7. y \in shown /\ y \in S /\ y \in RowIds /\ \A r \in shown \ {y} : After(y, r)
  BY <1>6 DEF After
<1> HIDE DEF y
<1>8. ASSUME NEW r \in S PROVE After(r, y) <=> r \notin shown
  <2>1. CASE r \in shown
    BY <1>7, <2>1, RowOrder
  <2>2. CASE r \notin shown
    <3>1. Place(S, y) < Place(S, r)
      BY <1>3, <1>7, <2>2
    <3> QED
      BY <1>7, <2>2, <3>1, PlacesDecideOrder
  <2> QED
    BY <2>1, <2>2
<1> QED
  BY <1>7, <1>8 DEF y

----------------------------------------------------------------------------
(* Paging: the inductive invariant *)

\* Of the rows that matched all along, those up to the cursor were returned
\* once and those after it not yet.
WalkedSoFar ==
  list.precise =>
    /\ phase = "first" => \A r \in RowIds : seen[r] = 0
    /\ phase = "next" => \A r \in steady : seen[r] = IF marketplaceCursorWhere(Key(r), cursor) THEN 0 ELSE 1
    /\ EachSteadyRowOnce

PagingIInv == PagingShape /\ WalkedSoFar

LEMMA PreciseListsLookAhead == \A c \in Lists : c.precise => c.lookahead
BY DEF Lists, Contract, FavoriteIds, Favorites, SellerProducts, SellerFavorites, BlockedUsers,
       Notifications, MyTickets, AdminTickets, MyReports, AdminUsers, AdminMedia, AdminAudit,
       AdminListings, ConversationPage, NewestProducts, getUserConversationPage, RankedProducts,
       AdminReports, SearchedProducts, Orders, PendingOrders, PayoutRequests, Transactions,
       LedgerEntries, Reconciliations, ReconciliationExport, Disputes, listDisputeMessagePage

LEMMA PagingInitInv == PagingInit => PagingIInv
<1> SUFFICES ASSUME PagingInit PROVE PagingIInv
  OBVIOUS
<1>1. at \in [RowIds -> Int]
  BY PagingAssumption DEF PagingInit
<1>2. rank \in [RowIds -> Int]
  <2> DEFINE R == IF list.order \in {"ranked", "search"} THEN Ranks ELSE {1}
  <2>1. R \subseteq Int
    BY PagingAssumption
  <2>2. rank \in [RowIds -> R]
    BY DEF PagingInit
  <2> HIDE DEF R
  <2> QED
    BY <2>1, <2>2
<1>3. PICK n \in 0 .. RowCount : tableRows = 1 .. n
  BY DEF PagingInit
<1>4. tableRows \subseteq RowIds
  BY <1>3, PagingAssumption DEF RowIds
<1>5. NoCursor \in CursorKeys
  BY DEF NoCursor, CursorKeys
<1>6. PagingShape
  BY <1>1, <1>2, <1>4, <1>5 DEF PagingInit, PagingShape
<1>7. WalkedSoFar
  BY DEF PagingInit, WalkedSoFar, EachSteadyRowOnce
<1> QED
  BY <1>6, <1>7 DEF PagingIInv
----------------------------------------------------------------------------
(* Paging: the steps *)

\* A page of a walk of S: the rows that match now and come after the cursor.
LEMMA PageNext ==
  ASSUME PagingIInv, NEW S, S \subseteq tableRows, Page(S),
         steady' \subseteq S \union steady, steady' \subseteq tableRows,
         list.precise =>
           /\ \A r \in steady' : seen[r] = IF r \in S THEN 0 ELSE 1
           /\ \A r \in steady' \ S, s \in S : ~After(r, s)
  PROVE  PagingIInv'
<1> DEFINE fetched == FirstRows(IF list.lookahead THEN limit + 1 ELSE limit, S)
           shown   == FirstRows(limit, fetched)
           next    == IF list.lookahead THEN buildLookaheadNextCursor(fetched) ELSE buildNextCursor(fetched)
<1>1. /\ seen' = [r \in RowIds |-> IF r \in shown THEN seen[r] + 1 ELSE seen[r]]
      /\ cursor' = next
      /\ phase' = IF next = NoCursor THEN "done" ELSE "next"
      /\ list' = list /\ limit' = limit /\ at' = at /\ rank' = rank /\ tableRows' = tableRows
  BY DEF Page
<1>2. /\ S \subseteq RowIds /\ limit \in Nat \ {0} /\ seen \in [RowIds -> Nat] /\ PagingShape
      /\ list \in Lists /\ tableRows \subseteq RowIds /\ steady' \subseteq RowIds
  BY PagingAssumption DEF PagingIInv, PagingShape
<1>3. seen' \in [RowIds -> Nat]
  <2> HIDE DEF shown
  <2>1. \A r \in RowIds : seen[r] + 1 \in Nat
    BY <1>2
  <2> QED
    BY <1>1, <1>2, <2>1
<1>4. phase' \in {"done", "next"}
  BY <1>1
<1>5. \A r \in RowIds : \A c : cursor' = c =>
        (marketplaceCursorWhere(Key(r), cursor)' <=> marketplaceCursorWhere(Key(r), c))
  BY <1>1 DEF marketplaceCursorWhere, searchCursorWhere, keysetWhereClause, Key
<1>6. ASSUME list.precise
      PROVE  cursor' \in CursorKeys /\ WalkedSoFar'
  <2>1. list.lookahead
    BY <1>2, <1>6, PreciseListsLookAhead
  <2>2. /\ fetched = FirstRows(limit + 1, S)
        /\ next = IF Cardinality(fetched) <= limit THEN NoCursor ELSE encodeCursor(LastRow(shown))
    BY <2>1 DEF buildLookaheadNextCursor
  <2>3. /\ fetched \subseteq S
        /\ shown = {r \in S : Place(S, r) < limit}
        /\ Cardinality(fetched) <= limit => shown = S
        /\ Cardinality(fetched) > limit => Cardinality(S) > limit
    BY <1>2, <2>2, ShownRows
  <2>4. /\ \A r \in steady' : seen[r] = IF r \in S THEN 0 ELSE 1
        /\ \A r \in steady' \ S, s \in S : ~After(r, s)
    BY <1>6
  <2>5. Cardinality(fetched) \in Nat
    BY <1>2, <2>3, RowsAreFinite
  <2> HIDE DEF fetched, shown, next
  <2>6. \A r \in steady' : seen'[r] = IF r \in shown \/ r \notin S THEN 1 ELSE 0
    BY <1>1, <1>2, <2>3, <2>4
  <2>7. CASE Cardinality(fetched) <= limit
    <3>1. cursor' = NoCursor /\ phase' = "done" /\ shown = S
      BY <1>1, <2>2, <2>3, <2>7
    <3>2. \A r \in steady' : seen'[r] = 1
      BY <2>6, <3>1
    <3>3. NoCursor \in CursorKeys
      BY DEF NoCursor, CursorKeys
    <3> QED
      BY <3>1, <3>2, <3>3 DEF WalkedSoFar, EachSteadyRowOnce
  <2>8. CASE ~(Cardinality(fetched) <= limit)
    <3> DEFINE y == LastRow(shown)
    <3>1. limit < Cardinality(S)
      BY <1>2, <2>3, <2>5, <2>8, RowsAreFinite
    <3>2. y \in shown /\ \A r \in S : After(r, y) <=> r \notin shown
      BY <1>2, <2>3, <3>1, LastShownRow
    <3>3. y \in S /\ y \in RowIds
      BY <1>2, <2>3, <3>2
    <3> HIDE DEF y
    <3>4. Key(y) \in CursorKeys /\ Key(y) # NoCursor
      BY <1>2, <3>3, KeysOfRows
    <3>5. encodeCursor(y) = Key(y)
      BY <1>6, <3>4 DEF encodeCursor, CursorKeys
    <3>6. cursor' = Key(y) /\ phase' = "next"
      BY <1>1, <2>2, <2>8, <3>4, <3>5 DEF y
    <3>7. ASSUME NEW r \in steady' PROVE After(r, y) <=> ~(r \in shown \/ r \notin S)
      BY <2>4, <3>2, <3>3
    <3>8. \A r \in steady' : seen'[r] = IF marketplaceCursorWhere(Key(r), Key(y)) THEN 0 ELSE 1
      BY <2>6, <3>7 DEF After
    <3>9. \A r \in steady' : seen'[r] = IF marketplaceCursorWhere(Key(r), cursor)' THEN 0 ELSE 1
      BY <1>2, <1>5, <3>6, <3>8
    <3> QED
      BY <3>4, <3>6, <3>9 DEF WalkedSoFar, EachSteadyRowOnce
  <2> QED
    BY <2>7, <2>8
<1> HIDE DEF next, shown, fetched
<1>7. PagingShape'
  BY <1>1, <1>2, <1>3, <1>4, <1>6 DEF PagingShape
<1>8. WalkedSoFar'
  <2>1. CASE list.precise
    BY <2>1, <1>6
  <2>2. CASE ~list.precise
    BY <2>2, <1>1 DEF WalkedSoFar
  <2> QED
    BY <2>1, <2>2
<1> QED
  BY <1>7, <1>8 DEF PagingIInv

LEMMA FirstPageNext ==
  ASSUME PagingIInv, FirstPage
  PROVE  PagingIInv'
<1>1. Page(tableRows) /\ steady' = tableRows /\ phase = "first" /\ tableRows \subseteq RowIds
  BY DEF FirstPage, PagingIInv, PagingShape
<1>2. list.precise => \A r \in RowIds : seen[r] = 0
  BY <1>1 DEF PagingIInv, WalkedSoFar
<1> QED
  BY <1>1, <1>2, PageNext

LEMMA NextPageNext ==
  ASSUME PagingIInv, NextPage
  PROVE  PagingIInv'
<1> DEFINE S == {r \in tableRows : marketplaceCursorWhere(Key(r), cursor)}
<1>1. Page(S) /\ steady' = steady /\ phase = "next" /\ tableRows \subseteq RowIds /\ S \subseteq tableRows
      /\ steady \subseteq tableRows /\ PagingShape
  BY DEF NextPage, PagingIInv, PagingShape
<1>2. ASSUME list.precise
      PROVE  /\ \A r \in steady' : seen[r] = IF r \in S THEN 0 ELSE 1
             /\ \A r \in steady' \ S, s \in S : ~After(r, s)
  <2>1. \A r \in steady : seen[r] = IF marketplaceCursorWhere(Key(r), cursor) THEN 0 ELSE 1
    BY <1>1, <1>2 DEF PagingIInv, WalkedSoFar
  <2>2. cursor \in CursorKeys
    BY <1>1, <1>2 DEF PagingShape
  <2>3. \A r \in RowIds : Key(r) \in CursorKeys
    BY <1>1, KeysOfRows
  <2>4. ASSUME NEW r \in steady \ S, NEW s \in S, After(r, s) PROVE FALSE
    <3>1. /\ r \in RowIds /\ s \in RowIds /\ ~marketplaceCursorWhere(Key(r), cursor)
          /\ marketplaceCursorWhere(Key(s), cursor)
      BY <1>1, <2>4
    <3>2. marketplaceCursorWhere(Key(r), Key(s))
      BY <2>4 DEF After
    <3> QED
      BY <2>2, <2>3, <3>1, <3>2, CursorOrder
  <2> QED
    BY <1>1, <2>1, <2>4
<1> HIDE DEF S
<1> QED
  BY <1>1, <1>2, PageNext

\* Whatever changes, the rows that stay steady keep their keys.
LEMMA TableNext ==
  ASSUME PagingIInv, NEW row \in RowIds, ShowRow(row) \/ HideRow(row) \/ MoveRow(row)
  PROVE  PagingIInv'
<1>1. /\ list' = list /\ limit' = limit /\ cursor' = cursor /\ phase' = phase /\ seen' = seen
      /\ phase = "next"
  BY DEF ShowRow, HideRow, MoveRow, Changes
<1>2. /\ tableRows' \subseteq RowIds /\ steady' \subseteq tableRows' /\ steady' \subseteq steady
      /\ steady' \subseteq RowIds
  BY DEF ShowRow, HideRow, MoveRow, PagingIInv, PagingShape
<1>3. /\ at' \in [RowIds -> Int] /\ rank' \in [RowIds -> Int]
      /\ \A r \in steady' : at'[r] = at[r] /\ rank'[r] = rank[r]
  <2>0. at \in [RowIds -> Int] /\ rank \in [RowIds -> Int] /\ steady \subseteq RowIds
    BY DEF PagingIInv, PagingShape
  <2>1. CASE ShowRow(row) \/ HideRow(row)
    BY <2>0, <2>1 DEF ShowRow, HideRow
  <2>2. CASE MoveRow(row)
    <3>1. \/ at' = at /\ \E n \in Ranks : rank' = [rank EXCEPT ![row] = n]
          \/ rank' = rank /\ \E t \in at[row] .. Ticks : at' = [at EXCEPT ![row] = t]
      BY <2>2 DEF MoveRow
    <3>2. at[row] \in Int /\ Ticks \in Int /\ Ranks \subseteq Int
      BY <2>0, PagingAssumption
    <3>3. steady' = steady \ {row}
      BY <2>2 DEF MoveRow
    <3> QED
      BY <2>0, <3>1, <3>2, <3>3
  <2> QED
    BY <2>1, <2>2
<1>4. PagingShape'
  BY <1>1, <1>2, <1>3 DEF PagingIInv, PagingShape
<1>5. \A r \in steady' : marketplaceCursorWhere(Key(r), cursor)' = marketplaceCursorWhere(Key(r), cursor)
  BY <1>1, <1>3 DEF marketplaceCursorWhere, searchCursorWhere, keysetWhereClause, Key
<1>6. WalkedSoFar'
  <2> SUFFICES ASSUME list.precise
               PROVE  \A r \in steady' : seen[r] = IF marketplaceCursorWhere(Key(r), cursor)' THEN 0 ELSE 1
    BY <1>1 DEF WalkedSoFar, EachSteadyRowOnce
  <2>1. \A r \in steady : seen[r] = IF marketplaceCursorWhere(Key(r), cursor) THEN 0 ELSE 1
    BY <1>1 DEF PagingIInv, WalkedSoFar
  <2> QED
    BY <1>2, <1>5, <2>1
<1> QED
  BY <1>4, <1>6 DEF PagingIInv

LEMMA PagingNextInv == PagingIInv /\ [PagingNext]_pagingVars => PagingIInv'
<1> SUFFICES ASSUME PagingIInv, [PagingNext]_pagingVars PROVE PagingIInv'
  OBVIOUS
<1>1. CASE FirstPage
  BY <1>1, FirstPageNext
<1>2. CASE NextPage
  BY <1>2, NextPageNext
<1>3. ASSUME NEW r \in RowIds, ShowRow(r) \/ HideRow(r) \/ MoveRow(r) PROVE PagingIInv'
  BY <1>3, TableNext
<1>4. CASE UNCHANGED pagingVars
  BY <1>4 DEF pagingVars, PagingIInv, PagingShape, WalkedSoFar, EachSteadyRowOnce,
              marketplaceCursorWhere, searchCursorWhere, keysetWhereClause, Key
<1> QED
  BY <1>1, <1>2, <1>3, <1>4 DEF PagingNext

(* A complete walk returns every row that matched all along exactly once:    *)
(* the list routes whose cursor keeps the database's precision, for tables,  *)
(* pages and walks of any length and any changes between the pages.          *)
THEOREM WalksAreComplete == PagingSpec => []WalkSeesEachRowOnce
<1>1. PagingIInv => WalkSeesEachRowOnce
  BY DEF PagingIInv, WalkedSoFar, WalkSeesEachRowOnce
<1> QED
  BY <1>1, PagingInitInv, PagingNextInv, PTL DEF PagingSpec

----------------------------------------------------------------------------
(* Chat: what Array.filter keeps *)

\* The positions kept are counted from the first to the last: each count up to
\* their number belongs to exactly one of them.
LEMMA NthIsKept ==
  ASSUME NEW len \in Nat, NEW kept \in SUBSET (1 .. len)
  PROVE  /\ Cardinality(kept) \in Nat
         /\ \A n \in 1 .. Cardinality(kept) : Nth(kept, n) \in kept
         /\ \A n, k \in 1 .. Cardinality(kept) : Nth(kept, n) = Nth(kept, k) => n = k
<1> DEFINE UpTo(i) == {j \in kept : j <= i}
           C == Cardinality(kept)
           P == 1 .. C
           f == [i \in kept |-> Cardinality(UpTo(i))]
<1>1. /\ IsFiniteSet(kept) /\ C \in Nat
      /\ \A i \in kept : /\ UpTo(i) \in SUBSET kept /\ i \in UpTo(i)
                         /\ IsFiniteSet(UpTo(i)) /\ Cardinality(UpTo(i)) \in Nat
  <2>1. IsFiniteSet(1 .. len)
    BY FS_Interval
  <2>2. IsFiniteSet(kept)
    BY <2>1, FS_Subset
  <2>3. \A i \in kept : UpTo(i) \in SUBSET kept /\ i \in UpTo(i)
    OBVIOUS
  <2>4. \A i \in kept : IsFiniteSet(UpTo(i))
    BY <2>2, <2>3, FS_Subset
  <2> HIDE DEF UpTo
  <2> QED
    BY <2>2, <2>3, <2>4, FS_CardinalityType
<1>2. f \in [kept -> P]
  <2>1. ASSUME NEW i \in kept
        PROVE  Cardinality(UpTo(i)) \in P
    <3>1. Cardinality(UpTo(i)) <= C
      BY <1>1, FS_Subset
    <3>2. Cardinality(UpTo(i)) # 0
      BY <1>1, FS_EmptySet
    <3> DEFINE B == Cardinality(UpTo(i))
    <3>3. B <= C /\ B # 0 /\ B \in Nat /\ C \in Nat
      BY <1>1, <3>1, <3>2
    <3> HIDE DEF B, C
    <3>4. B \in 1 .. C
      BY <3>3
    <3> QED
      BY <3>4 DEF B
  <2> HIDE DEF P, UpTo
  <2> QED
    BY <2>1
<1>3. ASSUME NEW i \in kept, NEW j \in kept, f[i] = f[j]
      PROVE  i = j
  <2>1. ASSUME NEW x \in kept, NEW y \in kept, x < y
        PROVE  Cardinality(UpTo(x)) # Cardinality(UpTo(y))
    <3>1. x \in Int /\ y \in Int /\ \A k \in kept : k \in Int
      OBVIOUS
    <3>2. \A k \in kept : k <= x => k <= y
      BY <2>1, <3>1
    <3>3. UpTo(x) \in SUBSET UpTo(y)
      BY <3>2
    <3>4. ~(y <= x) /\ y <= y
      BY <2>1, <3>1
    <3>5. y \in UpTo(y) /\ y \notin UpTo(x)
      BY <3>4
    <3> HIDE DEF UpTo
    <3> QED
      BY <1>1, <3>3, <3>5, FS_Subset
  <2>2. i \in Int /\ j \in Int
    OBVIOUS
  <2>3. Cardinality(UpTo(i)) = Cardinality(UpTo(j))
    BY <1>3
  <2> HIDE DEF UpTo, f
  <2>4. ~(i < j) /\ ~(j < i)
    BY <2>1, <2>3
  <2> QED
    BY <2>2, <2>4
<1>4. \A n \in P : \E i \in kept : f[i] = n
  <2>1. C \in Nat /\ IsFiniteSet(P) /\ Cardinality(P) = C
    <3>1. C \in Int /\ 1 \in Int /\ C \in Nat
      BY <1>1
    <3>2. IsFiniteSet(P) /\ Cardinality(P) = IF 1 > C THEN 0 ELSE C - 1 + 1
      BY <3>1, FS_Interval
    <3> HIDE DEF P, C
    <3>3. (IF 1 > C THEN 0 ELSE C - 1 + 1) = C
      BY <3>1
    <3> QED
      BY <3>1, <3>2, <3>3
  <2> HIDE DEF f
  <2>2. f \in Injection(kept, P)
    BY <1>2, <1>3 DEF Injection, IsInjective
  <2>3. f \in Surjection(kept, P)
    BY <2>1, <2>2, FS_Injection DEF C
  <2> QED
    BY <2>3 DEF Surjection
<1>5. \A n \in P : Nth(kept, n) \in kept /\ Cardinality(UpTo(Nth(kept, n))) = n
  BY <1>4 DEF Nth
<1> HIDE DEF UpTo
<1> QED
  BY <1>1, <1>5

\* What is filtered was there, and nothing comes twice that did not.
LEMMA FilteredKeeps ==
  ASSUME NEW S, NEW seq \in Seq(S), NEW kept \in SUBSET DOMAIN seq
  PROVE  /\ Filtered(seq, kept) \in Seq(S)
         /\ \A n \in DOMAIN Filtered(seq, kept) :
              /\ Nth(kept, n) \in kept
              /\ Filtered(seq, kept)[n] = seq[Nth(kept, n)]
         /\ \A n, k \in DOMAIN Filtered(seq, kept) : Nth(kept, n) = Nth(kept, k) => n = k
<1>1. /\ Len(seq) \in Nat /\ kept \in SUBSET (1 .. Len(seq))
      /\ \A i \in kept : seq[i] \in S
  BY LenProperties
<1>2. /\ Cardinality(kept) \in Nat
      /\ \A n \in 1 .. Cardinality(kept) : Nth(kept, n) \in kept
      /\ \A n, k \in 1 .. Cardinality(kept) : Nth(kept, n) = Nth(kept, k) => n = k
  BY <1>1, NthIsKept
<1>3. /\ DOMAIN Filtered(seq, kept) = 1 .. Cardinality(kept)
      /\ \A n \in 1 .. Cardinality(kept) : Filtered(seq, kept)[n] = seq[Nth(kept, n)]
  BY DEF Filtered
<1>4. Filtered(seq, kept) \in [1 .. Cardinality(kept) -> S]
  BY <1>1, <1>2 DEF Filtered
<1>5. Filtered(seq, kept) \in Seq(S)
  BY <1>2, <1>4
<1> QED
  BY <1>2, <1>3, <1>5

----------------------------------------------------------------------------
(* Chat: the inductive invariant *)

Handlers == [via : {"ws", "rest"}, pc : {"received", "absent", "answered", "refused", "done"}]
Shown == [m : ChatMessages, id : {"client", "server"}, body : {"real", "masked"},
          status : {"none", "sending", "sent", "failed", "rejected"}]
Paged == [m : ChatMessages, body : {"real", "masked"}]

\* A message of the panel's own has been submitted.
Submitted(m) == m \in OwnMessages => attempts[m] # <<>>

DistinctMessages(seq) == \A i, j \in DOMAIN seq : seq[i].m = seq[j].m => i = j

\* An answer is given for a stored message only.
HandlersStand ==
  /\ attempts \in [OwnMessages -> Seq(Handlers)]
  /\ \A m \in OwnMessages : \A k \in DOMAIN attempts[m] :
       attempts[m][k].pc = "answered" => Stored(m)

\* What is stored is stored once, was submitted, and is all that is announced.
StoreStands ==
  /\ conversations \in Seq(Parties) /\ Len(conversations) <= 1
  /\ rows \in Seq(ChatMessages)
  /\ \A i, j \in DOMAIN rows : rows[i] = rows[j] => i = j
  /\ \A m \in ChatMessages : Stored(m) => Submitted(m)
  /\ createdEvents \subseteq ToSet(rows)
  /\ \A x \in air : x.kind = "message" => Stored(x.m)

PageStands ==
  /\ history.page \in Seq(Paged) /\ DistinctMessages(history.page)
  /\ \A i \in DOMAIN history.page : Stored(history.page[i].m)

\* A row of the panel: one of the other party has no delivery status and the
\* server's id, so that hiding it removes it and a page brings it back only
\* as far as the panel allows.
Fits(e) ==
  /\ e \in Shown /\ Submitted(e.m)
  /\ e.status = "sent" => Stored(e.m)
  /\ e.m \in PeerMessages => e.id = "server" /\ e.status = "none" /\ e.m \notin hiddenIds

PanelStands ==
  /\ panel \in Seq(Shown) /\ DistinctMessages(panel)
  /\ \A i \in DOMAIN panel : Fits(panel[i])

ChatIInv == HandlersStand /\ StoreStands /\ PageStands /\ PanelStands

----------------------------------------------------------------------------
(* Chat: the server *)

\* What is stored or submitted stays so.
StoreGrows ==
  \A m \in ChatMessages : (Stored(m) => Stored(m)') /\ (Submitted(m) => Submitted(m)')

LEMMA StoredAreMessages ==
  ASSUME ChatIInv
  PROVE  /\ \A m : Stored(m) => m \in ChatMessages
         /\ \A m \in createdEvents : m \in ChatMessages
<1>1. rows \in Seq(ChatMessages) /\ DOMAIN rows = 1 .. Len(rows)
  BY LenProperties DEF ChatIInv, StoreStands
<1>2. \A i \in DOMAIN rows : rows[i] \in ChatMessages
  BY <1>1, ElementOfSeq
<1>3. ToSet(rows) \subseteq ChatMessages
  BY <1>2 DEF ToSet
<1> QED
  BY <1>3 DEF Stored, ChatIInv, StoreStands

\* The screen and the page stand while only the server moves.
LEMMA ScreenWaits ==
  ASSUME ChatIInv, StoreGrows, UNCHANGED <<panel, hiddenIds, history>>
  PROVE  PageStands' /\ PanelStands'
<1>1. \A i \in DOMAIN history.page : history.page[i].m \in ChatMessages
  <2>1. \A i \in DOMAIN history.page : history.page[i] \in Paged
    BY LenProperties, ElementOfSeq DEF ChatIInv, PageStands
  <2> QED
    BY <2>1 DEF Paged
<1>2. PageStands'
  BY <1>1 DEF ChatIInv, PageStands, DistinctMessages, StoreGrows
<1>3. \A i \in DOMAIN panel : panel[i].m \in ChatMessages
  BY DEF ChatIInv, PanelStands, Fits, Shown
<1>4. \A i \in DOMAIN panel : Fits(panel[i])'
  BY <1>3 DEF ChatIInv, PanelStands, Fits, StoreGrows
<1>5. PanelStands'
  BY <1>4 DEF ChatIInv, PanelStands, DistinctMessages
<1> QED
  BY <1>2, <1>5

\* A new row is that of a message that had none.
LEMMA RowIsAdded ==
  ASSUME ChatIInv, NEW m \in ChatMessages, ~Stored(m), rows' = Append(rows, m)
  PROVE  /\ rows' \in Seq(ChatMessages)
         /\ \A i, j \in DOMAIN rows' : rows'[i] = rows'[j] => i = j
         /\ ToSet(rows') = ToSet(rows) \union {m}
<1>1. /\ rows \in Seq(ChatMessages) /\ Len(rows) \in Nat /\ DOMAIN rows = 1 .. Len(rows)
      /\ \A i, j \in DOMAIN rows : rows[i] = rows[j] => i = j
  BY LenProperties DEF ChatIInv, StoreStands
<1>2. /\ rows' \in Seq(ChatMessages) /\ DOMAIN rows' = 1 .. Len(rows) + 1
      /\ \A i \in 1 .. Len(rows) : rows'[i] = rows[i]
      /\ rows'[Len(rows) + 1] = m
  BY <1>1
<1>3. \A i \in 1 .. Len(rows) : rows[i] # m
  BY <1>1 DEF Stored, ToSet
<1>4. \A i \in DOMAIN rows' : i \in 1 .. Len(rows) \/ i = Len(rows) + 1
  BY <1>1, <1>2
<1>5. \A i, j \in DOMAIN rows' : rows'[i] = rows'[j] => i = j
  BY <1>1, <1>2, <1>3, <1>4
<1>6. 1 .. Len(rows) \subseteq DOMAIN rows' /\ Len(rows) + 1 \in DOMAIN rows'
  BY <1>1, <1>2
<1>7. ToSet(rows') = ToSet(rows) \union {m}
  BY <1>1, <1>2, <1>4, <1>6 DEF ToSet
<1> QED
  BY <1>2, <1>5, <1>7

\* A handler begins, for one message or for each that waits for the socket.
LEMMA HandlersBegin ==
  ASSUME ChatIInv, NEW S \in SUBSET OwnMessages, NEW via \in {"ws", "rest"}, UNCHANGED rows,
         attempts' = [m \in OwnMessages |-> IF m \in S
                                            THEN Append(attempts[m], [via |-> via, pc |-> "received"])
                                            ELSE attempts[m]]
  PROVE  HandlersStand' /\ StoreGrows /\ \A m \in S : attempts'[m] # <<>>
<1> DEFINE new == [via |-> via, pc |-> "received"]
<1>1. new \in Handlers /\ new.pc = "received"
  BY DEF Handlers
<1> HIDE DEF new
<1>2. ASSUME NEW m \in OwnMessages
      PROVE  /\ attempts'[m] \in Seq(Handlers)
             /\ \A k \in DOMAIN attempts'[m] : attempts'[m][k].pc = "answered" => Stored(m)
             /\ attempts[m] # <<>> \/ m \in S => attempts'[m] # <<>>
  <2>1. /\ attempts[m] \in Seq(Handlers) /\ Len(attempts[m]) \in Nat
        /\ DOMAIN attempts[m] = 1 .. Len(attempts[m])
        /\ \A k \in DOMAIN attempts[m] : attempts[m][k].pc = "answered" => Stored(m)
    BY LenProperties DEF ChatIInv, HandlersStand
  <2>2. CASE m \in S
    <3>1. attempts'[m] = Append(attempts[m], new)
      BY <2>2 DEF new
    <3>2. /\ Append(attempts[m], new) \in Seq(Handlers)
          /\ DOMAIN Append(attempts[m], new) = 1 .. Len(attempts[m]) + 1
          /\ \A k \in 1 .. Len(attempts[m]) : Append(attempts[m], new)[k] = attempts[m][k]
          /\ Append(attempts[m], new)[Len(attempts[m]) + 1] = new
          /\ Append(attempts[m], new) # <<>>
      BY <1>1, <2>1, AppendProperties
    <3>3. \A k \in 1 .. Len(attempts[m]) + 1 : k \in 1 .. Len(attempts[m]) \/ k = Len(attempts[m]) + 1
      BY <2>1
    <3> QED
      BY <1>1, <2>1, <3>1, <3>2, <3>3
  <2>3. CASE m \notin S
    BY <2>1, <2>3
  <2> QED
    BY <2>2, <2>3
<1>3. attempts' \in [OwnMessages -> Seq(Handlers)]
  <2>1. attempts' = [m \in OwnMessages |-> attempts'[m]]
    OBVIOUS
  <2> QED
    BY <1>2, <2>1
<1>4. \A m : Stored(m)' = Stored(m)
  BY DEF Stored
<1> QED
  BY <1>2, <1>3, <1>4 DEF HandlersStand, StoreGrows, Submitted

\* A handler moves on; it answers for a stored message only.
LEMMA HandlerMoves ==
  ASSUME ChatIInv, NEW m \in OwnMessages, NEW k \in DOMAIN attempts[m],
         NEW pc \in {"received", "absent", "answered", "refused", "done"},
         attempts' = [attempts EXCEPT ![m][k].pc = pc],
         \A x : Stored(x) => Stored(x)', pc = "answered" => Stored(m)'
  PROVE  HandlersStand' /\ StoreGrows
<1>1. /\ attempts[m] \in Seq(Handlers) /\ Len(attempts[m]) \in Nat
      /\ DOMAIN attempts[m] = 1 .. Len(attempts[m]) /\ attempts[m][k] \in Handlers
  BY LenProperties, ElementOfSeq DEF ChatIInv, HandlersStand
<1> DEFINE moved == [attempts[m][k] EXCEPT !.pc = pc]
           after == [attempts[m] EXCEPT ![k] = moved]
<1>2. moved \in Handlers /\ moved.pc = pc
  BY <1>1 DEF Handlers
<1> HIDE DEF moved
<1>3. /\ after \in Seq(Handlers) /\ DOMAIN after = DOMAIN attempts[m]
      /\ \A j \in DOMAIN attempts[m] : after[j] = IF j = k THEN moved ELSE attempts[m][j]
      /\ attempts[m] # <<>> /\ after # <<>>
  BY <1>1, <1>2
<1>4. attempts' = [attempts EXCEPT ![m] = after]
  BY DEF moved
<1> HIDE DEF after
<1>5. /\ attempts' \in [OwnMessages -> Seq(Handlers)]
      /\ \A x \in OwnMessages : attempts'[x] = IF x = m THEN after ELSE attempts[x]
  BY <1>3, <1>4 DEF ChatIInv, HandlersStand
<1>6. ASSUME NEW x \in OwnMessages, NEW j \in DOMAIN attempts'[x], attempts'[x][j].pc = "answered"
      PROVE  Stored(x)'
  <2>1. CASE x = m
    <3>1. CASE j = k
      BY <1>2, <1>3, <1>5, <1>6, <2>1, <3>1
    <3>2. CASE j # k
      <4>1. j \in DOMAIN attempts[m] /\ attempts[m][j].pc = "answered"
        BY <1>3, <1>5, <1>6, <2>1, <3>2
      <4> QED
        BY <2>1, <4>1 DEF ChatIInv, HandlersStand
    <3> QED
      BY <3>1, <3>2
  <2>2. CASE x # m
    BY <1>5, <1>6, <2>2 DEF ChatIInv, HandlersStand
  <2> QED
    BY <2>1, <2>2
<1>7. HandlersStand'
  BY <1>5, <1>6 DEF HandlersStand
<1>8. StoreGrows
  BY <1>3, <1>5 DEF StoreGrows, Submitted
<1> QED
  BY <1>7, <1>8

\* No row is added, and nothing is announced that is not stored.
LEMMA StoreRests ==
  ASSUME ChatIInv, StoreGrows, UNCHANGED <<conversations, rows>>, createdEvents' \subseteq createdEvents,
         \A x \in air' : x \in air \/ (x.kind = "message" => Stored(x.m))
  PROVE  StoreStands'
<1>1. \A m : Stored(m)' = Stored(m)
  BY DEF Stored
<1>2. \A m \in ChatMessages : Stored(m)' => Submitted(m)'
  BY <1>1 DEF ChatIInv, StoreStands, StoreGrows
<1>3. \A x \in air' : x.kind = "message" => Stored(x.m)'
  BY <1>1 DEF ChatIInv, StoreStands
<1> QED
  BY <1>2, <1>3 DEF ChatIInv, StoreStands

LEMMA RowsRest ==
  ASSUME ChatIInv, UNCHANGED <<rows, attempts>>
  PROVE  HandlersStand' /\ StoreGrows
BY DEF ChatIInv, HandlersStand, StoreGrows, Stored, Submitted

\* A message is stored with its event.
LEMMA StoreAdds ==
  ASSUME ChatIInv, NEW m \in ChatMessages, ~Stored(m), rows' = Append(rows, m), Submitted(m)',
         createdEvents' = createdEvents \cup {m}, UNCHANGED <<conversations, air>>,
         \A x \in OwnMessages : attempts[x] # <<>> => attempts'[x] # <<>>
  PROVE  StoreStands' /\ StoreGrows
<1>1. /\ rows' \in Seq(ChatMessages)
      /\ \A i, j \in DOMAIN rows' : rows'[i] = rows'[j] => i = j
      /\ \A x : Stored(x)' <=> Stored(x) \/ x = m
  BY RowIsAdded DEF Stored
<1>2. StoreGrows
  BY <1>1 DEF StoreGrows, Submitted
<1>3. \A x \in ChatMessages : Stored(x)' => Submitted(x)'
  BY <1>1, <1>2 DEF StoreGrows, ChatIInv, StoreStands
<1>4. createdEvents' \subseteq ToSet(rows')
  BY <1>1 DEF Stored, ChatIInv, StoreStands
<1>5. \A x \in air' : x.kind = "message" => Stored(x.m)'
  BY <1>1 DEF ChatIInv, StoreStands
<1> QED
  BY <1>1, <1>2, <1>3, <1>4, <1>5 DEF ChatIInv, StoreStands

LEMMA ConversationSteps ==
  ASSUME ChatIInv, NEW p \in Parties, LookUpConversation(p) \/ InsertConversation(p)
  PROVE  ChatIInv'
<1>1. /\ UNCHANGED <<rows, createdEvents, attempts, air, panel, hiddenIds, history>>
      /\ conversations' = conversations \/ conversations' = <<p>>
  <2>1. CASE LookUpConversation(p)
    BY <2>1 DEF LookUpConversation
  <2>2. CASE InsertConversation(p)
    BY <2>2 DEF InsertConversation
  <2> QED
    BY <2>1, <2>2
<1>2. conversations' \in Seq(Parties) /\ Len(conversations') <= 1
  <2>1. <<p>> \in Seq(Parties) /\ Len(<<p>>) = 1
    OBVIOUS
  <2>2. conversations \in Seq(Parties) /\ Len(conversations) <= 1
    BY DEF ChatIInv, StoreStands
  <2>3. CASE conversations' = conversations
    BY <2>2, <2>3
  <2>4. CASE conversations' = <<p>>
    BY <2>1, <2>4
  <2> QED
    BY <1>1, <2>3, <2>4
<1>3. HandlersStand' /\ StoreGrows
  BY <1>1, RowsRest
<1>4. StoreStands'
  BY <1>1, <1>2 DEF ChatIInv, StoreStands, Stored, Submitted
<1> QED
  BY <1>1, <1>3, <1>4, ScreenWaits DEF ChatIInv

LEMMA HandlerSteps ==
  ASSUME ChatIInv, NEW m \in OwnMessages, NEW k \in DOMAIN attempts[m],
         CheckSender(m, k) \/ SaveMessage(m, k)
  PROVE  ChatIInv'
<1>1. m \in ChatMessages /\ attempts[m] # <<>>
  BY DEF ChatMessages, ChatIInv, HandlersStand
<1>2. CASE CheckSender(m, k)
  <2>1. PICK pc \in {"refused", IF Stored(m) THEN "answered" ELSE "absent"} :
          attempts' = [attempts EXCEPT ![m][k].pc = pc]
    BY <1>2 DEF CheckSender
  <2>2. UNCHANGED <<conversations, rows, createdEvents, air, panel, hiddenIds, history>>
    BY <1>2 DEF CheckSender, serverVars
  <2>3. (\A x : Stored(x) => Stored(x)') /\ (pc = "answered" => Stored(m)')
    BY <2>1, <2>2 DEF Stored
  <2>4. HandlersStand' /\ StoreGrows
    BY <2>1, <2>3, HandlerMoves
  <2>5. StoreStands'
    BY <2>2, <2>4, StoreRests
  <2> QED
    BY <2>2, <2>4, <2>5, ScreenWaits DEF ChatIInv
<1>3. CASE SaveMessage(m, k)
  <2>1. /\ attempts' = [attempts EXCEPT ![m][k].pc = "answered"]
        /\ UNCHANGED <<conversations, air, panel, hiddenIds, history>>
    BY <1>3 DEF SaveMessage
  <2>2. CASE Stored(m)
    <3>1. UNCHANGED <<rows, createdEvents>>
      BY <1>3, <2>2 DEF SaveMessage
    <3>2. (\A x : Stored(x) => Stored(x)') /\ Stored(m)'
      BY <2>2, <3>1 DEF Stored
    <3>3. HandlersStand' /\ StoreGrows
      BY <2>1, <3>2, HandlerMoves
    <3>4. StoreStands'
      BY <2>1, <3>1, <3>3, StoreRests
    <3> QED
      BY <2>1, <3>3, <3>4, ScreenWaits DEF ChatIInv
  <2>3. CASE ~Stored(m)
    <3>1. rows' = Append(rows, m) /\ createdEvents' = createdEvents \cup {m}
      BY <1>3, <2>3 DEF SaveMessage
    <3>2. \A x : Stored(x)' <=> Stored(x) \/ x = m
      BY <1>1, <2>3, <3>1, RowIsAdded DEF Stored
    <3>3. HandlersStand' /\ StoreGrows
      BY <2>1, <3>2, HandlerMoves
    <3>4. Submitted(m)' /\ \A x \in OwnMessages : attempts[x] # <<>> => attempts'[x] # <<>>
      BY <1>1, <3>3 DEF StoreGrows, Submitted, ChatMessages
    <3>5. StoreStands'
      BY <1>1, <2>1, <2>3, <3>1, <3>4, StoreAdds
    <3> QED
      BY <2>1, <3>3, <3>5, ScreenWaits DEF ChatIInv
  <2> QED
    BY <2>2, <2>3
<1> QED
  BY <1>2, <1>3

LEMMA PeerSendsNext ==
  ASSUME ChatIInv, NEW m \in PeerMessages, PeerSends(m)
  PROVE  ChatIInv'
<1>1. m \in ChatMessages /\ m \notin OwnMessages
  BY ChatAssumption DEF ChatMessages
<1>2. /\ ~Stored(m) /\ rows' = Append(rows, m) /\ createdEvents' = createdEvents \cup {m}
      /\ UNCHANGED <<conversations, attempts, air, panel, hiddenIds, history>>
  BY DEF PeerSends
<1>3. StoreStands' /\ StoreGrows
  BY <1>1, <1>2, StoreAdds DEF Submitted
<1>4. HandlersStand'
  BY <1>2, <1>3 DEF ChatIInv, HandlersStand, StoreGrows, ChatMessages
<1> QED
  BY <1>2, <1>3, <1>4, ScreenWaits DEF ChatIInv

LEMMA BroadcastSteps ==
  ASSUME ChatIInv,
         \/ \E m \in ChatMessages : handleMessageCreated(m) \/ ModerateMessage(m)
         \/ \E k \in DOMAIN moderations : handleMessageModerated(k)
  PROVE  ChatIInv'
<1>1. UNCHANGED <<conversations, rows, attempts, panel, hiddenIds, history>>
  BY DEF handleMessageCreated, ModerateMessage, handleMessageModerated
<1>2. createdEvents' \subseteq createdEvents
  BY DEF handleMessageCreated, ModerateMessage, handleMessageModerated
<1>3. \A x \in air' : x \in air \/ (x.kind = "message" => Stored(x.m))
  <2>1. ASSUME NEW m \in ChatMessages, handleMessageCreated(m)
        PROVE  \A x \in air' : x \in air \/ (x.kind = "message" => Stored(x.m))
    <3>1. Stored(m)
      BY <2>1 DEF handleMessageCreated, ChatIInv, StoreStands, Stored
    <3>2. air' \subseteq air \cup {[kind |-> "message", m |-> m]}
      BY <2>1 DEF handleMessageCreated
    <3> QED
      BY <3>1, <3>2
  <2>2. ASSUME NEW m \in ChatMessages, ModerateMessage(m)
        PROVE  \A x \in air' : x \in air \/ (x.kind = "message" => Stored(x.m))
    BY <2>2 DEF ModerateMessage, Moderated
  <2>3. ASSUME NEW k \in DOMAIN moderations, handleMessageModerated(k)
        PROVE  \A x \in air' : x \in air \/ (x.kind = "message" => Stored(x.m))
    BY <2>3 DEF handleMessageModerated, Moderated
  <2> QED
    BY <2>1, <2>2, <2>3
<1>4. HandlersStand' /\ StoreGrows
  BY <1>1, RowsRest
<1>5. StoreStands'
  BY <1>1, <1>2, <1>3, <1>4, StoreRests
<1> QED
  BY <1>1, <1>4, <1>5, ScreenWaits DEF ChatIInv

\* The socket comes and goes, and what it carried falls back to REST.
LEMMA FallBackSteps ==
  ASSUME ChatIInv, (\E m \in OwnMessages : AckTimeout(m)) \/ SocketLost \/ Reconnect
  PROVE  ChatIInv'
<1>1. UNCHANGED <<conversations, rows, createdEvents, air, panel, hiddenIds, history>>
  BY DEF AckTimeout, SocketLost, Reconnect, serverVars
<1>2. HandlersStand' /\ StoreGrows
  <2>1. ASSUME NEW m \in OwnMessages, AckTimeout(m)
        PROVE  HandlersStand' /\ StoreGrows
    <3>1. attempts' = [x \in OwnMessages |-> IF x \in {m}
                         THEN Append(attempts[x], [via |-> "rest", pc |-> "received"]) ELSE attempts[x]]
      BY <2>1 DEF AckTimeout, Deliver, ChatIInv, HandlersStand
    <3> QED
      BY <1>1, <3>1, HandlersBegin
  <2>2. CASE SocketLost
    <3> DEFINE unsaved == {m \in OwnMessages : waits[m] = "ws"}
    <3>1. attempts' = [x \in OwnMessages |-> IF x \in unsaved
                         THEN Append(attempts[x], [via |-> "rest", pc |-> "received"]) ELSE attempts[x]]
      BY <2>2 DEF SocketLost
    <3>2. unsaved \in SUBSET OwnMessages
      OBVIOUS
    <3> HIDE DEF unsaved
    <3> QED
      BY <1>1, <3>1, <3>2, HandlersBegin
  <2>3. CASE Reconnect
    BY <1>1, <2>3, RowsRest DEF Reconnect
  <2> QED
    BY <2>1, <2>2, <2>3
<1>3. StoreStands'
  BY <1>1, <1>2, StoreRests
<1> QED
  BY <1>1, <1>2, <1>3, ScreenWaits DEF ChatIInv

----------------------------------------------------------------------------
(* Chat: the panel *)

LEMMA PanelRows ==
  ASSUME ChatIInv
  PROVE  /\ Len(panel) \in Nat /\ DOMAIN panel = 1 .. Len(panel)
         /\ \A i \in DOMAIN panel : panel[i] \in Shown /\ panel[i].m \in ChatMessages
BY LenProperties DEF ChatIInv, PanelStands, Fits, Shown

LEMMA EntryFields ==
  \A m \in ChatMessages, id \in {"client", "server"}, body \in {"real", "masked"},
     mark \in {"none", "sending", "sent", "failed", "rejected"} :
    /\ ChatEntry(m, id, body, mark) \in Shown
    /\ ChatEntry(m, id, body, mark).m = m /\ ChatEntry(m, id, body, mark).id = id
    /\ ChatEntry(m, id, body, mark).body = body /\ ChatEntry(m, id, body, mark).status = mark
BY DEF ChatEntry, Shown

\* Rows stay rows of their messages and change what they say of them.
LEMMA PanelRewritten ==
  ASSUME ChatIInv, StoreGrows, UNCHANGED hiddenIds,
         panel' = [i \in DOMAIN panel |-> panel'[i]],
         \A i \in DOMAIN panel :
           /\ panel'[i] \in Shown /\ panel'[i].m = panel[i].m
           /\ panel'[i].status = "sent" => panel[i].status = "sent" \/ Stored(panel[i].m)
           /\ panel[i].m \in PeerMessages => panel'[i].id = "server" /\ panel'[i].status = "none"
  PROVE  PanelStands'
<1>1. DOMAIN panel' = DOMAIN panel
  OBVIOUS
<1>2. panel' \in Seq(Shown)
  BY PanelRows
<1>3. \A i \in DOMAIN panel' : Fits(panel[i])
  BY <1>1 DEF ChatIInv, PanelStands
<1>4. \A i \in DOMAIN panel' : Fits(panel[i])'
  <2> SUFFICES ASSUME NEW i \in DOMAIN panel'
               PROVE  Fits(panel[i])'
    OBVIOUS
  <2>1. Fits(panel[i]) /\ panel[i].m \in ChatMessages
    BY <1>1, <1>3, PanelRows
  <2>2. /\ panel'[i] \in Shown /\ panel'[i].m = panel[i].m
        /\ panel'[i].status = "sent" => Stored(panel[i].m)
        /\ panel[i].m \in PeerMessages => panel'[i].id = "server" /\ panel'[i].status = "none"
    BY <1>1, <2>1 DEF Fits
  <2> QED
    BY <2>1, <2>2 DEF Fits, StoreGrows
<1>5. DistinctMessages(panel)'
  BY <1>1 DEF DistinctMessages, ChatIInv, PanelStands
<1> QED
  BY <1>2, <1>4, <1>5 DEF PanelStands

\* A message that has no row gets one at the end.
LEMMA PanelAppended ==
  ASSUME ChatIInv, StoreGrows, UNCHANGED hiddenIds, NEW e \in Shown, panel' = Append(panel, e),
         \A i \in DOMAIN panel : panel[i].m # e.m,
         Submitted(e.m)', e.status = "sent" => Stored(e.m)',
         e.m \in PeerMessages => e.id = "server" /\ e.status = "none" /\ e.m \notin hiddenIds
  PROVE  PanelStands'
<1> DEFINE n == Len(panel)
<1>1. panel \in Seq(Shown) /\ n \in Nat /\ DOMAIN panel = 1 .. n
  BY PanelRows DEF ChatIInv, PanelStands
<1>2. /\ panel' \in Seq(Shown) /\ Len(panel') = n + 1
      /\ \A i \in 1 .. n : panel'[i] = panel[i]
      /\ panel'[n + 1] = e
  BY <1>1, AppendProperties
<1>3. DOMAIN panel' = 1 .. n + 1
  BY <1>2, LenProperties
<1> HIDE DEF n
<1>4. \A i \in DOMAIN panel' : i \in DOMAIN panel \/ i = n + 1
  BY <1>1, <1>3
<1>5. DistinctMessages(panel')
  BY <1>1, <1>2, <1>4 DEF DistinctMessages, ChatIInv, PanelStands
<1>6. ASSUME NEW i \in DOMAIN panel'
      PROVE  Fits(panel[i])'
  <2>1. CASE i \in DOMAIN panel
    <3>1. Fits(panel[i]) /\ panel[i].m \in ChatMessages /\ panel'[i] = panel[i]
      BY <1>1, <1>2, <2>1, PanelRows DEF ChatIInv, PanelStands
    <3> QED
      BY <3>1 DEF Fits, StoreGrows
  <2>2. CASE i = n + 1
    BY <1>2, <2>2 DEF Fits
  <2> QED
    BY <1>4, <2>1, <2>2
<1> QED
  BY <1>2, <1>5, <1>6 DEF PanelStands, DistinctMessages

LEMMA PageWaits ==
  ASSUME ChatIInv, StoreGrows, UNCHANGED history
  PROVE  PageStands'
<1>1. \A i \in DOMAIN history.page : history.page[i].m \in ChatMessages
  <2>1. \A i \in DOMAIN history.page : history.page[i] \in Paged
    BY LenProperties, ElementOfSeq DEF ChatIInv, PageStands
  <2> QED
    BY <2>1 DEF Paged
<1> QED
  BY <1>1 DEF ChatIInv, PageStands, DistinctMessages, StoreGrows

LEMMA SubmitNext ==
  ASSUME ChatIInv, NEW m \in OwnMessages, Submit(m)
  PROVE  ChatIInv'
<1>1. m \in ChatMessages /\ m \notin PeerMessages
  BY ChatAssumption DEF ChatMessages
<1>2. /\ attempts[m] = <<>> /\ panel' = Append(panel, ChatEntry(m, "client", "real", "sending"))
      /\ UNCHANGED <<conversations, rows, createdEvents, air, hiddenIds, history>>
  BY DEF Submit, serverVars
<1>3. PICK via \in {"ws", "rest"} :
        attempts' = [attempts EXCEPT ![m] = Append(@, [via |-> via, pc |-> "received"])]
  BY DEF Submit, Deliver, Channel
<1>4. attempts' = [x \in OwnMessages |-> IF x \in {m}
                     THEN Append(attempts[x], [via |-> via, pc |-> "received"]) ELSE attempts[x]]
  BY <1>3 DEF ChatIInv, HandlersStand
<1>5. HandlersStand' /\ StoreGrows /\ attempts'[m] # <<>>
  BY <1>2, <1>4, HandlersBegin
<1>6. StoreStands'
  BY <1>2, <1>5, StoreRests
<1>7. \A i \in DOMAIN panel : panel[i].m # m
  BY <1>2 DEF ChatIInv, PanelStands, Fits, Submitted
<1>8. PanelStands'
  <2> DEFINE e == ChatEntry(m, "client", "real", "sending")
  <2>1. e \in Shown /\ e.m = m /\ e.status = "sending" /\ panel' = Append(panel, e)
    BY <1>1, <1>2, EntryFields
  <2> HIDE DEF e
  <2>2. Submitted(m)'
    BY <1>5 DEF Submitted
  <2> QED
    BY <1>1, <1>2, <1>5, <1>7, <2>1, <2>2, PanelAppended
<1> QED
  BY <1>2, <1>5, <1>6, <1>8, PageWaits DEF ChatIInv

\* A row of the panel's own message changes its status; it is "sent" only
\* when the message is stored.
LEMMA OwnRowMarked ==
  ASSUME ChatIInv, StoreGrows, UNCHANGED hiddenIds, NEW m \in OwnMessages,
         \/ \E mark \in {"failed", "rejected"} : panel' = markMessageFailed(m, mark)
         \/ Stored(m) /\ panel' = markMessageSent(m)
  PROVE  PanelStands'
<1>1. m \in ChatMessages /\ m \notin PeerMessages
  BY ChatAssumption DEF ChatMessages
<1>2. \A i \in DOMAIN panel : /\ panel[i] \in Shown
                              /\ panel[i].m \in PeerMessages => panel[i].id = "server" /\ panel[i].status = "none"
  BY DEF ChatIInv, PanelStands, Fits
<1>3. CASE \E mark \in {"failed", "rejected"} : panel' = markMessageFailed(m, mark)
  <2>1. PICK mark \in {"failed", "rejected"} : panel' = markMessageFailed(m, mark)
    BY <1>3
  <2>2. panel' = [i \in DOMAIN panel |-> IF panel[i].m = m THEN [panel[i] EXCEPT !.status = mark]
                                         ELSE panel[i]]
    BY <2>1 DEF markMessageFailed
  <2>3. \A i \in DOMAIN panel : panel[i].m = m =>
          /\ [panel[i] EXCEPT !.status = mark] \in Shown
          /\ [panel[i] EXCEPT !.status = mark].m = m
          /\ [panel[i] EXCEPT !.status = mark].status = mark
    BY <1>2 DEF Shown
  <2> QED
    BY <1>1, <1>2, <2>2, <2>3, PanelRewritten
<1>4. CASE Stored(m) /\ panel' = markMessageSent(m)
  <2> DEFINE e == ChatEntry(m, "server", "real", "sent")
  <2>1. panel' = [i \in DOMAIN panel |-> IF panel[i].m = m THEN e ELSE panel[i]]
    BY <1>4 DEF markMessageSent
  <2>2. e \in Shown /\ e.m = m
    BY <1>1, EntryFields
  <2> HIDE DEF e
  <2> QED
    BY <1>1, <1>2, <1>4, <2>1, <2>2, PanelRewritten
<1> QED
  BY <1>3, <1>4

LEMMA RetryNext ==
  ASSUME ChatIInv, NEW m \in OwnMessages, RetryMessage(m)
  PROVE  ChatIInv'
<1>1. m \notin PeerMessages
  BY ChatAssumption
<1>2. UNCHANGED <<conversations, rows, createdEvents, air, hiddenIds, history>>
  BY DEF RetryMessage, serverVars
<1>3. PICK via \in {"ws", "rest"} :
        attempts' = [attempts EXCEPT ![m] = Append(@, [via |-> via, pc |-> "received"])]
  BY DEF RetryMessage, Deliver, Channel
<1>4. attempts' = [x \in OwnMessages |-> IF x \in {m}
                     THEN Append(attempts[x], [via |-> via, pc |-> "received"]) ELSE attempts[x]]
  BY <1>3 DEF ChatIInv, HandlersStand
<1>5. HandlersStand' /\ StoreGrows
  BY <1>2, <1>4, HandlersBegin
<1>6. StoreStands'
  BY <1>2, <1>5, StoreRests
<1>7. PanelStands'
  <2>1. PICK k \in DOMAIN panel : panel[k].m = m /\ panel' = [panel EXCEPT ![k].status = "sending"]
    BY DEF RetryMessage
  <2> DEFINE e == [panel[k] EXCEPT !.status = "sending"]
  <2>2. e \in Shown /\ e.m = m /\ e.status = "sending"
    BY <2>1, PanelRows DEF Shown
  <2>3. panel' = [i \in DOMAIN panel |-> IF i = k THEN e ELSE panel[i]]
    BY <2>1, PanelRows
  <2> HIDE DEF e
  <2>4. \A i \in DOMAIN panel : /\ panel[i] \in Shown
                                /\ panel[i].m \in PeerMessages => panel[i].id = "server" /\ panel[i].status = "none"
    BY DEF ChatIInv, PanelStands, Fits
  <2> QED
    BY <1>1, <1>2, <1>5, <2>1, <2>2, <2>3, <2>4, PanelRewritten
<1> QED
  BY <1>2, <1>5, <1>6, <1>7, PageWaits DEF ChatIInv

LEMMA AnswerSteps ==
  ASSUME ChatIInv, NEW m \in OwnMessages, NEW k \in DOMAIN attempts[m],
         Acknowledge(m, k) \/ RestAnswer(m, k)
  PROVE  ChatIInv'
<1>1. /\ attempts[m][k].pc \in {"answered", "refused"}
      /\ attempts' = [attempts EXCEPT ![m][k].pc = "done"]
      /\ panel' \in Settled(m, attempts[m][k].pc) \/ UNCHANGED panel
      /\ UNCHANGED <<conversations, rows, createdEvents, air, hiddenIds, history>>
  BY DEF Acknowledge, RestAnswer, serverVars
<1>2. HandlersStand' /\ StoreGrows
  <2>1. \A x : Stored(x) => Stored(x)'
    BY <1>1 DEF Stored
  <2> QED
    BY <1>1, <2>1, HandlerMoves
<1>3. StoreStands'
  BY <1>1, <1>2, StoreRests
<1>4. CASE UNCHANGED panel
  BY <1>1, <1>2, <1>3, <1>4, ScreenWaits DEF ChatIInv
<1>5. CASE panel' \in Settled(m, attempts[m][k].pc)
  <2>1. attempts[m][k].pc = "answered" => Stored(m)
    BY DEF ChatIInv, HandlersStand
  <2>2. \/ \E mark \in {"failed", "rejected"} : panel' = markMessageFailed(m, mark)
        \/ Stored(m) /\ panel' = markMessageSent(m)
    BY <1>5, <2>1 DEF Settled
  <2>3. PanelStands'
    BY <1>1, <1>2, <2>2, OwnRowMarked
  <2> QED
    BY <1>1, <1>2, <1>3, <2>3, PageWaits DEF ChatIInv
<1> QED
  BY <1>1, <1>4, <1>5

LEMMA RestLostNext ==
  ASSUME ChatIInv, NEW m \in OwnMessages, RestLost(m)
  PROVE  ChatIInv'
<1>1. /\ panel' = markMessageFailed(m, "failed")
      /\ UNCHANGED <<conversations, rows, createdEvents, attempts, air, hiddenIds, history>>
  BY DEF RestLost, serverVars
<1>2. HandlersStand' /\ StoreGrows
  BY <1>1, RowsRest
<1>3. StoreStands'
  BY <1>1, <1>2, StoreRests
<1>4. PanelStands'
  BY <1>1, <1>2, OwnRowMarked
<1> QED
  BY <1>1, <1>2, <1>3, <1>4, PageWaits DEF ChatIInv

\* What a step that only the panel takes leaves to show.
LEMMA PanelMoves ==
  ASSUME ChatIInv, UNCHANGED <<serverVars, attempts>>, air' \subseteq air, PageStands', PanelStands'
  PROVE  ChatIInv'
<1>1. UNCHANGED <<conversations, rows, createdEvents, attempts>>
  BY DEF serverVars
<1>2. HandlersStand' /\ StoreGrows
  BY <1>1, RowsRest
<1>3. StoreStands'
  BY <1>1, <1>2, StoreRests
<1> QED
  BY <1>2, <1>3 DEF ChatIInv

LEMMA MessageNext ==
  ASSUME ChatIInv, NEW x \in air, ReceiveMessage(x)
  PROVE  ChatIInv'
<1>1. /\ x.kind = "message" /\ air' \subseteq air
      /\ panel' = IF connected THEN ShowMessage(x.m) ELSE panel
      /\ UNCHANGED <<serverVars, attempts, hiddenIds, history>>
  BY DEF ReceiveMessage
<1> DEFINE m == x.m
<1>2. Stored(m) /\ m \in ChatMessages /\ Submitted(m)
  BY <1>1, StoredAreMessages DEF ChatIInv, StoreStands
<1>3. UNCHANGED <<rows, attempts>>
  BY <1>1 DEF serverVars
<1>4. StoreGrows /\ Submitted(m)' /\ Stored(m)'
  BY <1>2, <1>3, RowsRest DEF StoreGrows
<1>5. CASE panel' = panel
  BY <1>1, <1>4, <1>5, ScreenWaits, PanelMoves
<1>6. CASE panel' = MergeMessage(m) /\ m \notin hiddenIds
  <2>1. CASE \E i \in DOMAIN panel : panel[i].m = m
    <3>1. panel' = [i \in DOMAIN panel |-> IF panel[i].m = m
                      THEN [panel[i] EXCEPT !.id = "server", !.body = "real"] ELSE panel[i]]
      BY <1>6, <2>1 DEF MergeMessage, messagesMatch
    <3>2. ASSUME NEW i \in DOMAIN panel
          PROVE  /\ panel'[i] \in Shown /\ panel'[i].m = panel[i].m
                 /\ panel'[i].status = panel[i].status
                 /\ panel[i].m \in PeerMessages => panel'[i].id = "server" /\ panel'[i].status = "none"
      <4>1. /\ panel[i] \in Shown
            /\ panel[i].m \in PeerMessages => panel[i].id = "server" /\ panel[i].status = "none"
        BY DEF ChatIInv, PanelStands, Fits
      <4>2. CASE panel[i].m = m
        <5>1. panel'[i] = [panel[i] EXCEPT !.id = "server", !.body = "real"]
          BY <3>1, <4>2
        <5> QED
          BY <4>1, <5>1 DEF Shown
      <4>3. CASE panel[i].m # m
        BY <3>1, <4>1, <4>3
      <4> QED
        BY <4>2, <4>3
    <3>3. PanelStands'
      <4>1. panel' = [i \in DOMAIN panel |-> panel'[i]]
        BY <3>1
      <4> QED
        BY <1>1, <1>4, <3>2, <4>1, PanelRewritten
    <3> QED
      BY <1>1, <1>4, <3>3, PageWaits, PanelMoves
  <2>2. CASE ~ \E i \in DOMAIN panel : panel[i].m = m
    <3> DEFINE e == ChatEntry(m, "server", "real", "none")
    <3>1. panel' = Append(panel, e)
      BY <1>6, <2>2 DEF MergeMessage, messagesMatch
    <3>2. e \in Shown /\ e.m = m /\ e.id = "server" /\ e.status = "none"
      BY <1>2, EntryFields
    <3> HIDE DEF e, m
    <3>3. PanelStands'
      BY <1>1, <1>4, <1>6, <2>2, <3>1, <3>2, PanelAppended
    <3> QED
      BY <1>1, <1>4, <3>3, PageWaits, PanelMoves
  <2> QED
    BY <2>1, <2>2
<1> QED
  BY <1>1, <1>5, <1>6 DEF ShowMessage

\* Of the rows that stand, those kept stand, as far as they fit.
LEMMA RowsFiltered ==
  ASSUME ChatIInv, NEW kept \in SUBSET DOMAIN panel
  PROVE  /\ Filtered(panel, kept) \in Seq(Shown)
         /\ DistinctMessages(Filtered(panel, kept))
         /\ \A n \in DOMAIN Filtered(panel, kept) :
              \E i \in kept : Filtered(panel, kept)[n] = panel[i]
<1>1. panel \in Seq(Shown) /\ DistinctMessages(panel)
  BY DEF ChatIInv, PanelStands
<1> DEFINE f == Filtered(panel, kept)
<1>2. /\ f \in Seq(Shown)
      /\ \A n \in DOMAIN f : Nth(kept, n) \in kept /\ f[n] = panel[Nth(kept, n)]
      /\ \A n, k \in DOMAIN f : Nth(kept, n) = Nth(kept, k) => n = k
  BY <1>1, FilteredKeeps
<1> HIDE DEF f
<1>3. DistinctMessages(f)
  BY <1>1, <1>2 DEF DistinctMessages
<1>4. \A n \in DOMAIN f : \E i \in kept : f[n] = panel[i]
  BY <1>2
<1> QED
  BY <1>2, <1>3, <1>4 DEF f

LEMMA EmptyPage ==
  ASSUME history'.page = <<>>
  PROVE  PageStands'
BY DEF PageStands, DistinctMessages

LEMMA ModerationNext ==
  ASSUME ChatIInv, NEW x \in air, ReceiveModeration(x)
  PROVE  ChatIInv'
<1>1. UNCHANGED <<serverVars, attempts>> /\ air' \subseteq air
  BY DEF ReceiveModeration
<1>2. StoreGrows
  BY <1>1, RowsRest DEF serverVars
<1>3. CASE ~connected
  BY <1>1, <1>2, <1>3, ScreenWaits, PanelMoves DEF ReceiveModeration
<1>4. CASE connected
  <2>1. PageStands'
    BY <1>4, EmptyPage DEF ReceiveModeration
  <2>2. CASE x.hidden
    <3> DEFINE kept == {i \in DOMAIN panel : ~(panel[i].id = "server" /\ panel[i].m = x.m)}
    <3>1. panel' = Filtered(panel, kept) /\ hiddenIds' = hiddenIds \cup {x.m}
      BY <1>4, <2>2 DEF ReceiveModeration
    <3>2. /\ panel' \in Seq(Shown) /\ DistinctMessages(panel')
          /\ \A n \in DOMAIN panel' : \E i \in kept : panel'[n] = panel[i]
      <4>1. kept \in SUBSET DOMAIN panel
        OBVIOUS
      <4> HIDE DEF kept
      <4> QED
        BY <3>1, <4>1, RowsFiltered
    <3>3. ASSUME NEW n \in DOMAIN panel'
          PROVE  Fits(panel[n])'
      <4>1. PICK i \in kept : panel'[n] = panel[i]
        BY <3>2
      <4>2. Fits(panel[i]) /\ panel[i].m \in ChatMessages
        BY PanelRows DEF ChatIInv, PanelStands
      <4> QED
        BY <1>2, <3>1, <4>1, <4>2 DEF Fits, StoreGrows
    <3>4. PanelStands'
      BY <3>2, <3>3 DEF PanelStands, DistinctMessages
    <3> QED
      BY <1>1, <2>1, <3>4, PanelMoves
  <2>3. CASE ~x.hidden
    <3>1. panel' = panel /\ hiddenIds' = hiddenIds \ {x.m}
      BY <1>4, <2>3 DEF ReceiveModeration
    <3>2. ASSUME NEW n \in DOMAIN panel'
          PROVE  Fits(panel[n])'
      <4>1. Fits(panel[n]) /\ panel[n].m \in ChatMessages /\ panel'[n] = panel[n]
        BY <3>1, PanelRows DEF ChatIInv, PanelStands
      <4> QED
        BY <1>2, <3>1, <4>1 DEF Fits, StoreGrows
    <3>3. PanelStands'
      BY <3>1, <3>2 DEF PanelStands, DistinctMessages, ChatIInv
    <3> QED
      BY <1>1, <2>1, <3>3, PanelMoves
  <2> QED
    BY <2>2, <2>3
<1> QED
  BY <1>3, <1>4

----------------------------------------------------------------------------
(* Chat: history pages *)

LEMMA RequestNext ==
  ASSUME ChatIInv, RequestHistory \/ ReadHistory
  PROVE  ChatIInv'
<1>1. UNCHANGED <<serverVars, attempts, air, panel, hiddenIds>>
  BY DEF RequestHistory, ReadHistory
<1>2. StoreGrows
  BY <1>1, RowsRest DEF serverVars
<1>3. PanelStands'
  <2>1. ASSUME NEW n \in DOMAIN panel'
        PROVE  Fits(panel[n])'
    <3>1. Fits(panel[n]) /\ panel[n].m \in ChatMessages /\ panel'[n] = panel[n]
      BY <1>1, PanelRows DEF ChatIInv, PanelStands
    <3> QED
      BY <1>1, <1>2, <3>1 DEF Fits, StoreGrows
  <2> QED
    BY <1>1, <2>1 DEF PanelStands, DistinctMessages, ChatIInv
<1>4. CASE RequestHistory
  <2>1. PageStands'
    BY <1>4, EmptyPage DEF RequestHistory
  <2> QED
    BY <1>1, <1>3, <2>1, PanelMoves
<1>5. CASE ReadHistory
  <2>1. /\ rows \in Seq(ChatMessages) /\ Len(rows) \in Nat /\ DOMAIN rows = 1 .. Len(rows)
        /\ \A i, j \in DOMAIN rows : rows[i] = rows[j] => i = j
        /\ \A i \in DOMAIN rows : rows[i] \in ChatMessages
    BY LenProperties, ElementOfSeq DEF ChatIInv, StoreStands
  <2>2. /\ history'.page = [i \in DOMAIN rows |-> history'.page[i]]
        /\ \A i \in DOMAIN rows : history'.page[i] \in Paged /\ history'.page[i].m = rows[i]
    BY <1>5, <2>1 DEF ReadHistory, getMessagePage, Paged
  <2>3. history'.page \in Seq(Paged) /\ DOMAIN history'.page = DOMAIN rows
    BY <2>1, <2>2
  <2>4. rows' = rows
    BY <1>1 DEF serverVars
  <2>5. PageStands'
    BY <2>1, <2>2, <2>3, <2>4 DEF PageStands, DistinctMessages, Stored, ToSet
  <2> QED
    BY <1>1, <1>3, <2>5, PanelMoves
<1> QED
  BY <1>4, <1>5

\* What the panel may show of a page: stored messages, each once, and none
\* that it was told to hide.
LEMMA VisiblePage ==
  ASSUME ChatIInv
  PROVE  /\ VisibleServerMessages \in Seq(Paged)
         /\ DistinctMessages(VisibleServerMessages)
         /\ \A n \in DOMAIN VisibleServerMessages :
              /\ VisibleServerMessages[n] \in Paged
              /\ Stored(VisibleServerMessages[n].m) /\ Submitted(VisibleServerMessages[n].m)
              /\ VisibleServerMessages[n].m \notin hiddenIds
<1> DEFINE kept == {i \in DOMAIN history.page : history.page[i].m \notin hiddenIds}
           v == VisibleServerMessages
<1>1. /\ history.page \in Seq(Paged) /\ DistinctMessages(history.page)
      /\ \A i \in DOMAIN history.page : history.page[i] \in Paged /\ Stored(history.page[i].m)
  BY LenProperties, ElementOfSeq DEF ChatIInv, PageStands
<1>2. kept \in SUBSET DOMAIN history.page
  OBVIOUS
<1>3. \A i \in kept : history.page[i].m \notin hiddenIds
  OBVIOUS
<1>4. v = Filtered(history.page, kept)
  BY DEF VisibleServerMessages
<1> HIDE DEF kept, v
<1>5. /\ v \in Seq(Paged)
      /\ \A n \in DOMAIN v : Nth(kept, n) \in kept /\ v[n] = history.page[Nth(kept, n)]
      /\ \A n, k \in DOMAIN v : Nth(kept, n) = Nth(kept, k) => n = k
  BY <1>1, <1>2, <1>4, FilteredKeeps
<1>6. DistinctMessages(v)
  BY <1>1, <1>2, <1>5 DEF DistinctMessages
<1>7. \A n \in DOMAIN v : v[n] \in Paged /\ Stored(v[n].m) /\ v[n].m \notin hiddenIds
  BY <1>1, <1>2, <1>3, <1>5
<1>8. \A n \in DOMAIN v : Submitted(v[n].m)
  BY <1>7, StoredAreMessages DEF ChatIInv, StoreStands
<1> QED
  BY <1>5, <1>6, <1>7, <1>8 DEF v

\* Two lists of rows that share no message, one after the other.
LEMMA ListsJoined ==
  ASSUME NEW a \in Seq(Shown), NEW b \in Seq(Shown), DistinctMessages(a), DistinctMessages(b),
         \A i \in DOMAIN a, j \in DOMAIN b : a[i].m # b[j].m
  PROVE  /\ a \o b \in Seq(Shown) /\ DistinctMessages(a \o b)
         /\ \A n \in DOMAIN (a \o b) : \/ \E i \in DOMAIN a : (a \o b)[n] = a[i]
                                       \/ \E j \in DOMAIN b : (a \o b)[n] = b[j]
<1> DEFINE c == a \o b
<1>1. /\ c \in Seq(Shown) /\ Len(c) = Len(a) + Len(b)
      /\ \A n \in 1 .. Len(a) + Len(b) : c[n] = IF n <= Len(a) THEN a[n] ELSE b[n - Len(a)]
  BY ConcatProperties
<1>2. /\ Len(a) \in Nat /\ Len(b) \in Nat /\ DOMAIN a = 1 .. Len(a) /\ DOMAIN b = 1 .. Len(b)
      /\ DOMAIN c = 1 .. Len(a) + Len(b)
  BY <1>1, LenProperties
<1> HIDE DEF c
<1>3. \A n \in DOMAIN c : \/ n \in DOMAIN a /\ c[n] = a[n]
                          \/ n - Len(a) \in DOMAIN b /\ c[n] = b[n - Len(a)]
  BY <1>1, <1>2
<1>4. \A n, k \in DOMAIN c : c[n].m = c[k].m => n = k
  <2> SUFFICES ASSUME NEW n \in DOMAIN c, NEW k \in DOMAIN c, c[n].m = c[k].m
               PROVE  n = k
    OBVIOUS
  <2>1. n \in Int /\ k \in Int /\ Len(a) \in Int
    BY <1>2
  <2>2. CASE n \in DOMAIN a /\ c[n] = a[n] /\ k \in DOMAIN a /\ c[k] = a[k]
    BY <2>2 DEF DistinctMessages
  <2>3. CASE /\ n - Len(a) \in DOMAIN b /\ c[n] = b[n - Len(a)]
             /\ k - Len(a) \in DOMAIN b /\ c[k] = b[k - Len(a)]
    <3>1. n - Len(a) = k - Len(a)
      BY <2>3 DEF DistinctMessages
    <3> QED
      BY <2>1, <3>1
  <2> QED
    BY <1>3, <2>2, <2>3
<1> QED
  BY <1>1, <1>3, <1>4 DEF DistinctMessages, c

LEMMA ApplyNext ==
  ASSUME ChatIInv, ApplyHistory
  PROVE  ChatIInv'
<1>1. /\ panel' = MergeHistory /\ history'.page = <<>>
      /\ UNCHANGED <<serverVars, attempts, air, hiddenIds>>
  BY DEF ApplyHistory, NoHistory
<1>2. StoreGrows
  BY <1>1, RowsRest DEF serverVars
<1> DEFINE visible == VisibleServerMessages
           StatusOf(m) == IF \E i \in DOMAIN panel : messagesMatch(panel[i], m)
                            THEN panel[CHOOSE i \in DOMAIN panel : messagesMatch(panel[i], m)].status
                            ELSE "none"
           server == [i \in DOMAIN visible |->
                        ChatEntry(visible[i].m, "server", visible[i].body, StatusOf(visible[i].m))]
           Unmatched(e) == /\ e.status # "none"
                           /\ \A i \in DOMAIN visible : ~messagesMatch(e, visible[i].m)
           kept == {i \in DOMAIN panel : Unmatched(panel[i])}
           local == Filtered(panel, kept)
<1>3. panel' = server \o local
  BY <1>1 DEF MergeHistory
<1>4. /\ visible \in Seq(Paged) /\ Len(visible) \in Nat /\ DOMAIN visible = 1 .. Len(visible)
      /\ DistinctMessages(visible)
      /\ \A n \in DOMAIN visible : /\ visible[n] \in Paged
                                   /\ Stored(visible[n].m) /\ Submitted(visible[n].m)
                                   /\ visible[n].m \notin hiddenIds
  BY VisiblePage, LenProperties
<1> HIDE DEF visible
<1>5. \A n \in DOMAIN visible : visible[n].m \in ChatMessages /\ visible[n].body \in {"real", "masked"}
  BY <1>4 DEF Paged
<1>6. ASSUME NEW m \in ChatMessages
      PROVE  /\ StatusOf(m) \in {"none", "sending", "sent", "failed", "rejected"}
             /\ m \in PeerMessages => StatusOf(m) = "none"
  <2>1. CASE \E i \in DOMAIN panel : panel[i].m = m
    <3>1. PICK k \in DOMAIN panel : panel[k].m = m /\ StatusOf(m) = panel[k].status
      BY <2>1 DEF messagesMatch
    <3>2. Fits(panel[k])
      BY DEF ChatIInv, PanelStands
    <3> HIDE DEF StatusOf
    <3> QED
      BY <3>1, <3>2 DEF Fits, Shown
  <2>2. CASE ~ \E i \in DOMAIN panel : panel[i].m = m
    BY <2>2 DEF messagesMatch
  <2> QED
    BY <2>1, <2>2
<1> HIDE DEF StatusOf
<1>7. /\ DOMAIN server = DOMAIN visible
      /\ \A n \in DOMAIN visible :
           /\ server[n] \in Shown /\ server[n].m = visible[n].m /\ server[n].id = "server"
           /\ server[n].m \in PeerMessages => server[n].status = "none"
  <2>1. ASSUME NEW n \in DOMAIN visible
        PROVE  /\ server[n] \in Shown /\ server[n].m = visible[n].m /\ server[n].id = "server"
               /\ server[n].m \in PeerMessages => server[n].status = "none"
    <3> DEFINE m == visible[n].m
               status == StatusOf(m)
               e == ChatEntry(m, "server", visible[n].body, status)
    <3>1. server[n] = e
      OBVIOUS
    <3>2. /\ m \in ChatMessages /\ visible[n].body \in {"real", "masked"}
          /\ status \in {"none", "sending", "sent", "failed", "rejected"}
          /\ m \in PeerMessages => status = "none"
      BY <1>5, <1>6
    <3> HIDE DEF m, status, server
    <3>3. e \in Shown /\ e.m = m /\ e.id = "server" /\ e.status = status
      BY <3>2, EntryFields
    <3> HIDE DEF e
    <3> QED
      BY <3>1, <3>2, <3>3 DEF m
  <2> QED
    BY <2>1
<1> HIDE DEF server
<1>8. server \in Seq(Shown) /\ DistinctMessages(server)
  <2>1. server = [n \in 1 .. Len(visible) |-> server[n]] /\ \A n \in 1 .. Len(visible) : server[n] \in Shown
    BY <1>4, <1>7 DEF server
  <2>2. server \in Seq(Shown)
    BY <1>4, <2>1
  <2> QED
    BY <1>4, <1>7, <2>2 DEF DistinctMessages
<1>9. /\ local \in Seq(Shown) /\ DistinctMessages(local)
      /\ \A n \in DOMAIN local : \E i \in kept : local[n] = panel[i]
  <2>1. kept \in SUBSET DOMAIN panel
    OBVIOUS
  <2> HIDE DEF kept
  <2> QED
    BY <2>1, RowsFiltered
<1>10. \A i \in kept : /\ i \in DOMAIN panel /\ panel[i].status # "none"
                       /\ \A n \in DOMAIN visible : panel[i].m # visible[n].m
  BY DEF messagesMatch
<1> HIDE DEF kept, local
<1>11. \A i \in DOMAIN server, j \in DOMAIN local : server[i].m # local[j].m
  BY <1>7, <1>9, <1>10
<1>12. /\ panel' \in Seq(Shown) /\ DistinctMessages(panel')
       /\ \A n \in DOMAIN panel' : \/ \E i \in DOMAIN server : panel'[n] = server[i]
                                   \/ \E j \in DOMAIN local : panel'[n] = local[j]
  BY <1>3, <1>8, <1>9, <1>11, ListsJoined
<1>13. ASSUME NEW n \in DOMAIN panel'
       PROVE  Fits(panel[n])'
  <2>1. CASE \E i \in DOMAIN server : panel'[n] = server[i]
    <3>1. PICK i \in DOMAIN visible : panel'[n] = server[i]
      BY <1>7, <2>1
    <3>2. /\ panel'[n] \in Shown /\ panel'[n].m = visible[i].m /\ panel'[n].id = "server"
          /\ panel'[n].m \in PeerMessages => panel'[n].status = "none"
      BY <1>7, <3>1
    <3>3. /\ visible[i].m \in ChatMessages /\ Stored(visible[i].m) /\ Submitted(visible[i].m)
          /\ visible[i].m \notin hiddenIds
      BY <1>4, <1>5
    <3> QED
      BY <1>1, <1>2, <3>2, <3>3 DEF Fits, StoreGrows
  <2>2. CASE \E j \in DOMAIN local : panel'[n] = local[j]
    <3>1. PICK i \in DOMAIN panel : panel'[n] = panel[i]
      BY <1>9, <1>10, <2>2
    <3>2. Fits(panel[i]) /\ panel[i].m \in ChatMessages
      BY PanelRows DEF ChatIInv, PanelStands
    <3> QED
      BY <1>1, <1>2, <3>1, <3>2 DEF Fits, StoreGrows
  <2> QED
    BY <1>12, <2>1, <2>2
<1>14. PanelStands'
  BY <1>12, <1>13 DEF PanelStands, DistinctMessages
<1> QED
  BY <1>1, <1>14, EmptyPage, PanelMoves

----------------------------------------------------------------------------
LEMMA ChatInitInv == ChatInit => ChatIInv
<1> SUFFICES ASSUME ChatInit
             PROVE  ChatIInv
  OBVIOUS
<1>1. /\ conversations = <<>> /\ rows = <<>> /\ panel = <<>> /\ history.page = <<>>
      /\ createdEvents = {} /\ air = {}
      /\ attempts = [m \in OwnMessages |-> <<>>]
  BY DEF ChatInit, NoHistory
<1>2. HandlersStand
  BY <1>1 DEF HandlersStand
<1>3. StoreStands
  BY <1>1 DEF StoreStands, Stored, ToSet
<1>4. PageStands /\ PanelStands
  BY <1>1 DEF PageStands, PanelStands, DistinctMessages
<1> QED
  BY <1>2, <1>3, <1>4 DEF ChatIInv

LEMMA ChatNextInv == ChatIInv /\ [ChatNext]_chatVars => ChatIInv'
<1> SUFFICES ASSUME ChatIInv, [ChatNext]_chatVars
             PROVE  ChatIInv'
  OBVIOUS
<1>1. CASE UNCHANGED chatVars
  <2>1. UNCHANGED <<conversations, rows, createdEvents, attempts, air, panel, hiddenIds, history>>
    BY <1>1 DEF chatVars, serverVars
  <2>2. HandlersStand' /\ StoreGrows
    BY <2>1, RowsRest
  <2>3. StoreStands'
    BY <2>1, <2>2, StoreRests
  <2> QED
    BY <2>1, <2>2, <2>3, ScreenWaits DEF ChatIInv
<1>2. ASSUME NEW m \in OwnMessages,
             \/ Submit(m) \/ RetryMessage(m) \/ RestLost(m) \/ AckTimeout(m)
             \/ \E k \in DOMAIN attempts[m] :
                  CheckSender(m, k) \/ SaveMessage(m, k) \/ Acknowledge(m, k) \/ RestAnswer(m, k)
      PROVE  ChatIInv'
  BY <1>2, SubmitNext, RetryNext, RestLostNext, FallBackSteps, HandlerSteps, AnswerSteps
<1>3. CASE ChatNext
  BY <1>2, <1>3, ConversationSteps, PeerSendsNext, BroadcastSteps, MessageNext, ModerationNext,
     FallBackSteps, RequestNext, ApplyNext DEF ChatNext
<1> QED
  BY <1>1, <1>3

\* Each message is stored once and shown once; what the panel marks as sent is
\* stored, and what it was told to hide it does not show again; for any number
\* of messages, attempts, moderations and lost answers (chat.service.ts,
\* ChatPanel.tsx).
THEOREM MessagesComeOnce == ChatSpec => []EachMessageOnce
<1>1. ChatSpec => []ChatIInv
  BY ChatInitInv, ChatNextInv, PTL DEF ChatSpec
<1>2. ChatIInv => EachMessageOnce
  <2> SUFFICES ASSUME ChatIInv
               PROVE  EachMessageOnce
    OBVIOUS
  <2>1. /\ Len(conversations) <= 1 /\ \A i, j \in DOMAIN rows : rows[i] = rows[j] => i = j
    BY DEF ChatIInv, StoreStands
  <2>2. \A i, j \in DOMAIN panel : panel[i].m = panel[j].m => i = j
    BY DEF ChatIInv, PanelStands, DistinctMessages
  <2>3. \A i \in DOMAIN panel :
          /\ panel[i].status = "sent" => Stored(panel[i].m)
          /\ panel[i].m \in PeerMessages \cap hiddenIds => panel[i].body # "real"
    BY DEF ChatIInv, PanelStands, Fits
  <2> QED
    BY <2>1, <2>2, <2>3 DEF EachMessageOnce
<1> QED
  BY <1>1, <1>2, PTL
=============================================================================
