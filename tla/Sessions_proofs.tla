--------------------------- MODULE Sessions_proofs ---------------------------
(***************************************************************************)
(* Proofs about Sessions, for any number of browsers, of requests in       *)
(* flight and of failed Redis calls, with rotation on or off: the type     *)
(* invariant with the capacity of a family, that every session can be      *)
(* found by its sets, that no family outlives the version its login is     *)
(* dated by, that a refresh token is exchanged once, and that a logout     *)
(* is final; and about AuthTabs, for any number of tabs, logins, logouts   *)
(* and network faults: that a queued logout ends only its own session.     *)
(***************************************************************************)
EXTENDS Sessions, AuthTabs, FiniteSetTheorems, TLAPS

Mints == 1 .. minted

----------------------------------------------------------------------------
(* The bounds: what a request may still prepare or bump is set aside *)

Reserves(q) ==
  q.pc \in {"prepare", "lookedUp", "prepareRotation"} \/ q.after = "reissue"

PrepareReserved == {r \in Requests : Reserves(req[r])}

BumpReserved == {r \in Requests : req[r].pc = "bump"}

RoomKept ==
  /\ minted + Cardinality(PrepareReserved) <= MaxCredentials
  /\ version + Cardinality(BumpReserved) <= MaxVersion

----------------------------------------------------------------------------
(* What a credential is, and where it can be *)

\* A credential carries the version its family's login is dated by: a
\* refresh is prepared only while the account still has the version it read.
MintedAgree ==
  /\ \A c \in Mints : /\ famOf[c] \in 1 .. c
                      /\ famOf[famOf[c]] = famOf[c]
                      /\ verOf[c] \in 1 .. version
                      /\ since[famOf[c]] = verOf[c]
  /\ \A c \in Credentials \ Mints : famOf[c] = None

StoredMinted ==
  /\ live \subseteq Mints
  /\ refresh \subseteq Mints
  /\ expired \subseteq Mints
  /\ userFam \subseteq Mints
  /\ fenced \subseteq Mints
  /\ \A b \in Browsers : jar[b] \in Mints \cup {None}
  /\ \A f \in Credentials \ Mints : family[f] = "none"
  /\ \A p \in successors : p[1] \in Mints

\* The fields a request has at each of its awaits.
Form(q) ==
  /\ q.pc \in {"lookedUp", "prepareRotation", "rotate"} => q.old # None
  /\ q.pc \in {"idle", "prepare", "issue", "clear", "bump", "revokeAll"} => q.old = None
  /\ (q.new # None) <=> (q.pc \in {"issue", "rotate", "answer"})
  /\ q.after # "none" => q.pc \in {"bump", "revokeAll"}

RequestShape ==
  \A r \in Requests :
    /\ Form(req[r])
    /\ req[r].old \in Mints \cup {None}
    /\ req[r].new \in Mints \cup {None}
    /\ req[r].new # None => req[r].new \notin expired
    /\ req[r].new # None /\ req[r].old # None => famOf[req[r].new] = famOf[req[r].old]
    /\ req[r].pc = "prepareRotation" => req[r].expected = verOf[req[r].old]

\* What a browser or a request got from an answer; a request's new credential
\* is in nobody else's hands before its answer arrives.
Undelivered ==
  \A r \in Requests :
    req[r].new # None =>
      /\ \A b \in Browsers : jar[b] # req[r].new
      /\ \A s \in Requests : req[s].old # req[r].new
      /\ \A s \in Requests \ {r} : req[s].new # req[r].new
      /\ \A p \in successors : p[1] # req[r].new

\* A login's credential is alone in its family until it is delivered.
FirstOfFamily ==
  \A r \in Requests :
    req[r].new # None /\ req[r].old = None =>
      /\ famOf[req[r].new] = req[r].new
      /\ \A d \in Credentials \ {req[r].new} : famOf[d] # req[r].new

NotYetIssued ==
  \A r \in Requests :
    req[r].pc = "issue" =>
      /\ family[req[r].new] = "none"
      /\ req[r].new \notin refresh \cup userFam \cup fenced

LiveUnexpired == live \cap expired = {}

HeldBy(c, b) ==
  \/ b \in Browsers /\ jar[b] = c
  \/ \E r \in Requests : req[r].browser = b /\ (req[r].old = c \/ req[r].new = c)

\* A family stays with the browser that logged in.
OneBrowser ==
  \A a, b \in Browsers \cup {None}, c, d \in Credentials :
    HeldBy(c, a) /\ HeldBy(d, b) /\ famOf[c] = famOf[d] => a = b

----------------------------------------------------------------------------
(* Refresh tokens *)

RefreshActive == \A c \in refresh : family[famOf[c]] = "active"

Revoked(c) == family[famOf[c]] = "revoked"

AnswerStored ==
  \A r \in Requests :
    req[r].pc = "answer" => req[r].new \in refresh \/ Revoked(req[r].new)

\* Without rotation a token stays until its family is revoked.
CarriedStored ==
  ~RotationEnabled =>
    \A b \in Browsers : jar[b] # None => jar[b] \in refresh \/ Revoked(jar[b])

ExchangedSpent ==
  RotationEnabled => \A p \in successors : p[1] \notin refresh

\* With rotation a family has one token, its tip.
OneTip ==
  RotationEnabled =>
    \A c, d \in refresh : famOf[c] = famOf[d] => c = d

JarsOf(f, c) ==
  \A b \in Browsers : jar[b] # None /\ famOf[jar[b]] = f => jar[b] = c

\* Until the tip is delivered the browser has the token it was exchanged for,
\* whose alias is kept; once delivered the browser has it.
TipFollowed ==
  RotationEnabled =>
    \A r \in Requests :
      /\ req[r].old # None /\ req[r].new \in refresh
           => req[r].old \in alias /\ JarsOf(famOf[req[r].new], req[r].old)
      /\ req[r].old \in refresh => JarsOf(famOf[req[r].old], req[r].old)

----------------------------------------------------------------------------
(* Logout *)

\* Nothing of the family that still counts can reach a browser.
OutOfSight(f) ==
  /\ \A b \in Browsers : jar[b] # None => famOf[jar[b]] # f
  /\ \A r \in Requests :
       /\ req[r].old \in refresh => famOf[req[r].old] # f
       /\ req[r].new \in refresh => famOf[req[r].new] # f

\* A logout that finds no record of its family has nothing left to revoke.
FencedFamilies ==
  \A f \in fenced : family[f] = "revoked" \/ OutOfSight(f)

World ==
  /\ MintedAgree /\ StoredMinted
  /\ Undelivered /\ FirstOfFamily /\ NotYetIssued /\ LiveUnexpired /\ OneBrowser
  /\ RefreshActive /\ AnswerStored /\ CarriedStored
  /\ ExchangedSpent /\ OneTip /\ TipFollowed
  /\ FencedFamilies
  /\ EverySessionEnumerable /\ RedeemedOnce

\* The inductive invariant.
IInv == TypeOK /\ RoomKept /\ RequestShape /\ World

----------------------------------------------------------------------------
(* Facts about requests *)

RequestRecords == [pc : RequestStates,
                   browser : Browsers \cup {None},
                   old : Credentials \cup {None},
                   new : Credentials \cup {None},
                   expected : 0 .. MaxVersion,
                   verified : 0 .. MaxVersion,
                   retried : BOOLEAN,
                   after : {"none", "reissue", "clear"}]

LEMMA IdleRecord ==
  /\ Idle \in RequestRecords
  /\ Form(Idle) /\ ~Reserves(Idle)
  /\ Idle.pc = "idle" /\ Idle.browser = None /\ Idle.old = None /\ Idle.new = None
  /\ Idle.after = "none" /\ Idle.expected = None /\ Idle.verified = None
  /\ Idle.retried = FALSE
BY BoundAssumption DEF Idle, RequestRecords, RequestStates, Form, Reserves, None

LEMMA Served ==
  ASSUME TypeOK, NEW r \in Requests, NEW q \in RequestRecords, Serve(r, q)
  PROVE  /\ RequestTypeOK'
         /\ req'[r] = q
         /\ \A s \in Requests \ {r} : req'[s] = req[s]
BY DEF TypeOK, RequestTypeOK, RequestRecords, Serve

LEMMA RequestTyped ==
  ASSUME TypeOK, NEW r \in Requests
  PROVE  req[r] \in RequestRecords
BY DEF TypeOK, RequestTypeOK, RequestRecords

\* What one request sets aside, or gives back.
LEMMA Reservations ==
  ASSUME TypeOK, NEW r \in Requests, NEW q \in RequestRecords, Serve(r, q)
  PROVE  /\ Cardinality(PrepareReserved) \in Nat /\ Cardinality(PrepareReserved') \in Nat
         /\ Cardinality(BumpReserved) \in Nat /\ Cardinality(BumpReserved') \in Nat
         /\ Cardinality(PrepareReserved') <= Cardinality(PrepareReserved) + 1
         /\ Cardinality(BumpReserved') <= Cardinality(BumpReserved) + 1
         /\ Reserves(q) /\ Reserves(req[r])
              => Cardinality(PrepareReserved') <= Cardinality(PrepareReserved)
         /\ ~Reserves(q) => Cardinality(PrepareReserved') <= Cardinality(PrepareReserved)
         /\ ~Reserves(q) /\ Reserves(req[r])
              => Cardinality(PrepareReserved') < Cardinality(PrepareReserved)
         /\ q.pc # "bump" => Cardinality(BumpReserved') <= Cardinality(BumpReserved)
         /\ q.pc # "bump" /\ req[r].pc = "bump"
              => Cardinality(BumpReserved') < Cardinality(BumpReserved)
<1>1. req'[r] = q /\ \A s \in Requests \ {r} : req'[s] = req[s]
  BY Served
<1>2. ASSUME NEW S, NEW T, S \subseteq Requests, NEW add \in BOOLEAN,
             T = IF add THEN S \cup {r} ELSE S \ {r}
      PROVE  /\ Cardinality(S) \in Nat /\ Cardinality(T) \in Nat
             /\ Cardinality(T) <= Cardinality(S) + 1
             /\ add /\ r \in S => Cardinality(T) <= Cardinality(S)
             /\ ~add => Cardinality(T) <= Cardinality(S)
             /\ ~add /\ r \in S => Cardinality(T) < Cardinality(S)
  <2>1. IsFiniteSet(S)
    BY <1>2, RequestsAssumption, FS_Subset
  <2>2. /\ Cardinality(S) \in Nat
        /\ Cardinality(S \cup {r}) = IF r \in S THEN Cardinality(S) ELSE Cardinality(S) + 1
        /\ Cardinality(S \ {r}) = IF r \in S THEN Cardinality(S) - 1 ELSE Cardinality(S)
        /\ Cardinality(S \cup {r}) \in Nat /\ Cardinality(S \ {r}) \in Nat
    BY <2>1, FS_CardinalityType, FS_AddElement, FS_RemoveElement
  <2> QED
    BY <1>2, <2>2
<1>3. PrepareReserved' = IF Reserves(q) THEN PrepareReserved \cup {r}
                                        ELSE PrepareReserved \ {r}
  BY <1>1 DEF PrepareReserved, Reserves
<1>4. BumpReserved' = IF q.pc = "bump" THEN BumpReserved \cup {r} ELSE BumpReserved \ {r}
  BY <1>1 DEF BumpReserved
<1>5. /\ PrepareReserved \subseteq Requests /\ BumpReserved \subseteq Requests
      /\ r \in PrepareReserved <=> Reserves(req[r])
      /\ r \in BumpReserved <=> req[r].pc = "bump"
      /\ Reserves(q) \in BOOLEAN /\ (q.pc = "bump") \in BOOLEAN
  BY DEF PrepareReserved, BumpReserved, Reserves
<1>6. /\ Cardinality(PrepareReserved) \in Nat /\ Cardinality(PrepareReserved') \in Nat
      /\ Cardinality(PrepareReserved') <= Cardinality(PrepareReserved) + 1
      /\ Reserves(q) /\ Reserves(req[r])
              => Cardinality(PrepareReserved') <= Cardinality(PrepareReserved)
      /\ ~Reserves(q) => Cardinality(PrepareReserved') <= Cardinality(PrepareReserved)
      /\ ~Reserves(q) /\ Reserves(req[r])
              => Cardinality(PrepareReserved') < Cardinality(PrepareReserved)
  BY <1>2, <1>3, <1>5
<1>7. /\ Cardinality(BumpReserved) \in Nat /\ Cardinality(BumpReserved') \in Nat
      /\ Cardinality(BumpReserved') <= Cardinality(BumpReserved) + 1
      /\ q.pc # "bump" => Cardinality(BumpReserved') <= Cardinality(BumpReserved)
      /\ q.pc # "bump" /\ req[r].pc = "bump"
              => Cardinality(BumpReserved') < Cardinality(BumpReserved)
  BY <1>2, <1>4, <1>5
<1> QED
  BY <1>6, <1>7

\* The guards of the bounds, over the named sets.
LEMMA RoomGuards ==
  /\ RoomToPrepare <=> minted + Cardinality(PrepareReserved) < MaxCredentials
  /\ RoomToBump <=> version + Cardinality(BumpReserved) < MaxVersion
BY DEF RoomToPrepare, RoomToBump, PrepareReserved, BumpReserved, Reserves

----------------------------------------------------------------------------
(* What a step keeps that hands out nothing *)

\* Every request goes on with the credentials it has, or drops them.
Onward ==
  \A r \in Requests :
    \/ req'[r].old = None /\ req'[r].new = None
    \/ /\ req'[r].browser = req[r].browser
       /\ req'[r].old = req[r].old
       /\ req'[r].new = req[r].new

JarsOnward == \A b \in Browsers : jar'[b] = jar[b] \/ jar'[b] = None

RevokedStays == \A f \in Credentials : family[f] = "revoked" => family'[f] = "revoked"

LEMMA NoneIsNoCredential == None \notin Credentials
BY BoundAssumption DEF None, Credentials

LEMMA HandsKept ==
  ASSUME Undelivered, FirstOfFamily, OneBrowser, Onward, JarsOnward,
         famOf' = famOf, successors' = successors
  PROVE  Undelivered' /\ FirstOfFamily' /\ OneBrowser'
<1>1. Undelivered'
  BY DEF Undelivered, Onward, JarsOnward
<1>2. FirstOfFamily'
  BY DEF FirstOfFamily, Onward
<1>3. OneBrowser'
  <2>1. ASSUME NEW c \in Credentials, NEW b, HeldBy(c, b)'
        PROVE  HeldBy(c, b)
    BY <2>1, NoneIsNoCredential DEF HeldBy, Onward, JarsOnward
  <2> QED
    BY <2>1 DEF OneBrowser
<1> QED
  BY <1>1, <1>2, <1>3

LEMMA FamilyOf ==
  ASSUME TypeOK, MintedAgree, NEW c \in Mints
  PROVE  /\ c \in Credentials /\ c # None
         /\ famOf[c] \in Mints /\ famOf[c] \in Credentials /\ famOf[c] # None
         /\ \A d \in Credentials : famOf[d] = famOf[c] => d \in Mints
<1>1. minted \in 0 .. MaxCredentials /\ c \in 1 .. minted /\ famOf[c] \in 1 .. c
  BY DEF TypeOK, MintedAgree, Mints
<1>2. c \in 1 .. MaxCredentials /\ famOf[c] \in 1 .. minted /\ famOf[c] \in 1 .. MaxCredentials
  BY <1>1, BoundAssumption
<1>3. famOf[c] # None /\ c # None
  BY <1>1 DEF None
<1> QED
  BY <1>2, <1>3 DEF Mints, Credentials, MintedAgree

\* No token is added, and what is taken away leaves its family revoked.
TokensOnward ==
  /\ refresh' \subseteq refresh
  /\ \A c \in refresh \ refresh' : family'[famOf[c]] = "revoked"
  /\ RevokedStays

LEMMA TokensKept ==
  ASSUME TypeOK, StoredMinted, RequestShape, MintedAgree, Onward, JarsOnward, TokensOnward,
         famOf' = famOf, successors' = successors,
         CarriedStored, ExchangedSpent, OneTip, TipFollowed,
         \A r \in Requests : req[r].old \in alias => req[r].old \in alias'
  PROVE  CarriedStored' /\ ExchangedSpent' /\ OneTip' /\ TipFollowed'
<1>1. CarriedStored'
  <2>1. \A b \in Browsers : jar[b] # None => famOf[jar[b]] \in Credentials
    BY FamilyOf DEF StoredMinted
  <2> QED
    BY <2>1 DEF CarriedStored, Revoked, JarsOnward, TokensOnward, RevokedStays
<1>2. ExchangedSpent' /\ OneTip'
  BY DEF ExchangedSpent, OneTip, TokensOnward
<1>3. TipFollowed'
  <2> SUFFICES ASSUME RotationEnabled, NEW r \in Requests
               PROVE  (/\ req[r].old # None /\ req[r].new \in refresh
                            => req[r].old \in alias /\ JarsOf(famOf[req[r].new], req[r].old)
                       /\ req[r].old \in refresh => JarsOf(famOf[req[r].old], req[r].old))'
    BY DEF TipFollowed, JarsOf
  <2>1. None \notin refresh
    BY NoneIsNoCredential DEF TypeOK, RedisTypeOK
  <2>2. CASE req'[r].old = None /\ req'[r].new = None
    BY <2>1, <2>2 DEF TokensOnward
  <2>3. CASE req'[r].old = req[r].old /\ req'[r].new = req[r].new
    BY <2>3 DEF TipFollowed, JarsOf, JarsOnward, TokensOnward
  <2> QED
    BY <2>2, <2>3 DEF Onward
<1> QED
  BY <1>1, <1>2, <1>3

LEMMA FenceKept ==
  ASSUME TypeOK, FencedFamilies, Onward, JarsOnward, RevokedStays,
         refresh' \subseteq refresh, famOf' = famOf
  PROVE  \A f \in fenced : family'[f] = "revoked" \/ OutOfSight(f)'
<1>1. None \notin refresh /\ fenced \subseteq Credentials
  BY NoneIsNoCredential DEF TypeOK, RedisTypeOK
<1>2. \A f : OutOfSight(f) => OutOfSight(f)'
  BY <1>1 DEF OutOfSight, Onward, JarsOnward
<1> QED
  BY <1>1, <1>2 DEF FencedFamilies, RevokedStays

----------------------------------------------------------------------------
(* Steps of a request that leave Redis as it is *)

\* What a request may become without a write to Redis.
Moves(r, q) ==
  /\ Serve(r, q)
  /\ Form(q) /\ q.pc # "issue"
  /\ \/ q.old = None /\ q.new = None
     \/ q.browser = req[r].browser /\ q.old = req[r].old /\ q.new = req[r].new
  /\ q.pc = "prepareRotation" => q.expected = verOf[q.old]

LEMMA MovesOnward ==
  ASSUME IInv, NEW r \in Requests, NEW q \in RequestRecords, Moves(r, q)
  PROVE  Onward /\ RequestTypeOK' /\ req'[r] = q /\ \A s \in Requests \ {r} : req'[s] = req[s]
BY Served DEF Onward, Moves, IInv

\* The shape of the requests depends on little else.
LEMMA ShapeMoves ==
  ASSUME IInv, NEW r \in Requests, NEW q \in RequestRecords, Moves(r, q),
         UNCHANGED mintVars,
         expired' = expired \/ \E c \in Credentials : /\ expired' = expired \cup {c}
                                                      /\ \A s \in Requests : req[s].new # c
  PROVE  RequestShape'
<1>1. RequestShape /\ TypeOK /\ StoredMinted
  BY DEF IInv, World
<1>2. req'[r] = q /\ \A s \in Requests \ {r} : req'[s] = req[s]
  BY MovesOnward
<1>3. Mints' = Mints /\ famOf' = famOf /\ verOf' = verOf
  BY DEF mintVars, Mints
<1>4. ASSUME NEW s \in Requests
      PROVE  (/\ Form(req[s])
              /\ req[s].old \in Mints \cup {None}
              /\ req[s].new \in Mints \cup {None}
              /\ req[s].new # None => req[s].new \notin expired
              /\ req[s].new # None /\ req[s].old # None
                   => famOf[req[s].new] = famOf[req[s].old]
              /\ req[s].pc = "prepareRotation" => req[s].expected = verOf[req[s].old])'
  <2>1. CASE s # r
    BY <1>1, <1>2, <1>3, <2>1 DEF RequestShape, Form
  <2>2. CASE s = r
    BY <1>1, <1>2, <1>3, <2>2 DEF RequestShape, Form, Moves
  <2> QED
    BY <2>1, <2>2
<1> QED
  BY <1>4 DEF RequestShape

LEMMA RequestStep ==
  ASSUME IInv, NEW r \in Requests, NEW q \in RequestRecords, Moves(r, q),
         q.pc = "answer" => q.new \in refresh \/ Revoked(q.new),
         UNCHANGED <<mintVars, redisVars, expired, historyVars>>,
         version' \in version .. MaxVersion,
         bridge' \in [Browsers -> 0 .. MaxVersion],
         jar' \in [Browsers -> Credentials \cup {None}],
         JarsOnward,
         faults' \in 0 .. MaxFaults,
         RoomKept'
  PROVE  IInv'
<1>1. TypeOK /\ RequestShape /\ World
  BY DEF IInv
<1> USE <1>1
<1>2. Onward /\ RequestTypeOK' /\ req'[r] = q /\ \A s \in Requests \ {r} : req'[s] = req[s]
  BY MovesOnward
<1>3. /\ UNCHANGED <<minted, famOf, verOf, since, live, refresh, family, alias, receipt,
                     famSess, famTok, userSess, userTok, userFam, tomb, logoutReceipt,
                     expired, fenced, successors>>
      /\ Mints' = Mints
  BY DEF mintVars, redisVars, userSets, historyVars, Mints
<1>4. TypeOK'
  <2>1. version \in 1 .. MaxVersion /\ version' \in 1 .. MaxVersion
    BY DEF TypeOK
  <2>2. RedisTypeOK'
    BY <1>3 DEF TypeOK, RedisTypeOK
  <2> QED
    BY <1>2, <1>3, <2>1, <2>2 DEF TypeOK
<1>5. RequestShape'
  BY ShapeMoves
<1>6. MintedAgree' /\ StoredMinted'
  <2>1. StoredMinted'
    BY <1>3 DEF World, StoredMinted, JarsOnward
  <2>2. \A c \in Mints : verOf[c] \in 1 .. version => verOf[c] \in 1 .. version'
    BY DEF TypeOK
  <2> QED
    BY <1>3, <2>1, <2>2 DEF World, MintedAgree
<1>7. Undelivered' /\ FirstOfFamily' /\ OneBrowser'
  BY <1>2, <1>3, HandsKept DEF World
<1>8. CarriedStored' /\ ExchangedSpent' /\ OneTip' /\ TipFollowed'
  BY <1>2, <1>3, TokensKept DEF World, TokensOnward, RevokedStays
<1>9. FencedFamilies'
  BY <1>2, <1>3, FenceKept DEF World, RevokedStays, FencedFamilies
<1>10. NotYetIssued'
  BY <1>2, <1>3 DEF World, NotYetIssued, Moves
<1>11. AnswerStored'
  BY <1>2, <1>3 DEF World, AnswerStored, Revoked
<1>12. LiveUnexpired' /\ RefreshActive' /\ EverySessionEnumerable' /\ RedeemedOnce'
  BY <1>3 DEF World, LiveUnexpired, RefreshActive, EverySessionEnumerable, RedeemedOnce
<1> QED
  BY <1>4, <1>5, <1>6, <1>7, <1>8, <1>9, <1>10, <1>11, <1>12 DEF IInv, World

\* A step of a request that counts neither for the bounds nor for the version.
LEMMA QuietStep ==
  ASSUME IInv, NEW r \in Requests, NEW q \in RequestRecords, Moves(r, q),
         q.pc = "answer" => q.new \in refresh \/ Revoked(q.new),
         Reserves(q) => Reserves(req[r]) \/ RoomToPrepare,
         q.pc = "bump" => RoomToBump,
         UNCHANGED <<version, mintVars, redisVars, expired, historyVars>>,
         bridge' \in [Browsers -> 0 .. MaxVersion],
         jar' \in [Browsers -> Credentials \cup {None}],
         JarsOnward,
         faults' \in 0 .. MaxFaults
  PROVE  IInv'
<1>1. /\ TypeOK /\ version \in 1 .. MaxVersion /\ minted \in 0 .. MaxCredentials
      /\ MaxVersion \in Nat /\ MaxCredentials \in Nat
      /\ minted' = minted /\ version' = version /\ Serve(r, q)
      /\ RoomKept
  BY BoundAssumption DEF IInv, TypeOK, Moves, mintVars
<1>2. /\ Cardinality(PrepareReserved) \in Nat /\ Cardinality(PrepareReserved') \in Nat
      /\ Cardinality(BumpReserved) \in Nat /\ Cardinality(BumpReserved') \in Nat
      /\ Cardinality(PrepareReserved') <= Cardinality(PrepareReserved) + 1
      /\ Cardinality(BumpReserved') <= Cardinality(BumpReserved) + 1
      /\ ~RoomToPrepare => Cardinality(PrepareReserved') <= Cardinality(PrepareReserved)
      /\ ~RoomToBump => Cardinality(BumpReserved') <= Cardinality(BumpReserved)
  BY <1>1, Reservations
<1>3. RoomKept'
  <2>1. minted' + Cardinality(PrepareReserved') <= MaxCredentials
    BY <1>1, <1>2, RoomGuards DEF RoomKept
  <2>2. version' + Cardinality(BumpReserved') <= MaxVersion
    BY <1>1, <1>2, RoomGuards DEF RoomKept
  <2> QED
    BY <2>1, <2>2 DEF RoomKept
<1>4. version' \in version .. MaxVersion
  BY <1>1
<1> QED
  BY <1>3, <1>4, RequestStep

\* A request that ends, or answers with cleared cookies, holds nothing.
Cleared(r) == [Idle EXCEPT !.pc = "clear", !.browser = req[r].browser]

LEMMA Endings ==
  ASSUME TypeOK, NEW r \in Requests
  PROVE  /\ Idle \in RequestRecords /\ Cleared(r) \in RequestRecords
         /\ Finish(r) => Moves(r, Idle)
         /\ AnswerCleared(r) => Moves(r, Cleared(r))
         /\ ~Reserves(Cleared(r)) /\ Cleared(r).pc = "clear"
         /\ Cleared(r).new = None /\ Cleared(r).old = None
<1>1. req[r].browser \in Browsers \cup {None}
  BY RequestTyped DEF RequestRecords
<1>2. /\ Cleared(r) \in RequestRecords
      /\ Cleared(r).pc = "clear" /\ Cleared(r).after = "none"
      /\ Cleared(r).new = None /\ Cleared(r).old = None
  BY <1>1, IdleRecord, BoundAssumption DEF Cleared, Idle, RequestRecords, RequestStates
<1>3. Form(Cleared(r)) /\ ~Reserves(Cleared(r))
  BY <1>2 DEF Form, Reserves
<1> QED
  BY <1>2, <1>3, IdleRecord DEF Finish, AnswerCleared, Cleared, Moves

\* A request that began to be served: with no credentials yet.
LEMMA Beginnings ==
  ASSUME TypeOK, NEW r \in Requests, req[r] = Idle, NEW q \in RequestRecords, Serve(r, q),
         q.old = None, q.new = None,
         \/ q.pc = "prepare" /\ q.after = "none"
         \/ q.pc \in {"bump", "revokeAll"}
         \/ q.pc = "clear" /\ q.after = "none"
  PROVE  Moves(r, q)
BY DEF Moves, Form

LEMMA LoginInv ==
  ASSUME IInv, NEW b \in Browsers, NEW r \in Requests, Login(b, r)
  PROVE  IInv'
<1> DEFINE q == [Idle EXCEPT !.pc = "prepare", !.browser = b, !.verified = version]
<1>1. /\ TypeOK /\ req[r] = Idle /\ RoomToPrepare /\ Serve(r, q)
      /\ UNCHANGED <<version, mintVars, redisVars, expired, bridge, jar, faults, historyVars>>
      /\ version \in 0 .. MaxVersion
  BY DEF IInv, TypeOK, Login, browserVars
<1>2. /\ q \in RequestRecords /\ q.pc = "prepare" /\ q.after = "none"
      /\ q.old = None /\ q.new = None
  BY <1>1, IdleRecord DEF Idle, RequestRecords, RequestStates
<1>3. Moves(r, q)
  BY <1>1, <1>2, Beginnings
<1> HIDE DEF q
<1> QED
  BY <1>1, <1>2, <1>3, QuietStep DEF TypeOK, JarsOnward

LEMMA TwoFactorVerifyInv ==
  ASSUME IInv, NEW b \in Browsers, NEW r \in Requests, TwoFactorVerify(b, r)
  PROVE  IInv'
<1> DEFINE q == [Idle EXCEPT !.pc = "prepare", !.browser = b, !.expected = bridge[b]]
<1>1. /\ TypeOK /\ req[r] = Idle /\ RoomToPrepare /\ Serve(r, q)
      /\ bridge' = [bridge EXCEPT ![b] = None]
      /\ UNCHANGED <<version, mintVars, redisVars, expired, jar, faults, historyVars>>
  BY DEF IInv, TwoFactorVerify
<1>2. bridge[b] \in 0 .. MaxVersion /\ bridge' \in [Browsers -> 0 .. MaxVersion]
  BY <1>1, BoundAssumption DEF TypeOK, None
<1>3. /\ q \in RequestRecords /\ q.pc = "prepare" /\ q.after = "none"
      /\ q.old = None /\ q.new = None
  BY <1>2, IdleRecord DEF Idle, RequestRecords, RequestStates
<1>4. Moves(r, q)
  BY <1>1, <1>3, Beginnings
<1> HIDE DEF q
<1> QED
  BY <1>1, <1>2, <1>3, <1>4, QuietStep DEF TypeOK, JarsOnward

LEMMA SecondFactorAskedInv ==
  ASSUME IInv, NEW r \in Requests, SecondFactorAsked(r)
  PROVE  IInv'
<1>1. /\ TypeOK /\ Finish(r)
      /\ bridge' = [bridge EXCEPT ![req[r].browser] = req[r].verified]
      /\ UNCHANGED <<version, mintVars, redisVars, expired, jar, faults, historyVars>>
  BY DEF IInv, SecondFactorAsked
<1>2. req[r].verified \in 0 .. MaxVersion
  BY <1>1, RequestTyped DEF RequestRecords
<1>3. bridge' \in [Browsers -> 0 .. MaxVersion]
  BY <1>1, <1>2 DEF TypeOK
<1> QED
  BY <1>1, <1>3, Endings, IdleRecord, QuietStep DEF TypeOK, JarsOnward

LEMMA PasswordRefusedInv ==
  ASSUME IInv, NEW r \in Requests, PasswordRefused(r)
  PROVE  IInv'
<1>1. /\ TypeOK /\ Finish(r)
      /\ UNCHANGED <<version, mintVars, redisVars, expired, bridge, jar, faults, historyVars>>
  BY DEF IInv, PasswordRefused, browserVars
<1> QED
  BY <1>1, Endings, IdleRecord, QuietStep DEF TypeOK, JarsOnward

LEMMA PrepareRefusedInv ==
  ASSUME IInv, NEW r \in Requests, PrepareRefused(r)
  PROVE  IInv'
<1>1. /\ TypeOK /\ Finish(r)
      /\ UNCHANGED <<version, mintVars, redisVars, expired, bridge, jar, faults, historyVars>>
  BY DEF IInv, PrepareRefused, browserVars
<1> QED
  BY <1>1, Endings, IdleRecord, QuietStep DEF TypeOK, JarsOnward

LEMMA ResponseLostInv ==
  ASSUME IInv, NEW r \in Requests, ResponseLost(r)
  PROVE  IInv'
<1>1. /\ TypeOK /\ Finish(r)
      /\ UNCHANGED <<version, mintVars, redisVars, expired, bridge, jar, faults, historyVars>>
  BY DEF IInv, ResponseLost, browserVars
<1> QED
  BY <1>1, Endings, IdleRecord, QuietStep DEF TypeOK, JarsOnward

LEMMA CookiesClearedInv ==
  ASSUME IInv, NEW r \in Requests, CookiesCleared(r)
  PROVE  IInv'
<1>1. /\ TypeOK /\ Finish(r)
      /\ jar' = [jar EXCEPT ![req[r].browser] = None]
      /\ UNCHANGED <<version, mintVars, redisVars, expired, bridge, faults, historyVars>>
  BY DEF IInv, CookiesCleared
<1>2. jar' \in [Browsers -> Credentials \cup {None}] /\ JarsOnward
  BY <1>1 DEF TypeOK, JarsOnward
<1> QED
  BY <1>1, <1>2, Endings, IdleRecord, QuietStep DEF TypeOK

LEMMA AuthenticatedChangeInv ==
  ASSUME IInv, NEW b \in Browsers, NEW r \in Requests, NEW after \in {"reissue", "clear"},
         AuthenticatedChange(b, r, after)
  PROVE  IInv'
<1> DEFINE q == [Idle EXCEPT !.pc = "bump", !.browser = b, !.after = after]
<1>1. /\ TypeOK /\ req[r] = Idle /\ RoomToBump /\ (after = "reissue" => RoomToPrepare)
      /\ Serve(r, q)
      /\ UNCHANGED <<version, mintVars, redisVars, expired, bridge, jar, faults, historyVars>>
  BY DEF IInv, AuthenticatedChange, browserVars
<1>2. /\ q \in RequestRecords /\ q.pc = "bump" /\ q.after = after
      /\ q.old = None /\ q.new = None
  BY IdleRecord DEF Idle, RequestRecords, RequestStates
<1>3. Moves(r, q)
  BY <1>1, <1>2, Beginnings
<1>4. Reserves(q) => RoomToPrepare
  BY <1>1, <1>2 DEF Reserves
<1> HIDE DEF q
<1> QED
  BY <1>1, <1>2, <1>3, <1>4, QuietStep DEF TypeOK, JarsOnward

\* The bump uses what was set aside for it, or what is left.
LEMMA BumpInv ==
  ASSUME IInv, NEW r \in Requests, NEW q \in RequestRecords, Moves(r, q),
         req[r].pc = "bump" \/ RoomToBump,
         q.pc = "revokeAll", q.after = req[r].after,
         version' = version + 1,
         UNCHANGED <<mintVars, redisVars, expired, historyVars>>,
         bridge' = bridge, jar' = jar, faults' = faults
  PROVE  IInv'
<1>1. /\ TypeOK /\ version \in 1 .. MaxVersion /\ minted \in 0 .. MaxCredentials
      /\ MaxVersion \in Nat /\ MaxCredentials \in Nat
      /\ minted' = minted /\ Serve(r, q) /\ RoomKept
  BY BoundAssumption DEF IInv, TypeOK, Moves, mintVars
<1>2. /\ Cardinality(PrepareReserved) \in Nat /\ Cardinality(PrepareReserved') \in Nat
      /\ Cardinality(BumpReserved) \in Nat /\ Cardinality(BumpReserved') \in Nat
      /\ Cardinality(PrepareReserved') <= Cardinality(PrepareReserved)
      /\ Cardinality(BumpReserved') <= Cardinality(BumpReserved)
      /\ ~RoomToBump => Cardinality(BumpReserved') < Cardinality(BumpReserved)
  BY <1>1, Reservations DEF Reserves
<1>3. RoomKept'
  <2>1. minted' + Cardinality(PrepareReserved') <= MaxCredentials
    BY <1>1, <1>2 DEF RoomKept
  <2>2. version' + Cardinality(BumpReserved') <= MaxVersion
    BY <1>1, <1>2, RoomGuards DEF RoomKept
  <2> QED
    BY <2>1, <2>2 DEF RoomKept
<1>4. version' \in version .. MaxVersion
  BY <1>1, <1>2, <1>3 DEF RoomKept
<1> QED
  BY <1>1, <1>3, <1>4, RequestStep DEF TypeOK, JarsOnward

LEMMA BumpSessionVersionInv ==
  ASSUME IInv, NEW r \in Requests, BumpSessionVersion(r)
  PROVE  IInv'
<1> DEFINE q == [req[r] EXCEPT !.pc = "revokeAll"]
<1>1. /\ TypeOK /\ req[r].pc = "bump" /\ Serve(r, q) /\ Form(req[r])
      /\ version' = version + 1
      /\ UNCHANGED <<mintVars, redisVars, expired, bridge, jar, faults, historyVars>>
  BY DEF IInv, RequestShape, BumpSessionVersion, browserVars
<1>2. /\ q \in RequestRecords /\ q.pc = "revokeAll" /\ q.after = req[r].after
      /\ q.old = req[r].old /\ q.new = req[r].new /\ q.browser = req[r].browser
  BY <1>1, RequestTyped DEF RequestRecords, RequestStates
<1>3. Moves(r, q)
  BY <1>1, <1>2 DEF Moves, Form
<1> HIDE DEF q
<1> QED
  BY <1>1, <1>2, <1>3, BumpInv

LEMMA OutOfBandChangeInv ==
  ASSUME IInv, NEW r \in Requests, OutOfBandChange(r)
  PROVE  IInv'
<1> DEFINE q == [Idle EXCEPT !.pc = "revokeAll"]
<1>1. /\ TypeOK /\ req[r] = Idle /\ RoomToBump /\ Serve(r, q)
      /\ version' = version + 1
      /\ UNCHANGED <<mintVars, redisVars, expired, bridge, jar, faults, historyVars>>
  BY DEF IInv, OutOfBandChange, browserVars
<1>2. /\ q \in RequestRecords /\ q.pc = "revokeAll" /\ q.after = req[r].after
      /\ q.old = None /\ q.new = None
  BY <1>1, IdleRecord DEF Idle, RequestRecords, RequestStates
<1>3. Moves(r, q)
  BY <1>1, <1>2, Beginnings
<1> HIDE DEF q
<1> QED
  BY <1>1, <1>2, <1>3, BumpInv

LEMMA RefreshChecksAccountInv ==
  ASSUME IInv, NEW r \in Requests, RefreshChecksAccount(r)
  PROVE  IInv'
<1> DEFINE q == [req[r] EXCEPT !.pc = "prepareRotation", !.expected = version]
<1>1. /\ TypeOK /\ req[r].pc = "lookedUp" /\ Form(req[r])
      /\ UNCHANGED <<version, mintVars, redisVars, expired, bridge, jar, faults, historyVars>>
  BY DEF IInv, RequestShape, RefreshChecksAccount, browserVars
<1>2. CASE verOf[req[r].old] = version
  <2>1. Serve(r, q)
    BY <1>2 DEF RefreshChecksAccount
  <2>2. /\ q \in RequestRecords /\ q.pc = "prepareRotation" /\ q.expected = version
        /\ q.old = req[r].old /\ q.new = req[r].new /\ q.browser = req[r].browser
        /\ q.after = req[r].after
    BY <1>1, RequestTyped, version \in 0 .. MaxVersion DEF RequestRecords, RequestStates, TypeOK
  <2>3. Moves(r, q)
    BY <1>1, <1>2, <2>1, <2>2 DEF Moves, Form
  <2>4. Reserves(req[r])
    BY <1>1 DEF Reserves
  <2> HIDE DEF q
  <2> QED
    BY <1>1, <2>2, <2>3, <2>4, QuietStep DEF TypeOK, JarsOnward
<1>3. CASE verOf[req[r].old] # version
  <2>1. AnswerCleared(r)
    BY <1>3 DEF RefreshChecksAccount
  <2> QED
    BY <1>1, <2>1, Endings, QuietStep DEF TypeOK, JarsOnward
<1> QED
  BY <1>2, <1>3

\* The lookup hands the browser's token to a request.
LEMMA RefreshLooksUpInv ==
  ASSUME IInv, NEW b \in Browsers, NEW r \in Requests, RefreshLooksUp(b, r)
  PROVE  IInv'
<1>1. /\ TypeOK /\ RequestShape /\ World /\ RoomKept /\ req[r] = Idle /\ jar[b] # None
      /\ UNCHANGED <<version, mintVars, redisVars, expired, bridge, jar, faults, historyVars>>
  BY DEF IInv, RefreshLooksUp, browserVars
<1>2. jar[b] \in Mints /\ jar[b] \in Credentials
  BY <1>1, FamilyOf DEF World, StoredMinted
<1>3. CASE jar[b] \notin refresh
  <2> DEFINE q == [Idle EXCEPT !.pc = "clear", !.browser = b]
  <2>1. Serve(r, q)
    BY <1>3 DEF RefreshLooksUp
  <2>2. /\ q \in RequestRecords /\ q.pc = "clear" /\ q.after = "none"
        /\ q.old = None /\ q.new = None
    BY IdleRecord DEF Idle, RequestRecords, RequestStates
  <2>3. Moves(r, q) /\ ~Reserves(q)
    BY <1>1, <2>1, <2>2, Beginnings DEF Reserves
  <2> HIDE DEF q
  <2> QED
    BY <1>1, <2>2, <2>3, QuietStep DEF TypeOK, JarsOnward
<1>4. CASE jar[b] \in refresh
  <2> DEFINE q == [Idle EXCEPT !.pc = "lookedUp", !.browser = b, !.old = jar[b]]
  <2>1. Serve(r, q) /\ RoomToPrepare
    BY <1>4 DEF RefreshLooksUp
  <2>2. /\ q \in RequestRecords /\ q.pc = "lookedUp" /\ q.after = "none"
        /\ q.browser = b /\ q.old = jar[b] /\ q.new = None
    BY <1>2, IdleRecord DEF Idle, RequestRecords, RequestStates
  <2> HIDE DEF q
  <2>3. /\ RequestTypeOK' /\ req'[r] = q /\ \A s \in Requests \ {r} : req'[s] = req[s]
    BY <1>1, <2>1, <2>2, Served
  <2>4. /\ UNCHANGED <<version, minted, famOf, verOf, since, live, refresh, family, alias,
                       receipt, famSess, famTok, userSess, userTok, userFam, tomb,
                       logoutReceipt, expired, bridge, jar, faults, fenced, successors>>
        /\ Mints' = Mints
    BY <1>1 DEF mintVars, redisVars, userSets, historyVars, Mints
  <2>5. TypeOK'
    BY <1>1, <2>3, <2>4 DEF TypeOK, RedisTypeOK
  <2>6. RoomKept'
    <3>1. /\ Cardinality(PrepareReserved) \in Nat /\ Cardinality(PrepareReserved') \in Nat
          /\ Cardinality(BumpReserved) \in Nat /\ Cardinality(BumpReserved') \in Nat
          /\ Cardinality(PrepareReserved') <= Cardinality(PrepareReserved) + 1
          /\ Cardinality(BumpReserved') <= Cardinality(BumpReserved)
      BY <1>1, <2>1, <2>2, Reservations
    <3>2. minted \in Nat /\ version \in Nat /\ MaxCredentials \in Nat /\ MaxVersion \in Nat
      BY <1>1, BoundAssumption DEF TypeOK
    <3> QED
      BY <1>1, <2>1, <2>4, <3>1, <3>2, RoomGuards DEF RoomKept
  <2>7. RequestShape'
    BY <1>1, <1>2, <2>2, <2>3, <2>4 DEF RequestShape, Form
  <2>8. ASSUME NEW c \in Credentials, NEW a, HeldBy(c, a)'
        PROVE  HeldBy(c, a)
    BY <2>2, <2>3, <2>4, <2>8, NoneIsNoCredential DEF HeldBy
  <2>9. Undelivered' /\ FirstOfFamily' /\ OneBrowser'
    <3>1. Undelivered'
      BY <1>1, <2>2, <2>3, <2>4 DEF World, Undelivered
    <3>2. FirstOfFamily'
      BY <1>1, <2>2, <2>3, <2>4 DEF World, FirstOfFamily
    <3>3. OneBrowser'
      BY <1>1, <2>4, <2>8 DEF World, OneBrowser
    <3> QED
      BY <3>1, <3>2, <3>3
  <2>10. TipFollowed'
    <3>1. JarsOf(famOf[jar[b]], jar[b])
      <4>1. ASSUME NEW a \in Browsers, jar[a] # None, famOf[jar[a]] = famOf[jar[b]]
            PROVE  jar[a] = jar[b]
        <5>1. jar[a] \in Credentials /\ HeldBy(jar[a], a) /\ HeldBy(jar[b], b)
          BY <1>1, <4>1, FamilyOf DEF World, StoredMinted, HeldBy
        <5> QED
          BY <1>1, <1>2, <4>1, <5>1 DEF World, OneBrowser
      <4> QED
        BY <4>1 DEF JarsOf
    <3>2. None \notin refresh
      BY <1>1, NoneIsNoCredential DEF TypeOK, RedisTypeOK
    <3> QED
      BY <1>1, <2>2, <2>3, <2>4, <3>1, <3>2 DEF World, TipFollowed, JarsOf
  <2>11. FencedFamilies'
    BY <1>1, <2>2, <2>3, <2>4, NoneIsNoCredential
    DEF World, FencedFamilies, OutOfSight, TypeOK, RedisTypeOK
  <2>12. NotYetIssued' /\ AnswerStored'
    BY <1>1, <2>2, <2>3, <2>4 DEF World, NotYetIssued, AnswerStored, Revoked
  <2>13. /\ MintedAgree' /\ StoredMinted' /\ LiveUnexpired' /\ RefreshActive'
         /\ CarriedStored' /\ ExchangedSpent' /\ OneTip'
         /\ EverySessionEnumerable' /\ RedeemedOnce'
    BY <1>1, <2>4 DEF World, MintedAgree, StoredMinted, LiveUnexpired, RefreshActive,
       CarriedStored, Revoked, ExchangedSpent, OneTip, EverySessionEnumerable, RedeemedOnce
  <2> QED
    BY <2>5, <2>6, <2>7, <2>9, <2>10, <2>11, <2>12, <2>13 DEF IInv, World
<1> QED
  BY <1>3, <1>4

----------------------------------------------------------------------------
(* A new credential *)

LEMMA MintStep ==
  ASSUME IInv, NEW r \in Requests, NEW q \in RequestRecords, NEW f,
         Serve(r, q), Form(q), q.new = minted + 1, q.old = req[r].old,
         q.browser = req[r].browser, req[r].new = None,
         Reserves(req[r]), ~Reserves(q),
         \/ q.pc = "issue" /\ q.old = None /\ f = minted + 1
         \/ q.pc = "rotate" /\ q.old # None /\ f = famOf[q.old],
         minted' = minted + 1,
         famOf' = [famOf EXCEPT ![minted + 1] = f],
         verOf' = [verOf EXCEPT ![minted + 1] = version],
         since' \in [Credentials -> 0 .. MaxVersion],
         since'[f] = version,
         \A c \in Mints : since'[c] = since[c],
         UNCHANGED <<version, redisVars, browserVars, faults, historyVars>>
  PROVE  IInv'
<1> DEFINE new == minted + 1
<1>1. TypeOK /\ RequestShape /\ World /\ RoomKept
  BY DEF IInv
<1>2. /\ UNCHANGED <<version, live, refresh, family, alias, receipt, famSess, famTok,
                     userSess, userTok, userFam, tomb, logoutReceipt, expired, bridge, jar,
                     faults, fenced, successors>>
  BY DEF redisVars, userSets, historyVars, browserVars
<1>3. RoomKept' /\ new \in Credentials
  <2>1. /\ Cardinality(PrepareReserved) \in Nat /\ Cardinality(PrepareReserved') \in Nat
        /\ Cardinality(BumpReserved) \in Nat /\ Cardinality(BumpReserved') \in Nat
        /\ Cardinality(PrepareReserved') < Cardinality(PrepareReserved)
        /\ Cardinality(BumpReserved') <= Cardinality(BumpReserved)
    BY <1>1, Reservations
  <2>2. minted \in Nat /\ version \in Nat /\ MaxCredentials \in Nat /\ MaxVersion \in Nat
    BY <1>1, BoundAssumption DEF TypeOK
  <2> QED
    BY <1>1, <1>2, <2>1, <2>2 DEF RoomKept, Credentials
<1>4. /\ Mints \subseteq Credentials /\ new \notin Mints /\ Mints' = Mints \cup {new}
      /\ new # None
  <2>1. minted \in Nat /\ new \in 1 .. MaxCredentials /\ minted' = minted + 1
    BY <1>1, <1>3 DEF TypeOK, Credentials
  <2>2. MaxCredentials \in Nat
    BY BoundAssumption
  <2>3. new # None /\ new \notin Mints
    BY <2>1 DEF Mints, None
  <2>4. Mints \subseteq Credentials
    BY <2>1, <2>2 DEF Mints, Credentials
  <2>5. Mints' = Mints \cup {new}
    BY <2>1 DEF Mints
  <2> QED
    BY <2>3, <2>4, <2>5
<1>5. req'[r] = q /\ RequestTypeOK' /\ \A s \in Requests \ {r} : req'[s] = req[s]
  BY <1>1, Served
<1>6. /\ f = new \/ f \in Mints
      /\ q.old # None => q.old \in Mints
      /\ f = new => q.old = None
      /\ f # new => q.old # None /\ f = famOf[q.old] /\ famOf[f] = f
  BY <1>1, <1>4, FamilyOf DEF RequestShape, World, MintedAgree
<1>7. /\ famOf'[new] = f /\ verOf'[new] = version
      /\ \A c \in Credentials \ {new} : famOf'[c] = famOf[c] /\ verOf'[c] = verOf[c]
      /\ \A c \in Mints : famOf'[c] = famOf[c] /\ verOf'[c] = verOf[c] /\ famOf[c] \in Mints
  BY <1>1, <1>3, <1>4, FamilyOf DEF TypeOK, World
<1>8. TypeOK'
  <2>1. minted' \in 0 .. MaxCredentials /\ minted \in Nat
    BY <1>1, <1>3 DEF TypeOK, Credentials
  <2>2. f \in Credentials
    BY <1>3, <1>4, <1>6
  <2>3. /\ famOf' \in [Credentials -> Credentials \cup {None}]
        /\ verOf' \in [Credentials -> 0 .. MaxVersion]
    BY <1>1, <2>2 DEF TypeOK
  <2>4. live \subseteq Mints
    BY <1>1 DEF World, StoredMinted
  <2>5. \A g \in Credentials : {c \in live' \ expired' : famOf'[c] = g}
                                 = {c \in live \ expired : famOf[c] = g}
    BY <1>2, <1>7, <2>4
  <2>6. \A g \in Credentials :
          Cardinality({c \in live' \ expired' : famOf'[c] = g}) <= MaxFamilySessions
    BY <1>1, <2>5 DEF TypeOK
  <2>7. RedisTypeOK'
    BY <1>1, <1>2 DEF TypeOK, RedisTypeOK
  <2> QED
    BY <1>1, <1>2, <1>5, <2>1, <2>3, <2>6, <2>7 DEF TypeOK
<1> HIDE DEF new
<1>9. RequestShape'
  <2>1. new \notin expired
    BY <1>1, <1>4 DEF World, StoredMinted
  <2>2. ASSUME NEW s \in Requests
        PROVE  (/\ Form(req[s])
                /\ req[s].old \in Mints \cup {None}
                /\ req[s].new \in Mints \cup {None}
                /\ req[s].new # None => req[s].new \notin expired
                /\ req[s].new # None /\ req[s].old # None
                     => famOf[req[s].new] = famOf[req[s].old]
                /\ req[s].pc = "prepareRotation" => req[s].expected = verOf[req[s].old])'
    <3>1. CASE s # r
      <4>1. req'[s] = req[s]
        BY <1>5, <3>1
      <4>2. req[s].pc = "prepareRotation" => req[s].old \in Mints
        BY <1>1 DEF RequestShape, Form
      <4> QED
        BY <1>1, <1>2, <1>4, <1>7, <4>1, <4>2 DEF RequestShape, Form
    <3>2. CASE s = r
      BY <1>2, <1>4, <1>5, <1>6, <1>7, <2>1, <3>2 DEF Form, new
    <3> QED
      BY <3>1, <3>2
  <2> QED
    BY <2>2 DEF RequestShape
<1>10. MintedAgree'
  <2>1. version \in 1 .. MaxVersion
    BY <1>1 DEF TypeOK
  <2>2. ASSUME NEW c \in Mints
        PROVE  /\ famOf'[c] \in 1 .. c /\ famOf'[famOf'[c]] = famOf'[c]
               /\ verOf'[c] \in 1 .. version' /\ since'[famOf'[c]] = verOf'[c]
    BY <1>1, <1>2, <1>7 DEF World, MintedAgree
  <2>3. f \in 1 .. new
    BY <1>1, <1>6 DEF Mints, new, TypeOK
  <2>4. /\ famOf'[new] \in 1 .. new /\ famOf'[famOf'[new]] = famOf'[new]
        /\ verOf'[new] \in 1 .. version' /\ since'[famOf'[new]] = verOf'[new]
    BY <1>2, <1>6, <1>7, <2>1, <2>3
  <2>5. \A c \in Credentials \ Mints' : famOf'[c] = None
    BY <1>1, <1>4, <1>7 DEF World, MintedAgree
  <2> QED
    BY <1>4, <2>2, <2>4, <2>5 DEF MintedAgree
<1>11. StoredMinted'
  BY <1>1, <1>2, <1>4 DEF World, StoredMinted
<1>12. Undelivered'
  <2>1. /\ \A b \in Browsers : jar[b] # new
        /\ \A s \in Requests : req[s].old # new /\ req[s].new # new
        /\ \A p \in successors : p[1] # new
    BY <1>1, <1>4 DEF World, StoredMinted, RequestShape
  <2> QED
    BY <1>1, <1>2, <1>5, <2>1 DEF World, Undelivered, new
<1>13. FirstOfFamily'
  <2>1. ASSUME NEW s \in Requests \ {r}, req[s].new # None, req[s].old = None
        PROVE  /\ famOf'[req[s].new] = req[s].new
               /\ \A d \in Credentials \ {req[s].new} : famOf'[d] # req[s].new
    <3>1. /\ req[s].new \in Mints /\ req[s].new # new /\ famOf[req[s].new] = req[s].new
          /\ \A d \in Credentials \ {req[s].new} : famOf[d] # req[s].new
      BY <1>1, <1>4, <2>1 DEF RequestShape, World, FirstOfFamily
    <3>2. f # req[s].new
      <4>1. f # new => q.old \in Credentials /\ q.old # req[s].new
        BY <1>1, <1>4, <1>6, <2>1 DEF World, Undelivered
      <4> QED
        BY <1>6, <3>1, <4>1
    <3> QED
      BY <1>7, <3>1, <3>2
  <2>2. q.old = None => f = new /\ \A d \in Credentials \ {new} : famOf'[d] # new
    BY <1>1, <1>4, <1>6, <1>7 DEF World, MintedAgree
  <2> QED
    BY <1>5, <1>7, <2>1, <2>2 DEF FirstOfFamily, new
<1>14. NotYetIssued'
  BY <1>1, <1>2, <1>3, <1>4, <1>5 DEF World, NotYetIssued, StoredMinted, new
<1>15. OneBrowser'
  <2>1. ASSUME NEW c \in Credentials, NEW a, HeldBy(c, a)'
        PROVE  (HeldBy(c, a) /\ c \in Mints) \/ (c = new /\ a = req[r].browser)
    <3>1. \A s \in Requests : \/ req'[s] = req[s]
                              \/ /\ s = r /\ req'[s].new = new
                                 /\ req'[s].browser = req[r].browser
                                 /\ req'[s].old = req[r].old
      BY <1>5 DEF new
    <3>2. HeldBy(c, a) => c \in Mints
      BY <1>1, NoneIsNoCredential DEF HeldBy, World, StoredMinted, RequestShape
    <3>3. HeldBy(c, a) \/ (c = new /\ a = req[r].browser)
      BY <1>2, <2>1, <3>1 DEF HeldBy
    <3> QED
      BY <3>2, <3>3
  <2>2. ASSUME NEW d \in Mints, NEW a \in Browsers \cup {None}, HeldBy(d, a),
               famOf[d] = f
        PROVE  a = req[r].browser
    <3>1. f \in Mints /\ f # new
      BY <1>4, <1>7, <2>2
    <3>2. q.old \in Mints /\ famOf[q.old] = f /\ HeldBy(q.old, req[r].browser)
      BY <1>6, <3>1 DEF HeldBy
    <3>3. req[r].browser \in Browsers \cup {None}
      BY <1>1, RequestTyped DEF RequestRecords
    <3> QED
      BY <1>1, <1>4, <2>2, <3>2, <3>3 DEF World, OneBrowser
  <2> SUFFICES ASSUME NEW a \in Browsers \cup {None}, NEW b \in Browsers \cup {None},
                      NEW c \in Credentials, NEW d \in Credentials,
                      HeldBy(c, a)', HeldBy(d, b)', famOf'[c] = famOf'[d]
               PROVE  a = b
    BY DEF OneBrowser
  <2>3. /\ (HeldBy(c, a) /\ c \in Mints) \/ (c = new /\ a = req[r].browser)
        /\ (HeldBy(d, b) /\ d \in Mints) \/ (d = new /\ b = req[r].browser)
    BY <2>1
  <2> QED
    BY <1>1, <1>7, <2>2, <2>3 DEF World, OneBrowser
<1>16. /\ \A c \in refresh : c \in Mints /\ famOf'[c] = famOf[c]
       /\ \A b \in Browsers : jar[b] # None => famOf'[jar[b]] = famOf[jar[b]]
       /\ new \notin refresh /\ None \notin refresh
  BY <1>1, <1>4, <1>7, NoneIsNoCredential DEF World, StoredMinted
<1>17. RefreshActive' /\ CarriedStored' /\ ExchangedSpent' /\ OneTip'
  BY <1>1, <1>2, <1>16
  DEF World, RefreshActive, CarriedStored, Revoked, ExchangedSpent, OneTip
<1>18. AnswerStored'
  <2>1. \A s \in Requests : req'[s].pc = "answer" => s # r /\ req[s].new \in Mints
    BY <1>1, <1>5 DEF RequestShape, Form
  <2> QED
    BY <1>1, <1>2, <1>5, <1>7, <2>1 DEF World, AnswerStored, Revoked
<1>19. TipFollowed'
  <2>1. \A s \in Requests : /\ req'[s].old = req[s].old
                            /\ req'[s].new \in refresh => req'[s].new = req[s].new
    BY <1>5, <1>16 DEF new
  <2> QED
    BY <1>1, <1>2, <1>16, <2>1 DEF World, TipFollowed, JarsOf
<1>20. FencedFamilies'
  <2>1. \A s \in Requests : /\ req'[s].old = req[s].old
                            /\ req'[s].new \in refresh => req'[s].new = req[s].new
    BY <1>5, <1>16 DEF new
  <2> QED
    BY <1>1, <1>2, <1>16, <2>1 DEF World, FencedFamilies, OutOfSight
<1>21. LiveUnexpired' /\ EverySessionEnumerable' /\ RedeemedOnce'
  BY <1>1, <1>2 DEF World, LiveUnexpired, EverySessionEnumerable, RedeemedOnce
<1> QED
  BY <1>3, <1>8, <1>9, <1>10, <1>11, <1>12, <1>13, <1>14, <1>15, <1>17, <1>18, <1>19, <1>20,
     <1>21 DEF IInv, World

LEMMA PrepareIssueInv ==
  ASSUME IInv, NEW r \in Requests, PrepareIssue(r)
  PROVE  IInv'
<1> DEFINE q == [req[r] EXCEPT !.pc = "issue", !.new = minted + 1, !.verified = None]
<1>1. /\ TypeOK /\ RoomKept /\ req[r].pc = "prepare" /\ Form(req[r])
      /\ req[r].expected \in {None, version}
      /\ Serve(r, q) /\ minted' = minted + 1
      /\ famOf' = [famOf EXCEPT ![minted + 1] = minted + 1]
      /\ verOf' = [verOf EXCEPT ![minted + 1] = version]
      /\ since' = [since EXCEPT ![minted + 1] = version]
      /\ UNCHANGED <<version, redisVars, browserVars, faults, historyVars>>
  BY DEF IInv, RequestShape, PrepareIssue, prepareSessionCredentials, PrepareAllowed
<1>2. minted + 1 \in Credentials
  <2>1. r \in PrepareReserved /\ IsFiniteSet(PrepareReserved)
    BY <1>1, RequestsAssumption, FS_Subset DEF PrepareReserved, Reserves
  <2>2. Cardinality(PrepareReserved) \in Nat /\ Cardinality(PrepareReserved) # 0
    BY <2>1, FS_CardinalityType, FS_EmptySet
  <2> QED
    BY <1>1, <2>2, BoundAssumption DEF RoomKept, TypeOK, Credentials
<1>3. /\ q \in RequestRecords /\ q.pc = "issue" /\ q.new = minted + 1
      /\ q.old = req[r].old /\ q.browser = req[r].browser /\ q.after = req[r].after
  <2>1. req[r] \in RequestRecords /\ None \in 0 .. MaxVersion
    BY <1>1, RequestTyped, BoundAssumption DEF None
  <2> QED
    BY <1>2, <2>1 DEF RequestRecords, RequestStates
<1>4. /\ minted + 1 # None /\ \A c \in Mints : c # minted + 1
      /\ version \in 0 .. MaxVersion
  BY <1>1 DEF TypeOK, Mints, None
<1>5. /\ req[r].new = None /\ req[r].old = None /\ req[r].after = "none"
      /\ Reserves(req[r]) /\ ~Reserves(q) /\ Form(q)
  BY <1>1, <1>3, <1>4 DEF Form, Reserves
<1>6. /\ since' \in [Credentials -> 0 .. MaxVersion]
      /\ since'[minted + 1] = version /\ \A c \in Mints : since'[c] = since[c]
  BY <1>1, <1>2, <1>4 DEF TypeOK
<1> HIDE DEF q
<1> QED
  BY <1>1, <1>3, <1>5, <1>6, MintStep

\* A refresh is prepared only while the account has the version of its record.
LEMMA PrepareRotationInv ==
  ASSUME IInv, NEW r \in Requests, PrepareRotation(r)
  PROVE  IInv'
<1> DEFINE q == [req[r] EXCEPT !.pc = "rotate", !.new = minted + 1]
           f == famOf[req[r].old]
<1>1. /\ TypeOK /\ RoomKept /\ RequestShape /\ World
      /\ req[r].pc = "prepareRotation" /\ Form(req[r]) /\ req[r].old # None
      /\ req[r].expected = verOf[req[r].old] /\ req[r].old \in Mints
  BY DEF IInv, RequestShape, PrepareRotation, Form
<1>2. /\ PrepareAllowed(req[r].expected)
      /\ Serve(r, q) /\ minted' = minted + 1
      /\ famOf' = [famOf EXCEPT ![minted + 1] = f]
      /\ verOf' = [verOf EXCEPT ![minted + 1] = version]
      /\ since' = since
      /\ UNCHANGED <<version, redisVars, browserVars, faults, historyVars>>
  BY <1>1 DEF PrepareRotation, prepareSessionCredentials
<1>3. /\ f \in Mints /\ since[f] = verOf[req[r].old] /\ verOf[req[r].old] \in 1 .. version
  BY <1>1, FamilyOf DEF World, MintedAgree
<1>4. verOf[req[r].old] = version
  BY <1>1, <1>2, <1>3 DEF PrepareAllowed, None
<1>5. minted + 1 \in Credentials
  <2>1. r \in PrepareReserved /\ IsFiniteSet(PrepareReserved)
    BY <1>1, RequestsAssumption, FS_Subset DEF PrepareReserved, Reserves
  <2>2. Cardinality(PrepareReserved) \in Nat /\ Cardinality(PrepareReserved) # 0
    BY <2>1, FS_CardinalityType, FS_EmptySet
  <2> QED
    BY <1>1, <2>2, BoundAssumption DEF RoomKept, TypeOK, Credentials
<1>6. /\ q \in RequestRecords /\ q.pc = "rotate" /\ q.new = minted + 1
      /\ q.old = req[r].old /\ q.browser = req[r].browser /\ q.after = req[r].after
  BY <1>1, <1>5, RequestTyped DEF RequestRecords, RequestStates
<1>7. minted + 1 # None
  BY <1>1 DEF TypeOK, None
<1>8. /\ req[r].new = None /\ req[r].after = "none"
      /\ Reserves(req[r]) /\ ~Reserves(q) /\ Form(q)
  BY <1>1, <1>6, <1>7 DEF Form, Reserves
<1>9. since' \in [Credentials -> 0 .. MaxVersion]
  BY <1>1, <1>2 DEF TypeOK
<1> HIDE DEF q, f
<1>10. f = famOf[q.old] /\ q.old # None
  BY <1>1, <1>6 DEF f
<1> QED
  BY <1>2, <1>3, <1>4, <1>6, <1>8, <1>9, <1>10, MintStep

----------------------------------------------------------------------------
(* The answer arrives *)

LEMMA CookiesSetInv ==
  ASSUME IInv, NEW r \in Requests, CookiesSet(r)
  PROVE  IInv'
<1> DEFINE new == req[r].new
<1>1. /\ TypeOK /\ RequestShape /\ World /\ RoomKept /\ req[r].pc = "answer" /\ new \in Mints
      /\ new # None /\ new \in Credentials
  BY FamilyOf DEF IInv, CookiesSet, RequestShape, Form, World
<1>2. /\ Finish(r) /\ jar' = [jar EXCEPT ![req[r].browser] = new]
      /\ UNCHANGED <<version, minted, famOf, verOf, since, live, refresh, family, alias,
                     receipt, famSess, famTok, userSess, userTok, userFam, tomb,
                     logoutReceipt, expired, bridge, faults, fenced, successors>>
      /\ UNCHANGED mintVars /\ Mints' = Mints
  BY DEF CookiesSet, mintVars, redisVars, userSets, historyVars, Mints
<1>3. Moves(r, Idle) /\ Idle \in RequestRecords
  BY <1>1, <1>2, Endings
<1>4. /\ Onward /\ RequestTypeOK' /\ req'[r] = Idle
      /\ \A s \in Requests \ {r} : req'[s] = req[s]
  BY <1>3, MovesOnward
<1>5. \A b \in Browsers : jar'[b] = jar[b] \/ (jar'[b] = new /\ b = req[r].browser)
  BY <1>1, <1>2 DEF TypeOK
<1> HIDE DEF new
<1>6. TypeOK'
  <2>1. jar' \in [Browsers -> Credentials \cup {None}]
    BY <1>1, <1>2 DEF TypeOK
  <2> QED
    BY <1>1, <1>2, <1>4, <2>1 DEF TypeOK, RedisTypeOK
<1>7. RoomKept'
  <2>1. /\ Cardinality(PrepareReserved) \in Nat /\ Cardinality(PrepareReserved') \in Nat
        /\ Cardinality(BumpReserved) \in Nat /\ Cardinality(BumpReserved') \in Nat
        /\ Cardinality(PrepareReserved') <= Cardinality(PrepareReserved)
        /\ Cardinality(BumpReserved') <= Cardinality(BumpReserved)
    BY <1>1, <1>3, IdleRecord, Reservations DEF Moves
  <2>2. minted \in Nat /\ version \in Nat /\ MaxCredentials \in Nat /\ MaxVersion \in Nat
    BY <1>1, BoundAssumption DEF TypeOK
  <2> QED
    BY <1>1, <1>2, <2>1, <2>2 DEF RoomKept
<1>8. RequestShape'
  BY <1>2, <1>3, ShapeMoves
<1>9. StoredMinted' /\ MintedAgree'
  BY <1>1, <1>2, <1>5 DEF World, StoredMinted, MintedAgree
<1>10. \A s \in Requests \ {r} : req[s].new # None => req[s].new # new
  BY <1>1 DEF World, Undelivered, new
<1>11. Undelivered' /\ FirstOfFamily'
  <2>1. Undelivered'
    BY <1>1, <1>2, <1>4, <1>5, <1>10, IdleRecord DEF World, Undelivered
  <2>2. FirstOfFamily'
    BY <1>1, <1>2, <1>4, IdleRecord DEF World, FirstOfFamily
  <2> QED
    BY <2>1, <2>2
<1>12. OneBrowser'
  <2>1. ASSUME NEW c \in Credentials, NEW a, HeldBy(c, a)'
        PROVE  HeldBy(c, a)
    BY <1>4, <1>5, <2>1, IdleRecord, NoneIsNoCredential DEF HeldBy, new
  <2> QED
    BY <1>1, <1>2, <2>1 DEF World, OneBrowser
<1>13. /\ new \in refresh \/ Revoked(new)
       /\ \A c \in refresh : family[famOf[c]] # "revoked"
  BY <1>1 DEF World, AnswerStored, RefreshActive, new
<1>14. CarriedStored'
  BY <1>1, <1>2, <1>5, <1>13 DEF World, CarriedStored, Revoked
<1>15. TipFollowed'
  <2> SUFFICES ASSUME RotationEnabled, NEW s \in Requests
               PROVE  (/\ req[s].old # None /\ req[s].new \in refresh
                            => req[s].old \in alias /\ JarsOf(famOf[req[s].new], req[s].old)
                       /\ req[s].old \in refresh => JarsOf(famOf[req[s].old], req[s].old))'
    BY DEF TipFollowed, JarsOf
  <2>1. CASE s = r
    BY <1>1, <1>2, <1>4, <2>1, IdleRecord, NoneIsNoCredential DEF TypeOK, RedisTypeOK
  <2>2. CASE s # r
    <3>1. req'[s] = req[s]
      BY <1>4, <2>2
    <3>2. ASSUME req[s].new \in refresh
          PROVE  famOf[new] # famOf[req[s].new]
      <4>1. req[s].new # None /\ req[s].new # new
        BY <1>1, <1>10, <2>2, <3>2, NoneIsNoCredential DEF TypeOK, RedisTypeOK
      <4> QED
        BY <1>1, <1>13, <3>2, <4>1 DEF World, OneTip, Revoked
    <3>3. ASSUME req[s].old \in refresh
          PROVE  famOf[new] # famOf[req[s].old]
      <4>1. req[s].old # new
        BY <1>1 DEF World, Undelivered, new
      <4> QED
        BY <1>1, <1>13, <3>3, <4>1 DEF World, OneTip, Revoked
    <3> QED
      BY <1>1, <1>2, <1>5, <3>1, <3>2, <3>3 DEF World, TipFollowed, JarsOf
  <2> QED
    BY <2>1, <2>2
<1>16. FencedFamilies'
  <2> SUFFICES ASSUME NEW f \in fenced, family[f] # "revoked"
               PROVE  OutOfSight(f)'
    BY <1>2 DEF FencedFamilies
  <2>1. OutOfSight(f)
    BY <1>1 DEF World, FencedFamilies
  <2>2. famOf[new] # f
    BY <1>1, <1>13, <2>1 DEF OutOfSight, Revoked, new
  <2> QED
    BY <1>1, <1>2, <1>4, <1>5, <2>1, <2>2, IdleRecord, NoneIsNoCredential
    DEF OutOfSight, TypeOK, RedisTypeOK
<1>17. NotYetIssued' /\ AnswerStored'
  BY <1>1, <1>2, <1>4, IdleRecord DEF World, NotYetIssued, AnswerStored, Revoked
<1>18. /\ LiveUnexpired' /\ RefreshActive' /\ ExchangedSpent' /\ OneTip'
       /\ EverySessionEnumerable' /\ RedeemedOnce'
  BY <1>1, <1>2 DEF World, LiveUnexpired, RefreshActive, ExchangedSpent, OneTip,
     EverySessionEnumerable, RedeemedOnce
<1> QED
  BY <1>6, <1>7, <1>8, <1>9, <1>11, <1>12, <1>14, <1>15, <1>16, <1>17, <1>18 DEF IInv, World

----------------------------------------------------------------------------
(* Writes to Redis *)

LEMMA RoomUnused ==
  ASSUME IInv, NEW r \in Requests, NEW q \in RequestRecords, Serve(r, q),
         Reserves(q) => Reserves(req[r]), q.pc # "bump",
         minted' = minted, version' = version
  PROVE  RoomKept'
<1>1. /\ TypeOK /\ RoomKept
      /\ minted \in Nat /\ version \in Nat /\ MaxCredentials \in Nat /\ MaxVersion \in Nat
  BY BoundAssumption DEF IInv, TypeOK
<1>2. /\ Cardinality(PrepareReserved) \in Nat /\ Cardinality(PrepareReserved') \in Nat
      /\ Cardinality(BumpReserved) \in Nat /\ Cardinality(BumpReserved') \in Nat
      /\ Cardinality(PrepareReserved') <= Cardinality(PrepareReserved)
      /\ Cardinality(BumpReserved') <= Cardinality(BumpReserved)
  BY <1>1, Reservations
<1> QED
  BY <1>1, <1>2 DEF RoomKept

\* The live access sessions of a family.
Sessions(f) == {c \in live \ expired : famOf[c] = f}

LEMMA CapacityKept ==
  ASSUME TypeOK, NEW f \in Credentials, Sessions(f)' \subseteq Sessions(f)
  PROVE  Cardinality(Sessions(f)') <= MaxFamilySessions
<1>1. IsFiniteSet(Credentials)
  BY BoundAssumption, FS_Interval DEF Credentials
<1>2. Sessions(f) \subseteq Credentials
  BY DEF Sessions, TypeOK, RedisTypeOK
<1>3. IsFiniteSet(Sessions(f)) /\ Cardinality(Sessions(f)) <= MaxFamilySessions
  BY <1>1, <1>2, FS_Subset DEF Sessions, TypeOK
<1>4. /\ Cardinality(Sessions(f)) \in Nat /\ Cardinality(Sessions(f)') \in Nat
      /\ Cardinality(Sessions(f)') <= Cardinality(Sessions(f))
  BY <1>3, FS_Subset, FS_CardinalityType
<1> QED
  BY <1>3, <1>4, BoundAssumption

\* issueSession's MULTI: the first credential of a family, that nobody has.
LEMMA StoreStep ==
  ASSUME IInv, NEW r \in Requests, NEW q \in RequestRecords, Moves(r, q),
         req[r].pc = "issue", q.pc \in {"answer", "idle"}, q.after = "none",
         StoreSession(req[r].new),
         UNCHANGED <<version, mintVars, browserVars, historyVars>>,
         faults' \in 0 .. MaxFaults
  PROVE  IInv'
<1> DEFINE c == req[r].new
<1>1. /\ TypeOK /\ RequestShape /\ World /\ RoomKept
      /\ c \in Mints /\ c # None /\ c \in Credentials /\ req[r].old = None
  BY FamilyOf DEF IInv, RequestShape, Form, World
<1>2. /\ UNCHANGED <<version, minted, famOf, verOf, since, receipt, tomb, logoutReceipt,
                     expired, bridge, jar, fenced, successors>>
      /\ UNCHANGED mintVars /\ Mints' = Mints
  BY DEF StoreSession, mintVars, browserVars, historyVars, Mints
<1>3. /\ Onward /\ RequestTypeOK' /\ req'[r] = q
      /\ \A s \in Requests \ {r} : req'[s] = req[s]
  BY MovesOnward
<1>4. /\ famOf[c] = c /\ \A d \in Credentials \ {c} : famOf[d] # c
      /\ family[c] = "none" /\ c \notin refresh /\ c \notin userFam /\ c \notin fenced
      /\ c \notin expired
  BY <1>1 DEF World, FirstOfFamily, NotYetIssued, RequestShape
<1>5. /\ \A b \in Browsers : jar[b] # c
      /\ \A s \in Requests : req[s].old # c
      /\ \A s \in Requests \ {r} : req[s].new # c
      /\ \A p \in successors : p[1] # c
  BY <1>1 DEF World, Undelivered
<1>6. /\ live' = live \cup {c} /\ refresh' = refresh \cup {c}
      /\ family' = [family EXCEPT ![c] = "active"] /\ alias' = alias \cup {c}
      /\ famSess' = famSess \cup {c} /\ famTok' = famTok \cup {c}
      /\ userSess' = userSess \cup {c} /\ userTok' = userTok \cup {c}
      /\ userFam' = userFam \cup {c}
  BY <1>4 DEF StoreSession
<1>7. /\ family'[c] = "active"
      /\ \A f \in Credentials \ {c} : family'[f] = family[f]
      /\ None \notin refresh /\ refresh \subseteq Credentials
  BY <1>1, <1>6, NoneIsNoCredential DEF TypeOK, RedisTypeOK
<1> HIDE DEF c
<1>8. TypeOK'
  <2>1. RedisTypeOK'
    BY <1>1, <1>2, <1>6 DEF TypeOK, RedisTypeOK
  <2>2. ASSUME NEW f \in Credentials
        PROVE  Cardinality(Sessions(f)') <= MaxFamilySessions
    <3>1. CASE f = c
      <4>1. Sessions(f)' \subseteq {c}
        BY <1>1, <1>2, <1>4, <1>6, <3>1 DEF Sessions, TypeOK, RedisTypeOK
      <4>2. IsFiniteSet({c}) /\ Cardinality({c}) = 1
        BY FS_Singleton
      <4>3. Cardinality(Sessions(f)') <= 1 /\ Cardinality(Sessions(f)') \in Nat
        BY <4>1, <4>2, FS_Subset, FS_CardinalityType
      <4> QED
        BY <4>3, BoundAssumption
    <3>2. CASE f # c
      BY <1>1, <1>2, <1>4, <1>6, <3>2, CapacityKept DEF Sessions
    <3> QED
      BY <3>1, <3>2
  <2> QED
    BY <1>1, <1>2, <1>3, <2>1, <2>2 DEF TypeOK, Sessions
<1>9. RoomKept'
  BY <1>1, <1>2, RoomUnused DEF Moves, Reserves
<1>10. RequestShape'
  BY <1>2, ShapeMoves
<1>11. MintedAgree' /\ StoredMinted'
  BY <1>1, <1>2, <1>6, <1>7 DEF World, MintedAgree, StoredMinted
<1>12. Undelivered' /\ FirstOfFamily' /\ OneBrowser'
  BY <1>1, <1>2, <1>3, HandsKept DEF World, JarsOnward
<1>13. NotYetIssued'
  <2>1. ASSUME NEW s \in Requests, req'[s].pc = "issue"
        PROVE  /\ family'[req'[s].new] = "none"
               /\ req'[s].new \notin refresh' \cup userFam' \cup fenced'
    <3>1. s # r /\ req'[s] = req[s]
      BY <1>3, <2>1 DEF Moves
    <3>2. req[s].new # c /\ req[s].new \in Credentials
      BY <1>1, <1>5, <2>1, <3>1, FamilyOf DEF RequestShape, Form, World
    <3> QED
      BY <1>1, <1>2, <1>6, <1>7, <2>1, <3>1, <3>2 DEF World, NotYetIssued
  <2> QED
    BY <2>1 DEF NotYetIssued
<1>14. \A d \in Mints : d # c => famOf[d] # c /\ family'[famOf[d]] = family[famOf[d]]
  BY <1>1, <1>4, <1>7, FamilyOf DEF World
<1>15. RefreshActive'
  BY <1>1, <1>2, <1>4, <1>6, <1>7, <1>14 DEF World, RefreshActive, StoredMinted
<1>16. AnswerStored'
  <2>1. ASSUME NEW s \in Requests, req'[s].pc = "answer"
        PROVE  req'[s].new \in refresh' \/ family'[famOf[req'[s].new]] = "revoked"
    <3>1. CASE s = r
      BY <1>3, <1>6, <2>1, <3>1 DEF Moves, Form, c
    <3>2. CASE s # r
      <4>1. req'[s] = req[s] /\ req[s].new # c /\ req[s].new \in Mints
        BY <1>1, <1>3, <1>5, <2>1, <3>2 DEF RequestShape, Form
      <4> QED
        BY <1>1, <1>6, <1>14, <2>1, <4>1 DEF World, AnswerStored, Revoked
    <3> QED
      BY <3>1, <3>2
  <2> QED
    BY <1>2, <2>1 DEF AnswerStored, Revoked
<1>17. CarriedStored'
  BY <1>1, <1>2, <1>5, <1>6, <1>14 DEF World, CarriedStored, Revoked, StoredMinted
<1>18. ExchangedSpent' /\ OneTip'
  BY <1>1, <1>2, <1>4, <1>5, <1>6, <1>7 DEF World, ExchangedSpent, OneTip
<1>19. TipFollowed'
  <2> SUFFICES ASSUME RotationEnabled, NEW s \in Requests
               PROVE  (/\ req[s].old # None /\ req[s].new \in refresh
                            => req[s].old \in alias /\ JarsOf(famOf[req[s].new], req[s].old)
                       /\ req[s].old \in refresh => JarsOf(famOf[req[s].old], req[s].old))'
    BY DEF TipFollowed, JarsOf
  <2>1. CASE s = r
    BY <1>1, <1>2, <1>3, <1>5, <1>6, <1>7, <2>1 DEF Moves
  <2>2. CASE s # r
    BY <1>1, <1>2, <1>3, <1>5, <1>6, <2>2 DEF World, TipFollowed, JarsOf
  <2> QED
    BY <2>1, <2>2
<1>20. FencedFamilies'
  <2> SUFFICES ASSUME NEW f \in fenced, family'[f] # "revoked"
               PROVE  OutOfSight(f)'
    BY <1>2 DEF FencedFamilies
  <2>1. f # c /\ family[f] # "revoked"
    BY <1>1, <1>4, <1>7 DEF TypeOK
  <2>2. OutOfSight(f)
    BY <1>1, <2>1 DEF World, FencedFamilies
  <2> QED
    BY <1>2, <1>3, <1>4, <1>6, <1>7, <2>1, <2>2, <1>5 DEF OutOfSight, Onward
<1>21. LiveUnexpired' /\ EverySessionEnumerable' /\ RedeemedOnce'
  BY <1>1, <1>2, <1>4, <1>6, <1>7
  DEF World, LiveUnexpired, EverySessionEnumerable, RedeemedOnce
<1> QED
  BY <1>8, <1>9, <1>10, <1>11, <1>12, <1>13, <1>15, <1>16, <1>17, <1>18, <1>19, <1>20, <1>21
  DEF IInv, World

\* The answer of an issued or rotated session.
LEMMA Answered ==
  ASSUME IInv, NEW r \in Requests, Answer(r), req[r].new # None
  PROVE  \E q \in RequestRecords :
           /\ Moves(r, q) /\ q.pc = "answer" /\ q.after = "none" /\ q.new = req[r].new
           /\ q.old = req[r].old
<1> DEFINE q == [req[r] EXCEPT !.pc = "answer", !.expected = None, !.retried = FALSE]
<1>1. req[r] \in RequestRecords /\ Form(req[r]) /\ None \in 0 .. MaxVersion
  BY RequestTyped, BoundAssumption DEF IInv, RequestShape, None
<1>2. /\ q \in RequestRecords /\ q.pc = "answer" /\ q.after = req[r].after
      /\ q.old = req[r].old /\ q.new = req[r].new /\ q.browser = req[r].browser
  BY <1>1 DEF RequestRecords, RequestStates
<1>3. q.after = "none" /\ Form(q)
  BY <1>1, <1>2 DEF Form
<1>4. Serve(r, q)
  BY DEF Answer
<1> HIDE DEF q
<1>5. Moves(r, q)
  BY <1>2, <1>3, <1>4 DEF Moves
<1> QED
  BY <1>2, <1>3, <1>5

LEMMA IssueSessionInv ==
  ASSUME IInv, NEW r \in Requests, IssueSession(r)
  PROVE  IInv'
<1>1. /\ TypeOK /\ req[r].pc = "issue" /\ StoreSession(req[r].new) /\ Answer(r)
      /\ req[r].new # None
      /\ UNCHANGED <<version, mintVars, browserVars, faults, historyVars>>
  BY DEF IInv, IssueSession, RequestShape, Form
<1>2. PICK q \in RequestRecords : Moves(r, q) /\ q.pc = "answer" /\ q.after = "none"
  BY <1>1, Answered
<1> QED
  BY <1>1, <1>2, StoreStep DEF TypeOK

LEMMA IssueFailsInv ==
  ASSUME IInv, NEW r \in Requests, IssueFails(r)
  PROVE  IInv'
<1>1. /\ TypeOK /\ req[r].pc = "issue" /\ Finish(r)
      /\ StoreSession(req[r].new) \/ UNCHANGED redisVars
      /\ faults < MaxFaults /\ faults' = faults + 1
      /\ UNCHANGED <<version, mintVars, browserVars, historyVars>>
  BY DEF IInv, IssueFails, Fault
<1>2. faults' \in 0 .. MaxFaults
  BY <1>1, BoundAssumption DEF TypeOK
<1>3. Moves(r, Idle) /\ Idle \in RequestRecords
  BY <1>1, Endings
<1>4. CASE StoreSession(req[r].new)
  BY <1>1, <1>2, <1>3, <1>4, IdleRecord, StoreStep
<1>5. CASE UNCHANGED redisVars
  BY <1>1, <1>2, <1>3, <1>5, IdleRecord, QuietStep DEF TypeOK, JarsOnward, browserVars
<1> QED
  BY <1>1, <1>4, <1>5

\* The script exchanges the family's token for its successor.
LEMMA RotateStep ==
  ASSUME IInv, NEW r \in Requests, NEW q \in RequestRecords, Moves(r, q),
         req[r].pc = "rotate", q.pc \in {"answer", "idle", "rotate"}, q.after = "none",
         RotationResult(req[r].old, req[r].new) = "rotated",
         RotateRefreshSession(req[r].old, req[r].new),
         successors' = successors \cup {<<req[r].old, req[r].new>>},
         UNCHANGED <<version, mintVars, browserVars, fenced>>,
         faults' \in 0 .. MaxFaults
  PROVE  IInv'
<1> DEFINE old == req[r].old
           new == req[r].new
           f == famOf[old]
<1>1. /\ TypeOK /\ RequestShape /\ World /\ RoomKept
      /\ old \in Mints /\ new \in Mints /\ old # None /\ new # None
      /\ old \in Credentials /\ new \in Credentials /\ f \in Credentials /\ f \in Mints
      /\ famOf[new] = f /\ new \notin expired
  BY FamilyOf DEF IInv, RequestShape, Form, World
<1>2. /\ UNCHANGED <<version, minted, famOf, verOf, since, tomb, logoutReceipt,
                     expired, bridge, jar, fenced>>
      /\ UNCHANGED mintVars /\ Mints' = Mints
  BY DEF RotateRefreshSession, mintVars, browserVars, Mints
<1>3. /\ Onward /\ RequestTypeOK' /\ req'[r] = q
      /\ \A s \in Requests \ {r} : req'[s] = req[s]
      /\ \/ q.old = None /\ q.new = None
         \/ q.old = old /\ q.new = new
  BY MovesOnward DEF Moves
<1>4. old \in refresh /\ family[f] # "revoked" /\ ~OverCapacity(old, new)
  BY DEF RotationResult
<1>5. /\ \A b \in Browsers : jar[b] # new
      /\ \A s \in Requests : req[s].old # new
      /\ \A s \in Requests \ {r} : req[s].new # new
      /\ \A p \in successors : p[1] # new
      /\ old # new
      /\ \A s \in Requests : req[s].new # None => req[s].new # old
  BY <1>1 DEF World, Undelivered
<1>6. /\ live' = live \cup {new}
      /\ refresh' = (refresh \cup {new}) \ SpentTokens(old)
      /\ family' = [family EXCEPT ![f] = "active"]
      /\ alias' = alias \cup {old} /\ receipt' = [receipt EXCEPT ![old] = new]
      /\ famSess' = (famSess \ PrunedSessions(old)) \cup {new}
      /\ userSess' = (userSess \ PrunedSessions(old)) \cup {new}
      /\ famTok' = (famTok \cup {new}) \ SpentTokens(old)
      /\ userTok' = (userTok \cup {new}) \ SpentTokens(old)
      /\ userFam' = userFam \cup {f}
      /\ successors' = successors \cup {<<old, new>>}
  BY DEF RotateRefreshSession
<1> HIDE DEF old, new, f
<1>7. /\ family'[f] = "active"
      /\ \A g \in Credentials \ {f} : family'[g] = family[g]
      /\ RevokedStays
      /\ None \notin refresh /\ refresh \subseteq Credentials
  BY <1>1, <1>4, <1>6, NoneIsNoCredential DEF TypeOK, RedisTypeOK, RevokedStays
<1>8. /\ new \in refresh'
      /\ \A x \in refresh' : x \in refresh \/ x = new
      /\ \A x \in refresh : x # old => x \in refresh'
      /\ ~RotationEnabled => refresh \subseteq refresh'
      /\ RotationEnabled => old \notin refresh'
  BY <1>5, <1>6 DEF SpentTokens
<1>9. TypeOK'
  <2>1. RedisTypeOK'
    BY <1>1, <1>2, <1>6 DEF TypeOK, RedisTypeOK
  <2>2. ASSUME NEW g \in Credentials
        PROVE  Cardinality(Sessions(g)') <= MaxFamilySessions
    <3>1. CASE g = f
      <4>1. Sessions(g)' \subseteq LiveFamilySessions(old) \cup {new}
        BY <1>1, <1>2, <1>6, <3>1
        DEF Sessions, LiveFamilySessions, Family, World, EverySessionEnumerable, TypeOK,
            RedisTypeOK, f
      <4>2. IsFiniteSet(LiveFamilySessions(old) \cup {new})
        <5>1. IsFiniteSet(Credentials)
          BY BoundAssumption, FS_Interval DEF Credentials
        <5>2. LiveFamilySessions(old) \cup {new} \subseteq Credentials
          BY <1>1 DEF LiveFamilySessions, Family
        <5> QED
          BY <5>1, <5>2, FS_Subset
      <4>3. /\ Cardinality(LiveFamilySessions(old) \cup {new}) \in Nat
            /\ Cardinality(Sessions(g)') \in Nat
            /\ Cardinality(Sessions(g)') <= Cardinality(LiveFamilySessions(old) \cup {new})
        BY <4>1, <4>2, FS_Subset, FS_CardinalityType
      <4>4. ~(Cardinality(LiveFamilySessions(old) \cup {new}) > MaxFamilySessions)
        BY <1>4 DEF OverCapacity
      <4> QED
        BY <4>3, <4>4, BoundAssumption
    <3>2. CASE g # f
      BY <1>1, <1>2, <1>6, <3>2, CapacityKept DEF Sessions
    <3> QED
      BY <3>1, <3>2
  <2> QED
    BY <1>1, <1>2, <1>3, <2>1, <2>2 DEF TypeOK, Sessions
<1>10. RoomKept'
  BY <1>1, <1>2, RoomUnused DEF Moves, Reserves
<1>11. RequestShape'
  BY <1>2, ShapeMoves
<1>12. MintedAgree' /\ StoredMinted'
  BY <1>1, <1>2, <1>6, <1>7, <1>8 DEF World, MintedAgree, StoredMinted
<1>13. Undelivered'
  BY <1>1, <1>2, <1>3, <1>5, <1>6 DEF World, Undelivered, Onward
<1>14. FirstOfFamily' /\ OneBrowser'
  <2>1. FirstOfFamily'
    BY <1>1, <1>2, <1>3 DEF World, FirstOfFamily, Onward
  <2>2. ASSUME NEW c \in Credentials, NEW a, HeldBy(c, a)'
        PROVE  HeldBy(c, a)
    BY <1>2, <1>3, <2>2, NoneIsNoCredential DEF HeldBy, Onward
  <2> QED
    BY <1>1, <1>2, <2>1, <2>2 DEF World, OneBrowser
<1>15. NotYetIssued'
  <2>1. ASSUME NEW s \in Requests, req'[s].pc = "issue"
        PROVE  /\ family'[req'[s].new] = "none"
               /\ req'[s].new \notin refresh' \cup userFam' \cup fenced'
    <3>1. s # r /\ req'[s] = req[s]
      BY <1>3, <2>1
    <3>2. /\ req[s].new # None /\ req[s].old = None
          /\ req[s].new # new /\ req[s].new \in Credentials
      BY <1>1, <1>5, <2>1, <3>1, FamilyOf DEF RequestShape, Form, World
    <3>3. req[s].new # f
      <4>1. req[s].new # old
        BY <1>5, <3>2
      <4> QED
        BY <1>1, <3>2, <4>1 DEF World, FirstOfFamily, f
    <3> QED
      BY <1>1, <1>2, <1>6, <1>7, <1>8, <2>1, <3>1, <3>2, <3>3 DEF World, NotYetIssued
  <2> QED
    BY <2>1 DEF NotYetIssued
<1>16. \A x \in Mints : famOf[x] # f => family'[famOf[x]] = family[famOf[x]]
  BY <1>1, <1>7, FamilyOf DEF World
<1>17. RefreshActive'
  BY <1>1, <1>2, <1>7, <1>8, <1>16 DEF World, RefreshActive, StoredMinted
<1>18. AnswerStored'
  <2>1. ASSUME NEW s \in Requests, req'[s].pc = "answer"
        PROVE  req'[s].new \in refresh' \/ family'[famOf[req'[s].new]] = "revoked"
    <3>1. CASE s = r
      BY <1>3, <1>8, <2>1, <3>1 DEF Moves, Form
    <3>2. CASE s # r
      <4>1. req'[s] = req[s] /\ req[s].new \in Mints /\ req[s].new # old
        BY <1>1, <1>3, <1>5, <2>1, <3>2 DEF RequestShape, Form
      <4> QED
        BY <1>1, <1>4, <1>8, <1>16, <2>1, <4>1 DEF World, AnswerStored, Revoked
    <3> QED
      BY <3>1, <3>2
  <2> QED
    BY <1>2, <2>1 DEF AnswerStored, Revoked
<1>19. CarriedStored'
  BY <1>1, <1>2, <1>4, <1>8, <1>16 DEF World, CarriedStored, Revoked, StoredMinted
<1>20. ExchangedSpent'
  <2>1. ASSUME RotationEnabled, NEW p \in successors'
        PROVE  p[1] \notin refresh'
    <3>1. CASE p \in successors
      BY <1>1, <1>5, <1>8, <2>1, <3>1 DEF World, ExchangedSpent
    <3>2. CASE p = <<old, new>>
      BY <1>8, <2>1, <3>2
    <3> QED
      BY <1>6, <3>1, <3>2
  <2> QED
    BY <2>1 DEF ExchangedSpent
<1>21. OneTip'
  <2>1. ASSUME RotationEnabled, NEW c \in refresh, c # old
        PROVE  famOf[c] # f
    BY <1>1, <1>4, <2>1 DEF World, OneTip, f
  <2> QED
    BY <1>1, <1>2, <1>8, <2>1 DEF World, OneTip
<1>22. TipFollowed'
  <2> SUFFICES ASSUME RotationEnabled, NEW s \in Requests
               PROVE  (/\ req[s].old # None /\ req[s].new \in refresh
                            => req[s].old \in alias /\ JarsOf(famOf[req[s].new], req[s].old)
                       /\ req[s].old \in refresh => JarsOf(famOf[req[s].old], req[s].old))'
    BY DEF TipFollowed, JarsOf
  <2>1. CASE s = r
    <3>1. JarsOf(f, old)
      BY <1>1, <1>4 DEF World, TipFollowed, f, old
    <3> QED
      BY <1>1, <1>2, <1>3, <1>6, <1>7, <1>8, <2>1, <3>1 DEF JarsOf
  <2>2. CASE s # r
    BY <1>1, <1>2, <1>3, <1>5, <1>6, <1>8, <2>2 DEF World, TipFollowed, JarsOf
  <2> QED
    BY <2>1, <2>2
<1>23. FencedFamilies'
  <2> SUFFICES ASSUME NEW g \in fenced, family'[g] # "revoked"
               PROVE  OutOfSight(g)'
    BY <1>2 DEF FencedFamilies
  <2>1. family[g] # "revoked"
    BY <1>1, <1>7 DEF TypeOK, RevokedStays
  <2>2. OutOfSight(g)
    BY <1>1, <2>1 DEF World, FencedFamilies
  <2>3. f # g
    BY <1>4, <2>2 DEF OutOfSight, f, old
  <2> QED
    BY <1>1, <1>2, <1>3, <1>5, <1>7, <1>8, <2>2, <2>3 DEF OutOfSight, Onward
<1>24. LiveUnexpired' /\ EverySessionEnumerable'
  <2>1. PrunedSessions(old) \subseteq expired
    BY DEF PrunedSessions
  <2>2. LiveUnexpired'
    BY <1>1, <1>2, <1>6 DEF World, LiveUnexpired
  <2>3. live' \subseteq userSess' \cap famSess'
    BY <1>1, <1>6, <2>1 DEF World, LiveUnexpired, EverySessionEnumerable
  <2>4. refresh' \subseteq userTok' \cap famTok'
    BY <1>1, <1>6 DEF World, EverySessionEnumerable
  <2>5. {g \in Credentials : family'[g] = "active"} \subseteq userFam'
    BY <1>1, <1>6, <1>7 DEF World, EverySessionEnumerable
  <2> QED
    BY <2>2, <2>3, <2>4, <2>5 DEF EverySessionEnumerable
<1>25. RedeemedOnce'
  <2>1. RotationEnabled => \A p \in successors : p[1] # old
    BY <1>1, <1>4 DEF World, ExchangedSpent
  <2>2. <<old, new>>[1] = old
    OBVIOUS
  <2> QED
    BY <1>1, <1>6, <2>1, <2>2 DEF World, RedeemedOnce
<1> QED
  BY <1>9, <1>10, <1>11, <1>12, <1>13, <1>14, <1>15, <1>17, <1>18, <1>19, <1>20, <1>21,
     <1>22, <1>23, <1>24, <1>25 DEF IInv, World

\* The script runs and writes, or answers without a write.
LEMMA RotationRuns ==
  ASSUME IInv, NEW r \in Requests, NEW q \in RequestRecords, Moves(r, q),
         req[r].pc = "rotate", q.pc \in {"answer", "idle", "rotate", "clear"},
         q.after = "none",
         q.pc = "answer" =>
           RotationResult(req[r].old, req[r].new) \in {"rotated", "repeated"},
         q.pc = "clear" => RotationResult(req[r].old, req[r].new) # "rotated",
         \/ RunRotation(req[r].old, req[r].new)
         \/ q.pc # "answer" /\ UNCHANGED <<redisVars, successors>>,
         UNCHANGED <<version, mintVars, browserVars, fenced>>,
         faults' \in 0 .. MaxFaults
  PROVE  IInv'
<1>1. TypeOK
  BY DEF IInv
<1>2. CASE /\ RotationResult(req[r].old, req[r].new) = "rotated"
           /\ RunRotation(req[r].old, req[r].new)
  BY <1>2, RotateStep DEF RunRotation
<1>3. CASE UNCHANGED <<redisVars, successors>>
           /\ (q.pc = "answer" => RotationResult(req[r].old, req[r].new) = "repeated")
  <2>1. q.pc = "answer" => q.new \in refresh
    BY <1>3 DEF RotationResult, Moves, Form
  <2>2. ~Reserves(q) /\ q.pc # "bump"
    BY DEF Reserves
  <2> QED
    BY <1>1, <1>3, <2>1, <2>2, QuietStep DEF TypeOK, JarsOnward, browserVars, historyVars
<1> QED
  BY <1>2, <1>3 DEF RunRotation

LEMMA RotationAnsweredInv ==
  ASSUME IInv, NEW r \in Requests, RotationAnswered(r)
  PROVE  IInv'
<1> DEFINE result == RotationResult(req[r].old, req[r].new)
<1>1. /\ TypeOK /\ req[r].pc = "rotate" /\ Form(req[r]) /\ req[r].new # None
      /\ RunRotation(req[r].old, req[r].new)
      /\ UNCHANGED <<version, mintVars, browserVars, faults, fenced>>
  BY DEF IInv, RotationAnswered, RequestShape, Form
<1>2. result \in {"rotated", "repeated", "refused", "full"}
  BY DEF RotationResult
<1>3. faults' \in 0 .. MaxFaults
  BY <1>1 DEF TypeOK
<1>4. CASE result \in {"rotated", "repeated"}
  <2>1. Answer(r)
    BY <1>4 DEF RotationAnswered
  <2>2. PICK q \in RequestRecords : Moves(r, q) /\ q.pc = "answer" /\ q.after = "none"
    BY <1>1, <2>1, Answered
  <2> QED
    BY <1>1, <1>3, <1>4, <2>2, RotationRuns
<1>5. CASE result = "refused"
  <2>1. AnswerCleared(r)
    BY <1>5 DEF RotationAnswered
  <2>2. Moves(r, Cleared(r)) /\ Cleared(r) \in RequestRecords /\ Cleared(r).pc = "clear"
    BY <1>1, <2>1, Endings
  <2>3. Cleared(r).after = "none"
    BY <2>2 DEF Moves, Form
  <2> QED
    BY <1>1, <1>3, <1>5, <2>2, <2>3, RotationRuns
<1>6. CASE result = "full"
  <2>1. Finish(r)
    BY <1>6 DEF RotationAnswered
  <2>2. Moves(r, Idle) /\ Idle \in RequestRecords
    BY <1>1, <2>1, Endings
  <2> QED
    BY <1>1, <1>3, <1>6, <2>2, IdleRecord, RotationRuns
<1> QED
  BY <1>2, <1>4, <1>5, <1>6

\* Whether the script ran or not, the request tries again or gives up.
LEMMA RotationUnansweredInv ==
  ASSUME IInv, NEW r \in Requests, RotationUnanswered(r)
  PROVE  IInv'
<1> DEFINE q == [req[r] EXCEPT !.retried = TRUE]
<1>1. /\ TypeOK /\ req[r].pc = "rotate" /\ Form(req[r])
      /\ RunRotation(req[r].old, req[r].new) \/ UNCHANGED <<redisVars, successors>>
      /\ faults < MaxFaults /\ faults' = faults + 1
      /\ UNCHANGED <<version, mintVars, browserVars, fenced>>
      /\ Finish(r) \/ Serve(r, q)
  BY DEF IInv, RotationUnanswered, RequestShape, Fault
<1>2. faults' \in 0 .. MaxFaults
  BY <1>1, BoundAssumption DEF TypeOK
<1>3. CASE Finish(r)
  <2>1. Moves(r, Idle) /\ Idle \in RequestRecords
    BY <1>1, <1>3, Endings
  <2> QED
    BY <1>1, <1>2, <2>1, IdleRecord, RotationRuns
<1>4. CASE Serve(r, q)
  <2>1. /\ q \in RequestRecords /\ q.pc = "rotate" /\ q.after = req[r].after
        /\ q.old = req[r].old /\ q.new = req[r].new /\ q.browser = req[r].browser
    BY <1>1, RequestTyped DEF RequestRecords
  <2>2. Moves(r, q) /\ q.after = "none"
    BY <1>1, <1>4, <2>1 DEF Moves, Form
  <2> HIDE DEF q
  <2> QED
    BY <1>1, <1>2, <2>1, <2>2, RotationRuns
<1> QED
  BY <1>1, <1>3, <1>4

\* The script of a logout, whatever it finds.
LEMMA RevokeStep ==
  ASSUME IInv, NEW b \in Browsers, jar[b] # None, NEW f, f = famOf[jar[b]],
         RevokePresented(jar[b]) \/ UNCHANGED redisVars,
         req' = req, JarsOnward, jar' \in [Browsers -> Credentials \cup {None}],
         UNCHANGED <<version, mintVars, expired, bridge, successors>>,
         faults' \in 0 .. MaxFaults,
         \/ fenced' = fenced
         \/ /\ fenced' = fenced \cup {f}
            /\ family'[f] = "revoked" \/ OutOfSight(f)'
  PROVE  IInv'
<1> DEFINE c == jar[b]
<1>1. /\ TypeOK /\ RequestShape /\ World /\ RoomKept
      /\ f = famOf[c] /\ c \in Mints /\ c \in Credentials /\ f \in Credentials /\ f \in Mints
  BY FamilyOf DEF IInv, World, StoredMinted
<1>2. /\ UNCHANGED <<version, minted, famOf, verOf, since, expired, bridge, successors>>
      /\ Mints' = Mints /\ Onward
  BY DEF mintVars, Mints, Onward
<1>3. \A s \in Requests : req[s].new # None => req[s].new # c
  BY <1>1 DEF World, Undelivered
<1>4. /\ RedisTypeOK'
      /\ alias' = alias
      /\ live' \subseteq live /\ refresh' \subseteq refresh /\ userFam' \subseteq userFam
      /\ \A g \in Credentials \ {f} : family'[g] = family[g]
      /\ family'[f] \in {family[f], "revoked"}
      /\ \A x \in refresh \ refresh' : famOf[x] = f /\ family'[f] = "revoked"
      /\ \A x \in refresh' : family'[famOf[x]] = "active"
      /\ EverySessionEnumerable'
  <2> DEFINE sessions == LiveFamilySessions(c) \cup ({c} \ expired)
             tokens == famTok \cap Family(c)
  <2>1. CASE UNCHANGED redisVars
    <3>1. UNCHANGED <<live, refresh, family, alias, receipt, famSess, famTok,
                      userSess, userTok, userFam, tomb, logoutReceipt>>
      BY <2>1 DEF redisVars, userSets
    <3> QED
      BY <1>1, <3>1
      DEF World, TypeOK, RedisTypeOK, EverySessionEnumerable, RefreshActive
  <2>2. CASE RevokePresented(c) /\ FamilyFound(c)
    <3>1. /\ family' = [family EXCEPT ![f] = "revoked"]
          /\ live' = live \ sessions
          /\ userSess' = userSess \ sessions
          /\ tomb' = tomb \cup sessions
          /\ famSess' = famSess \ Family(c)
          /\ logoutReceipt' = logoutReceipt \cup tokens \cup {c}
          /\ refresh' = refresh \ (tokens \cup {c})
          /\ userTok' = userTok \ (tokens \cup {c})
          /\ famTok' = famTok \ tokens
          /\ userFam' = userFam \ {f}
          /\ alias' = alias /\ receipt' = receipt
      BY <2>2 DEF RevokePresented
    <3>2. /\ sessions \subseteq Credentials /\ tokens \subseteq Credentials
          /\ \A x \in tokens : famOf[x] = f
          /\ c \in Family(c)
          /\ \A x \in Credentials : x \in Family(c) <=> famOf[x] = f
      BY <1>1 DEF LiveFamilySessions, Family
    <3>3. \A x \in live : famOf[x] = f => x \in sessions
      BY <1>1, <3>2
      DEF World, EverySessionEnumerable, LiveUnexpired, LiveFamilySessions, TypeOK, RedisTypeOK
    <3>4. \A x \in refresh : famOf[x] = f => x \in tokens
      BY <1>1, <3>2 DEF World, EverySessionEnumerable, TypeOK, RedisTypeOK
    <3> HIDE DEF sessions, tokens, c
    <3>5. RedisTypeOK'
      BY <1>1, <3>1, <3>2 DEF TypeOK, RedisTypeOK
    <3>6. family'[f] = "revoked" /\ \A g \in Credentials \ {f} : family'[g] = family[g]
      BY <1>1, <3>1 DEF TypeOK, RedisTypeOK
    <3>7. \A x \in refresh' : family'[famOf[x]] = "active"
      <4>1. \A x \in refresh : famOf[x] \in Credentials
        BY <1>1, FamilyOf DEF World, StoredMinted
      <4> QED
        BY <1>1, <3>1, <3>4, <3>6, <4>1 DEF World, RefreshActive
    <3>8. \A x \in refresh \ refresh' : famOf[x] = f
      BY <3>1, <3>2, <1>1
    <3>9. EverySessionEnumerable'
      <4>1. live' \subseteq userSess' \cap famSess'
        BY <1>1, <3>1, <3>2, <3>3 DEF World, EverySessionEnumerable, TypeOK, RedisTypeOK
      <4>2. refresh' \subseteq userTok' \cap famTok'
        BY <1>1, <3>1 DEF World, EverySessionEnumerable
      <4>3. {g \in Credentials : family'[g] = "active"} \subseteq userFam'
        BY <1>1, <3>1, <3>6 DEF World, EverySessionEnumerable
      <4> QED
        BY <4>1, <4>2, <4>3 DEF EverySessionEnumerable
    <3> QED
      BY <3>1, <3>5, <3>6, <3>7, <3>8, <3>9
  <2>3. CASE RevokePresented(c) /\ ~FamilyFound(c)
    BY <2>1, <2>3 DEF RevokePresented
  <2> QED
    BY <2>1, <2>2, <2>3
<1>5. fenced' \subseteq fenced \cup {f}
  OBVIOUS
<1> HIDE DEF c
<1>6. RevokedStays /\ TokensOnward
  BY <1>1, <1>4 DEF RevokedStays, TokensOnward
<1>7. TypeOK'
  <2>1. \A g \in Credentials : Sessions(g)' \subseteq Sessions(g)
    BY <1>2, <1>4 DEF Sessions
  <2>2. \A g \in Credentials : Cardinality(Sessions(g)') <= MaxFamilySessions
    BY <1>1, <2>1, CapacityKept
  <2>3. fenced' \subseteq Credentials
    BY <1>1, <1>5 DEF TypeOK
  <2> QED
    BY <1>1, <1>2, <1>4, <2>2, <2>3 DEF TypeOK, Sessions, RequestTypeOK
<1>8. RoomKept' /\ RequestShape'
  BY <1>1, <1>2 DEF RoomKept, PrepareReserved, BumpReserved, RequestShape
<1>9. MintedAgree' /\ StoredMinted'
  <2>1. MintedAgree'
    BY <1>1, <1>2 DEF World, MintedAgree
  <2>2. StoredMinted'
    BY <1>1, <1>2, <1>4, <1>5 DEF World, StoredMinted, JarsOnward
  <2> QED
    BY <2>1, <2>2
<1>10. Undelivered' /\ FirstOfFamily' /\ OneBrowser'
  BY <1>1, <1>2, HandsKept DEF World
<1>11. NotYetIssued'
  <2>1. ASSUME NEW s \in Requests, req[s].pc = "issue"
        PROVE  req[s].new # f /\ req[s].new \in Credentials
    <3>1. req[s].new # None /\ req[s].old = None /\ req[s].new \in Credentials
      BY <1>1, <2>1, FamilyOf DEF RequestShape, Form, World
    <3> QED
      BY <1>1, <1>3, <3>1 DEF World, FirstOfFamily
  <2> QED
    BY <1>1, <1>4, <1>5, <2>1 DEF World, NotYetIssued
<1>12. CarriedStored' /\ ExchangedSpent' /\ OneTip' /\ TipFollowed'
  BY <1>1, <1>2, <1>4, <1>6, TokensKept DEF World
<1>13. RefreshActive'
  BY <1>2, <1>4 DEF RefreshActive
<1>14. AnswerStored'
  <2>1. ASSUME NEW s \in Requests, req[s].pc = "answer"
        PROVE  req[s].new \in refresh' \/ family'[famOf[req[s].new]] = "revoked"
    <3>1. req[s].new \in Mints /\ famOf[req[s].new] \in Credentials
      BY <1>1, <2>1, FamilyOf DEF RequestShape, Form, World
    <3> QED
      BY <1>1, <1>6, <2>1, <3>1
      DEF World, AnswerStored, Revoked, TokensOnward, RevokedStays
  <2> QED
    BY <1>2, <2>1 DEF AnswerStored, Revoked
<1>15. FencedFamilies'
  <2>1. \A g \in fenced : family'[g] = "revoked" \/ OutOfSight(g)'
    BY <1>1, <1>2, <1>4, <1>6, FenceKept DEF World
  <2> QED
    BY <2>1 DEF FencedFamilies
<1>16. LiveUnexpired' /\ RedeemedOnce'
  BY <1>1, <1>2, <1>4 DEF World, LiveUnexpired, RedeemedOnce
<1> QED
  BY <1>4, <1>7, <1>8, <1>9, <1>10, <1>11, <1>12, <1>13, <1>14, <1>15, <1>16 DEF IInv, World

\* A logout whose cookies no longer name their family had nothing to find: of
\* the family nothing is left, in this browser's requests or anywhere.
LEMMA NothingToFind ==
  ASSUME IInv, NEW b \in Browsers, jar[b] # None, NEW f, f = famOf[jar[b]],
         ~FamilyFound(jar[b]), family[f] # "revoked"
  PROVE  /\ \A a \in Browsers \ {b} : jar[a] # None => famOf[jar[a]] # f
         /\ \A r \in Requests : /\ req[r].old \in refresh => famOf[req[r].old] # f
                                /\ req[r].new \in refresh => famOf[req[r].new] # f
<1> DEFINE c == jar[b]
<1>1. /\ TypeOK /\ World /\ c \in Credentials /\ c \notin refresh /\ c \notin alias
      /\ f = famOf[c]
      /\ None \notin refresh /\ refresh \subseteq Credentials
  BY FamilyOf, NoneIsNoCredential
  DEF IInv, World, StoredMinted, FamilyFound, TypeOK, RedisTypeOK
<1>2. RotationEnabled
  BY <1>1, RotationAssumption DEF World, CarriedStored, Revoked
<1>3. ASSUME NEW a \in Browsers \ {b}, jar[a] # None
      PROVE  famOf[jar[a]] # f
  <2>1. jar[a] \in Credentials /\ HeldBy(jar[a], a) /\ HeldBy(c, b)
    BY <1>1, <1>3, FamilyOf DEF World, StoredMinted, HeldBy
  <2> QED
    BY <1>1, <2>1 DEF World, OneBrowser
<1>4. ASSUME NEW r \in Requests, req[r].old \in refresh
      PROVE  famOf[req[r].old] # f
  BY <1>1, <1>2, <1>4 DEF World, TipFollowed, JarsOf
<1>5. ASSUME NEW r \in Requests, req[r].new \in refresh
      PROVE  famOf[req[r].new] # f
  <2>1. req[r].new # None /\ req[r].new # c
    BY <1>1, <1>5 DEF World, Undelivered
  <2>2. CASE req[r].old = None
    BY <1>1, <2>1, <2>2 DEF World, FirstOfFamily
  <2>3. CASE req[r].old # None
    BY <1>1, <1>2, <1>5, <2>3 DEF World, TipFollowed, JarsOf
  <2> QED
    BY <2>2, <2>3
<1> QED
  BY <1>3, <1>4, <1>5

LEMMA LogoutInv ==
  ASSUME IInv, NEW b \in Browsers, Logout(b)
  PROVE  IInv'
<1> DEFINE f == famOf[jar[b]]
<1>1. /\ TypeOK /\ jar[b] # None /\ RevokePresented(jar[b]) /\ f \in Credentials
      /\ jar' = [jar EXCEPT ![b] = None] /\ fenced' = fenced \cup {f} /\ req' = req
      /\ UNCHANGED <<version, mintVars, expired, bridge, faults, successors>>
  BY FamilyOf DEF IInv, World, StoredMinted, Logout
<1>2. jar' \in [Browsers -> Credentials \cup {None}] /\ JarsOnward
  BY <1>1 DEF TypeOK, JarsOnward
<1>3. \A g \in Credentials : g = f => family'[g] = "revoked" \/ OutOfSight(g)'
  <2> SUFFICES ASSUME NEW g \in Credentials, g = f
               PROVE  family'[g] = "revoked" \/ OutOfSight(g)'
    OBVIOUS
  <2>1. CASE FamilyFound(jar[b])
    BY <1>1, <2>1 DEF RevokePresented, TypeOK, RedisTypeOK
  <2>2. CASE ~FamilyFound(jar[b])
    <3>1. UNCHANGED <<family, refresh>>
      BY <1>1, <2>2 DEF RevokePresented, redisVars
    <3>2. CASE family[g] = "revoked"
      BY <3>1, <3>2
    <3>3. CASE family[g] # "revoked"
      <4>1. /\ \A a \in Browsers \ {b} : jar[a] # None => famOf[jar[a]] # g
            /\ \A r \in Requests : /\ req[r].old \in refresh => famOf[req[r].old] # g
                                   /\ req[r].new \in refresh => famOf[req[r].new] # g
        BY <1>1, <2>2, <3>3, NothingToFind
      <4>2. famOf' = famOf
        BY <1>1 DEF mintVars
      <4>3. jar'[b] = None /\ \A a \in Browsers \ {b} : jar'[a] = jar[a]
        BY <1>1 DEF TypeOK
      <4> QED
        BY <1>1, <3>1, <4>1, <4>2, <4>3 DEF OutOfSight
    <3> QED
      BY <3>2, <3>3
  <2> QED
    BY <2>1, <2>2
<1> HIDE DEF f
<1>4. f = famOf[jar[b]]
  BY DEF f
<1>5. \A g \in Credentials : g = f => IInv'
  <2> SUFFICES ASSUME NEW g \in Credentials, g = f
               PROVE  IInv'
    OBVIOUS
  <2>1. /\ g = famOf[jar[b]] /\ fenced' = fenced \cup {g}
        /\ (family'[g] = "revoked" \/ OutOfSight(g)')
    BY <1>1, <1>3, <1>4
  <2>2. faults' \in 0 .. MaxFaults
    BY <1>1 DEF TypeOK
  <2> QED
    BY <1>1, <1>2, <2>1, <2>2, RevokeStep
<1> QED
  BY <1>1, <1>5

LEMMA LogoutUnansweredInv ==
  ASSUME IInv, NEW b \in Browsers, LogoutUnanswered(b)
  PROVE  IInv'
<1>1. /\ TypeOK /\ jar[b] # None
      /\ RevokePresented(jar[b]) \/ UNCHANGED redisVars
      /\ faults < MaxFaults /\ faults' = faults + 1 /\ req' = req /\ jar' = jar
      /\ fenced' = fenced
      /\ UNCHANGED <<version, mintVars, expired, bridge, successors>>
  BY DEF IInv, LogoutUnanswered, Fault, browserVars, historyVars
<1>2. faults' \in 0 .. MaxFaults /\ jar' \in [Browsers -> Credentials \cup {None}] /\ JarsOnward
  BY <1>1, BoundAssumption DEF TypeOK, JarsOnward
<1> QED
  BY <1>1, <1>2, RevokeStep

\* The script of a security change finds every session and every token.
LEMMA RevokeAllStep ==
  ASSUME IInv, NEW r \in Requests, NEW q \in RequestRecords, Moves(r, q),
         Reserves(q) => Reserves(req[r]), q.pc \notin {"bump", "answer"},
         RevokeAll,
         UNCHANGED <<version, mintVars, browserVars, historyVars>>,
         faults' \in 0 .. MaxFaults
  PROVE  IInv'
<1>1. TypeOK /\ RequestShape /\ World /\ RoomKept
  BY DEF IInv
<1>2. /\ UNCHANGED <<version, minted, famOf, verOf, since, alias, receipt, tomb,
                     logoutReceipt, expired, bridge, jar, fenced, successors>>
      /\ UNCHANGED mintVars /\ Mints' = Mints
  BY DEF RevokeAll, mintVars, browserVars, historyVars, Mints
<1>3. /\ Onward /\ RequestTypeOK' /\ req'[r] = q
      /\ \A s \in Requests \ {r} : req'[s] = req[s]
  BY MovesOnward
<1>4. /\ live' = {} /\ refresh' = {} /\ userSess' = {} /\ userTok' = {} /\ userFam' = {}
      /\ famSess' \subseteq famSess /\ famTok' \subseteq famTok
      /\ family' = [f \in Credentials |-> IF f \in userFam THEN "revoked" ELSE family[f]]
  BY <1>1 DEF RevokeAll, World, EverySessionEnumerable
<1>5. \A f \in Credentials : family'[f] # "active"
  BY <1>1, <1>4 DEF World, EverySessionEnumerable
<1>6. RevokedStays /\ TokensOnward
  <2>1. RevokedStays
    BY <1>4 DEF RevokedStays
  <2>2. ASSUME NEW c \in refresh
        PROVE  family'[famOf[c]] = "revoked"
    <3>1. famOf[c] \in Credentials /\ family[famOf[c]] = "active"
      BY <1>1, FamilyOf DEF World, StoredMinted, RefreshActive
    <3> QED
      BY <1>1, <1>4, <3>1 DEF World, EverySessionEnumerable
  <2> QED
    BY <1>4, <2>1, <2>2 DEF TokensOnward
<1>7. TypeOK'
  <2>1. \A g \in Credentials : Sessions(g)' \subseteq Sessions(g)
    BY <1>2, <1>4 DEF Sessions
  <2>2. \A g \in Credentials : Cardinality(Sessions(g)') <= MaxFamilySessions
    BY <1>1, <2>1, CapacityKept
  <2>3. RedisTypeOK'
    BY <1>1, <1>2, <1>4 DEF TypeOK, RedisTypeOK
  <2> QED
    BY <1>1, <1>2, <1>3, <2>2, <2>3 DEF TypeOK, Sessions
<1>8. RoomKept'
  BY <1>1, <1>2, RoomUnused DEF Moves
<1>9. RequestShape'
  BY <1>2, ShapeMoves
<1>10. MintedAgree' /\ StoredMinted'
  <2>1. MintedAgree'
    BY <1>1, <1>2 DEF World, MintedAgree
  <2>2. \A f \in Credentials \ Mints : family'[f] = "none"
    BY <1>1, <1>4 DEF World, StoredMinted
  <2> QED
    BY <1>1, <1>2, <1>4, <2>1, <2>2 DEF World, StoredMinted
<1>11. Undelivered' /\ FirstOfFamily' /\ OneBrowser'
  BY <1>1, <1>2, <1>3, HandsKept DEF World, JarsOnward
<1>12. NotYetIssued'
  <2>1. ASSUME NEW s \in Requests, req'[s].pc = "issue"
        PROVE  family'[req'[s].new] = "none" /\ req'[s].new \notin fenced
    <3>1. req'[s] = req[s] /\ req[s].new \in Credentials
      BY <1>1, <1>3, <2>1, FamilyOf DEF Moves, RequestShape, Form, World
    <3> QED
      BY <1>1, <1>4, <2>1, <3>1 DEF World, NotYetIssued
  <2> QED
    BY <1>2, <1>4, <2>1 DEF NotYetIssued
<1>13. CarriedStored' /\ ExchangedSpent' /\ OneTip' /\ TipFollowed'
  BY <1>1, <1>2, <1>3, <1>6, TokensKept DEF World, JarsOnward
<1>14. AnswerStored'
  <2>1. ASSUME NEW s \in Requests, req'[s].pc = "answer"
        PROVE  family'[famOf[req'[s].new]] = "revoked"
    <3>1. req'[s] = req[s] /\ req[s].new \in Mints /\ famOf[req[s].new] \in Credentials
      BY <1>1, <1>3, <2>1, FamilyOf DEF RequestShape, Form, World
    <3> QED
      BY <1>1, <1>4, <1>6, <2>1, <3>1
      DEF World, AnswerStored, Revoked, TokensOnward, RevokedStays
  <2> QED
    BY <1>2, <2>1 DEF AnswerStored, Revoked
<1>15. FencedFamilies'
  BY <1>1, <1>2, <1>3, <1>4, <1>6, FenceKept DEF World, FencedFamilies, JarsOnward
<1>16. RefreshActive' /\ LiveUnexpired' /\ RedeemedOnce' /\ EverySessionEnumerable'
  BY <1>1, <1>2, <1>4, <1>5
  DEF World, RefreshActive, LiveUnexpired, RedeemedOnce, EverySessionEnumerable
<1> QED
  BY <1>7, <1>8, <1>9, <1>10, <1>11, <1>12, <1>13, <1>14, <1>15, <1>16 DEF IInv, World

\* Where a request goes after its revocation.
LEMMA AfterRevocationMoves ==
  ASSUME IInv, NEW r \in Requests, req[r].pc = "revokeAll", AfterRevocation(r)
  PROVE  \E q \in RequestRecords :
           /\ Moves(r, q) /\ q.pc \notin {"bump", "answer"}
           /\ Reserves(q) => Reserves(req[r])
<1>1. /\ TypeOK /\ Form(req[r]) /\ req[r] \in RequestRecords
  BY RequestTyped DEF IInv, RequestShape
<1>2. CASE req[r].after = "reissue"
  <2> DEFINE q == [req[r] EXCEPT !.pc = "prepare", !.after = "none"]
  <2>1. /\ q \in RequestRecords /\ q.pc = "prepare" /\ q.after = "none"
        /\ q.old = req[r].old /\ q.new = req[r].new /\ q.browser = req[r].browser
    BY <1>1 DEF RequestRecords, RequestStates
  <2>2. Serve(r, q)
    BY <1>2 DEF AfterRevocation
  <2>3. Reserves(req[r])
    BY <1>2 DEF Reserves
  <2> HIDE DEF q
  <2>4. Moves(r, q)
    BY <1>1, <2>1, <2>2 DEF Moves, Form
  <2> QED
    BY <2>1, <2>3, <2>4
<1>3. CASE req[r].after = "clear"
  <2>1. AnswerCleared(r)
    BY <1>3 DEF AfterRevocation
  <2> QED
    BY <1>1, <2>1, Endings
<1>4. CASE req[r].after = "none"
  <2>1. Finish(r)
    BY <1>4 DEF AfterRevocation
  <2> QED
    BY <1>1, <2>1, Endings, IdleRecord
<1> QED
  BY <1>1, <1>2, <1>3, <1>4 DEF RequestRecords

LEMMA RevocationInv ==
  ASSUME IInv, NEW r \in Requests, revokeAllUserSessions(r) \/ RevokeAllFails(r)
  PROVE  IInv'
<1>1. /\ TypeOK /\ req[r].pc = "revokeAll" /\ AfterRevocation(r)
      /\ RevokeAll \/ UNCHANGED redisVars
      /\ (faults' = faults) \/ (faults < MaxFaults /\ faults' = faults + 1)
      /\ UNCHANGED <<version, mintVars, browserVars, historyVars>>
  BY DEF IInv, revokeAllUserSessions, RevokeAllFails, Fault
<1>2. faults' \in 0 .. MaxFaults
  BY <1>1, BoundAssumption DEF TypeOK
<1>3. PICK q \in RequestRecords : /\ Moves(r, q) /\ q.pc \notin {"bump", "answer"}
                                  /\ Reserves(q) => Reserves(req[r])
  BY <1>1, AfterRevocationMoves
<1>4. CASE RevokeAll
  BY <1>1, <1>2, <1>3, <1>4, RevokeAllStep
<1>5. CASE UNCHANGED redisVars
  BY <1>1, <1>2, <1>3, <1>5, QuietStep DEF TypeOK, JarsOnward, browserVars
<1> QED
  BY <1>1, <1>4, <1>5

----------------------------------------------------------------------------
(* Time *)

LEMMA ExpiryInv ==
  ASSUME IInv, NEW c \in Credentials, AccessExpires(c) \/ AliasExpires(c)
  PROVE  IInv'
<1>1. /\ TypeOK /\ RequestShape /\ World /\ RoomKept
      /\ UNCHANGED <<version, minted, famOf, verOf, since, refresh, family, famSess, famTok,
                     userSess, userTok, userFam, tomb, logoutReceipt, bridge, jar, req,
                     faults, fenced, successors>>
      /\ Mints' = Mints
  BY DEF IInv, AccessExpires, AliasExpires, mintVars, userSets, browserVars, historyVars, Mints
<1>2. /\ live' \subseteq live /\ live' \cap expired' = {}
      /\ expired \subseteq expired' /\ expired' \subseteq Mints
      /\ \A r \in Requests : req[r].new # None => req[r].new \notin expired'
  <2>1. CASE AccessExpires(c)
    <3>1. live' = live \ {c} /\ expired' = expired \cup {c}
          /\ \A r \in Requests : req[r].new # c
      BY <2>1 DEF AccessExpires
    <3>2. c \in Mints
      BY <1>1, <2>1, NoneIsNoCredential DEF AccessExpires, World, StoredMinted
    <3> QED
      BY <1>1, <3>1, <3>2 DEF World, LiveUnexpired, StoredMinted, RequestShape
  <2>2. CASE AliasExpires(c)
    BY <1>1, <2>2 DEF AliasExpires, browserVars, World, LiveUnexpired, StoredMinted, RequestShape
  <2> QED
    BY <2>1, <2>2
<1>3. /\ alias' \subseteq alias
      /\ receipt' \in [Credentials -> Credentials \cup {None}]
      /\ \A r \in Requests : req[r].old \in alias => req[r].old \in alias'
  <2>1. CASE AccessExpires(c)
    BY <1>1, <2>1 DEF AccessExpires, TypeOK, RedisTypeOK
  <2>2. CASE AliasExpires(c)
    BY <1>1, <2>2 DEF AliasExpires, InUse, TypeOK, RedisTypeOK
  <2> QED
    BY <2>1, <2>2
<1>4. Onward /\ JarsOnward /\ RevokedStays /\ TokensOnward
  BY <1>1 DEF Onward, JarsOnward, RevokedStays, TokensOnward
<1>5. TypeOK'
  <2>1. \A g \in Credentials : Sessions(g)' \subseteq Sessions(g)
    BY <1>1, <1>2 DEF Sessions
  <2>2. \A g \in Credentials : Cardinality(Sessions(g)') <= MaxFamilySessions
    BY <1>1, <2>1, CapacityKept
  <2>3. RedisTypeOK'
    BY <1>1, <1>2, <1>3 DEF TypeOK, RedisTypeOK
  <2>4. expired' \subseteq Credentials
    BY <1>1, <1>2, FamilyOf DEF World
  <2> QED
    BY <1>1, <2>2, <2>3, <2>4 DEF TypeOK, Sessions, RequestTypeOK
<1>6. RoomKept' /\ RequestShape'
  BY <1>1, <1>2 DEF RoomKept, PrepareReserved, BumpReserved, RequestShape
<1>7. MintedAgree' /\ StoredMinted' /\ NotYetIssued' /\ LiveUnexpired'
  BY <1>1, <1>2 DEF World, MintedAgree, StoredMinted, NotYetIssued, LiveUnexpired
<1>8. Undelivered' /\ FirstOfFamily' /\ OneBrowser'
  BY <1>1, <1>4, HandsKept DEF World
<1>9. CarriedStored' /\ ExchangedSpent' /\ OneTip' /\ TipFollowed'
  BY <1>1, <1>3, <1>4, TokensKept DEF World
<1>10. FencedFamilies'
  BY <1>1, <1>4, FenceKept DEF World, FencedFamilies
<1>11. RefreshActive' /\ AnswerStored' /\ RedeemedOnce' /\ EverySessionEnumerable'
  BY <1>1, <1>2
  DEF World, RefreshActive, AnswerStored, Revoked, RedeemedOnce, EverySessionEnumerable
<1> QED
  BY <1>5, <1>6, <1>7, <1>8, <1>9, <1>10, <1>11 DEF IInv, World

----------------------------------------------------------------------------
(* The invariant *)

LEMMA InitIInv == Init => IInv
<1> SUFFICES ASSUME Init PROVE IInv
  OBVIOUS
<1> USE DEF Init
<1>1. /\ Mints = {} /\ None \notin Credentials /\ None \in 0 .. MaxVersion
      /\ MaxCredentials \in Nat /\ MaxVersion \in Nat /\ 1 <= MaxVersion /\ 0 <= MaxCredentials
  BY NoneIsNoCredential, BoundAssumption DEF Mints, None
<1>2. \A r \in Requests : req[r] = Idle
  OBVIOUS
<1>3. RequestTypeOK
  BY IdleRecord DEF RequestTypeOK, RequestRecords
<1>4. TypeOK
  <2>1. \A f \in Credentials :
          Cardinality({c \in live \ expired : famOf[c] = f}) <= MaxFamilySessions
    <3>1. ASSUME NEW f \in Credentials
          PROVE  {c \in live \ expired : famOf[c] = f} = {}
      OBVIOUS
    <3>2. Cardinality({}) = 0 /\ MaxFamilySessions \in Nat
      BY FS_EmptySet, BoundAssumption
    <3> QED
      BY <3>1, <3>2
  <2>2. RedisTypeOK
    BY DEF RedisTypeOK
  <2>3. version \in 1 .. MaxVersion /\ minted \in 0 .. MaxCredentials /\ faults \in 0 .. MaxFaults
    BY <1>1, BoundAssumption
  <2> QED
    BY <1>1, <1>3, <2>1, <2>2, <2>3 DEF TypeOK
<1>5. RoomKept
  <2>1. PrepareReserved = {} /\ BumpReserved = {}
    BY <1>2, IdleRecord DEF PrepareReserved, BumpReserved
  <2> QED
    BY <1>1, <2>1, FS_EmptySet DEF RoomKept
<1>6. RequestShape
  BY <1>2, IdleRecord DEF RequestShape
<1>7. World
  <2>1. MintedAgree /\ StoredMinted /\ LiveUnexpired
    BY <1>1 DEF MintedAgree, StoredMinted, LiveUnexpired
  <2>2. Undelivered /\ FirstOfFamily /\ NotYetIssued /\ AnswerStored
    BY <1>2, IdleRecord DEF Undelivered, FirstOfFamily, NotYetIssued, AnswerStored
  <2>3. OneBrowser
    <3>1. ASSUME NEW c \in Credentials, NEW b PROVE ~HeldBy(c, b)
      BY <1>1, <1>2, IdleRecord DEF HeldBy
    <3> QED
      BY <3>1 DEF OneBrowser
  <2>4. RefreshActive /\ CarriedStored /\ ExchangedSpent /\ OneTip /\ FencedFamilies
    BY DEF RefreshActive, CarriedStored, ExchangedSpent, OneTip, FencedFamilies
  <2>5. TipFollowed
    BY DEF TipFollowed
  <2>6. EverySessionEnumerable /\ RedeemedOnce
    BY DEF EverySessionEnumerable, RedeemedOnce
  <2> QED
    BY <2>1, <2>2, <2>3, <2>4, <2>5, <2>6 DEF World
<1> QED
  BY <1>4, <1>5, <1>6, <1>7 DEF IInv

LEMMA StutterInv ==
  ASSUME IInv, UNCHANGED vars
  PROVE  IInv'
<1>1. UNCHANGED <<version, minted, famOf, verOf, since, live, refresh, family, alias,
                  receipt, famSess, famTok, userSess, userTok, userFam, tomb,
                  logoutReceipt, expired, bridge, jar, req, faults, fenced, successors>>
  BY DEF vars, mintVars, redisVars, userSets, browserVars, historyVars
<1>2. TypeOK'
  BY <1>1 DEF IInv, TypeOK, RedisTypeOK, RequestTypeOK
<1>3. RoomKept' /\ RequestShape'
  BY <1>1 DEF IInv, RoomKept, PrepareReserved, BumpReserved, RequestShape, Mints
<1>4. World'
  BY <1>1 DEF IInv, World, MintedAgree, StoredMinted, Mints, Undelivered, FirstOfFamily,
     NotYetIssued, LiveUnexpired, OneBrowser, HeldBy, RefreshActive, AnswerStored, Revoked,
     CarriedStored, ExchangedSpent, OneTip, TipFollowed, JarsOf, FencedFamilies, OutOfSight,
     EverySessionEnumerable, RedeemedOnce
<1> QED
  BY <1>2, <1>3, <1>4 DEF IInv

LEMMA NextIInv == IInv /\ [Next]_vars => IInv'
<1> SUFFICES ASSUME IInv, [Next]_vars PROVE IInv'
  OBVIOUS
<1>1. ASSUME NEW b \in Browsers, BrowserNext(b)
      PROVE  IInv'
  BY <1>1, LogoutInv, LogoutUnansweredInv, LoginInv, TwoFactorVerifyInv,
     RefreshLooksUpInv, AuthenticatedChangeInv DEF BrowserNext
<1>2. ASSUME NEW r \in Requests, ServerNext(r)
      PROVE  IInv'
  BY <1>2, OutOfBandChangeInv, SecondFactorAskedInv, PasswordRefusedInv,
     PrepareIssueInv, PrepareRefusedInv, IssueSessionInv,
     IssueFailsInv, RefreshChecksAccountInv, PrepareRotationInv, RotationAnsweredInv,
     RotationUnansweredInv, CookiesSetInv, CookiesClearedInv, ResponseLostInv,
     BumpSessionVersionInv, RevocationInv DEF ServerNext
<1>3. ASSUME NEW c \in Credentials, AccessExpires(c) \/ AliasExpires(c)
      PROVE  IInv'
  BY <1>3, ExpiryInv
<1>4. CASE UNCHANGED vars
  BY <1>4, StutterInv
<1> QED
  BY <1>1, <1>2, <1>3, <1>4 DEF Next

LEMMA IInvHolds == Spec => []IInv
BY InitIInv, NextIInv, PTL DEF Spec

----------------------------------------------------------------------------
(* Theorems *)

(***************************************************************************)
(* The variables keep their types and bounds, and a family never has more  *)
(* live access sessions than rotateRefreshSession's capacity.              *)
(***************************************************************************)
THEOREM SessionsTypeCorrect == Spec => []TypeOK
<1>1. IInv => TypeOK
  BY DEF IInv
<1> QED
  BY <1>1, IInvHolds, PTL

(***************************************************************************)
(* Whatever requests overlap and whichever Redis calls fail, the sets that *)
(* revokeAllUserSessions and a logout walk list every session, every       *)
(* refresh token and every active family there is.                         *)
(***************************************************************************)
THEOREM SetsListEverySession == Spec => []EverySessionEnumerable
<1>1. IInv => EverySessionEnumerable
  BY DEF IInv, World
<1> QED
  BY <1>1, IInvHolds, PTL

(***************************************************************************)
(* A credential that works or can be refreshed belongs to a login that is  *)
(* dated by the account's current version: no chain of refreshes carries a *)
(* login over a security change, although a failed revocation of           *)
(* revokeAllUserSessions is only logged. A login that handed issueSession  *)
(* a version (POST /auth/2fa/verify) is dated by it; any other by the      *)
(* version prepareSessionCredentials read, which a change that committed   *)
(* after the password was read has already raised.                         *)
(***************************************************************************)
THEOREM NoLoginOutlivesItsVersion == Spec => []EpochCoversFamily
<1>1. IInv => EpochCoversFamily
  <2>1. ASSUME IInv, NEW c \in Credentials, c <= minted, verOf[c] = version
        PROVE  since[famOf[c]] = version
    <3>1. c \in Mints
      BY <2>1 DEF IInv, TypeOK, Mints, Credentials
    <3> QED
      BY <2>1, <3>1 DEF IInv, World, MintedAgree
  <2> QED
    BY <2>1 DEF EpochCoversFamily, Usable, Redeemable
<1> QED
  BY <1>1, IInvHolds, PTL

(***************************************************************************)
(* With rotation on, ROTATE_REFRESH_SESSION_SCRIPT gives one successor for *)
(* one token, to two tabs and to the retry of an unanswered call alike.    *)
(***************************************************************************)
THEOREM TokenExchangedOnce == Spec => []RedeemedOnce
<1>1. IInv => RedeemedOnce
  BY DEF IInv, World
<1> QED
  BY <1>1, IInvHolds, PTL

(***************************************************************************)
(* After a logout's 204 no credential of its family that a browser holds   *)
(* works or can be refreshed, a refresh in flight or a lost answer         *)
(* notwithstanding, and also when the cookies no longer named the family.  *)
(***************************************************************************)
THEOREM LogoutEndsItsFamily == Spec => []LogoutIsFinal
<1>1. IInv => LogoutIsFinal
  <2>1. ASSUME IInv, NEW b \in Browsers, jar[b] # None, famOf[jar[b]] \in fenced
        PROVE  family[famOf[jar[b]]] = "revoked"
    BY <2>1 DEF IInv, World, FencedFamilies, OutOfSight
  <2> QED
    BY <2>1 DEF LogoutIsFinal, Usable, Redeemable
<1> QED
  BY <1>1, IInvHolds, PTL

----------------------------------------------------------------------------
(* The tabs of a browser: the inductive invariant *)

\* A logout asked for after the newest login can only mean that login's
\* session, which the user has then signed out of.
LogoutTime(x) ==
  x <= clock /\ (x # 0 /\ x >= established => cookie \in ended \cup {0})

StampsArePast ==
  /\ established <= clock
  /\ LogoutTime(marker)
  /\ \A t \in Pages :
       /\ page[t].authedAt <= clock /\ page[t].logoutAt <= clock
       /\ retry[t].pc # "none" => retry[t].at # 0 /\ LogoutTime(retry[t].at)
       /\ \A m \in inbox[t] : /\ m.type = "logout" => m.at # 0 /\ LogoutTime(m.at)
                              /\ m.type = "established" => m.at <= established

\* Who is inside the lock, and what a request that was sent from there may hit.
LockedIn ==
  \A t \in Pages :
    /\ login[t] = "sent" => cookieLock = {t} /\ retry[t].pc # "sent"
    /\ retry[t].pc = "sent" => cookieLock = {t} /\ cookie \in ended \cup {0}
    /\ retry[t].pc = "confirmed" => retry[t].at < established \/ cookie = 0
    /\ login[t] = "issued" => issuedSessions \notin ended \ overtaken

\* A session that is over stays in the cookies only under a pending logout.
CookieKnown ==
  /\ cookie \in {0, issuedSessions}
  /\ revoked \subseteq ended
  /\ cookie \in ended \ overtaken => PendingLogout # 0
  /\ PendingLogout # 0 => \/ cookie \in overtaken \cup {0}
                          \/ \A t \in Pages : page[t].authedAt <= marker

\* No logout has been asked for since the newest login.
NoLogoutSince ==
  /\ marker = 0 \/ marker < established
  /\ \A t \in Pages : \A m \in inbox[t] : m.type = "logout" => m.at < established

\* The message that makes the page forget whom it shows.
Tells(t, m) ==
  \/ m.type = "logout" /\ m.at >= established /\ m.at >= page[t].authedAt
  \/ m.type = "established" /\ m.at = established /\ NoLogoutSince

Told(t) == \E m \in inbox[t] : Tells(t, m)

ShowsNobodyEnded(t) ==
  /\ page[t].user \notin ended \ overtaken
  /\ hydration[t].pc # "none" /\ ~hydration[t].stale => hydration[t].session \notin ended \ overtaken

PagesLearn == \A t \in Pages : login[t] = "issued" \/ Told(t) \/ ShowsNobodyEnded(t)

TabsIInv == AuthTypeOK /\ StampsArePast /\ LockedIn /\ CookieKnown /\ PagesLearn

----------------------------------------------------------------------------
\* The latest of some moments.
LEMMA MaxOfTwo ==
  ASSUME NEW a \in Nat, NEW b \in Nat
  PROVE  /\ Max({a, b}) \in Nat /\ Max({a, b}) \in {a, b}
         /\ Max({a, b}) >= a /\ Max({a, b}) >= b
<1>1. \E x \in {a, b} : \A y \in {a, b} : x >= y
  <2>1. CASE a >= b
    BY <2>1
  <2>2. CASE b >= a
    BY <2>2
  <2> QED
    BY <2>1, <2>2
<1> QED
  BY <1>1 DEF Max

LEMMA MaxOfFour ==
  ASSUME NEW a \in Nat, NEW b \in Nat, NEW c \in Nat, NEW d \in Nat
  PROVE  LET top == Max({a, b, c, d})
         IN  top \in Nat /\ top \in {a, b, c, d} /\ top >= a /\ top >= b /\ top >= c /\ top >= d
<1>1. PICK x \in {a, b} : x >= a /\ x >= b
  BY MaxOfTwo
<1>2. PICK y \in {c, d} : y >= c /\ y >= d
  BY MaxOfTwo
<1>3. PICK z \in {x, y} : z >= x /\ z >= y
  <2>1. x \in Nat /\ y \in Nat
    OBVIOUS
  <2> QED
    BY <2>1, MaxOfTwo
<1>4. z \in {a, b, c, d} /\ \A u \in {a, b, c, d} : z >= u
  BY <1>1, <1>2, <1>3
<1> QED
  BY <1>4 DEF Max

LEMMA TabsInit ==
  ASSUME AuthInit
  PROVE  TabsIInv
<1>1. AuthTypeOK
  BY AuthTabsAssumption DEF AuthInit, AuthTypeOK, NoHydration, NoRetry
<1>2. StampsArePast /\ LockedIn /\ CookieKnown
  BY DEF AuthInit, StampsArePast, LogoutTime, LockedIn, CookieKnown, PendingLogout, NoRetry
<1>3. PagesLearn
  BY DEF AuthInit, PagesLearn, ShowsNobodyEnded
<1> QED
  BY <1>1, <1>2, <1>3 DEF TabsIInv

----------------------------------------------------------------------------
\* What the store of a tab and its records are.
LEMMA TabShape ==
  ASSUME AuthTypeOK, NEW t \in Pages
  PROVE  /\ page[t].authedAt \in Nat /\ page[t].logoutAt \in Nat /\ page[t].user \in 0..issuedSessions
         /\ retry[t].at \in Nat /\ hydration[t].session \in 0..issuedSessions
         /\ \A m \in inbox[t] : m.at \in Nat
         /\ clock \in Nat /\ marker \in Nat /\ established \in Nat /\ issuedSessions \in Nat \ {0}
BY DEF AuthTypeOK

\* A tab is still told while the messages, the newest login, the marker and
\* the moment it signed in at stay as they are.
LEMMA StillTold ==
  ASSUME NEW t \in Pages, Told(t), page'[t].authedAt = page[t].authedAt,
         UNCHANGED <<marker, inbox, established>>
  PROVE  Told(t)'
BY DEF Told, Tells, NoLogoutSince

\* What an attempt to tell the server becomes when another one is asked for.
Statuses == {"unknown", "authenticated", "anonymous", "degraded"}
PageRecords == [status : Statuses, user : 0..issuedSessions, authedAt : Nat, logoutAt : Nat]
HydrationRecords ==
  [pc : {"none", "asked", "user", "denied", "failed"}, session : 0..issuedSessions, stale : BOOLEAN]
RetryRecords == [pc : {"none", "waiting", "sent", "confirmed"}, at : Nat, queued : BOOLEAN]


LEMMA RetryAsked ==
  ASSUME AuthTypeOK, NEW t \in Pages, NEW moment \in Nat, NEW queue \in BOOLEAN,
         retry' = RetryAfter(t, moment, queue)
  PROVE  /\ retry' \in [Pages -> RetryRecords]
         /\ \A u \in Pages :
              \/ retry'[u].pc = retry[u].pc /\ retry'[u].at = retry[u].at
              \/ u = t /\ retry'[u].pc = "waiting" /\ retry'[u].at = moment
<1>1. retry \in [Pages -> RetryRecords]
  BY DEF AuthTypeOK, RetryRecords
<1>2. CASE retry[t].pc = "none"
  BY <1>1, <1>2 DEF RetryAfter, NoRetry, RetryRecords
<1>3. CASE retry[t].pc # "none"
  BY <1>1, <1>3 DEF RetryAfter, RetryRecords
<1> QED
  BY <1>2, <1>3

LEMMA RetryEnded ==
  ASSUME AuthTypeOK, NEW t \in Pages, NEW left \in Nat, EndRetry(t, left)
  PROVE  /\ retry' \in [Pages -> RetryRecords]
         /\ \A u \in Pages :
              \/ retry'[u] = retry[u] /\ u # t
              \/ u = t /\ retry'[u].pc = "none"
              \/ u = t /\ retry'[u].pc = "waiting" /\ retry'[u].at = left /\ left # 0
<1>1. retry \in [Pages -> RetryRecords]
  BY DEF AuthTypeOK, RetryRecords
<1> QED
  BY <1>1 DEF EndRetry, NoRetry, RetryRecords

LEMMA PageEdited ==
  ASSUME NEW p \in PageRecords, NEW s \in Statuses, NEW u \in 0..issuedSessions
  PROVE  /\ [p EXCEPT !.status = s, !.user = u] \in PageRecords
         /\ [p EXCEPT !.status = s, !.user = u].user = u
         /\ [p EXCEPT !.status = s, !.user = u].authedAt = p.authedAt
         /\ [p EXCEPT !.status = s, !.user = u].logoutAt = p.logoutAt
         /\ [p EXCEPT !.status = s] \in PageRecords
         /\ [p EXCEPT !.status = s].user = p.user
         /\ [p EXCEPT !.status = s].authedAt = p.authedAt
         /\ [p EXCEPT !.status = s].logoutAt = p.logoutAt
BY DEF PageRecords

LEMMA PageForgets ==
  ASSUME AuthTypeOK, NEW p \in PageRecords
  PROVE  /\ Anonymous(p) \in PageRecords /\ Anonymous(p).user = 0
         /\ Anonymous(p).authedAt = p.authedAt /\ Anonymous(p).logoutAt = p.logoutAt
<1>1. "anonymous" \in Statuses /\ 0 \in 0..issuedSessions
  BY DEF Statuses, AuthTypeOK
<1> QED
  BY <1>1 DEF Anonymous, PageRecords

\* The page forgets its user, and an answer under way is stale.
LEMMA MadeAnonymous ==
  ASSUME AuthTypeOK, NEW t \in Pages, setAnonymous(t)
  PROVE  /\ page' \in [Pages -> PageRecords]
         /\ \A u \in Pages : /\ page'[u].authedAt = page[u].authedAt
                             /\ page'[u].logoutAt = page[u].logoutAt
                             /\ page'[u].user \in {page[u].user, 0}
         /\ page'[t].user = 0
<1>1. page \in [Pages -> PageRecords]
  BY DEF AuthTypeOK, PageRecords, Statuses
<1>2. /\ Anonymous(page[t]) \in PageRecords /\ Anonymous(page[t]).user = 0
      /\ Anonymous(page[t]).authedAt = page[t].authedAt
      /\ Anonymous(page[t]).logoutAt = page[t].logoutAt
  BY <1>1, PageForgets
<1>3. page' = [page EXCEPT ![t] = Anonymous(page[t])]
  BY DEF setAnonymous
<1> QED
  BY <1>1, <1>2, <1>3

LEMMA MadeStale ==
  ASSUME AuthTypeOK, NEW t \in Pages, hydration' = Stale(t)
  PROVE  /\ hydration' \in [Pages -> HydrationRecords]
         /\ \A u \in Pages : /\ hydration'[u].pc = hydration[u].pc
                             /\ hydration'[u].session = hydration[u].session
                             /\ hydration[u].stale => hydration'[u].stale
         /\ hydration[t].pc # "none" => hydration'[t].stale
<1>1. hydration \in [Pages -> HydrationRecords]
  BY DEF AuthTypeOK, HydrationRecords
<1> QED
  BY <1>1 DEF Stale, HydrationRecords

\* What a tab does by itself: it may forget its user, install the one an
\* answer in time names, ask for the owner of the cookies while no logout is
\* pending, drop an attempt to log out, or begin one at a moment that is known.
LEMMA LocalStep ==
  ASSUME TabsIInv,
         UNCHANGED <<clock, cookie, issuedSessions, revoked, established, marker, login,
                     cookieLock, inbox, ended, overtaken>>,
         events' \in 0..MaxEvents,
         page' \in [Pages -> PageRecords],
         hydration' \in [Pages -> HydrationRecords],
         retry' \in [Pages -> RetryRecords],
         \A u \in Pages :
           /\ page'[u].authedAt = page[u].authedAt /\ page'[u].logoutAt = page[u].logoutAt
           /\ \/ page'[u].user \in {page[u].user, 0}
              \/ /\ hydration[u].pc # "none" /\ ~hydration[u].stale
                 /\ page'[u].user = hydration[u].session,
         \A u \in Pages :
           \/ hydration'[u].pc = "none" \/ hydration'[u].stale
           \/ /\ hydration[u].pc # "none" /\ ~hydration[u].stale
              /\ hydration'[u].session = hydration[u].session
           \/ PendingLogout = 0 /\ hydration'[u].session = cookie,
         \A u \in Pages :
           \/ retry'[u].pc = retry[u].pc /\ retry'[u].at = retry[u].at
           \/ retry'[u].pc = "none"
           \/ retry'[u].pc = "waiting" /\ retry'[u].at # 0 /\ LogoutTime(retry'[u].at)
  PROVE  TabsIInv'
<1>1. AuthTypeOK /\ StampsArePast /\ LockedIn /\ CookieKnown /\ PagesLearn
  BY DEF TabsIInv
<1>2. AuthTypeOK'
  BY <1>1 DEF AuthTypeOK, PageRecords, Statuses, HydrationRecords, RetryRecords
<1>3. StampsArePast'
  BY <1>1 DEF StampsArePast, LogoutTime
<1>4. LockedIn'
  BY <1>1 DEF LockedIn
<1>5. CookieKnown'
  BY <1>1 DEF CookieKnown, PendingLogout
<1>6. 0 \notin ended /\ (PendingLogout = 0 => cookie \notin ended \ overtaken)
  BY <1>1 DEF AuthTypeOK, CookieKnown
<1>7. PagesLearn'
  <2> SUFFICES ASSUME NEW u \in Pages, login[u] # "issued", ~Told(u)
               PROVE  ShowsNobodyEnded(u)'
    BY StillTold DEF PagesLearn
  <2>1. ShowsNobodyEnded(u)
    BY <1>1 DEF PagesLearn
  <2>2. page'[u].user \notin ended \ overtaken
    BY <1>6, <2>1 DEF ShowsNobodyEnded
  <2>3. hydration'[u].pc # "none" /\ ~hydration'[u].stale =>
          hydration'[u].session \notin ended \ overtaken
    BY <1>6, <2>1 DEF ShowsNobodyEnded
  <2> QED
    BY <2>2, <2>3 DEF ShowsNobodyEnded
<1> QED
  BY <1>2, <1>3, <1>4, <1>5, <1>7 DEF TabsIInv

----------------------------------------------------------------------------
(* The tabs of a browser: one lemma per step *)

\* A tab that finds a pending logout is anonymous and tells the server of it.
LEMMA PendingFound ==
  ASSUME TabsIInv, NEW t \in Pages, NEW queue \in BOOLEAN, PendingLogout # 0,
         setAnonymous(t), retry' = RetryAfter(t, PendingLogout, queue),
         UNCHANGED <<clock, cookie, issuedSessions, revoked, established, marker, login,
                     cookieLock, inbox, events, ended, overtaken>>
  PROVE  TabsIInv'
<1>1. /\ AuthTypeOK /\ LogoutTime(marker)
      /\ PendingLogout = marker /\ marker # 0 /\ marker \in Nat
  BY DEF TabsIInv, StampsArePast, PendingLogout, AuthTypeOK
<1>2. /\ retry' = RetryAfter(t, marker, queue) /\ hydration' = Stale(t)
      /\ UNCHANGED <<clock, cookie, issuedSessions, revoked, established, marker, login,
                     cookieLock, inbox, events, ended, overtaken>>
  BY <1>1 DEF setAnonymous
<1>3. /\ retry' \in [Pages -> RetryRecords]
      /\ \A u \in Pages :
           \/ retry'[u].pc = retry[u].pc /\ retry'[u].at = retry[u].at
           \/ u = t /\ retry'[u].pc = "waiting" /\ retry'[u].at = marker
  BY <1>1, <1>2, RetryAsked
<1>4. events' \in 0..MaxEvents
  BY <1>1, <1>2 DEF AuthTypeOK
<1>5. /\ page' \in [Pages -> PageRecords]
      /\ \A u \in Pages : /\ page'[u].authedAt = page[u].authedAt
                          /\ page'[u].logoutAt = page[u].logoutAt
                          /\ page'[u].user \in {page[u].user, 0}
  BY <1>1, <1>2, MadeAnonymous
<1>6. /\ hydration' \in [Pages -> HydrationRecords]
      /\ \A u \in Pages : /\ hydration'[u].pc = hydration[u].pc
                          /\ hydration'[u].session = hydration[u].session
                          /\ hydration[u].stale => hydration'[u].stale
  BY <1>1, <1>2, MadeStale
<1>7. /\ \A u \in Pages :
           \/ hydration'[u].pc = "none" \/ hydration'[u].stale
           \/ /\ hydration[u].pc # "none" /\ ~hydration[u].stale
              /\ hydration'[u].session = hydration[u].session
      /\ \A u \in Pages :
           \/ retry'[u].pc = retry[u].pc /\ retry'[u].at = retry[u].at
           \/ retry'[u].pc = "waiting" /\ retry'[u].at # 0 /\ LogoutTime(retry'[u].at)
  BY <1>1, <1>3, <1>6
<1> QED
  BY <1>2, <1>3, <1>4, <1>5, <1>6, <1>7, LocalStep

LEMMA RecoverLogoutInv ==
  ASSUME TabsIInv, NEW t \in Pages, RecoverLogout(t)
  PROVE  TabsIInv'
BY PendingFound DEF RecoverLogout

LEMMA hydrateInv ==
  ASSUME TabsIInv, NEW t \in Pages, hydrate(t)
  PROVE  TabsIInv'
<1>1. CASE PendingLogout # 0
  BY <1>1, PendingFound DEF hydrate
<1>2. CASE PendingLogout = 0
  <2>1. /\ AuthTypeOK /\ CookieKnown /\ page \in [Pages -> PageRecords]
        /\ hydration \in [Pages -> HydrationRecords] /\ retry \in [Pages -> RetryRecords]
        /\ hydration' = [hydration EXCEPT ![t] = [pc |-> "asked", session |-> cookie,
                                                  stale |-> FALSE]]
        /\ UNCHANGED <<clock, cookie, issuedSessions, revoked, established, marker, login,
                       cookieLock, inbox, events, ended, overtaken, page, retry>>
    BY <1>2 DEF TabsIInv, hydrate, AuthTypeOK, PageRecords, Statuses, HydrationRecords, RetryRecords
  <2>2. [pc |-> "asked", session |-> cookie, stale |-> FALSE] \in HydrationRecords
    BY <2>1 DEF HydrationRecords, AuthTypeOK
  <2>3. /\ hydration' \in [Pages -> HydrationRecords]
        /\ \A u \in Pages : hydration'[u] = hydration[u] \/ hydration'[u].session = cookie
    BY <2>1, <2>2
  <2>4. events' \in 0..MaxEvents
    BY <2>1 DEF AuthTypeOK
  <2>5. \A u \in Pages :
          \/ hydration'[u].pc = "none" \/ hydration'[u].stale
          \/ /\ hydration[u].pc # "none" /\ ~hydration[u].stale
             /\ hydration'[u].session = hydration[u].session
          \/ PendingLogout = 0 /\ hydration'[u].session = cookie
    BY <1>2, <2>3
  <2> QED
    BY <2>1, <2>3, <2>4, <2>5, LocalStep
<1> QED
  BY <1>1, <1>2

LEMMA AnswerMeInv ==
  ASSUME TabsIInv, NEW t \in Pages, AnswerMe(t)
  PROVE  TabsIInv'
<1>1. /\ AuthTypeOK /\ page \in [Pages -> PageRecords]
      /\ hydration \in [Pages -> HydrationRecords] /\ retry \in [Pages -> RetryRecords]
      /\ UNCHANGED <<clock, cookie, issuedSessions, revoked, established, marker, login,
                     cookieLock, inbox, ended, overtaken, page, retry>>
  BY DEF TabsIInv, AnswerMe, AuthTypeOK, PageRecords, Statuses, HydrationRecords, RetryRecords
<1>2. \E answer \in {"user", "denied", "failed"} :
        hydration' = [hydration EXCEPT ![t].pc = answer]
  BY <1>1 DEF AnswerMe, HydrationRecords
<1>3. events' \in 0..MaxEvents
  BY <1>1, AuthTabsAssumption DEF AnswerMe, Happens, AuthTypeOK
<1>4. /\ hydration' \in [Pages -> HydrationRecords] /\ hydration[t].pc = "asked"
      /\ \A u \in Pages : /\ hydration'[u].session = hydration[u].session
                          /\ hydration'[u].stale = hydration[u].stale
                          /\ u # t => hydration'[u].pc = hydration[u].pc
  BY <1>1, <1>2 DEF HydrationRecords, AnswerMe
<1>5. \A u \in Pages :
        \/ hydration'[u].pc = "none" \/ hydration'[u].stale
        \/ /\ hydration[u].pc # "none" /\ ~hydration[u].stale
           /\ hydration'[u].session = hydration[u].session
  BY <1>4
<1> QED
  BY <1>1, <1>3, <1>4, <1>5, LocalStep

LEMMA ApplyMeInv ==
  ASSUME TabsIInv, NEW t \in Pages, ApplyMe(t)
  PROVE  TabsIInv'
<1>1. /\ AuthTypeOK /\ page \in [Pages -> PageRecords]
      /\ hydration \in [Pages -> HydrationRecords] /\ retry \in [Pages -> RetryRecords]
      /\ hydration' = [hydration EXCEPT ![t] = NoHydration] /\ hydration[t].pc # "none"
      /\ UNCHANGED <<clock, cookie, issuedSessions, revoked, established, marker, login,
                     cookieLock, inbox, events, ended, overtaken, retry>>
  BY DEF TabsIInv, ApplyMe, AuthTypeOK, PageRecords, Statuses, HydrationRecords, RetryRecords
<1>2. NoHydration \in HydrationRecords /\ NoHydration.pc = "none"
  BY <1>1 DEF NoHydration, HydrationRecords, AuthTypeOK
<1>3. /\ hydration' \in [Pages -> HydrationRecords]
      /\ \A u \in Pages : hydration'[u] = hydration[u] \/ hydration'[u].pc = "none"
  BY <1>1, <1>2
<1>4. PICK rec \in PageRecords :
        /\ page' = [page EXCEPT ![t] = rec]
        /\ rec.authedAt = page[t].authedAt /\ rec.logoutAt = page[t].logoutAt
        /\ \/ rec.user \in {page[t].user, 0}
           \/ ~hydration[t].stale /\ rec.user = hydration[t].session
  <2>1. /\ page[t] \in PageRecords /\ {"anonymous", "authenticated", "degraded"} \subseteq Statuses
        /\ 0 \in 0..issuedSessions /\ hydration[t].session \in 0..issuedSessions
    BY <1>1, TabShape DEF Statuses
  <2>2. CASE PendingLogout # 0 \/ (~hydration[t].stale /\ hydration[t].pc = "denied")
    <3>1. page' = [page EXCEPT ![t] = Anonymous(page[t])]
      BY <2>2 DEF ApplyMe
    <3> QED
      BY <1>1, <2>1, <3>1, PageForgets
  <2>3. CASE PendingLogout = 0 /\ hydration[t].stale
    BY <2>1, <2>3 DEF ApplyMe
  <2>4. CASE PendingLogout = 0 /\ ~hydration[t].stale /\ hydration[t].pc = "user"
    <3>1. page' = [page EXCEPT ![t] = [page[t] EXCEPT !.status = "authenticated",
                                                      !.user = hydration[t].session]]
      BY <2>4 DEF ApplyMe
    <3> DEFINE rec == [page[t] EXCEPT !.status = "authenticated", !.user = hydration[t].session]
    <3>2. /\ rec \in PageRecords /\ rec.user = hydration[t].session
          /\ rec.authedAt = page[t].authedAt /\ rec.logoutAt = page[t].logoutAt
      BY <2>1 DEF PageRecords
    <3> HIDE DEF rec
    <3> QED
      BY <2>4, <3>1, <3>2 DEF rec
  <2>5. CASE PendingLogout = 0 /\ ~hydration[t].stale /\ hydration[t].pc \notin {"user", "denied"}
    <3>1. page' = [page EXCEPT ![t] = [page[t] EXCEPT !.status = "degraded"]]
      BY <2>5 DEF ApplyMe
    <3>2. [page[t] EXCEPT !.status = "degraded"] \in PageRecords
      BY <2>1 DEF PageRecords
    <3> QED
      BY <2>1, <3>1, <3>2 DEF PageRecords
  <2> QED
    BY <2>2, <2>3, <2>4, <2>5
<1>5. /\ page' \in [Pages -> PageRecords]
      /\ \A u \in Pages :
           /\ page'[u].authedAt = page[u].authedAt /\ page'[u].logoutAt = page[u].logoutAt
           /\ \/ page'[u].user \in {page[u].user, 0}
              \/ /\ hydration[u].pc # "none" /\ ~hydration[u].stale
                 /\ page'[u].user = hydration[u].session
  BY <1>1, <1>4
<1>6. events' \in 0..MaxEvents
  BY <1>1 DEF AuthTypeOK
<1>7. \A u \in Pages :
        \/ hydration'[u].pc = "none" \/ hydration'[u].stale
        \/ /\ hydration[u].pc # "none" /\ ~hydration[u].stale
           /\ hydration'[u].session = hydration[u].session
  BY <1>3
<1> QED
  BY <1>1, <1>3, <1>5, <1>6, <1>7, LocalStep

LEMMA updateAuthenticatedUserInv ==
  ASSUME TabsIInv, NEW t \in Pages, updateAuthenticatedUser(t)
  PROVE  TabsIInv'
<1>1. /\ AuthTypeOK /\ page \in [Pages -> PageRecords]
      /\ hydration \in [Pages -> HydrationRecords] /\ retry \in [Pages -> RetryRecords]
      /\ hydration' = Stale(t)
      /\ UNCHANGED <<clock, cookie, issuedSessions, revoked, established, marker, login,
                     cookieLock, inbox, events, ended, overtaken, retry>>
  BY DEF TabsIInv, updateAuthenticatedUser, AuthTypeOK, PageRecords, Statuses, HydrationRecords,
         RetryRecords
<1>2. PICK rec \in PageRecords :
        /\ page' = [page EXCEPT ![t] = rec]
        /\ rec.authedAt = page[t].authedAt /\ rec.logoutAt = page[t].logoutAt
        /\ rec.user \in {page[t].user, 0}
  <2>1. /\ page[t] \in PageRecords /\ {"anonymous", "authenticated"} \subseteq Statuses
        /\ 0 \in 0..issuedSessions
    BY <1>1, TabShape DEF Statuses
  <2>2. CASE PendingLogout # 0
    BY <1>1, <2>1, <2>2, PageForgets DEF updateAuthenticatedUser
  <2>3. CASE PendingLogout = 0
    BY <2>1, <2>3, PageEdited DEF updateAuthenticatedUser
  <2> QED
    BY <2>2, <2>3
<1>3. /\ page' \in [Pages -> PageRecords]
      /\ \A u \in Pages :
           /\ page'[u].authedAt = page[u].authedAt /\ page'[u].logoutAt = page[u].logoutAt
           /\ page'[u].user \in {page[u].user, 0}
  BY <1>1, <1>2
<1>4. /\ hydration' \in [Pages -> HydrationRecords]
      /\ \A u \in Pages : /\ hydration'[u].pc = hydration[u].pc
                          /\ hydration'[u].session = hydration[u].session
                          /\ hydration[u].stale => hydration'[u].stale
  BY <1>1, MadeStale
<1>5. events' \in 0..MaxEvents
  BY <1>1 DEF AuthTypeOK
<1>6. \A u \in Pages :
        \/ hydration'[u].pc = "none" \/ hydration'[u].stale
        \/ /\ hydration[u].pc # "none" /\ ~hydration[u].stale
           /\ hydration'[u].session = hydration[u].session
  BY <1>4
<1> QED
  BY <1>1, <1>3, <1>4, <1>5, <1>6, LocalStep


----------------------------------------------------------------------------
\* What PendingLogout says of the marker.
LEMMA PendingIs ==
  ASSUME AuthTypeOK
  PROVE  /\ PendingLogout \in Nat
         /\ PendingLogout # 0 => PendingLogout = marker /\ marker # 0 /\ marker >= established
         /\ PendingLogout = 0 => marker = 0 \/ marker < established
BY DEF AuthTypeOK, PendingLogout

LEMMA NothingLearned ==
  ASSUME PagesLearn,
         UNCHANGED <<marker, established, page, hydration, login, inbox, ended, overtaken>>
  PROVE  PagesLearn'
BY DEF PagesLearn, Told, Tells, NoLogoutSince, ShowsNobodyEnded

LEMMA RetryTyped ==
  ASSUME AuthTypeOK
  PROVE  /\ page \in [Pages -> PageRecords] /\ hydration \in [Pages -> HydrationRecords]
         /\ retry \in [Pages -> RetryRecords]
BY DEF AuthTypeOK, PageRecords, Statuses, HydrationRecords, RetryRecords

LEMMA SendLogoutInv ==
  ASSUME TabsIInv, NEW t \in Pages, SendLogout(t)
  PROVE  TabsIInv'
<1>1. /\ AuthTypeOK /\ StampsArePast /\ LockedIn /\ CookieKnown /\ PagesLearn
      /\ retry[t].pc = "waiting" /\ cookieLock = {} /\ retry \in [Pages -> RetryRecords]
      /\ page \in [Pages -> PageRecords] /\ hydration \in [Pages -> HydrationRecords]
      /\ UNCHANGED <<clock, cookie, issuedSessions, revoked, established, marker, page, hydration,
                     login, inbox, events, ended, overtaken>>
  BY RetryTyped DEF TabsIInv, SendLogout
<1>2. CASE PendingLogout = retry[t].at
  <2>1. retry' = [retry EXCEPT ![t].pc = "sent"] /\ cookieLock' = {t}
    BY <1>2 DEF SendLogout
  <2>2. /\ retry' \in [Pages -> RetryRecords]
        /\ \A u \in Pages : /\ retry'[u].at = retry[u].at
                            /\ u # t => retry'[u].pc = retry[u].pc
    BY <1>1, <2>1 DEF RetryRecords
  <2>3. cookie \in ended \cup {0}
    <3>1. PendingLogout # 0
      BY <1>1, <1>2 DEF StampsArePast
    <3> QED
      BY <1>1, <3>1, PendingIs DEF StampsArePast, LogoutTime
  <2>4. AuthTypeOK'
    BY <1>1, <2>1, <2>2 DEF AuthTypeOK, RetryRecords
  <2>5. StampsArePast'
    BY <1>1, <2>2 DEF StampsArePast, LogoutTime
  <2>6. LockedIn'
    BY <1>1, <2>1, <2>2, <2>3 DEF LockedIn, RetryRecords
  <2>7. CookieKnown'
    BY <1>1 DEF CookieKnown, PendingLogout
  <2> QED
    BY <1>1, <2>4, <2>5, <2>6, <2>7, NothingLearned DEF TabsIInv
<1>3. CASE PendingLogout # retry[t].at
  <2>1. EndRetry(t, PendingLogout) /\ UNCHANGED cookieLock
    BY <1>3 DEF SendLogout
  <2>2. PendingLogout \in Nat /\ (PendingLogout # 0 => LogoutTime(PendingLogout))
    BY <1>1, PendingIs DEF StampsArePast
  <2>3. /\ retry' \in [Pages -> RetryRecords]
        /\ \A u \in Pages :
             \/ retry'[u].pc = retry[u].pc /\ retry'[u].at = retry[u].at
             \/ retry'[u].pc = "none"
             \/ retry'[u].pc = "waiting" /\ retry'[u].at # 0 /\ LogoutTime(retry'[u].at)
    BY <1>1, <2>1, <2>2, RetryEnded
  <2>4. events' \in 0..MaxEvents
    BY <1>1 DEF AuthTypeOK
  <2> QED
    BY <1>1, <2>1, <2>3, <2>4, LocalStep
<1> QED
  BY <1>2, <1>3

LEMMA ProcessLogoutInv ==
  ASSUME TabsIInv, NEW t \in Pages, ProcessLogout(t)
  PROVE  TabsIInv'
<1>1. /\ AuthTypeOK /\ StampsArePast /\ LockedIn /\ CookieKnown /\ PagesLearn
      /\ retry[t].pc = "sent" /\ cookieLock = {t} /\ cookie \in ended \cup {0}
      /\ retry \in [Pages -> RetryRecords]
      /\ \A u \in Pages \ {t} : login[u] # "sent" /\ retry[u].pc # "sent"
      /\ login[t] # "sent"
  BY RetryTyped DEF TabsIInv, ProcessLogout, LockedIn
<1>2. /\ UNCHANGED <<clock, issuedSessions, established, marker, page, hydration, login, inbox,
                     ended, overtaken>>
      /\ cookieLock' = {} /\ revoked' \in {revoked, revoked \cup ({cookie} \ {0})}
  BY DEF ProcessLogout
<1>3. PagesLearn' /\ revoked' \subseteq ended
  BY <1>1, <1>2, NothingLearned DEF CookieKnown
<1>4. CASE cookie' = 0 /\ retry' = [retry EXCEPT ![t].pc = "confirmed"] /\ UNCHANGED events
  <2>1. /\ retry' \in [Pages -> RetryRecords]
        /\ \A u \in Pages : /\ retry'[u].at = retry[u].at
                            /\ u # t => retry'[u].pc = retry[u].pc
        /\ retry'[t].pc = "confirmed"
    BY <1>1, <1>4 DEF RetryRecords
  <2>2. AuthTypeOK'
    BY <1>1, <1>2, <1>3, <1>4, <2>1 DEF AuthTypeOK, RetryRecords
  <2>3. StampsArePast'
    BY <1>1, <1>2, <1>4, <2>1 DEF StampsArePast, LogoutTime
  <2>4. LockedIn'
    BY <1>1, <1>2, <1>4, <2>1 DEF LockedIn
  <2>5. CookieKnown'
    BY <1>1, <1>2, <1>3, <1>4, <2>2 DEF CookieKnown, AuthTypeOK
  <2> QED
    BY <1>3, <2>2, <2>3, <2>4, <2>5 DEF TabsIInv
<1>5. CASE Happens /\ EndRetry(t, PendingLogout) /\ UNCHANGED cookie
  <2>1. PendingLogout \in Nat /\ (PendingLogout # 0 => LogoutTime(PendingLogout))
    BY <1>1, PendingIs DEF StampsArePast
  <2>2. /\ retry' \in [Pages -> RetryRecords]
        /\ \A u \in Pages :
             \/ retry'[u] = retry[u] /\ u # t
             \/ retry'[u].pc = "none"
             \/ retry'[u].pc = "waiting" /\ retry'[u].at # 0 /\ LogoutTime(retry'[u].at)
    BY <1>1, <1>5, <2>1, RetryEnded
  <2>3. events' \in 0..MaxEvents
    BY <1>1, <1>5, AuthTabsAssumption DEF Happens, AuthTypeOK
  <2>4. AuthTypeOK'
    BY <1>1, <1>2, <1>3, <1>5, <2>2, <2>3 DEF AuthTypeOK, RetryRecords
  <2>5. StampsArePast'
    BY <1>1, <1>2, <1>5, <2>2 DEF StampsArePast, LogoutTime
  <2>6. LockedIn'
    BY <1>1, <1>2, <1>5, <2>2 DEF LockedIn
  <2>7. CookieKnown'
    BY <1>1, <1>2, <1>3, <1>5 DEF CookieKnown, PendingLogout
  <2> QED
    BY <1>3, <2>4, <2>5, <2>6, <2>7 DEF TabsIInv
<1> QED
  BY <1>4, <1>5 DEF ProcessLogout

LEMMA ConfirmLogoutInv ==
  ASSUME TabsIInv, NEW t \in Pages, ConfirmLogout(t)
  PROVE  TabsIInv'
<1>1. /\ AuthTypeOK /\ StampsArePast /\ LockedIn /\ CookieKnown /\ PagesLearn
      /\ retry[t].pc = "confirmed" /\ retry \in [Pages -> RetryRecords]
      /\ UNCHANGED <<clock, cookie, issuedSessions, revoked, established, page, hydration, login,
                     cookieLock, inbox, events, ended, overtaken>>
  BY RetryTyped DEF TabsIInv, ConfirmLogout
<1>2. /\ marker' \in {marker, 0} /\ (marker' # marker => marker = retry[t].at)
      /\ EndRetry(t, IF established > marker' THEN 0 ELSE marker')
  BY DEF ConfirmLogout
<1> DEFINE left == IF established > marker' THEN 0 ELSE marker'
<1>3. left \in Nat /\ (left # 0 => LogoutTime(left)) /\ marker' \in Nat
  BY <1>1, <1>2 DEF AuthTypeOK, StampsArePast
<1>4. /\ retry' \in [Pages -> RetryRecords]
      /\ \A u \in Pages :
           \/ retry'[u] = retry[u]
           \/ retry'[u].pc = "none"
           \/ retry'[u].pc = "waiting" /\ retry'[u].at # 0 /\ LogoutTime(retry'[u].at)
  <2>1. EndRetry(t, left)
    BY <1>2
  <2> HIDE DEF left
  <2> QED
    BY <1>1, <1>3, <2>1, RetryEnded
<1>5. AuthTypeOK'
  BY <1>1, <1>3, <1>4 DEF AuthTypeOK, RetryRecords
<1>6. StampsArePast'
  BY <1>1, <1>2, <1>4, <1>5 DEF StampsArePast, LogoutTime, AuthTypeOK
<1>7. LockedIn'
  BY <1>1, <1>4 DEF LockedIn
<1>8. CookieKnown'
  <2>1. CASE marker' = marker
    BY <1>1, <2>1 DEF CookieKnown, PendingLogout
  <2>2. CASE marker' = 0 /\ marker = retry[t].at
    <3>1. marker < established \/ cookie = 0
      BY <1>1, <2>2 DEF LockedIn
    <3>2. cookie \notin ended \ overtaken
      BY <1>1, <3>1, PendingIs DEF CookieKnown, AuthTypeOK, PendingLogout
    <3>3. PendingLogout' = 0
      BY <2>2 DEF PendingLogout
    <3> QED
      BY <1>1, <3>2, <3>3 DEF CookieKnown
  <2> QED
    BY <1>2, <2>1, <2>2
<1>9. PagesLearn'
  <2>1. NoLogoutSince => NoLogoutSince'
    BY <1>1, <1>2 DEF NoLogoutSince
  <2>2. \A u \in Pages : Told(u) => Told(u)'
    BY <1>1, <2>1 DEF Told, Tells
  <2> QED
    BY <1>1, <2>2 DEF PagesLearn, ShowsNobodyEnded
<1> QED
  BY <1>5, <1>6, <1>7, <1>8, <1>9 DEF TabsIInv

LEMMA BeginLoginInv ==
  ASSUME TabsIInv, NEW t \in Pages, BeginLogin(t)
  PROVE  TabsIInv'
<1>1. /\ AuthTypeOK /\ StampsArePast /\ LockedIn /\ CookieKnown /\ PagesLearn
      /\ login[t] = "none" /\ cookieLock = {} /\ cookieLock' = {t}
      /\ login' = [login EXCEPT ![t] = "sent"] /\ login \in [Pages -> {"none", "sent", "issued"}]
      /\ UNCHANGED <<clock, cookie, issuedSessions, revoked, established, marker, page, hydration,
                     retry, inbox, ended, overtaken>>
  BY DEF TabsIInv, BeginLogin, AuthTypeOK
<1>2. events' \in 0..MaxEvents
  BY <1>1, AuthTabsAssumption DEF BeginLogin, Happens, AuthTypeOK
<1>3. AuthTypeOK'
  BY <1>1, <1>2 DEF AuthTypeOK
<1>4. StampsArePast' /\ LockedIn' /\ CookieKnown'
  BY <1>1 DEF StampsArePast, LogoutTime, LockedIn, CookieKnown, PendingLogout
<1>5. PagesLearn'
  BY <1>1, StillTold DEF PagesLearn, ShowsNobodyEnded
<1> QED
  BY <1>3, <1>4, <1>5 DEF TabsIInv

LEMMA LoginFailsInv ==
  ASSUME TabsIInv, NEW t \in Pages, LoginFails(t)
  PROVE  TabsIInv'
<1>1. /\ AuthTypeOK /\ StampsArePast /\ LockedIn /\ CookieKnown /\ PagesLearn
      /\ login[t] = "sent" /\ cookieLock = {t} /\ cookieLock' = {}
      /\ login' = [login EXCEPT ![t] = "none"] /\ login \in [Pages -> {"none", "sent", "issued"}]
      /\ UNCHANGED <<clock, cookie, issuedSessions, revoked, established, marker, page, hydration,
                     retry, inbox, ended, overtaken>>
  BY DEF TabsIInv, LoginFails, AuthTypeOK, LockedIn
<1>2. events' \in 0..MaxEvents
  BY <1>1, AuthTabsAssumption DEF LoginFails, Happens, AuthTypeOK
<1>3. AuthTypeOK'
  BY <1>1, <1>2 DEF AuthTypeOK
<1>4. StampsArePast' /\ LockedIn' /\ CookieKnown'
  BY <1>1 DEF StampsArePast, LogoutTime, LockedIn, CookieKnown, PendingLogout
<1>5. PagesLearn'
  BY <1>1, StillTold DEF PagesLearn, ShowsNobodyEnded
<1> QED
  BY <1>3, <1>4, <1>5 DEF TabsIInv

LEMMA notifySessionEstablishedInv ==
  ASSUME TabsIInv, NEW t \in Pages, notifySessionEstablished(t)
  PROVE  TabsIInv'
<1>1. /\ AuthTypeOK /\ StampsArePast /\ LockedIn /\ CookieKnown /\ PagesLearn
      /\ page \in [Pages -> PageRecords] /\ login[t] = "sent" /\ cookieLock = {t}
      /\ clock \in Nat /\ established \in Nat /\ established <= clock /\ issuedSessions \in Nat \ {0}
      /\ clock' = clock + 1 /\ established' = Max({clock + 1, established + 1})
      /\ issuedSessions' = issuedSessions + 1 /\ cookie' = issuedSessions + 1
      /\ marker' = 0 /\ cookieLock' = {} /\ login' = [login EXCEPT ![t] = "issued"]
      /\ page' = [page EXCEPT ![t].authedAt = Max({@, established'})]
      /\ Post(t, [type |-> "established", at |-> established'])
      /\ UNCHANGED <<revoked, hydration, retry, events, ended, overtaken>>
  BY RetryTyped DEF TabsIInv, notifySessionEstablished, AuthTypeOK, LockedIn, StampsArePast
<1>0. clock \in Nat /\ clock' = clock + 1 /\ page \in [Pages -> PageRecords]
  BY <1>1
<1>2. established' = clock + 1
  <2>1. clock + 1 \in Nat /\ established + 1 \in Nat
    BY <1>1
  <2>2. /\ Max({clock + 1, established + 1}) \in {clock + 1, established + 1}
        /\ Max({clock + 1, established + 1}) >= clock + 1
    BY <2>1, MaxOfTwo
  <2> QED
    BY <1>1, <2>2
<1>3. /\ page' \in [Pages -> PageRecords]
      /\ \A u \in Pages : /\ page'[u].user = page[u].user /\ page'[u].logoutAt = page[u].logoutAt
                          /\ page'[u].status = page[u].status
                          /\ page'[u].authedAt \in Nat /\ page'[u].authedAt <= clock + 1
                          /\ u # t => page'[u] = page[u]
  <2>1. page[t].authedAt \in Nat /\ page[t].authedAt <= clock
    BY <1>1, TabShape DEF StampsArePast
  <2>2. Max({page[t].authedAt, clock + 1}) = clock + 1
    <3>1. clock + 1 \in Nat
      BY <1>1
    <3>2. /\ Max({page[t].authedAt, clock + 1}) \in {page[t].authedAt, clock + 1}
          /\ Max({page[t].authedAt, clock + 1}) >= clock + 1
      BY <2>1, <3>1, MaxOfTwo
    <3> QED
      BY <1>0, <1>2, <2>1, <3>2
  <2>3. page' = [page EXCEPT ![t].authedAt = clock + 1]
    BY <1>1, <1>2, <2>2
  <2>4. /\ page' \in [Pages -> PageRecords]
        /\ \A u \in Pages : /\ page'[u].user = page[u].user /\ page'[u].logoutAt = page[u].logoutAt
                            /\ page'[u].status = page[u].status
                            /\ u # t => page'[u] = page[u]
        /\ page'[t].authedAt = clock + 1
    BY <1>0, <2>3 DEF PageRecords
  <2>5. \A u \in Pages : page[u].authedAt \in Nat /\ page[u].authedAt <= clock
    BY <1>1, TabShape DEF StampsArePast
  <2> QED
    BY <1>0, <2>4, <2>5
<1>4. /\ inbox' \in [Pages -> SUBSET [type : {"established", "logout", "rejected"}, at : Nat]]
      /\ \A u \in Pages : /\ inbox'[u] \subseteq inbox[u] \cup {[type |-> "established", at |-> clock + 1]}
                          /\ u # t => [type |-> "established", at |-> clock + 1] \in inbox'[u]
  <2>1. inbox \in [Pages -> SUBSET [type : {"established", "logout", "rejected"}, at : Nat]]
    BY <1>1 DEF AuthTypeOK
  <2>2. [type |-> "established", at |-> clock + 1]
          \in [type : {"established", "logout", "rejected"}, at : Nat]
    BY <1>1, <1>2
  <2>3. Post(t, [type |-> "established", at |-> clock + 1])
    BY <1>1, <1>2
  <2> QED
    BY <2>1, <2>2, <2>3 DEF Post
<1>5. AuthTypeOK'
  <2>1. /\ cookie' \in 0..issuedSessions' /\ issuedSessions' \in Nat \ {0}
        /\ 1..issuedSessions \subseteq 1..issuedSessions' /\ 0..issuedSessions \subseteq 0..issuedSessions'
    BY <1>1
  <2>2. page' \in [Pages -> [status : {"unknown", "authenticated", "anonymous", "degraded"},
                             user : 0..issuedSessions', authedAt : Nat, logoutAt : Nat]]
    BY <1>3, <2>1 DEF PageRecords, Statuses
  <2>3. hydration' \in [Pages -> [pc : {"none", "asked", "user", "denied", "failed"},
                                  session : 0..issuedSessions', stale : BOOLEAN]]
    BY <1>1, <2>1 DEF AuthTypeOK
  <2>4. revoked' \subseteq 1..issuedSessions' /\ ended' \subseteq 1..issuedSessions'
        /\ overtaken' \subseteq 0..issuedSessions'
    BY <1>1, <2>1 DEF AuthTypeOK
  <2>5. /\ clock' \in Nat /\ events' \in 0..MaxEvents /\ established' \in Nat /\ marker' \in Nat
        /\ login' \in [Pages -> {"none", "sent", "issued"}] /\ cookieLock' \subseteq Pages
        /\ retry' \in [Pages -> [pc : {"none", "waiting", "sent", "confirmed"}, at : Nat,
                                 queued : BOOLEAN]]
    BY <1>1, <1>2 DEF AuthTypeOK
  <2> QED
    BY <1>4, <2>1, <2>2, <2>3, <2>4, <2>5 DEF AuthTypeOK
<1>6. /\ issuedSessions + 1 \notin ended
      /\ \A u \in Pages : /\ retry[u].pc # "none" => retry[u].at < established'
                          /\ retry[u].at \in Nat
                          /\ \A m \in inbox[u] : m.at \in Nat /\ (m.type = "logout" => m.at < established')
  <2>1. issuedSessions + 1 \notin ended
    BY <1>1 DEF AuthTypeOK
  <2>2. \A u \in Pages : retry[u].at \in Nat /\ \A m \in inbox[u] : m.at \in Nat
    BY <1>1, TabShape
  <2>3. \A u \in Pages : /\ retry[u].pc # "none" => retry[u].at <= clock
                         /\ \A m \in inbox[u] : m.type = "logout" => m.at <= clock
    BY <1>1 DEF StampsArePast, LogoutTime
  <2> QED
    BY <1>0, <1>2, <2>1, <2>2, <2>3
<1>7. StampsArePast'
  <2>1. \A u \in Pages : \A m \in inbox'[u] :
          /\ m.type = "logout" => m.at # 0 /\ LogoutTime(m.at)'
          /\ m.type = "established" => m.at <= established'
    <3> TAKE u \in Pages
    <3> TAKE m \in inbox'[u]
    <3>1. m \in inbox[u] \/ m = [type |-> "established", at |-> clock + 1]
      BY <1>4
    <3>2. CASE m \in inbox[u]
      <4>1. /\ m.at \in Nat /\ (m.type = "logout" => m.at # 0 /\ m.at < established')
            /\ m.type = "established" => m.at <= established
        BY <1>1, <1>6, <3>2 DEF StampsArePast
      <4> QED
        BY <1>1, <1>2, <4>1 DEF LogoutTime
    <3>3. CASE m = [type |-> "established", at |-> clock + 1]
      BY <1>1, <1>2, <3>3
    <3> QED
      BY <3>1, <3>2, <3>3
  <2>2. \A u \in Pages : retry'[u].pc # "none" => retry'[u].at # 0 /\ LogoutTime(retry[u].at)'
    BY <1>1, <1>2, <1>6 DEF StampsArePast, LogoutTime
  <2>3. \A u \in Pages : page'[u].authedAt <= clock' /\ page'[u].logoutAt <= clock'
    <3>1. \A u \in Pages : page[u].logoutAt \in Nat /\ page[u].logoutAt <= clock
      BY <1>1, TabShape DEF StampsArePast
    <3> QED
      BY <1>0, <1>3, <3>1
  <2>4. established' <= clock' /\ LogoutTime(marker)'
    BY <1>1, <1>2 DEF LogoutTime
  <2> QED
    BY <2>1, <2>2, <2>3, <2>4 DEF StampsArePast
<1>8. LockedIn'
  <2>1. \A u \in Pages : u # t => login[u] # "sent"
    BY <1>1 DEF LockedIn
  <2>2. \A u \in Pages : retry[u].pc # "sent"
    BY <1>1 DEF LockedIn
  <2>3. \A u \in Pages : login'[u] # "sent"
    BY <1>1, <2>1 DEF AuthTypeOK
  <2> QED
    BY <1>1, <1>6, <2>2, <2>3 DEF LockedIn
<1>9. CookieKnown'
  <2>1. PendingLogout' = 0
    BY <1>1, <1>2 DEF PendingLogout
  <2> QED
    BY <1>1, <1>6, <2>1 DEF CookieKnown
<1>10. PagesLearn'
  <2> SUFFICES ASSUME NEW w \in Pages, w # t
               PROVE  Told(w)'
    BY <1>1 DEF PagesLearn, AuthTypeOK
  <2>1. NoLogoutSince'
    <3>1. \A u \in Pages : \A m \in inbox'[u] : m.type = "logout" => m.at < established'
      BY <1>4, <1>6
    <3> QED
      BY <1>1, <3>1 DEF NoLogoutSince
  <2> QED
    BY <1>2, <1>4, <2>1 DEF Told, Tells
<1> QED
  BY <1>5, <1>7, <1>8, <1>9, <1>10 DEF TabsIInv

LEMMA establishSessionInv ==
  ASSUME TabsIInv, NEW t \in Pages, establishSession(t)
  PROVE  TabsIInv'
<1>1. /\ AuthTypeOK /\ StampsArePast /\ LockedIn /\ CookieKnown /\ PagesLearn
      /\ page \in [Pages -> PageRecords] /\ login[t] = "issued"
      /\ issuedSessions \notin ended \ overtaken
      /\ clock \in Nat /\ issuedSessions \in Nat \ {0} /\ established \in Nat
      /\ login' = [login EXCEPT ![t] = "none"] /\ marker' = 0
      /\ page' = [page EXCEPT ![t] = [@ EXCEPT !.status = "authenticated", !.user = issuedSessions,
                                               !.authedAt = clock]]
      /\ hydration' = Stale(t)
      /\ UNCHANGED <<clock, cookie, issuedSessions, revoked, established, retry, cookieLock,
                     inbox, events, ended, overtaken>>
  BY RetryTyped DEF TabsIInv, establishSession, AuthTypeOK, LockedIn
<1>2. /\ page' \in [Pages -> PageRecords]
      /\ \A u \in Pages : /\ page'[u].logoutAt = page[u].logoutAt
                          /\ u # t => page'[u] = page[u]
      /\ page'[t].authedAt = clock /\ page'[t].user = issuedSessions
  <2> DEFINE rec == [page[t] EXCEPT !.status = "authenticated", !.user = issuedSessions,
                                    !.authedAt = clock]
  <2>1. /\ rec \in PageRecords /\ rec.logoutAt = page[t].logoutAt
        /\ rec.authedAt = clock /\ rec.user = issuedSessions
    <3>1. page[t] \in PageRecords /\ clock \in Nat /\ issuedSessions \in 0..issuedSessions
      BY <1>1
    <3> QED
      BY <3>1 DEF PageRecords, Statuses
  <2>2. page' = [page EXCEPT ![t] = rec]
    BY <1>1
  <2> HIDE DEF rec
  <2> QED
    BY <1>1, <2>1, <2>2
<1>3. /\ hydration' \in [Pages -> HydrationRecords]
      /\ \A u \in Pages : /\ hydration'[u].pc = hydration[u].pc
                          /\ hydration'[u].session = hydration[u].session
                          /\ hydration[u].stale => hydration'[u].stale
      /\ hydration[t].pc # "none" => hydration'[t].stale
  BY <1>1, MadeStale
<1>4. AuthTypeOK'
  BY <1>1, <1>2, <1>3 DEF AuthTypeOK, PageRecords, Statuses, HydrationRecords
<1>5. StampsArePast'
  BY <1>1, <1>2 DEF StampsArePast, LogoutTime
<1>6. LockedIn'
  BY <1>1 DEF LockedIn, AuthTypeOK
<1>7. CookieKnown'
  <2>1. PendingLogout' = 0
    BY <1>1 DEF PendingLogout
  <2>2. cookie \notin ended \ overtaken
    BY <1>1 DEF CookieKnown, AuthTypeOK
  <2> QED
    BY <1>1, <2>1, <2>2 DEF CookieKnown
<1>8. PagesLearn'
  <2>1. ShowsNobodyEnded(t)'
    BY <1>1, <1>2, <1>3 DEF ShowsNobodyEnded
  <2>2. NoLogoutSince => NoLogoutSince'
    BY <1>1 DEF NoLogoutSince
  <2>3. \A u \in Pages \ {t} : Told(u) => Told(u)'
    BY <1>1, <1>2, <2>2 DEF Told, Tells
  <2>4. \A u \in Pages \ {t} : login'[u] = login[u]
    BY <1>1 DEF AuthTypeOK
  <2>5. \A u \in Pages \ {t} : ShowsNobodyEnded(u) => ShowsNobodyEnded(u)'
    BY <1>1, <1>2, <1>3 DEF ShowsNobodyEnded
  <2> QED
    BY <1>1, <2>1, <2>3, <2>4, <2>5 DEF PagesLearn
<1> QED
  BY <1>4, <1>5, <1>6, <1>7, <1>8 DEF TabsIInv

LEMMA RequestLogoutInv ==
  ASSUME TabsIInv, NEW t \in Pages, RequestLogout(t)
  PROVE  TabsIInv'
<1>1. /\ AuthTypeOK /\ StampsArePast /\ LockedIn /\ CookieKnown /\ PagesLearn
      /\ page \in [Pages -> PageRecords] /\ clock \in Nat /\ established \in Nat
      /\ established <= clock /\ clock' = clock + 1 /\ hydration' = Stale(t)
      /\ ended' = ended \cup ({cookie} \ {0})
      /\ overtaken' = IF \E u \in Pages : login[u] = "issued" THEN overtaken \cup {cookie}
                                                             ELSE overtaken
      /\ UNCHANGED <<cookie, issuedSessions, revoked, established, login, cookieLock>>
  BY RetryTyped DEF TabsIInv, RequestLogout, AuthTypeOK, StampsArePast
<1>2. PICK r :
        /\ r = IF PendingLogout # 0 THEN PendingLogout
               ELSE Max({clock + 1, page[t].logoutAt + 1, page[t].authedAt + 1, established + 1})
        /\ marker' = r
        /\ page' = [page EXCEPT ![t] = [Anonymous(@) EXCEPT !.logoutAt = r]]
        /\ Post(t, [type |-> "logout", at |-> r])
        /\ retry' = RetryAfter(t, r, FALSE)
  BY <1>1 DEF RequestLogout
<1>3. /\ r \in Nat /\ r # 0 /\ r <= clock + 1 /\ r >= established
      /\ r # clock + 1 => PendingLogout # 0 /\ r = marker
  <2>1. CASE PendingLogout # 0
    BY <1>1, <1>2, <2>1, PendingIs DEF StampsArePast, LogoutTime, AuthTypeOK
  <2>2. CASE PendingLogout = 0
    <3>1. /\ page[t].logoutAt \in Nat /\ page[t].logoutAt <= clock
          /\ page[t].authedAt \in Nat /\ page[t].authedAt <= clock
      BY <1>1, TabShape DEF StampsArePast
    <3>2. /\ clock + 1 \in Nat /\ page[t].logoutAt + 1 \in Nat /\ page[t].authedAt + 1 \in Nat
          /\ established + 1 \in Nat
      BY <1>1, <3>1
    <3> DEFINE top == Max({clock + 1, page[t].logoutAt + 1, page[t].authedAt + 1, established + 1})
    <3>3. /\ top \in {clock + 1, page[t].logoutAt + 1, page[t].authedAt + 1, established + 1}
          /\ top >= clock + 1
      BY <3>2, MaxOfFour
    <3>4. r = top
      BY <1>2, <2>2
    <3> HIDE DEF top
    <3> QED
      BY <1>1, <3>1, <3>3, <3>4
  <2> QED
    BY <2>1, <2>2
<1>4. /\ page' \in [Pages -> PageRecords]
      /\ page'[t].user = 0 /\ page'[t].authedAt = page[t].authedAt /\ page'[t].logoutAt = r
      /\ \A u \in Pages : u # t => page'[u] = page[u]
  <2>1. page[t] \in PageRecords
    BY <1>1
  <2>2. /\ Anonymous(page[t]) \in PageRecords /\ Anonymous(page[t]).user = 0
        /\ Anonymous(page[t]).authedAt = page[t].authedAt
    BY <1>1, <2>1, PageForgets
  <2> DEFINE rec == [Anonymous(page[t]) EXCEPT !.logoutAt = r]
  <2>3. /\ rec \in PageRecords /\ rec.user = 0 /\ rec.authedAt = page[t].authedAt
        /\ rec.logoutAt = r
    BY <1>3, <2>2 DEF PageRecords
  <2>4. page' = [page EXCEPT ![t] = rec]
    BY <1>2
  <2> HIDE DEF rec
  <2> QED
    BY <1>1, <2>3, <2>4
<1>5. /\ retry' \in [Pages -> RetryRecords]
      /\ \A u \in Pages :
           \/ retry'[u].pc = retry[u].pc /\ retry'[u].at = retry[u].at
           \/ u = t /\ retry'[u].pc = "waiting" /\ retry'[u].at = r
  <2>1. AuthTypeOK /\ r \in Nat /\ FALSE \in BOOLEAN /\ retry' = RetryAfter(t, r, FALSE)
    BY <1>1, <1>2, <1>3
  <2> QED
    BY <2>1, RetryAsked
<1>6. /\ hydration' \in [Pages -> HydrationRecords]
      /\ \A u \in Pages : /\ hydration'[u].pc = hydration[u].pc
                          /\ hydration'[u].session = hydration[u].session
                          /\ hydration[u].stale => hydration'[u].stale
      /\ hydration[t].pc # "none" => hydration'[t].stale
  BY <1>1, MadeStale
<1>7. /\ inbox' \in [Pages -> SUBSET [type : {"established", "logout", "rejected"}, at : Nat]]
      /\ \A u \in Pages : /\ inbox'[u] \subseteq inbox[u] \cup {[type |-> "logout", at |-> r]}
                          /\ inbox[u] \subseteq inbox'[u]
                          /\ u # t => [type |-> "logout", at |-> r] \in inbox'[u]
  <2>1. inbox \in [Pages -> SUBSET [type : {"established", "logout", "rejected"}, at : Nat]]
    BY <1>1 DEF AuthTypeOK
  <2>2. [type |-> "logout", at |-> r] \in [type : {"established", "logout", "rejected"}, at : Nat]
    BY <1>3
  <2>3. Post(t, [type |-> "logout", at |-> r])
    BY <1>2
  <2> QED
    BY <2>1, <2>2, <2>3 DEF Post
<1>8. /\ ended \subseteq ended' /\ ended' \subseteq ended \cup {cookie}
      /\ overtaken \subseteq overtaken' /\ 0 \notin ended' /\ cookie \in ended' \cup {0}
      /\ \A u \in Pages : login[u] = "issued" => cookie \in overtaken'
  BY <1>1 DEF AuthTypeOK
<1>9. AuthTypeOK'
  <2>1. events' \in 0..MaxEvents
    BY <1>1, AuthTabsAssumption DEF RequestLogout, Happens, AuthTypeOK
  <2>2. ended' \subseteq 1..issuedSessions /\ overtaken' \subseteq 0..issuedSessions
    BY <1>1 DEF AuthTypeOK
  <2>3. marker' \in Nat /\ clock' \in Nat
    BY <1>1, <1>2, <1>3
  <2> QED
    BY <1>1, <1>4, <1>5, <1>6, <1>7, <2>1, <2>2, <2>3
    DEF AuthTypeOK, PageRecords, Statuses, HydrationRecords, RetryRecords
<1>10. (\A x : LogoutTime(x) /\ x \in Nat => LogoutTime(x)') /\ LogoutTime(r)'
  BY <1>1, <1>3, <1>8 DEF LogoutTime
<1>11. StampsArePast'
  <2>1. \A u \in Pages : retry'[u].pc # "none" => retry'[u].at # 0 /\ LogoutTime(retry[u].at)'
    <3> SUFFICES ASSUME NEW u \in Pages, retry'[u].pc # "none"
                 PROVE  retry'[u].at # 0 /\ LogoutTime(retry[u].at)'
      OBVIOUS
    <3>1. CASE retry'[u].pc = retry[u].pc /\ retry'[u].at = retry[u].at
      BY <1>1, <1>10, <3>1, TabShape DEF StampsArePast
    <3>2. CASE retry'[u].at = r
      BY <1>3, <1>10, <3>2
    <3> QED
      BY <1>5, <3>1, <3>2
  <2>2. \A u \in Pages : \A m \in inbox'[u] :
          /\ m.type = "logout" => m.at # 0 /\ LogoutTime(m.at)'
          /\ m.type = "established" => m.at <= established
    <3> SUFFICES ASSUME NEW u \in Pages, NEW m \in inbox'[u]
                 PROVE  /\ m.type = "logout" => m.at # 0 /\ LogoutTime(m.at)'
                        /\ m.type = "established" => m.at <= established
      OBVIOUS
    <3>1. CASE m \in inbox[u]
      BY <1>1, <1>10, <3>1, TabShape DEF StampsArePast
    <3>2. CASE m = [type |-> "logout", at |-> r]
      BY <1>3, <1>10, <3>2
    <3> QED
      BY <1>7, <3>1, <3>2
  <2>3. \A u \in Pages : page'[u].authedAt <= clock' /\ page'[u].logoutAt <= clock'
    <3>1. \A u \in Pages : /\ page[u].authedAt \in Nat /\ page[u].authedAt <= clock
                           /\ page[u].logoutAt \in Nat /\ page[u].logoutAt <= clock
      BY <1>1, TabShape DEF StampsArePast
    <3>2. clock \in Nat /\ clock' = clock + 1
      BY <1>1
    <3> QED
      BY <1>3, <1>4, <3>1, <3>2
  <2>4. LogoutTime(marker)'
    BY <1>2, <1>10 DEF LogoutTime
  <2>5. established' <= clock'
    BY <1>1
  <2> QED
    BY <1>1, <2>1, <2>2, <2>3, <2>4, <2>5 DEF StampsArePast
<1>12. LockedIn'
  <2>1. \A u \in Pages : login[u] = "issued" => issuedSessions \notin ended' \ overtaken'
    BY <1>1, <1>8 DEF LockedIn
  <2>2. \A u \in Pages : /\ retry'[u].pc = "sent" => retry[u].pc = "sent"
                         /\ retry'[u].pc = "confirmed" => retry[u].pc = "confirmed"
                                                          /\ retry'[u].at = retry[u].at
    BY <1>5
  <2> QED
    BY <1>1, <1>8, <2>1, <2>2 DEF LockedIn
<1>13. CookieKnown'
  <2>1. PendingLogout' = r
    BY <1>1, <1>2, <1>3 DEF PendingLogout
  <2>2. cookie \in overtaken' \cup {0} \/ \A u \in Pages : page'[u].authedAt <= r
    <3>1. CASE r = clock + 1
      <4>1. \A u \in Pages : page[u].authedAt \in Nat /\ page[u].authedAt <= clock
        BY <1>1, TabShape DEF StampsArePast
      <4>2. clock \in Nat
        BY <1>1
      <4> QED
        BY <1>4, <3>1, <4>1, <4>2
    <3>2. CASE PendingLogout # 0 /\ r = marker
      BY <1>1, <1>4, <1>8, <3>2 DEF CookieKnown
    <3> QED
      BY <1>3, <3>1, <3>2
  <2> QED
    BY <1>1, <1>2, <1>3, <1>8, <2>1, <2>2 DEF CookieKnown
<1>14. PagesLearn'
  <2>1. ShowsNobodyEnded(t)'
    BY <1>4, <1>6, <1>8 DEF ShowsNobodyEnded
  <2>2. ASSUME NEW w \in Pages, w # t, login[w] # "issued"
        PROVE  Told(w)' \/ ShowsNobodyEnded(w)'
    <3>1. CASE page[w].authedAt <= r
      <4>1. /\ [type |-> "logout", at |-> r] \in inbox'[w] /\ page'[w].authedAt = page[w].authedAt
            /\ page[w].authedAt \in Nat
        BY <1>1, <1>4, <1>7, <2>2, TabShape
      <4> QED
        BY <1>1, <1>3, <3>1, <4>1 DEF Told, Tells
    <3>2. CASE ~(page[w].authedAt <= r)
      <4>1. PendingLogout # 0 /\ r = marker
        <5>1. page[w].authedAt \in Nat /\ page[w].authedAt <= clock /\ clock \in Nat
          BY <1>1, TabShape DEF StampsArePast
        <5> QED
          BY <1>3, <3>2, <5>1
      <4>2. ended' \ overtaken' \subseteq ended \ overtaken
        BY <1>1, <1>8, <3>2, <4>1 DEF CookieKnown, AuthTypeOK
      <4>3. ~NoLogoutSince
        BY <1>1, <4>1, PendingIs DEF NoLogoutSince
      <4>4. Told(w) => Told(w)'
        BY <1>1, <1>4, <1>7, <2>2, <4>3 DEF Told, Tells
      <4>5. ShowsNobodyEnded(w) => ShowsNobodyEnded(w)'
        BY <1>4, <1>6, <2>2, <4>2 DEF ShowsNobodyEnded
      <4> QED
        BY <1>1, <2>2, <4>4, <4>5 DEF PagesLearn
    <3> QED
      BY <3>1, <3>2
  <2> QED
    BY <1>1, <2>1, <2>2 DEF PagesLearn
<1> QED
  BY <1>9, <1>11, <1>12, <1>13, <1>14 DEF TabsIInv

LEMMA RefreshRejectedInv ==
  ASSUME TabsIInv, NEW t \in Pages, RefreshRejected(t)
  PROVE  TabsIInv'
<1>1. /\ AuthTypeOK /\ StampsArePast /\ LockedIn /\ CookieKnown /\ PagesLearn
      /\ page \in [Pages -> PageRecords] /\ retry \in [Pages -> RetryRecords]
      /\ cookie' = 0 /\ setAnonymous(t) /\ hydration' = Stale(t) /\ cookieLock = {}
      /\ UNCHANGED <<clock, issuedSessions, revoked, established, marker, login, retry,
                     cookieLock, events, ended, overtaken>>
  BY RetryTyped DEF TabsIInv, RefreshRejected, setAnonymous
<1>2. PICK r \in Nat : Post(t, [type |-> "rejected", at |-> r])
  <2>1. clock \in Nat /\ established + 1 \in Nat
    BY <1>1 DEF AuthTypeOK
  <2> QED
    BY <2>1, MaxOfTwo DEF RefreshRejected
<1>3. /\ inbox' \in [Pages -> SUBSET [type : {"established", "logout", "rejected"}, at : Nat]]
      /\ \A u \in Pages : /\ inbox'[u] \subseteq inbox[u] \cup {[type |-> "rejected", at |-> r]}
                          /\ inbox[u] \subseteq inbox'[u]
  <2>1. inbox \in [Pages -> SUBSET [type : {"established", "logout", "rejected"}, at : Nat]]
    BY <1>1 DEF AuthTypeOK
  <2>2. [type |-> "rejected", at |-> r] \in [type : {"established", "logout", "rejected"}, at : Nat]
    OBVIOUS
  <2> QED
    BY <1>2, <2>1, <2>2 DEF Post
<1>4. /\ page' \in [Pages -> PageRecords]
      /\ \A u \in Pages : /\ page'[u].authedAt = page[u].authedAt
                          /\ page'[u].logoutAt = page[u].logoutAt
                          /\ page'[u].user \in {page[u].user, 0}
  BY <1>1, MadeAnonymous
<1>5. /\ hydration' \in [Pages -> HydrationRecords]
      /\ \A u \in Pages : /\ hydration'[u].pc = hydration[u].pc
                          /\ hydration'[u].session = hydration[u].session
                          /\ hydration[u].stale => hydration'[u].stale
  BY <1>1, MadeStale
<1>6. AuthTypeOK'
  BY <1>1, <1>3, <1>4, <1>5 DEF AuthTypeOK, PageRecords, Statuses, HydrationRecords
<1>7. \A u \in Pages : \A m \in inbox'[u] : m \in inbox[u] \/ m.type = "rejected"
  BY <1>3
<1>8. StampsArePast'
  BY <1>1, <1>4, <1>7 DEF StampsArePast, LogoutTime
<1>9. LockedIn' /\ CookieKnown'
  BY <1>1, <1>6 DEF LockedIn, CookieKnown, AuthTypeOK
<1>10. PagesLearn'
  <2>1. NoLogoutSince => NoLogoutSince'
    BY <1>1, <1>7 DEF NoLogoutSince
  <2>2. \A u \in Pages : Told(u) => Told(u)'
    BY <1>1, <1>3, <1>4, <2>1 DEF Told, Tells
  <2>3. 0 \notin ended
    BY <1>1 DEF AuthTypeOK
  <2>4. \A u \in Pages : ShowsNobodyEnded(u) => ShowsNobodyEnded(u)'
    BY <1>1, <1>4, <1>5, <2>3 DEF ShowsNobodyEnded
  <2> QED
    BY <1>1, <2>2, <2>4 DEF PagesLearn
<1> QED
  BY <1>6, <1>8, <1>9, <1>10 DEF TabsIInv

\* A message that is taken from a tab's inbox is not seen again.
LEMMA MessageTaken ==
  ASSUME AuthTypeOK, NEW t \in Pages, NEW m \in inbox[t], Take(t, m)
  PROVE  /\ inbox' \in [Pages -> SUBSET [type : {"established", "logout", "rejected"}, at : Nat]]
         /\ inbox'[t] = inbox[t] \ {m}
         /\ \A u \in Pages \ {t} : inbox'[u] = inbox[u]
         /\ \A u \in Pages : inbox'[u] \subseteq inbox[u]
<1>1. inbox \in [Pages -> SUBSET [type : {"established", "logout", "rejected"}, at : Nat]]
  BY DEF AuthTypeOK
<1> QED
  BY <1>1 DEF Take

LEMMA ReceiveEstablishedInv ==
  ASSUME TabsIInv, NEW t \in Pages, NEW m \in inbox[t], ReceiveEstablished(t, m)
  PROVE  TabsIInv'
<1>1. /\ AuthTypeOK /\ StampsArePast /\ LockedIn /\ CookieKnown /\ PagesLearn
      /\ page \in [Pages -> PageRecords] /\ hydration \in [Pages -> HydrationRecords]
      /\ m.type = "established" /\ m.at \in Nat /\ m.at <= established /\ Take(t, m)
      /\ established \in Nat /\ clock \in Nat /\ established <= clock
      /\ UNCHANGED <<clock, cookie, issuedSessions, revoked, established, login, retry,
                     cookieLock, events, ended, overtaken>>
  BY RetryTyped, TabShape DEF TabsIInv, ReceiveEstablished, StampsArePast
<1>2. /\ inbox' \in [Pages -> SUBSET [type : {"established", "logout", "rejected"}, at : Nat]]
      /\ inbox'[t] = inbox[t] \ {m}
      /\ \A u \in Pages \ {t} : inbox'[u] = inbox[u]
      /\ \A u \in Pages : inbox'[u] \subseteq inbox[u]
  BY <1>1, MessageTaken
<1>3. CASE PendingLogout # 0 /\ UNCHANGED <<marker, page, hydration>>
  <2>1. AuthTypeOK'
    BY <1>1, <1>2, <1>3 DEF AuthTypeOK
  <2>2. StampsArePast'
    BY <1>1, <1>2, <1>3 DEF StampsArePast, LogoutTime
  <2>3. LockedIn' /\ CookieKnown'
    BY <1>1, <1>3 DEF LockedIn, CookieKnown, PendingLogout
  <2>4. ~NoLogoutSince
    BY <1>1, <1>3, PendingIs DEF NoLogoutSince, AuthTypeOK
  <2>5. \A u \in Pages : Told(u) => Told(u)'
    BY <1>1, <1>2, <1>3, <2>4 DEF Told, Tells
  <2>6. PagesLearn'
    BY <1>1, <1>3, <2>5 DEF PagesLearn, ShowsNobodyEnded
  <2> QED
    BY <2>1, <2>2, <2>3, <2>6 DEF TabsIInv
<1>4. CASE ~(PendingLogout # 0 /\ PendingLogout >= m.at)
  <2>1. PendingLogout = 0
    BY <1>1, <1>4, PendingIs
  <2>2. /\ marker' = 0
        /\ page' = [page EXCEPT ![t] =
             [Anonymous(@) EXCEPT !.authedAt = Max({page[t].authedAt, m.at})]]
        /\ hydration' = IF hydration[t].pc = "none"
             THEN [hydration EXCEPT ![t] = [pc |-> "asked", session |-> cookie, stale |-> FALSE]]
             ELSE Stale(t)
    BY <1>4 DEF ReceiveEstablished
  <2>3. /\ page' \in [Pages -> PageRecords]
        /\ page'[t].user = 0 /\ page'[t].authedAt <= clock /\ page'[t].logoutAt = page[t].logoutAt
        /\ \A u \in Pages : u # t => page'[u] = page[u]
    <3>1. /\ page[t] \in PageRecords /\ page[t].authedAt \in Nat /\ page[t].authedAt <= clock
      BY <1>1, TabShape DEF StampsArePast
    <3>2. /\ Anonymous(page[t]) \in PageRecords /\ Anonymous(page[t]).user = 0
          /\ Anonymous(page[t]).authedAt = page[t].authedAt
          /\ Anonymous(page[t]).logoutAt = page[t].logoutAt
      BY <1>1, <3>1, PageForgets
    <3>3. PICK x \in Nat : x = Max({page[t].authedAt, m.at}) /\ x <= clock
      BY <1>1, <3>1, MaxOfTwo
    <3> DEFINE rec == [Anonymous(page[t]) EXCEPT !.authedAt = x]
    <3>4. /\ rec \in PageRecords /\ rec.user = 0 /\ rec.authedAt = x
          /\ rec.logoutAt = page[t].logoutAt
      BY <3>2, <3>3 DEF PageRecords
    <3>5. page' = [page EXCEPT ![t] = rec]
      BY <2>2, <3>2, <3>3
    <3> HIDE DEF rec
    <3> QED
      BY <1>1, <3>3, <3>4, <3>5
  <2>4. /\ hydration' \in [Pages -> HydrationRecords]
        /\ \A u \in Pages : u # t => hydration'[u] = hydration[u]
        /\ hydration'[t].stale \/ hydration'[t].session = cookie
    <3>1. [pc |-> "asked", session |-> cookie, stale |-> FALSE] \in HydrationRecords
      BY <1>1 DEF HydrationRecords, AuthTypeOK
    <3>2. CASE hydration[t].pc = "none"
      BY <1>1, <2>2, <3>1, <3>2
    <3>3. CASE hydration[t].pc # "none"
      <4>1. hydration' = Stale(t)
        BY <2>2, <3>3
      <4>2. \A u \in Pages : u # t => hydration'[u] = hydration[u]
        BY <1>1, <4>1 DEF Stale
      <4> QED
        BY <1>1, <3>3, <4>1, <4>2, MadeStale
    <3> QED
      BY <3>2, <3>3
  <2>5. AuthTypeOK'
    BY <1>1, <1>2, <2>2, <2>3, <2>4
    DEF AuthTypeOK, PageRecords, Statuses, HydrationRecords
  <2>6. StampsArePast'
    <3>1. \A u \in Pages : page'[u].authedAt <= clock /\ page'[u].logoutAt <= clock
      BY <1>1, <2>3 DEF StampsArePast
    <3>2. LogoutTime(marker)'
      BY <1>1, <2>2 DEF LogoutTime
    <3> QED
      BY <1>1, <1>2, <3>1, <3>2 DEF StampsArePast, LogoutTime
  <2>7. LockedIn'
    BY <1>1 DEF LockedIn
  <2>8. cookie \notin ended \ overtaken
    BY <1>1, <2>1 DEF CookieKnown
  <2>9. CookieKnown'
    BY <1>1, <2>2, <2>8 DEF CookieKnown, PendingLogout
  <2>10. PagesLearn'
    <3>1. ShowsNobodyEnded(t)'
      BY <1>1, <2>3, <2>4, <2>8 DEF ShowsNobodyEnded, AuthTypeOK
    <3>2. NoLogoutSince => NoLogoutSince'
      BY <1>1, <1>2, <2>2 DEF NoLogoutSince
    <3>3. \A u \in Pages \ {t} : Told(u) => Told(u)'
      BY <1>1, <1>2, <2>3, <3>2 DEF Told, Tells
    <3>4. \A u \in Pages \ {t} : ShowsNobodyEnded(u) => ShowsNobodyEnded(u)'
      BY <1>1, <2>3, <2>4 DEF ShowsNobodyEnded
    <3> QED
      BY <1>1, <3>1, <3>3, <3>4 DEF PagesLearn
  <2> QED
    BY <2>5, <2>6, <2>7, <2>9, <2>10 DEF TabsIInv
<1> QED
  BY <1>3, <1>4 DEF ReceiveEstablished

LEMMA ReceiveEndedInv ==
  ASSUME TabsIInv, NEW t \in Pages, NEW m \in inbox[t], ReceiveEnded(t, m)
  PROVE  TabsIInv'
<1>1. /\ AuthTypeOK /\ StampsArePast /\ LockedIn /\ CookieKnown /\ PagesLearn
      /\ page \in [Pages -> PageRecords] /\ hydration \in [Pages -> HydrationRecords]
      /\ retry \in [Pages -> RetryRecords]
      /\ m.type \in {"logout", "rejected"} /\ m.at \in Nat /\ Take(t, m)
      /\ m.type = "logout" => m.at # 0 /\ LogoutTime(m.at)
      /\ established \in Nat /\ clock \in Nat /\ marker \in Nat
      /\ page[t].authedAt \in Nat /\ page[t].logoutAt \in Nat /\ page[t].logoutAt <= clock
      /\ UNCHANGED <<clock, cookie, issuedSessions, revoked, established, login, cookieLock,
                     events, ended, overtaken>>
  BY RetryTyped, TabShape DEF TabsIInv, ReceiveEnded, StampsArePast
<1>2. /\ inbox' \in [Pages -> SUBSET [type : {"established", "logout", "rejected"}, at : Nat]]
      /\ inbox'[t] = inbox[t] \ {m}
      /\ \A u \in Pages \ {t} : inbox'[u] = inbox[u]
      /\ \A u \in Pages : inbox'[u] \subseteq inbox[u]
  BY <1>1, MessageTaken
<1>3. PICK known \in Nat : /\ known = Max({page[t].authedAt, established})
                           /\ known \in {page[t].authedAt, established}
                           /\ known >= page[t].authedAt /\ known >= established
  BY <1>1, MaxOfTwo
<1>4. CASE known > m.at
  <2>1. /\ marker' = IF m.type = "logout" /\ marker = m.at THEN 0 ELSE marker
        /\ UNCHANGED <<page, hydration, retry>>
    BY <1>3, <1>4 DEF ReceiveEnded
  <2>2. AuthTypeOK'
    BY <1>1, <1>2, <2>1 DEF AuthTypeOK
  <2>3. StampsArePast'
    BY <1>1, <1>2, <2>1 DEF StampsArePast, LogoutTime
  <2>4. LockedIn'
    BY <1>1, <2>1 DEF LockedIn
  <2>5. CookieKnown'
    <3>1. CASE marker' = marker
      BY <1>1, <2>1, <3>1 DEF CookieKnown, PendingLogout
    <3>2. CASE marker' = 0 /\ marker = m.at
      <4>1. PendingLogout # 0 => page[t].authedAt > marker
        BY <1>1, <1>3, <1>4, <3>2, PendingIs
      <4>2. cookie \notin ended \ overtaken
        BY <1>1, <4>1 DEF CookieKnown, AuthTypeOK
      <4>3. PendingLogout' = 0
        BY <3>2 DEF PendingLogout
      <4> QED
        BY <1>1, <4>2, <4>3 DEF CookieKnown
    <3> QED
      BY <2>1, <3>1, <3>2
  <2>6. PagesLearn'
    <3>1. NoLogoutSince => NoLogoutSince'
      BY <1>1, <1>2, <2>1 DEF NoLogoutSince
    <3>2. \A u \in Pages \ {t} : Told(u) => Told(u)'
      BY <1>1, <1>2, <2>1, <3>1 DEF Told, Tells
    <3>3. ~Tells(t, m)
      BY <1>1, <1>3, <1>4 DEF Tells
    <3>4. Told(t) => Told(t)'
      BY <1>1, <1>2, <2>1, <3>1, <3>3 DEF Told, Tells
    <3> QED
      BY <1>1, <2>1, <3>2, <3>4 DEF PagesLearn, ShowsNobodyEnded
  <2> QED
    BY <2>2, <2>3, <2>4, <2>5, <2>6 DEF TabsIInv
<1>5. CASE ~(known > m.at) /\ m.type = "logout" /\ PendingLogout < m.at
  <2>1. /\ marker' = m.at
        /\ page' = [page EXCEPT ![t] =
             [Anonymous(@) EXCEPT !.logoutAt = Max({page[t].logoutAt, m.at})]]
        /\ hydration' = Stale(t)
        /\ retry' = RetryAfter(t, m.at, TRUE)
    BY <1>3, <1>5 DEF ReceiveEnded
  <2>2. m.at >= established /\ m.at # 0 /\ m.at <= clock /\ cookie \in ended \cup {0}
    BY <1>1, <1>3, <1>5 DEF LogoutTime
  <2>3. /\ page' \in [Pages -> PageRecords]
        /\ page'[t].user = 0 /\ page'[t].authedAt = page[t].authedAt /\ page'[t].logoutAt <= clock
        /\ \A u \in Pages : u # t => page'[u] = page[u]
    <3>1. /\ Anonymous(page[t]) \in PageRecords /\ Anonymous(page[t]).user = 0
          /\ Anonymous(page[t]).authedAt = page[t].authedAt
          /\ Anonymous(page[t]).logoutAt = page[t].logoutAt
      BY <1>1, PageForgets
    <3>2. PICK x \in Nat : x = Max({page[t].logoutAt, m.at}) /\ x <= clock
      BY <1>1, <2>2, MaxOfTwo
    <3> DEFINE rec == [Anonymous(page[t]) EXCEPT !.logoutAt = x]
    <3>3. /\ rec \in PageRecords /\ rec.user = 0 /\ rec.authedAt = page[t].authedAt
          /\ rec.logoutAt = x
      BY <3>1, <3>2 DEF PageRecords
    <3>4. page' = [page EXCEPT ![t] = rec]
      BY <2>1, <3>1, <3>2
    <3> HIDE DEF rec
    <3> QED
      BY <1>1, <3>2, <3>3, <3>4
  <2>4. /\ retry' \in [Pages -> RetryRecords]
        /\ \A u \in Pages :
             \/ retry'[u].pc = retry[u].pc /\ retry'[u].at = retry[u].at
             \/ u = t /\ retry'[u].pc = "waiting" /\ retry'[u].at = m.at
    BY <1>1, <2>1, RetryAsked
  <2>5. /\ hydration' \in [Pages -> HydrationRecords]
        /\ \A u \in Pages : /\ hydration'[u].pc = hydration[u].pc
                            /\ hydration'[u].session = hydration[u].session
                            /\ hydration[u].stale => hydration'[u].stale
        /\ hydration[t].pc # "none" => hydration'[t].stale
    BY <1>1, <2>1, MadeStale
  <2>6. AuthTypeOK'
    BY <1>1, <1>2, <2>1, <2>3, <2>4, <2>5
    DEF AuthTypeOK, PageRecords, Statuses, HydrationRecords, RetryRecords
  <2>7. StampsArePast'
    <3>1. \A u \in Pages : page'[u].authedAt <= clock /\ page'[u].logoutAt <= clock
      BY <1>1, <2>3 DEF StampsArePast
    <3>2. \A u \in Pages : retry'[u].pc # "none" => retry'[u].at # 0 /\ LogoutTime(retry'[u].at)
      BY <1>1, <1>5, <2>2, <2>4 DEF StampsArePast
    <3>3. LogoutTime(m.at)
      BY <1>1, <1>5
    <3> QED
      BY <1>1, <1>2, <2>1, <3>1, <3>2, <3>3 DEF StampsArePast, LogoutTime
  <2>8. LockedIn'
    BY <1>1, <2>4 DEF LockedIn
  <2>9. CookieKnown'
    <3>1. PendingLogout' = m.at
      BY <1>1, <2>1, <2>2 DEF PendingLogout
    <3>2. CASE PendingLogout = 0
      <4>1. cookie \in overtaken \cup {0}
        BY <1>1, <2>2, <3>2 DEF CookieKnown
      <4> QED
        BY <1>1, <2>2, <3>1, <4>1 DEF CookieKnown
    <3>3. CASE PendingLogout # 0
      <4>1. cookie \in overtaken \cup {0} \/ \A u \in Pages : page'[u].authedAt <= m.at
        <5>1. PendingLogout = marker /\ marker < m.at
          BY <1>1, <1>5, <3>3, PendingIs
        <5>2. \A u \in Pages : page'[u].authedAt = page[u].authedAt /\ page[u].authedAt \in Nat
          BY <1>1, <2>3, TabShape
        <5> QED
          BY <1>1, <3>3, <5>1, <5>2 DEF CookieKnown
      <4> QED
        BY <1>1, <2>1, <2>2, <3>1, <4>1 DEF CookieKnown
    <3> QED
      BY <3>2, <3>3
  <2>10. PagesLearn'
    <3>1. ShowsNobodyEnded(t)'
      BY <1>1, <2>3, <2>5 DEF ShowsNobodyEnded, AuthTypeOK
    <3>2. ~NoLogoutSince
      BY <1>1, <1>5, <2>2 DEF NoLogoutSince
    <3>3. \A u \in Pages \ {t} : Told(u) => Told(u)'
      BY <1>1, <1>2, <2>3, <3>2 DEF Told, Tells
    <3>4. \A u \in Pages \ {t} : ShowsNobodyEnded(u) => ShowsNobodyEnded(u)'
      BY <1>1, <2>3, <2>5 DEF ShowsNobodyEnded
    <3> QED
      BY <1>1, <3>1, <3>3, <3>4 DEF PagesLearn
  <2> QED
    BY <2>6, <2>7, <2>8, <2>9, <2>10 DEF TabsIInv
<1>6. CASE ~(known > m.at) /\ ~(m.type = "logout" /\ PendingLogout < m.at)
  <2>1. setAnonymous(t) /\ hydration' = Stale(t) /\ UNCHANGED <<marker, retry>>
    BY <1>3, <1>6 DEF ReceiveEnded, setAnonymous
  <2>2. /\ page' \in [Pages -> PageRecords]
        /\ \A u \in Pages : /\ page'[u].authedAt = page[u].authedAt
                            /\ page'[u].logoutAt = page[u].logoutAt
                            /\ page'[u].user \in {page[u].user, 0}
        /\ page'[t].user = 0
    BY <1>1, <2>1, MadeAnonymous
  <2>3. /\ hydration' \in [Pages -> HydrationRecords]
        /\ \A u \in Pages : /\ hydration'[u].pc = hydration[u].pc
                            /\ hydration'[u].session = hydration[u].session
                            /\ hydration[u].stale => hydration'[u].stale
        /\ hydration[t].pc # "none" => hydration'[t].stale
    BY <1>1, <2>1, MadeStale
  <2>4. AuthTypeOK'
    BY <1>1, <1>2, <2>1, <2>2, <2>3 DEF AuthTypeOK, PageRecords, Statuses, HydrationRecords
  <2>5. StampsArePast'
    BY <1>1, <1>2, <2>1, <2>2 DEF StampsArePast, LogoutTime
  <2>6. LockedIn' /\ CookieKnown'
    BY <1>1, <2>1, <2>2 DEF LockedIn, CookieKnown, PendingLogout
  <2>7. PagesLearn'
    <3>1. ShowsNobodyEnded(t)'
      BY <1>1, <2>2, <2>3 DEF ShowsNobodyEnded, AuthTypeOK
    <3>2. NoLogoutSince => NoLogoutSince'
      BY <1>1, <1>2, <2>1 DEF NoLogoutSince
    <3>3. \A u \in Pages \ {t} : Told(u) => Told(u)'
      BY <1>1, <1>2, <2>1, <2>2, <3>2 DEF Told, Tells
    <3>4. 0 \notin ended
      BY <1>1 DEF AuthTypeOK
    <3>5. \A u \in Pages \ {t} : ShowsNobodyEnded(u) => ShowsNobodyEnded(u)'
      BY <1>1, <2>2, <2>3, <3>4 DEF ShowsNobodyEnded
    <3> QED
      BY <1>1, <3>1, <3>3, <3>5 DEF PagesLearn
  <2> QED
    BY <2>4, <2>5, <2>6, <2>7 DEF TabsIInv
<1> QED
  BY <1>4, <1>5, <1>6

----------------------------------------------------------------------------
LEMMA TabsNext ==
  ASSUME TabsIInv, [AuthNext]_authVars
  PROVE  TabsIInv'
<1>1. CASE AuthNext
  <2>1. PICK t \in Pages :
          \/ RequestLogout(t) \/ RecoverLogout(t) \/ SendLogout(t) \/ ProcessLogout(t)
          \/ ConfirmLogout(t) \/ BeginLogin(t) \/ notifySessionEstablished(t) \/ LoginFails(t)
          \/ establishSession(t) \/ hydrate(t) \/ AnswerMe(t) \/ ApplyMe(t)
          \/ updateAuthenticatedUser(t) \/ RefreshRejected(t)
          \/ \E m \in inbox[t] : ReceiveEstablished(t, m) \/ ReceiveEnded(t, m)
    BY <1>1 DEF AuthNext
  <2> QED
    BY <2>1, RequestLogoutInv, RecoverLogoutInv, SendLogoutInv, ProcessLogoutInv,
       ConfirmLogoutInv, BeginLoginInv, notifySessionEstablishedInv, LoginFailsInv,
       establishSessionInv, hydrateInv, AnswerMeInv, ApplyMeInv, updateAuthenticatedUserInv,
       RefreshRejectedInv, ReceiveEstablishedInv, ReceiveEndedInv
<1>2. CASE UNCHANGED authVars
  BY <1>2 DEF authVars, TabsIInv, AuthTypeOK, StampsArePast, LogoutTime, LockedIn, CookieKnown,
     PendingLogout, PagesLearn, Told, Tells, NoLogoutSince, ShowsNobodyEnded
<1> QED
  BY <1>1, <1>2

\* A queued logout never revokes a session issued after the user asked to sign
\* out, and a page keeps showing who has signed out only while the message that
\* says so is on its way (auth-store.ts and the session events of api.ts).
THEOREM LogoutEndsOnlyItsSession == AuthSpec => []LogoutHitsItsSession
<1>1. TabsIInv => LogoutHitsItsSession
  BY DEF TabsIInv, CookieKnown, PagesLearn, Told, ShowsNobodyEnded, LogoutHitsItsSession
<1> QED
  BY <1>1, TabsInit, TabsNext, PTL DEF AuthSpec
=============================================================================
