------------------------------ MODULE Sessions ------------------------------
(***************************************************************************)
(* The sessions of one account: auth/session.service.ts, the routes of     *)
(* auth.routes.ts and users.routes.ts that issue, rotate and revoke them,  *)
(* and the check of common/middleware/auth.ts.                             *)
(*                                                                         *)
(* A login starts a refresh family; each refresh adds a credential to it.  *)
(* A credential is one access token and one refresh token issued together, *)
(* so one number stands for its jti and for the hash of its refresh token, *)
(* and a family is named by its first credential, as in the code.  Redis   *)
(* scripts and MULTI are atomic; every other await of a request is a place *)
(* where the steps of another request come in between.  Records from       *)
(* before the introduction of families are left out, and so is the expiry  *)
(* of refresh tokens (90 days).                                            *)
(***************************************************************************)
EXTENDS Integers, FiniteSets

CONSTANTS
  Browsers,          \* cookie jars; the tabs of one browser share one
  Requests,          \* requests being served at one time
  MaxCredentials,    \* bound: credentials ever prepared
  MaxVersion,        \* bound: the largest session_version
  MaxFaults,         \* bound: Redis calls that fail or whose answer is lost
  MaxFamilySessions, \* MAX_REFRESH_FAMILY_SESSIONS
  RotationEnabled    \* REFRESH_ROTATION_ENABLED

ASSUME BoundAssumption ==
  /\ MaxCredentials \in Nat \ {0}
  /\ MaxVersion \in Nat \ {0}
  /\ MaxFaults \in Nat
  /\ MaxFamilySessions \in Nat \ {0}

\* The process serves finitely many requests at a time.
ASSUME RequestsAssumption == IsFiniteSet(Requests)

ASSUME RotationAssumption == RotationEnabled \in BOOLEAN

Credentials == 1 .. MaxCredentials
None == 0

VARIABLES
  version,   \* users.session_version
  minted,    \* how many credentials have been prepared
  famOf,     \* fid of the access token, f of the refresh record
  verOf,     \* sv of the access token, v of the refresh record
  live,      \* session:<jti>
  refresh,   \* refresh:<hash>
  family,    \* refresh_family:<id>
  alias,     \* refresh_family_for:<hash>
  receipt,   \* refresh_rotation_receipt:<hash>
  famSess,   \* members of refresh_family_sessions:<id>, over all families
  famTok,    \* members of refresh_family_tokens:<id>, over all families
  userSess,  \* user_sessions:<user>
  userTok,   \* user_refresh:<user>
  userFam,   \* user_refresh_families:<user>
  tomb,      \* session_revoked:<jti>
  logoutReceipt, \* logout_receipt:<hash>
  expired,   \* credentials whose access token is past its exp
  bridge,    \* the version in a browser's unused two-factor token
  jar,       \* the credential in a browser's cookies
  req,       \* the requests being served
  faults,    \* Redis failures so far
  fenced,    \* history: families whose logout was answered with 204
  since,     \* history: the version a family's login is dated by
  successors \* history: which credential each rotation gave for which

userSets    == <<userSess, userTok, userFam>>
redisVars   == <<live, refresh, family, alias, receipt, famSess, famTok,
                 userSets, tomb, logoutReceipt>>
mintVars    == <<minted, famOf, verOf, since>>
browserVars == <<expired, bridge, jar>>
historyVars == <<fenced, successors>>
vars == <<version, mintVars, redisVars, browserVars, req, faults, historyVars>>

Idle == [pc |-> "idle", browser |-> None, old |-> None, new |-> None,
         expected |-> None, verified |-> None, retried |-> FALSE, after |-> "none"]

Serve(r, fields) == req' = [req EXCEPT ![r] = fields]
Finish(r) == Serve(r, Idle)
Answer(r) == Serve(r, [req[r] EXCEPT !.pc = "answer", !.expected = None,
                                     !.retried = FALSE])
AnswerCleared(r) == Serve(r, [Idle EXCEPT !.pc = "clear",
                                          !.browser = req[r].browser])

Family(c) == {d \in Credentials : famOf[d] = famOf[c]}

Fault == faults < MaxFaults /\ faults' = faults + 1

\* Bounds: a request starts only if what it may prepare or bump is left.
RoomToPrepare ==
  minted + Cardinality({r \in Requests :
                          \/ req[r].pc \in {"prepare", "lookedUp", "prepareRotation"}
                          \/ req[r].after = "reissue"})
    < MaxCredentials

RoomToBump ==
  version + Cardinality({r \in Requests : req[r].pc = "bump"}) < MaxVersion

----------------------------------------------------------------------------
(* What Redis and the database say of a credential *)

\* isSessionRevoked and the epoch check of authenticate.
Usable(c) ==
  /\ c \in live \ (tomb \cup expired)
  /\ family[famOf[c]] = "active"
  /\ verOf[c] = version

\* A refresh with this token, begun now, would be served.
Redeemable(c) ==
  /\ c \in refresh
  /\ family[famOf[c]] # "revoked"
  /\ verOf[c] = version

----------------------------------------------------------------------------
(* prepareSessionCredentials *)

\* Mutant: the expected version is not compared.
PrepareAllowed_AnyVersion(expected) == TRUE

PrepareAllowed(expected) == expected = None \/ expected = version

\* A family begins with its own first credential.  Its login is dated by the
\* version it was verified at if it hands that to issueSession, else by the
\* one read here, however long ago its password was read.
prepareSessionCredentials(old, expected) ==
  LET c == minted + 1
      f == IF old = None THEN c ELSE famOf[old]
  IN  /\ PrepareAllowed(expected)
      /\ minted' = c
      /\ famOf' = [famOf EXCEPT ![c] = f]
      /\ verOf' = [verOf EXCEPT ![c] = version]
      /\ since' = IF old # None THEN since
                  ELSE [since EXCEPT ![c] = IF expected = None THEN version
                                            ELSE expected]

\* 401 "Authentication state changed, log in again": the cookies stay.
PrepareRefused(r) ==
  /\ req[r].pc \in {"prepare", "prepareRotation"}
  /\ ~PrepareAllowed(req[r].expected)
  /\ Finish(r)
  /\ UNCHANGED <<version, mintVars, redisVars, browserVars, faults, historyVars>>

----------------------------------------------------------------------------
(* Login and issueSession *)

\* POST /auth/login: the row is read, its password hash and version together;
\* what follows waits for verifyPassword, on the hash that was read.
\* /register and /telegram read or write the row and go on the same way.
Login(b, r) ==
  /\ req[r] = Idle
  /\ RoomToPrepare
  /\ Serve(r, [Idle EXCEPT !.pc = "prepare", !.browser = b, !.verified = version])
  /\ UNCHANGED <<version, mintVars, redisVars, browserVars, faults, historyVars>>

\* The password matched and a second factor is due: issueTwoFactorPendingToken,
\* for the version that was read.  The second factor may be turned on and off
\* between logins, so the login may go on either way.
SecondFactorAsked(r) ==
  /\ req[r].pc = "prepare" /\ req[r].verified # None
  /\ bridge' = [bridge EXCEPT ![req[r].browser] = req[r].verified]
  /\ Finish(r)
  /\ UNCHANGED <<version, mintVars, redisVars, expired, jar, faults, historyVars>>

PasswordRefused(r) ==
  /\ req[r].pc = "prepare" /\ req[r].verified # None
  /\ Finish(r)
  /\ UNCHANGED <<version, mintVars, redisVars, browserVars, faults, historyVars>>

\* POST /auth/2fa/verify with a valid code; the token's nonce is consumed.
TwoFactorVerify(b, r) ==
  /\ req[r] = Idle
  /\ RoomToPrepare
  /\ bridge[b] = version
  /\ bridge' = [bridge EXCEPT ![b] = None]
  /\ Serve(r, [Idle EXCEPT !.pc = "prepare", !.browser = b,
                           !.expected = bridge[b]])
  /\ UNCHANGED <<version, mintVars, redisVars, expired, jar, faults, historyVars>>

PrepareIssue(r) ==
  /\ req[r].pc = "prepare"
  /\ prepareSessionCredentials(None, req[r].expected)
  /\ Serve(r, [req[r] EXCEPT !.pc = "issue", !.new = minted + 1, !.verified = None])
  /\ UNCHANGED <<version, redisVars, browserVars, faults, historyVars>>

\* The MULTI of issueSession.
StoreSession(c) ==
  /\ live' = live \cup {c}
  /\ refresh' = refresh \cup {c}
  /\ family' = [family EXCEPT ![famOf[c]] = "active"]
  /\ alias' = alias \cup {c}
  /\ famSess' = famSess \cup {c}
  /\ famTok' = famTok \cup {c}
  /\ userSess' = userSess \cup {c}
  /\ userTok' = userTok \cup {c}
  /\ userFam' = userFam \cup {famOf[c]}
  /\ UNCHANGED <<receipt, tomb, logoutReceipt>>

IssueSession(r) ==
  /\ req[r].pc = "issue"
  /\ StoreSession(req[r].new)
  /\ Answer(r)
  /\ UNCHANGED <<version, mintVars, browserVars, faults, historyVars>>

\* 503: the transaction did not run, or ran and its answer was lost.
IssueFails(r) ==
  /\ req[r].pc = "issue"
  /\ Fault
  /\ StoreSession(req[r].new) \/ UNCHANGED redisVars
  /\ Finish(r)
  /\ UNCHANGED <<version, mintVars, browserVars, historyVars>>

----------------------------------------------------------------------------
(* POST /auth/refresh and rotateRefreshSession *)

\* The lookup of the presented token.
RefreshLooksUp(b, r) ==
  /\ req[r] = Idle
  /\ jar[b] # None
  /\ RoomToPrepare \/ jar[b] \notin refresh
  /\ Serve(r, IF jar[b] \in refresh
              THEN [Idle EXCEPT !.pc = "lookedUp", !.browser = b, !.old = jar[b]]
              ELSE [Idle EXCEPT !.pc = "clear", !.browser = b])
  /\ UNCHANGED <<version, mintVars, redisVars, browserVars, faults, historyVars>>

\* The account's row: a record of an earlier version is answered with 401.
RefreshChecksAccount(r) ==
  /\ req[r].pc = "lookedUp"
  /\ IF verOf[req[r].old] = version
     THEN Serve(r, [req[r] EXCEPT !.pc = "prepareRotation", !.expected = version])
     ELSE AnswerCleared(r)
  /\ UNCHANGED <<version, mintVars, redisVars, browserVars, faults, historyVars>>

PrepareRotation(r) ==
  /\ req[r].pc = "prepareRotation"
  /\ prepareSessionCredentials(req[r].old, req[r].expected)
  /\ Serve(r, [req[r] EXCEPT !.pc = "rotate", !.new = minted + 1])
  /\ UNCHANGED <<version, redisVars, browserVars, faults, historyVars>>

LiveFamilySessions(c) == (famSess \cap Family(c)) \ expired

OverCapacity(old, new) ==
  Cardinality(LiveFamilySessions(old) \cup {new}) > MaxFamilySessions

\* The four answers of ROTATE_REFRESH_SESSION_SCRIPT: rotated now, rotated
\* by an earlier try of this request, refused, over the family's capacity.
RotationResult(old, new) ==
  IF old \notin refresh
  THEN IF /\ receipt[old] = new
          /\ family[famOf[old]] = "active"
          /\ new \in refresh
          /\ new \in live
       THEN "repeated" ELSE "refused"
  ELSE IF family[famOf[old]] = "revoked" THEN "refused"
  ELSE IF OverCapacity(old, new) THEN "full" ELSE "rotated"

\* Mutant: the presented token is kept.
SpentTokens_Kept(old) == {}

SpentTokens(old) == IF RotationEnabled THEN {old} ELSE {}

\* Mutant: pruning takes sessions that have not expired.
PrunedSessions_Live(old) == famSess \cap Family(old)

PrunedSessions(old) == famSess \cap Family(old) \cap expired

\* The writes of the script.
RotateRefreshSession(old, new) ==
  /\ family' = [family EXCEPT ![famOf[old]] = "active"]
  /\ live' = live \cup {new}
  /\ refresh' = (refresh \cup {new}) \ SpentTokens(old)
  /\ alias' = alias \cup {old}
  /\ receipt' = [receipt EXCEPT ![old] = new]
  /\ famSess' = (famSess \ PrunedSessions(old)) \cup {new}
  /\ userSess' = (userSess \ PrunedSessions(old)) \cup {new}
  /\ famTok' = (famTok \cup {new}) \ SpentTokens(old)
  /\ userTok' = (userTok \cup {new}) \ SpentTokens(old)
  /\ userFam' = userFam \cup {famOf[old]}
  /\ UNCHANGED <<tomb, logoutReceipt>>

RunRotation(old, new) ==
  IF RotationResult(old, new) = "rotated"
  THEN /\ RotateRefreshSession(old, new)
       /\ successors' = successors \cup {<<old, new>>}
  ELSE UNCHANGED <<redisVars, successors>>

\* The script's answer arrives: cookies, cleared cookies with a 401, or 503.
RotationAnswered(r) ==
  LET result == RotationResult(req[r].old, req[r].new)
  IN  /\ req[r].pc = "rotate"
      /\ RunRotation(req[r].old, req[r].new)
      /\ CASE result \in {"rotated", "repeated"} -> Answer(r)
           [] result = "refused" -> AnswerCleared(r)
           [] result = "full" -> Finish(r)
      /\ UNCHANGED <<version, mintVars, browserVars, faults, fenced>>

\* The call throws, whether the script ran or not: one more try, then 503.
RotationUnanswered(r) ==
  /\ req[r].pc = "rotate"
  /\ Fault
  /\ RunRotation(req[r].old, req[r].new) \/ UNCHANGED <<redisVars, successors>>
  /\ IF req[r].retried THEN Finish(r)
     ELSE Serve(r, [req[r] EXCEPT !.retried = TRUE])
  /\ UNCHANGED <<version, mintVars, browserVars, fenced>>

----------------------------------------------------------------------------
(* Responses: setAuthCookies and clearAuthCookies take effect on arrival *)

CookiesSet(r) ==
  /\ req[r].pc = "answer"
  /\ jar' = [jar EXCEPT ![req[r].browser] = req[r].new]
  /\ Finish(r)
  /\ UNCHANGED <<version, mintVars, redisVars, expired, bridge, faults, historyVars>>

CookiesCleared(r) ==
  /\ req[r].pc = "clear"
  /\ jar' = [jar EXCEPT ![req[r].browser] = None]
  /\ Finish(r)
  /\ UNCHANGED <<version, mintVars, redisVars, expired, bridge, faults, historyVars>>

\* The connection broke before the response arrived.
ResponseLost(r) ==
  /\ req[r].pc \in {"answer", "clear"}
  /\ Finish(r)
  /\ UNCHANGED <<version, mintVars, redisVars, browserVars, faults, historyVars>>

----------------------------------------------------------------------------
(* POST /auth/logout and revokePresentedSessionCredentials *)

\* Mutant: the alias of a token that was just rotated is not consulted.
FamilyFound_NoAlias(c) == c \notin expired \/ c \in refresh \/ c \in logoutReceipt

\* The cookies name the family: by the access token, the refresh record, the
\* alias or an earlier logout's receipt.
FamilyFound(c) ==
  c \notin expired \/ c \in refresh \/ c \in alias \/ c \in logoutReceipt

\* REVOKE_PRESENTED_SESSION_SCRIPT
RevokePresented(c) ==
  LET sessions == LiveFamilySessions(c) \cup ({c} \ expired)
      tokens == famTok \cap Family(c)
  IN  IF FamilyFound(c)
      THEN /\ family' = [family EXCEPT ![famOf[c]] = "revoked"]
           /\ live' = live \ sessions
           /\ userSess' = userSess \ sessions
           /\ tomb' = tomb \cup sessions
           /\ famSess' = famSess \ Family(c)
           /\ logoutReceipt' = logoutReceipt \cup tokens \cup {c}
           /\ refresh' = refresh \ (tokens \cup {c})
           /\ userTok' = userTok \ (tokens \cup {c})
           /\ famTok' = famTok \ tokens
           /\ userFam' = userFam \ {famOf[c]}
           /\ UNCHANGED <<alias, receipt>>
      ELSE UNCHANGED redisVars

\* 204, and the cookies are cleared with it.
Logout(b) ==
  /\ jar[b] # None
  /\ RevokePresented(jar[b])
  /\ jar' = [jar EXCEPT ![b] = None]
  /\ fenced' = fenced \cup {famOf[jar[b]]}
  /\ UNCHANGED <<version, mintVars, expired, bridge, req, faults, successors>>

\* 503, or a 204 that never arrives: the cookies stay.
LogoutUnanswered(b) ==
  /\ jar[b] # None
  /\ Fault
  /\ RevokePresented(jar[b]) \/ UNCHANGED redisVars
  /\ UNCHANGED <<version, mintVars, browserVars, req, historyVars>>

----------------------------------------------------------------------------
(***************************************************************************)
(* Security changes: the version is bumped in the transaction of the       *)
(* change, then Redis is cleared, and for a change from within a session   *)
(* the browser gets a new one or none.                                     *)
(***************************************************************************)

\* Password change, second factor enabled, disabled or replaced (after =
\* "reissue"), logout-all ("clear"): a request that authenticate let in.
AuthenticatedChange(b, r, after) ==
  /\ req[r] = Idle
  /\ jar[b] # None
  /\ Usable(jar[b])
  /\ RoomToBump /\ (after = "reissue" => RoomToPrepare)
  /\ Serve(r, [Idle EXCEPT !.pc = "bump", !.browser = b, !.after = after])
  /\ UNCHANGED <<version, mintVars, redisVars, browserVars, faults, historyVars>>

\* bumpSessionVersion, or the same assignment in the change's own UPDATE.
BumpSessionVersion(r) ==
  /\ req[r].pc = "bump"
  /\ version' = version + 1
  /\ Serve(r, [req[r] EXCEPT !.pc = "revokeAll"])
  /\ UNCHANGED <<mintVars, redisVars, browserVars, faults, historyVars>>

\* Password reset, email confirmation, a role change or a ban (whose revocation
\* the outbox runs later): none of the account's sessions is read before the bump.
OutOfBandChange(r) ==
  /\ req[r] = Idle
  /\ RoomToBump
  /\ version' = version + 1
  /\ Serve(r, [Idle EXCEPT !.pc = "revokeAll"])
  /\ UNCHANGED <<mintVars, redisVars, browserVars, faults, historyVars>>

\* REVOKE_ALL_USER_SESSIONS_SCRIPT
RevokeAll ==
  LET members == {c \in Credentials : famOf[c] \in userFam}
  IN  /\ live' = live \ userSess
      /\ refresh' = refresh \ userTok
      /\ family' = [f \in Credentials |->
                      IF f \in userFam THEN "revoked" ELSE family[f]]
      /\ famSess' = famSess \ members
      /\ famTok' = famTok \ members
      /\ userSess' = {}
      /\ userTok' = {}
      /\ userFam' = {}
      /\ UNCHANGED <<alias, receipt, tomb, logoutReceipt>>

AfterRevocation(r) ==
  CASE req[r].after = "reissue" ->
         Serve(r, [req[r] EXCEPT !.pc = "prepare", !.after = "none"])
    [] req[r].after = "clear" -> AnswerCleared(r)
    [] req[r].after = "none" -> Finish(r)

revokeAllUserSessions(r) ==
  /\ req[r].pc = "revokeAll"
  /\ RevokeAll
  /\ AfterRevocation(r)
  /\ UNCHANGED <<version, mintVars, browserVars, faults, historyVars>>

\* A Redis failure is logged, and the request goes on as if it had worked.
RevokeAllFails(r) ==
  /\ req[r].pc = "revokeAll"
  /\ Fault
  /\ RevokeAll \/ UNCHANGED redisVars
  /\ AfterRevocation(r)
  /\ UNCHANGED <<version, mintVars, browserVars, historyVars>>

----------------------------------------------------------------------------
(* Time.  A request ends long before a token or an alias it uses expires. *)

InUse(c) == \E r \in Requests : c \in {req[r].old, req[r].new}

\* ACCESS_TOKEN_TTL_MIN: the token, its cookie and its session key end.  Of a
\* credential that is neither stored nor held nothing is left to expire.
AccessExpires(c) ==
  /\ c \in live \/ \E b \in Browsers : jar[b] = c
  /\ c \notin expired
  /\ ~\E r \in Requests : req[r].new = c
  /\ expired' = expired \cup {c}
  /\ live' = live \ {c}
  /\ UNCHANGED <<version, mintVars, refresh, family, alias, receipt, famSess, famTok,
                 userSets, tomb, logoutReceipt, bridge, jar, req, faults, historyVars>>

\* REFRESH_FAMILY_ALIAS_TTL_SECONDS, and the rotation receipt's equal one.
\* While the refresh record exists the alias says nothing the record does not.
AliasExpires(c) ==
  /\ c \in alias \ refresh
  /\ ~InUse(c)
  /\ alias' = alias \ {c}
  /\ receipt' = [receipt EXCEPT ![c] = None]
  /\ UNCHANGED <<version, mintVars, live, refresh, family, famSess, famTok, userSets, tomb,
                 logoutReceipt, browserVars, req, faults, historyVars>>

----------------------------------------------------------------------------
Init ==
  /\ version = 1
  /\ minted = 0
  /\ famOf = [c \in Credentials |-> None]
  /\ verOf = [c \in Credentials |-> None]
  /\ since = [c \in Credentials |-> None]
  /\ live = {} /\ refresh = {} /\ alias = {} /\ tomb = {} /\ logoutReceipt = {}
  /\ family = [c \in Credentials |-> "none"]
  /\ receipt = [c \in Credentials |-> None]
  /\ famSess = {} /\ famTok = {}
  /\ userSess = {} /\ userTok = {} /\ userFam = {}
  /\ expired = {}
  /\ bridge = [b \in Browsers |-> None]
  /\ jar = [b \in Browsers |-> None]
  /\ req = [r \in Requests |-> Idle]
  /\ faults = 0
  /\ fenced = {}
  /\ successors = {}

BrowserNext(b) ==
  \/ Logout(b)
  \/ LogoutUnanswered(b)
  \/ \E r \in Requests :
       \/ Login(b, r)
       \/ TwoFactorVerify(b, r)
       \/ RefreshLooksUp(b, r)
       \/ \E after \in {"reissue", "clear"} : AuthenticatedChange(b, r, after)

ServerNext(r) ==
  \/ OutOfBandChange(r)
  \/ SecondFactorAsked(r)
  \/ PasswordRefused(r)
  \/ PrepareIssue(r)
  \/ PrepareRefused(r)
  \/ IssueSession(r)
  \/ IssueFails(r)
  \/ RefreshChecksAccount(r)
  \/ PrepareRotation(r)
  \/ RotationAnswered(r)
  \/ RotationUnanswered(r)
  \/ CookiesSet(r)
  \/ CookiesCleared(r)
  \/ ResponseLost(r)
  \/ BumpSessionVersion(r)
  \/ revokeAllUserSessions(r)
  \/ RevokeAllFails(r)

Next ==
  \/ \E b \in Browsers : BrowserNext(b)
  \/ \E r \in Requests : ServerNext(r)
  \/ \E c \in Credentials : AccessExpires(c) \/ AliasExpires(c)

Spec == Init /\ [][Next]_vars

----------------------------------------------------------------------------
(* Properties *)

RequestStates == {"idle", "prepare", "issue", "answer", "lookedUp",
                  "prepareRotation", "rotate", "clear", "bump", "revokeAll"}

RedisTypeOK ==
  /\ live \subseteq Credentials
  /\ refresh \subseteq Credentials
  /\ alias \subseteq Credentials
  /\ family \in [Credentials -> {"none", "active", "revoked"}]
  /\ receipt \in [Credentials -> Credentials \cup {None}]
  /\ famSess \subseteq Credentials
  /\ famTok \subseteq Credentials
  /\ userSess \subseteq Credentials
  /\ userTok \subseteq Credentials
  /\ userFam \subseteq Credentials
  /\ tomb \subseteq Credentials
  /\ logoutReceipt \subseteq Credentials

RequestTypeOK ==
  req \in [Requests -> [pc : RequestStates,
                        browser : Browsers \cup {None},
                        old : Credentials \cup {None},
                        new : Credentials \cup {None},
                        expected : 0 .. MaxVersion,
                        verified : 0 .. MaxVersion,
                        retried : BOOLEAN,
                        after : {"none", "reissue", "clear"}]]

\* Type invariant; a family never has more live access sessions than its
\* capacity, so the fence of a logout reaches all of them.
TypeOK ==
  /\ version \in 1 .. MaxVersion
  /\ minted \in 0 .. MaxCredentials
  /\ famOf \in [Credentials -> Credentials \cup {None}]
  /\ verOf \in [Credentials -> 0 .. MaxVersion]
  /\ since \in [Credentials -> 0 .. MaxVersion]
  /\ RedisTypeOK
  /\ RequestTypeOK
  /\ expired \subseteq Credentials
  /\ bridge \in [Browsers -> 0 .. MaxVersion]
  /\ jar \in [Browsers -> Credentials \cup {None}]
  /\ faults \in 0 .. MaxFaults
  /\ fenced \subseteq Credentials
  /\ \A f \in Credentials :
       Cardinality({c \in live \ expired : famOf[c] = f}) <= MaxFamilySessions

(***************************************************************************)
(* A logout is final: once it is answered with 204, whatever credential of *)
(* its family a browser holds or still receives, from a refresh that       *)
(* overlapped it, neither opens a request nor can be refreshed.            *)
(***************************************************************************)
LogoutIsFinal ==
  \A b \in Browsers :
    jar[b] # None /\ famOf[jar[b]] \in fenced
      => ~Usable(jar[b]) /\ ~Redeemable(jar[b])

(***************************************************************************)
(* No session outlives a security change: a usable or refreshable          *)
(* credential belongs to a family whose login is dated by the current      *)
(* version, however many refreshes and however slow a request are in       *)
(* between, and although a failed revocation is only logged.  A login      *)
(* confirmed by a second factor is dated by the version its password was   *)
(* verified under.  A login that hands issueSession no version (a password *)
(* alone, Telegram, registration, the session issued again after a change) *)
(* is dated only when it is prepared: a change that commits after its      *)
(* password was read goes unnoticed and the old password still opens a     *)
(* session; of these nothing is said of when the password was verified.    *)
(***************************************************************************)
EpochCoversFamily ==
  \A c \in Credentials :
    c <= minted /\ (Usable(c) \/ Redeemable(c)) => since[famOf[c]] = version

(***************************************************************************)
(* With rotation on, a refresh token is exchanged once: neither two tabs   *)
(* nor the retry of an unanswered script get two successors of one token.  *)
(***************************************************************************)
RedeemedOnce ==
  RotationEnabled =>
    \A p, q \in successors : p[1] = q[1] => p = q

(***************************************************************************)
(* What the per-user and per-family sets are for: every key of a session   *)
(* or a refresh token that exists is listed, so revokeAllUserSessions and  *)
(* a logout find them all.                                                 *)
(***************************************************************************)
EverySessionEnumerable ==
  /\ live \subseteq userSess \cap famSess
  /\ refresh \subseteq userTok \cap famTok
  /\ {f \in Credentials : family[f] = "active"} \subseteq userFam
=============================================================================
