------------------------------ MODULE RateLimit ------------------------------
(***************************************************************************)
(* Rate limits, common/middleware/security.ts: every limiter counts a      *)
(* request in a fixed window of a bucket (its prefix and a key taken from  *)
(* the request) and answers 429 when the count passes its limit.  A        *)
(* request goes through its limiters one by one, each a call to Redis,     *)
(* while others are under way.                                             *)
(***************************************************************************)
EXTENDS Naturals, Sequences, FiniteSets

CONSTANTS
  Ips,            \* client addresses
  WebSessions,    \* sessions an access cookie may name
  SessionOwner,   \* the account of each
  Profiles,       \* of each account, the rows (email and phone) requests may find
  Subjects,       \* emails, tokens and phones that are named
  Bodies,         \* request bodies: what each field names, if anything
  RouteClasses,   \* the classes of routes that are requested
  SubjectLimit, IpLimit,
  MaxCalls,      \* bound: requests
  MaxWindows     \* bound: windows of one bucket

WebCalls == 1 .. MaxCalls   \* requests, in the order they arrive

Nobody == "none"
Forged == "forged"      \* a cookie that jwt.verify refuses

BodyFields == {"email", "token", "twoFactorToken", "id", "phone"}
NoBody == [f \in BodyFields |-> Nobody]
NoProfile == [email |-> Nobody, phone |-> Nobody]

(* The routes with limits of their own, and the prefix of their buckets. *)
DedicatedPrefix ==
  [login |-> "credential", security |-> "credential",
   resend |-> "email-verification", verify |-> "email-verification",
   changeEmail |-> "email-change", confirmEmail |-> "email-change",
   reset |-> "password-reset", upload |-> "upload", ticket |-> "ws-ticket",
   phone |-> "phone-otp", webhook |-> "webhook"]

(* Those where authenticate comes before the limiters. *)
AuthenticatedRoutes == {"security", "resend", "changeEmail", "upload", "ticket", "phone"}

(* Those whose limiters may read the cookie, and the body. *)
CookieRoutes == AuthenticatedRoutes \union {"write", "confirmEmail"}
BodyRoutes ==
  {"login", "security", "resend", "verify", "changeEmail", "confirmEmail", "reset", "phone"}

ASSUME RateLimitAssumption ==
  /\ RouteClasses \subseteq DOMAIN DedicatedPrefix \union {"write", "read", "query"}
  /\ SubjectLimit \in Nat \ {0} /\ IpLimit \in Nat \ {0}
  /\ MaxCalls \in Nat /\ MaxWindows \in Nat \ {0}
  /\ Nobody \notin Subjects \union WebSessions /\ Forged \notin WebSessions
  /\ DOMAIN SessionOwner = WebSessions
  /\ \A s \in WebSessions :
       /\ SessionOwner[s] # Nobody
       /\ Profiles[SessionOwner[s]] \subseteq [email : Subjects, phone : Subjects \union {Nobody}]
  /\ Bodies \subseteq [BodyFields -> Subjects \union {Nobody}]

VARIABLES
  webRequests,   \* what they are, how far they got, the windows they were counted in
  windows        \* of each bucket that was hit: which window, and its count

limitVars == <<webRequests, windows>>

-----------------------------------------------------------------------------
(* Keys *)

KeyOf(by, of) == [by |-> by, of |-> of]

(* The operator of the language: the second only if there is no first. *)
k ?? l == IF k.of # Nobody THEN k ELSE l

(* identifyRateLimitSubject: only the envelope of the cookie is verified. *)
requestUserId(q) == IF q.cookie \in WebSessions THEN SessionOwner[q.cookie] ELSE Nobody
requestSessionId(q) == IF q.cookie \in WebSessions THEN q.cookie ELSE Nobody

userIdentity(q) == KeyOf("user", requestUserId(q))

(* The fields come in an order: a body that names an email is keyed by it,   *)
(* whatever else it names and whoever is signed in.                          *)
credentialIdentity(q) ==
  KeyOf("email", q.body.email) ?? KeyOf("email", q.user.email)
    ?? KeyOf("two-factor", q.body.twoFactorToken) ?? KeyOf("telegram", q.body.id)

emailVerificationIdentity(q) ==
  KeyOf("email", q.user.email) ?? KeyOf("token", q.body.token)

emailChangeIdentity(q) ==
  userIdentity(q) ?? KeyOf("email", q.body.email) ?? KeyOf("token", q.body.token)

passwordResetIdentity(q) == KeyOf("email", q.body.email) ?? KeyOf("token", q.body.token)

wsTicketIdentity(q) == KeyOf("session", requestSessionId(q)) ?? userIdentity(q)

(* preparePhoneRateLimitIdentity *)
phoneIdentity(q) == KeyOf("phone", q.body.phone) ?? KeyOf("phone", q.user.phone)

-----------------------------------------------------------------------------
(* Limiters *)

(* A limiter without a key for the request is skipped. *)
subjectLimiter(prefix, key) ==
  IF key.of = Nobody THEN <<>> ELSE <<[prefix |-> prefix, key |-> key]>>
ipLimiter(q, prefix) == <<[prefix |-> prefix, key |-> KeyOf("ip", q.ip)]>>

Mutating(q) == q.route \notin {"read", "query"}
hasDedicatedWriteLimiter(q) == q.route \in DOMAIN DedicatedPrefix

(* Mutant: any cookie at all counts as an account. *)
anonymousWriteRateLimit_Cookie(q) ==
  IF ~Mutating(q) \/ q.cookie # Nobody \/ hasDedicatedWriteLimiter(q) THEN <<>>
  ELSE ipLimiter(q, "anonymous-write")

anonymousWriteRateLimit(q) ==
  IF ~Mutating(q) \/ requestUserId(q) # Nobody \/ hasDedicatedWriteLimiter(q) THEN <<>>
  ELSE ipLimiter(q, "anonymous-write")

authenticatedWriteRateLimit(q) ==
  IF ~Mutating(q) \/ requestUserId(q) = Nobody \/ hasDedicatedWriteLimiter(q) THEN <<>>
  ELSE subjectLimiter("authenticated-write", userIdentity(q)) \o ipLimiter(q, "authenticated-write")

(* Public browsing and media; other queries pass no limiter. *)
publicReadRateLimit(q) == IF q.route = "read" THEN ipLimiter(q, "public-read") ELSE <<>>

(* By whom or what a route's own limiters count. *)
identityLimiters(q) ==
  LET Named(key) == subjectLimiter(DedicatedPrefix[q.route], key)
  IN  CASE q.route \in {"login", "security"} -> Named(credentialIdentity(q))
        [] q.route \in {"resend", "verify"} -> Named(emailVerificationIdentity(q))
        [] q.route \in {"changeEmail", "confirmEmail"} -> Named(emailChangeIdentity(q))
        [] q.route = "reset" -> Named(passwordResetIdentity(q))
        [] q.route = "upload" -> Named(userIdentity(q))
        [] q.route = "ticket" -> Named(wsTicketIdentity(q))
        [] q.route = "phone" -> Named(userIdentity(q)) \o Named(phoneIdentity(q))
        [] q.route = "webhook" -> <<>>

(* composeMiddleware: one or two identities, then the address. *)
RouteLimiters(q) ==
  IF hasDedicatedWriteLimiter(q)
    THEN identityLimiters(q) \o ipLimiter(q, DedicatedPrefix[q.route])
    ELSE publicReadRateLimit(q)

(* The order of app.ts, then of the route. *)
Limiters(q) == anonymousWriteRateLimit(q) \o authenticatedWriteRateLimit(q) \o RouteLimiters(q)

LimitOf(b) == IF b.key.by = "ip" THEN IpLimit ELSE SubjectLimit

NewWindow == [window |-> 1, count |-> 0]
WindowOf(b) == IF b \in DOMAIN windows THEN windows[b] ELSE NewWindow

-----------------------------------------------------------------------------

Unsent ==
  [state |-> "unsent", ip |-> Nobody, cookie |-> Nobody, user |-> NoProfile, body |-> NoBody,
   route |-> "read", at |-> 1, counted |-> {}]

RateLimitInit ==
  /\ webRequests = [c \in WebCalls |-> Unsent]
  /\ windows = <<>>

(* authenticate has let the request through and read the account's row. *)
ProfilesSeen(route, cookie) ==
  IF route \notin AuthenticatedRoutes THEN {NoProfile}
  ELSE IF cookie \in WebSessions THEN Profiles[SessionOwner[cookie]] ELSE {}

SendCall(c) ==
  /\ webRequests[c].state = "unsent" /\ \A d \in 1 .. c - 1 : webRequests[d].state # "unsent"
  /\ \E ip \in Ips, route \in RouteClasses :
     \E cookie \in IF route \in CookieRoutes THEN WebSessions \union {Nobody, Forged} ELSE {Nobody},
        body \in IF route \in BodyRoutes THEN Bodies ELSE {NoBody} :
       \E user \in ProfilesSeen(route, cookie) :
         webRequests' = [webRequests EXCEPT ![c] =
            [state |-> "limiting", ip |-> ip, cookie |-> cookie, user |-> user, body |-> body,
             route |-> route, at |-> 1, counted |-> {}]]
  /\ UNCHANGED windows

(* One limiter: count, then compare; rateLimitResponse answers 429. *)
PassLimiter(c) ==
  LET q == webRequests[c]
      b == Limiters(q)[q.at]
      hit == [WindowOf(b) EXCEPT !.count = @ + 1]
  IN  /\ q.state = "limiting" /\ q.at <= Len(Limiters(q))
      /\ windows' = [x \in DOMAIN windows \union {b} |-> IF x = b THEN hit ELSE windows[x]]
      /\ webRequests' = [webRequests EXCEPT ![c] =
           IF hit.count > LimitOf(b) THEN [q EXCEPT !.state = "limited"]
           ELSE [q EXCEPT !.at = @ + 1, !.counted = @ \union {[bucket |-> b, window |-> hit.window]}]]

(* The store fails: the error ends the request. *)
LimiterFails(c) ==
  /\ webRequests[c].state = "limiting" /\ webRequests[c].at <= Len(Limiters(webRequests[c]))
  /\ webRequests' = [webRequests EXCEPT ![c].state = "failed"]
  /\ UNCHANGED windows

(* Past its limiters: the handler runs. *)
Serve(c) ==
  /\ webRequests[c].state = "limiting" /\ webRequests[c].at > Len(Limiters(webRequests[c]))
  /\ webRequests' = [webRequests EXCEPT ![c].state = "served"]
  /\ UNCHANGED windows

(* windowMs after the first hit. *)
WindowEnds(b) ==
  /\ windows[b].count > 0 /\ windows[b].window < MaxWindows
  /\ windows' = [windows EXCEPT ![b] = [window |-> @.window + 1, count |-> 0]]
  /\ UNCHANGED webRequests

RateLimitNext ==
  \/ \E c \in WebCalls : SendCall(c) \/ PassLimiter(c) \/ LimiterFails(c) \/ Serve(c)
  \/ \E b \in DOMAIN windows : WindowEnds(b)

RateLimitSpec == RateLimitInit /\ [][RateLimitNext]_limitVars

BucketPrefixes ==
  {"anonymous-write", "authenticated-write", "public-read"}
    \union {DedicatedPrefix[r] : r \in DOMAIN DedicatedPrefix}
KeyKinds == {"ip", "user", "session", "email", "token", "two-factor", "telegram", "phone"}
KeyValues == Ips \union WebSessions \union Subjects \union {SessionOwner[s] : s \in WebSessions}
Buckets == [prefix : BucketPrefixes, key : [by : KeyKinds, of : KeyValues]]

(* Type invariant. *)
RateLimitTypeOK ==
  /\ \A c \in WebCalls : webRequests[c].state \in {"unsent", "limiting", "limited", "failed", "served"}
  /\ DOMAIN windows \subseteq Buckets
  /\ \A b \in DOMAIN windows :
       windows[b].window \in 1 .. MaxWindows /\ windows[b].count \in 0 .. MaxCalls

(* The kinds of buckets a route's requests are counted in. *)
PrefixesOf(route) ==
  CASE route = "write" -> {"anonymous-write", "authenticated-write"}
    [] route = "read" -> {"public-read"}
    [] route \in DOMAIN DedicatedPrefix -> {DedicatedPrefix[route]}

(* The email that names a request's bucket: the body's comes first, save      *)
(* where a link is sent again.                                                *)
EmailNamed(q) ==
  IF q.route = "resend" \/ q.body.email = Nobody THEN q.user.email ELSE q.body.email

(* However requests interleave, a window of a bucket lets no more of them be  *)
(* served than its limit; and a request that is served was counted in a       *)
(* bucket                                                                     *)
(*   - of its address, unless it is a query outside public browsing (a write  *)
(*     in the one for anonymous or the one for signed-in writes: an address   *)
(*     has both, and a limit in each);                                        *)
(*   - of its account, if it writes, uploads, or changes an email or a phone  *)
(*     under a cookie that verifies;                                          *)
(*   - of its session, if it asks for a ticket;                               *)
(*   - of the email it names when it signs in, confirms a security change or  *)
(*     resets a password, or else of the account's own email (an email in the *)
(*     body takes the place of the account's; a link sent again counts for    *)
(*     the account's whatever the body says).                                 *)
LimitsHold ==
  LET Served == {c \in WebCalls : webRequests[c].state = "served"}
      InWindow(k) == {c \in Served : k \in webRequests[c].counted}
      CountedBy(c, by, of) ==
        \E k \in webRequests[c].counted : /\ k.bucket.prefix \in PrefixesOf(webRequests[c].route)
                                         /\ k.bucket.key = KeyOf(by, of)
  IN  \A c \in Served :
        LET q == webRequests[c]
        IN  /\ \A k \in q.counted : Cardinality(InWindow(k)) <= LimitOf(k.bucket)
            /\ q.route # "query" => CountedBy(c, "ip", q.ip)
            /\ q.cookie \in WebSessions /\ q.route \in {"write", "upload", "changeEmail", "phone"}
                 => CountedBy(c, "user", SessionOwner[q.cookie])
            /\ q.route = "ticket" => CountedBy(c, "session", q.cookie)
            /\ q.route \in {"login", "security", "reset", "resend"} /\ EmailNamed(q) # Nobody
                 => CountedBy(c, "email", EmailNamed(q))
=============================================================================
