------------------------------ MODULE AuthTabs ------------------------------
(***************************************************************************)
(* Who the tabs of one browser believe is signed in                        *)
(* (frontend/lib/auth-store.ts with the session events of lib/api.ts).     *)
(*                                                                         *)
(* A logout makes the page anonymous at once and leaves a marker in        *)
(* localStorage; the server is told under the cross-tab lock (module       *)
(* RefreshLease), now or at a later retry, by any tab.  A login in any tab *)
(* supersedes an older logout.  Events carry timestamps, because messages  *)
(* between tabs are delivered late and in any order.                       *)
(***************************************************************************)
EXTENDS Naturals, FiniteSets, FiniteSetsExt

CONSTANTS
  Pages,        \* the tabs
  MaxEvents     \* bound: logins, logouts, and requests that fail or whose answer is lost

ASSUME AuthTabsAssumption == MaxEvents \in Nat

VARIABLES
  clock,        \* Date.now(), which passes with each login and each logout
  cookie,       \* the session in the shared cookies, 0 for none
  issuedSessions,     \* sessions issued
  revoked,      \* sessions the server has revoked
  established,  \* auth_session_established_at
  marker,       \* requestedAt of auth_pending_logout, 0 for none
  page,         \* the store of a tab: status, user and the two timestamps
  hydration,    \* /auth/me of a tab
  login,        \* a login of a tab
  retry,        \* retryPendingLogout of a tab
  cookieLock,   \* the tab inside runWithRefreshLock, if any
  inbox,        \* messages on their way to a tab
  events,       \* logins, logouts and faults so far
  ended,        \* sessions a user has signed out of
  overtaken     \* of these, the ones signed out of while establishSession was due

authVars == <<clock, cookie, issuedSessions, revoked, established, marker, page, hydration, login,
              retry, cookieLock, inbox, events, ended, overtaken>>

NoHydration == [pc |-> "none", session |-> 0, stale |-> FALSE]
NoRetry == [pc |-> "none", at |-> 0, queued |-> FALSE]

AuthInit ==
  /\ clock = 1
  /\ cookie = 1 /\ issuedSessions = 1 /\ revoked = {}
  /\ established = 0 /\ marker = 0
  /\ page = [t \in Pages |-> [status |-> "unknown", user |-> 0, authedAt |-> 0, logoutAt |-> 0]]
  /\ hydration = [t \in Pages |-> NoHydration]
  /\ login = [t \in Pages |-> "none"]
  /\ retry = [t \in Pages |-> NoRetry]
  /\ cookieLock = {}
  /\ inbox = [t \in Pages |-> {}]
  /\ events = 0
  /\ ended = {} /\ overtaken = {}

(* A login, a logout or a fault of the network. *)
Happens == events < MaxEvents /\ events' = events + 1

(* readPendingLogoutMarker: a login newer than the marker has superseded it. *)
PendingLogout == IF established > marker THEN 0 ELSE marker

(* A message to every other tab. *)
Post(t, m) == inbox' = [u \in Pages |-> IF u = t THEN inbox[u] ELSE inbox[u] \cup {m}]

(* Every change of the auth state makes an answer that is under way stale   *)
(* (authStateEpoch).                                                        *)
Stale(t) == [hydration EXCEPT ![t].stale = @ \/ hydration[t].pc # "none"]

Anonymous(rec) == [rec EXCEPT !.status = "anonymous", !.user = 0]

setAnonymous(t) ==
  /\ page' = [page EXCEPT ![t] = Anonymous(@)]
  /\ hydration' = Stale(t)

(* retryPendingLogout: one attempt at a time, a second one is queued. *)
RetryAfter(t, moment, queue) ==
  IF retry[t].pc = "none" THEN [retry EXCEPT ![t] = [NoRetry EXCEPT !.pc = "waiting", !.at = moment]]
  ELSE [retry EXCEPT ![t].queued = @ \/ queue]

-----------------------------------------------------------------------------
(* logout of the store: marker, anonymous page, message, first attempt.  The *)
(* user needs at least a millisecond from whatever came before.              *)
RequestLogout(t) ==
  /\ page[t].status = "authenticated" /\ Happens
  /\ clock' = clock + 1
  /\ LET requestedAt == IF PendingLogout # 0 THEN PendingLogout
                        ELSE Max({clock', page[t].logoutAt + 1, page[t].authedAt + 1,
                                  established + 1})
     IN  /\ marker' = requestedAt
         /\ page' = [page EXCEPT ![t] = [Anonymous(@) EXCEPT !.logoutAt = requestedAt]]
         /\ Post(t, [type |-> "logout", at |-> requestedAt])
         /\ retry' = RetryAfter(t, requestedAt, FALSE)
  /\ hydration' = Stale(t)
  /\ ended' = ended \cup ({cookie} \ {0})
  /\ overtaken' = IF \E u \in Pages : login[u] = "issued" THEN overtaken \cup {cookie}
                                                         ELSE overtaken
  /\ UNCHANGED <<cookie, issuedSessions, revoked, established, login, cookieLock>>

(* startPendingLogoutRecovery: the page starts, comes online, or sees a new *)
(* marker in a storage event.                                               *)
RecoverLogout(t) ==
  /\ PendingLogout # 0 /\ retry[t].pc = "none"
  /\ setAnonymous(t)
  /\ retry' = RetryAfter(t, PendingLogout, TRUE)
  /\ UNCHANGED <<clock, cookie, issuedSessions, revoked, established, marker, login,
                 cookieLock, inbox, events, ended, overtaken>>

-----------------------------------------------------------------------------
(* requestServerLogout *)

(* The attempt is over; a queued one follows if a marker is left. *)
EndRetry(t, left) ==
  retry' = IF retry[t].queued /\ left # 0
             THEN [retry EXCEPT ![t] = [NoRetry EXCEPT !.pc = "waiting", !.at = left]]
             ELSE [retry EXCEPT ![t] = NoRetry]

(* Mutant: once it has the lock the attempt does not look at the marker again. *)
SendLogout_Unchecked(t) ==
  /\ retry[t].pc = "waiting" /\ cookieLock = {}
  /\ cookieLock' = {t}
  /\ retry' = [retry EXCEPT ![t].pc = "sent"]
  /\ UNCHANGED <<clock, cookie, issuedSessions, revoked, established, marker, page, hydration,
                 login, inbox, events, ended, overtaken>>

(* shouldProceed, inside the lock: the marker must still be this attempt's. *)
SendLogout(t) ==
  /\ retry[t].pc = "waiting" /\ cookieLock = {}
  /\ IF PendingLogout = retry[t].at
       THEN /\ cookieLock' = {t}
            /\ retry' = [retry EXCEPT ![t].pc = "sent"]
       ELSE /\ EndRetry(t, PendingLogout)
            /\ UNCHANGED cookieLock
  /\ UNCHANGED <<clock, cookie, issuedSessions, revoked, established, marker, page, hydration,
                 login, inbox, events, ended, overtaken>>

(* The server revokes the session and clears the cookies; or the request fails, *)
(* or only its answer is lost.  A dead session may end as anonymous-unconfirmed *)
(* or as retry-later, which keeps the marker.                                   *)
ProcessLogout(t) ==
  /\ retry[t].pc = "sent" /\ t \in cookieLock
  /\ \/ /\ cookie' = 0
        /\ revoked' = revoked \cup ({cookie} \ {0})
        /\ retry' = [retry EXCEPT ![t].pc = "confirmed"]
        /\ UNCHANGED events
     \/ /\ Happens
        /\ revoked' \in {revoked, revoked \cup ({cookie} \ {0})}
        /\ EndRetry(t, PendingLogout)
        /\ UNCHANGED cookie
  /\ cookieLock' = {}
  /\ UNCHANGED <<clock, issuedSessions, established, marker, page, hydration, login, inbox,
                 ended, overtaken>>

(* clearPendingLogoutMarker(requestedAt): only the marker of this attempt. *)
ConfirmLogout(t) ==
  /\ retry[t].pc = "confirmed"
  /\ LET left == IF marker = retry[t].at THEN 0 ELSE marker IN
       /\ marker' = left
       /\ EndRetry(t, IF established > left THEN 0 ELSE left)
  /\ UNCHANGED <<clock, cookie, issuedSessions, revoked, established, page, hydration, login,
                 cookieLock, inbox, events, ended, overtaken>>

-----------------------------------------------------------------------------
(* Login, registration, second factor or Telegram *)

BeginLogin(t) ==
  /\ login[t] = "none" /\ cookieLock = {} /\ Happens
  /\ page[t].status # "authenticated"
  /\ cookieLock' = {t}
  /\ login' = [login EXCEPT ![t] = "sent"]
  /\ UNCHANGED <<clock, cookie, issuedSessions, revoked, established, marker, page, hydration,
                 retry, inbox, ended, overtaken>>

(* The cookies are new.  Still inside the lock the tab publishes the login and *)
(* drops the marker it finds.  A login takes at least a millisecond.           *)
notifySessionEstablished(t) ==
  /\ login[t] = "sent"
  /\ clock' = clock + 1
  /\ issuedSessions' = issuedSessions + 1
  /\ cookie' = issuedSessions'
  /\ established' = Max({clock', established + 1})
  /\ marker' = 0
  /\ page' = [page EXCEPT ![t].authedAt = Max({@, established'})]
  /\ Post(t, [type |-> "established", at |-> established'])
  /\ cookieLock' = {}
  /\ login' = [login EXCEPT ![t] = "issued"]
  /\ UNCHANGED <<revoked, hydration, retry, events, ended, overtaken>>

LoginFails(t) ==
  /\ login[t] = "sent" /\ Happens
  /\ login' = [login EXCEPT ![t] = "none"]
  /\ cookieLock' = {}
  /\ UNCHANGED <<clock, cookie, issuedSessions, revoked, established, marker, page, hydration,
                 retry, inbox, ended, overtaken>>

(* establishSession, when the page has read the answer: applyAuthenticated  *)
(* with a new session clears whatever marker there is.                      *)
establishSession(t) ==
  /\ login[t] = "issued"
  /\ login' = [login EXCEPT ![t] = "none"]
  /\ marker' = 0
  /\ page' = [page EXCEPT ![t] = [@ EXCEPT !.status = "authenticated", !.user = issuedSessions,
                                           !.authedAt = clock]]
  /\ hydration' = Stale(t)
  /\ UNCHANGED <<clock, cookie, issuedSessions, revoked, established, retry, cookieLock,
                 inbox, events, ended, overtaken>>

-----------------------------------------------------------------------------
(* Hydration *)

hydrate(t) ==
  /\ hydration[t].pc = "none" /\ page[t].status # "authenticated"
  /\ IF PendingLogout # 0
       THEN setAnonymous(t) /\ retry' = RetryAfter(t, PendingLogout, FALSE)
       ELSE /\ hydration' = [hydration EXCEPT ![t] = [pc |-> "asked", session |-> cookie,
                                                      stale |-> FALSE]]
            /\ UNCHANGED <<page, retry>>
  /\ UNCHANGED <<clock, cookie, issuedSessions, revoked, established, marker, login,
                 cookieLock, inbox, events, ended, overtaken>>

(* The server answers by the cookie it was sent. *)
AnswerMe(t) ==
  /\ hydration[t].pc = "asked"
  /\ \/ /\ hydration' = [hydration EXCEPT ![t].pc =
             IF @ # "none" /\ hydration[t].session \notin revoked \cup {0} THEN "user"
                                                                           ELSE "denied"]
        /\ UNCHANGED events
     \/ Happens /\ hydration' = [hydration EXCEPT ![t].pc = "failed"]
  /\ UNCHANGED <<clock, cookie, issuedSessions, revoked, established, marker, page, login,
                 retry, cookieLock, inbox, ended, overtaken>>

(* A stale answer, or one that meets a pending logout, installs nobody. *)
ApplyMe(t) ==
  /\ hydration[t].pc \in {"user", "denied", "failed"}
  /\ page' = [page EXCEPT ![t] =
       IF PendingLogout # 0 THEN Anonymous(@)
       ELSE IF hydration[t].stale THEN @
       ELSE IF hydration[t].pc = "user"
         THEN [@ EXCEPT !.status = "authenticated", !.user = hydration[t].session]
       ELSE IF hydration[t].pc = "denied" THEN Anonymous(@)
       ELSE [@ EXCEPT !.status = "degraded"]]
  /\ hydration' = [hydration EXCEPT ![t] = NoHydration]
  /\ UNCHANGED <<clock, cookie, issuedSessions, revoked, established, marker, login, retry,
                 cookieLock, inbox, events, ended, overtaken>>

(* setUser: a profile change settles.  It refreshes the user shown, and never *)
(* brings one back while a logout is pending.                                 *)
updateAuthenticatedUser(t) ==
  /\ page[t].user # 0
  /\ page' = [page EXCEPT ![t] = IF PendingLogout # 0 THEN Anonymous(@)
                                ELSE [@ EXCEPT !.status = "authenticated"]]
  /\ hydration' = Stale(t)
  /\ UNCHANGED <<clock, cookie, issuedSessions, revoked, established, marker, login, retry,
                 cookieLock, inbox, events, ended, overtaken>>

-----------------------------------------------------------------------------
(* runExclusiveRefresh: the server rejects the refresh token.  The cookies are *)
(* cleared and every tab is told, still inside the lock.                       *)
RefreshRejected(t) ==
  /\ cookieLock = {} /\ cookie \in revoked
  /\ cookie' = 0
  /\ Post(t, [type |-> "rejected", at |-> Max({clock, established + 1})])
  /\ setAnonymous(t)
  /\ UNCHANGED <<clock, issuedSessions, revoked, established, marker, login, retry,
                 cookieLock, events, ended, overtaken>>

Take(t, m) == inbox' = [inbox EXCEPT ![t] = @ \ {m}]

(* onSessionEstablished from a peer: unless a newer logout is pending, forget *)
(* the old identity and ask the server.                                       *)
ReceiveEstablished(t, m) ==
  /\ m.type = "established" /\ Take(t, m)
  /\ IF PendingLogout # 0 /\ PendingLogout >= m.at
       THEN UNCHANGED <<marker, page, hydration>>
       ELSE /\ marker' = 0
            /\ page' = [page EXCEPT ![t] =
                 [Anonymous(@) EXCEPT !.authedAt = Max({page[t].authedAt, m.at})]]
            /\ hydration' = IF hydration[t].pc = "none"
                 THEN [hydration EXCEPT ![t] = [pc |-> "asked", session |-> cookie,
                                                stale |-> FALSE]]
                 ELSE Stale(t)
  /\ UNCHANGED <<clock, cookie, issuedSessions, revoked, established, login, retry,
                 cookieLock, events, ended, overtaken>>

(* onSessionEnded: older than a login this tab knows of, it is ignored; a   *)
(* logout is remembered, so that this tab can retry it.                     *)
ReceiveEnded(t, m) ==
  /\ m.type \in {"logout", "rejected"} /\ Take(t, m)
  /\ IF Max({page[t].authedAt, established}) > m.at
       THEN /\ marker' = IF m.type = "logout" /\ marker = m.at THEN 0 ELSE marker
            /\ UNCHANGED <<page, hydration, retry>>
       ELSE IF m.type = "logout" /\ PendingLogout < m.at
       THEN /\ marker' = m.at
            /\ page' = [page EXCEPT ![t] =
                 [Anonymous(@) EXCEPT !.logoutAt = Max({page[t].logoutAt, m.at})]]
            /\ hydration' = Stale(t)
            /\ retry' = RetryAfter(t, m.at, TRUE)
       ELSE setAnonymous(t) /\ UNCHANGED <<marker, retry>>
  /\ UNCHANGED <<clock, cookie, issuedSessions, revoked, established, login, cookieLock,
                 events, ended, overtaken>>

-----------------------------------------------------------------------------
AuthNext ==
  \E t \in Pages :
       \/ RequestLogout(t) \/ RecoverLogout(t) \/ SendLogout(t) \/ ProcessLogout(t) \/ ConfirmLogout(t)
       \/ BeginLogin(t) \/ notifySessionEstablished(t) \/ LoginFails(t) \/ establishSession(t)
       \/ hydrate(t) \/ AnswerMe(t) \/ ApplyMe(t) \/ updateAuthenticatedUser(t)
       \/ RefreshRejected(t)
       \/ \E m \in inbox[t] : ReceiveEstablished(t, m) \/ ReceiveEnded(t, m)

AuthSpec == AuthInit /\ [][AuthNext]_authVars

-----------------------------------------------------------------------------
(* Every variable has its type. *)
AuthTypeOK ==
  /\ clock \in Nat /\ events \in 0..MaxEvents
  /\ cookie \in 0..issuedSessions /\ issuedSessions \in Nat \ {0}
  /\ revoked \subseteq 1..issuedSessions /\ ended \subseteq 1..issuedSessions
  /\ overtaken \subseteq 0..issuedSessions
  /\ established \in Nat /\ marker \in Nat
  /\ page \in [Pages -> [status : {"unknown", "authenticated", "anonymous", "degraded"},
                         user : 0..issuedSessions, authedAt : Nat, logoutAt : Nat]]
  /\ hydration \in [Pages -> [pc : {"none", "asked", "user", "denied", "failed"},
                              session : 0..issuedSessions, stale : BOOLEAN]]
  /\ login \in [Pages -> {"none", "sent", "issued"}]
  /\ retry \in [Pages -> [pc : {"none", "waiting", "sent", "confirmed"}, at : Nat,
                          queued : BOOLEAN]]
  /\ cookieLock \subseteq Pages
  /\ inbox \in [Pages -> SUBSET [type : {"established", "logout", "rejected"}, at : Nat]]

(* A queued logout never revokes a session that was issued after the user     *)
(* asked to sign out; and a page shows somebody signed in whom the user has   *)
(* signed out, in this or another tab, only while the message that says so is *)
(* on its way to it, or while a login of its own has been answered and the    *)
(* store has yet to take it up.  Excepted are sessions signed out of while    *)
(* another login was at that point (`overtaken`): its establishSession may    *)
(* show the account again.                                                    *)
LogoutHitsItsSession ==
  /\ revoked \subseteq ended
  /\ \A t \in Pages :
       page[t].status = "authenticated" /\ page[t].user \in ended \ overtaken =>
         inbox[t] # {} \/ login[t] = "issued"
=============================================================================
