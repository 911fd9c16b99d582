--------------------------- MODULE RealtimeClient ---------------------------
(***************************************************************************)
(* The browser's realtime connection: RealtimeClient (frontend/lib/        *)
(* realtime-client.ts), the ticket request it opens sockets with           *)
(* (frontend/lib/ws.ts) and RealtimeProvider, which starts, stops and      *)
(* refreshes it as the account, the page's visibility and the network      *)
(* change. Sending messages and their acknowledgements are in Chat.        *)
(*                                                                         *)
(* A socket the client has closed or abandoned raises events that the      *)
(* handlers ignore by identity, so only the current socket is kept.        *)
(***************************************************************************)
EXTENDS Integers, FiniteSets

CONSTANTS
  Accounts,            \* users that sign in on this page
  Rooms,               \* conversations a page shows
  MaxPanels,           \* panels that show one conversation at a time
  CookieFallback,      \* cookieFallbackAllowed()
  MaxGenerations,      \* bound on starts, stops and refreshes
  MaxDrops             \* bound on sockets the network or the server closes

VARIABLES
  browserAccount,        \* auth store: status and user
  clientEnabled, terminal, revalidationRequested, visible, online,  \* the client's fields
  clientGeneration,     \* its generation
  opening,        \* generations with a ticket request or an open in flight
  connectInFlight,
  connection,     \* the current socket: "none", "connecting", "open" or "closing"
  reconnectTimer, \* a reconnect is scheduled
  roomReferences, \* panels that asked for each room since the last stop
  panels,         \* panels mounted on each room
  joined,         \* rooms the current socket has asked the server for
  hydrating,      \* RealtimeProvider's revalidation is in flight
  drops

clientVars == <<clientEnabled, terminal, revalidationRequested, visible, online, clientGeneration, opening,
                connectInFlight, connection, reconnectTimer>>
realtimeVars == <<browserAccount, clientVars, roomReferences, panels, joined, hydrating, drops>>

Nobody == "nobody"
Stopped == ~clientEnabled \/ terminal   \* getSnapshot().status = "stopped"

ASSUME RealtimeAssumption ==
  /\ Nobody \notin Accounts /\ CookieFallback \in BOOLEAN
  /\ MaxPanels \in Nat \ {0} /\ MaxGenerations \in Nat /\ MaxDrops \in Nat

-----------------------------------------------------------------------------
(* RealtimeClient *)

MayConnect(isEnabled, isTerminal, isVisible, isOnline) == isEnabled /\ ~isTerminal /\ isVisible /\ isOnline

(* connect() for the client as the caller leaves it, with no socket and no open *)
(* in flight: it clears the timer and asks for a ticket, or does nothing.       *)
connect(isEnabled, isVisible, isOnline, g) ==
  IF MayConnect(isEnabled, FALSE, isVisible, isOnline)
  THEN opening' = opening \union {g} /\ connectInFlight' = TRUE
  ELSE UNCHANGED opening /\ connectInFlight' = FALSE

(* A new generation abandons the socket, the open in flight and the timer. *)
NextGeneration == clientGeneration < MaxGenerations /\ clientGeneration' = clientGeneration + 1

start ==
  /\ ~clientEnabled
  /\ NextGeneration
  /\ clientEnabled' = TRUE /\ terminal' = FALSE /\ revalidationRequested' = FALSE
  /\ connect(TRUE, visible, online, clientGeneration + 1)
  /\ UNCHANGED <<visible, online, connection, reconnectTimer, roomReferences, joined>>

stop ==
  /\ IF clientEnabled
     THEN /\ NextGeneration
          /\ clientEnabled' = FALSE /\ terminal' = FALSE /\ revalidationRequested' = FALSE
          /\ reconnectTimer' = FALSE /\ connection' = "none" /\ connectInFlight' = FALSE
          /\ joined' = {}
          /\ UNCHANGED <<visible, online, opening>>
     ELSE UNCHANGED <<clientVars, joined>>
  /\ roomReferences' = [r \in Rooms |-> 0]

refreshAuthentication ==
  IF clientEnabled
  THEN /\ NextGeneration
       /\ terminal' = FALSE /\ reconnectTimer' = FALSE /\ connection' = "none" /\ joined' = {}
       /\ connect(TRUE, visible, online, clientGeneration + 1)
       /\ UNCHANGED <<clientEnabled, revalidationRequested, visible, online, roomReferences>>
  ELSE UNCHANGED <<clientVars, roomReferences, joined>>

(* setVisible and setOnline; connectIfWaiting leaves a pending timer alone. *)
connectIfWaiting_Never(isVisible, isOnline) == UNCHANGED <<opening, connectInFlight>>
connectIfWaiting(isVisible, isOnline) ==
  IF /\ MayConnect(clientEnabled, terminal, isVisible, isOnline) /\ connection = "none"
     /\ ~connectInFlight /\ ~reconnectTimer
  THEN connect(clientEnabled, isVisible, isOnline, clientGeneration)
  ELSE UNCHANGED <<opening, connectInFlight>>

SetFlags(isVisible, isOnline, rises) ==
  /\ visible' = isVisible /\ online' = isOnline
  /\ IF rises THEN connectIfWaiting(isVisible, isOnline) ELSE UNCHANGED <<opening,
                                                                          connectInFlight>>
  /\ UNCHANGED <<browserAccount, clientEnabled, terminal, revalidationRequested,
                 clientGeneration, connection, reconnectTimer, roomReferences, panels, joined,
                 hydrating, drops>>

setVisible == SetFlags(~visible, online, ~visible)
setOnline == SetFlags(visible, ~online, ~online)

(* The reconnect timer: it is spent even if connect() then does nothing. *)
ReconnectTimer ==
  /\ reconnectTimer
  /\ reconnectTimer' = FALSE
  /\ IF MayConnect(clientEnabled, terminal, visible, online) /\ connection = "none" /\ ~connectInFlight
     THEN connect(clientEnabled, visible, online, clientGeneration)
     ELSE UNCHANGED <<opening, connectInFlight>>
  /\ UNCHANGED <<browserAccount, clientEnabled, terminal, revalidationRequested, visible,
                 online, clientGeneration, connection, roomReferences, panels, joined,
                 hydrating, drops>>

scheduleReconnect == reconnectTimer' = TRUE /\ UNCHANGED <<terminal, revalidationRequested,
                                                           hydrating>>

(* Once per connection that was lost for good, the provider asks who is signed in. *)
requestTerminalAuthenticationRevalidation ==
  /\ revalidationRequested' = TRUE
  /\ hydrating' = (hydrating \/ ~revalidationRequested)

-----------------------------------------------------------------------------
(* Opening a socket *)

(* The ticket endpoint's answers: "ticket", "auth" (401, 403), "client"     *)
(* (another 4xx), "limited" (429), "server" (5xx or no answer).             *)
TicketAnswers == {"ticket", "auth", "client", "limited", "server"}

normalizeTicketError(answer) == answer \in {"limited", "server"}   \* retryable

openAuthedSocket(answer) == answer = "ticket" \/ (CookieFallback /\ answer = "server")

handleConnectFailure(answer) ==
  IF normalizeTicketError(answer) THEN scheduleReconnect
  ELSE /\ terminal' = TRUE /\ UNCHANGED reconnectTimer
       /\ IF answer = "auth" THEN requestTerminalAuthenticationRevalidation
          ELSE UNCHANGED <<revalidationRequested, hydrating>>

(* An open that belongs to an older generation is closed and forgotten. *)
OpenSettles(g, answer) ==
  /\ opening' = opening \ {g}
  /\ IF g # clientGeneration
     THEN UNCHANGED <<connectInFlight, connection, terminal, revalidationRequested,
                      reconnectTimer, hydrating>>
     ELSE /\ connectInFlight' = FALSE
          /\ IF openAuthedSocket(answer)
             THEN connection' = "connecting" /\ UNCHANGED <<terminal, revalidationRequested,
                                                            reconnectTimer, hydrating>>
             ELSE handleConnectFailure(answer) /\ UNCHANGED connection
  /\ UNCHANGED <<browserAccount, clientEnabled, visible, online, clientGeneration,
                 roomReferences, panels, joined, drops>>

(* handleOpen asks again for every room that is referenced. *)
handleOpen ==
  /\ connection = "connecting"
  /\ connection' = "open" /\ revalidationRequested' = FALSE
  /\ joined' = {r \in Rooms : roomReferences[r] > 0}
  /\ UNCHANGED <<browserAccount, clientEnabled, terminal, visible, online, clientGeneration,
                 opening, connectInFlight, reconnectTimer, roomReferences, panels, hydrating,
                 drops>>

(* The socket closes, with a terminal code (1008, 4001, 4003) or another. *)
handleClose(isTerminal) ==
  /\ connection # "none"
  /\ connection # "closing" => drops < MaxDrops
  /\ drops' = IF connection = "closing" THEN drops ELSE drops + 1
  /\ connection' = "none" /\ joined' = {}
  /\ IF isTerminal
     THEN terminal' = TRUE /\ requestTerminalAuthenticationRevalidation /\ UNCHANGED reconnectTimer
     ELSE scheduleReconnect
  /\ UNCHANGED <<browserAccount, clientEnabled, visible, online, clientGeneration, opening,
                 connectInFlight, roomReferences, panels>>

-----------------------------------------------------------------------------
(* Rooms *)

(* sendControl reaches an open socket, or closes it when the send throws. *)
sendControl(rooms) ==
  IF connection # "open" THEN UNCHANGED <<connection, joined, drops>>
  ELSE \/ joined' = rooms /\ UNCHANGED <<connection, drops>>
       \/ drops < MaxDrops /\ drops' = drops + 1 /\ connection' = "closing" /\ UNCHANGED joined

joinConversation(r) ==
  /\ panels[r] < MaxPanels
  /\ panels' = [panels EXCEPT ![r] = @ + 1]
  /\ roomReferences' = [roomReferences EXCEPT ![r] = @ + 1]
  /\ IF roomReferences[r] = 0 THEN sendControl(joined \union {r}) ELSE UNCHANGED <<connection,
                                                                                   joined,
                                                                                   drops>>
  /\ UNCHANGED <<browserAccount, clientEnabled, terminal, revalidationRequested, visible,
                 online, clientGeneration, opening, connectInFlight, reconnectTimer,
                 hydrating>>

(* A panel's leave function works once, and still after a stop dropped its count. *)
leaveConversation(r) ==
  /\ panels[r] > 0
  /\ panels' = [panels EXCEPT ![r] = @ - 1]
  /\ IF roomReferences[r] > 1
     THEN roomReferences' = [roomReferences EXCEPT ![r] = @ - 1] /\ UNCHANGED <<connection,
                                                                                joined,
                                                                                drops>>
     ELSE roomReferences' = [roomReferences EXCEPT ![r] = 0] /\ sendControl(joined \ {r})
  /\ UNCHANGED <<browserAccount, clientEnabled, terminal, revalidationRequested, visible,
                 online, clientGeneration, opening, connectInFlight, reconnectTimer,
                 hydrating>>

-----------------------------------------------------------------------------
(* RealtimeProvider *)

SignedIn(a) == a.user # Nobody /\ a.status \in {"authenticated", "degraded"}

(* Its effect, for the account before and after a change. *)
RealtimeProvider(before, after) ==
  IF SignedIn(after)
  THEN IF \/ before.user # Nobody /\ before.user # after.user
          \/ after.status = "authenticated" /\ before.status = "degraded" /\ Stopped
       THEN refreshAuthentication
       ELSE start \/ (clientEnabled /\ UNCHANGED <<clientVars, roomReferences, joined>>)
  ELSE stop

AccountStates ==
  {[status |-> "anonymous", user |-> Nobody]} \union [status : {"authenticated", "degraded"}, user : Accounts]

AccountChanges ==
  \E next \in AccountStates \ {browserAccount} :
    /\ browserAccount' = next
    /\ RealtimeProvider(browserAccount, next)
    /\ UNCHANGED <<panels, hydrating, drops>>

(* Another call of the API refreshed the access token. *)
AuthenticationRefreshed ==
  /\ SignedIn(browserAccount)
  /\ refreshAuthentication
  /\ UNCHANGED <<browserAccount, panels, hydrating, drops>>

(* hydrate() answers; a change of account is AccountChanges' own step. *)
Hydrated ==
  /\ hydrating
  /\ hydrating' = FALSE
  /\ IF browserAccount.status = "authenticated" /\ Stopped THEN refreshAuthentication
     ELSE UNCHANGED <<clientVars, roomReferences, joined>>
  /\ UNCHANGED <<browserAccount, panels, drops>>

-----------------------------------------------------------------------------

RealtimeInit ==
  /\ browserAccount = [status |-> "anonymous", user |-> Nobody]
  /\ clientEnabled = FALSE /\ terminal = FALSE /\ revalidationRequested = FALSE
  /\ visible \in BOOLEAN /\ online \in BOOLEAN
  /\ clientGeneration = 0 /\ opening = {} /\ connectInFlight = FALSE /\ connection = "none"
  /\ reconnectTimer = FALSE /\ hydrating = FALSE /\ drops = 0
  /\ roomReferences = [r \in Rooms |-> 0] /\ panels = [r \in Rooms |-> 0] /\ joined = {}

RealtimeNext ==
  \/ AccountChanges \/ AuthenticationRefreshed \/ Hydrated
  \/ setVisible \/ setOnline \/ ReconnectTimer
  \/ \E g \in opening, answer \in TicketAnswers : OpenSettles(g, answer)
  \/ handleOpen
  \/ \E isTerminal \in BOOLEAN : handleClose(isTerminal)
  \/ \E r \in Rooms : joinConversation(r) \/ leaveConversation(r)

RealtimeSpec == RealtimeInit /\ [][RealtimeNext]_realtimeVars

(* Type invariant. *)
RealtimeTypeOK ==
  /\ browserAccount \in AccountStates
  /\ {clientEnabled, terminal, revalidationRequested, visible, online, connectInFlight, reconnectTimer, hydrating}
       \subseteq BOOLEAN
  /\ clientGeneration \in 0 .. MaxGenerations /\ opening \subseteq 0 .. MaxGenerations
  /\ connection \in {"none", "connecting", "open", "closing"}
  /\ roomReferences \in [Rooms -> 0 .. MaxPanels] /\ panels \in [Rooms -> 0 .. MaxPanels]
  /\ joined \subseteq Rooms /\ drops \in 0 .. MaxDrops

(* A page is never left without realtime by accident: whenever a signed-in   *)
(* page is visible and online and was not refused for good, it has a socket, *)
(* an open in flight or a reconnect scheduled, whatever order timers, late   *)
(* tickets, visibility, network and account changes arrived in; and an open  *)
(* socket has asked for exactly the rooms the client has references to.      *)
ConnectionRecovers ==
  /\ MayConnect(clientEnabled, terminal, visible, online) /\ connection = "none"
       => connectInFlight \/ reconnectTimer
  /\ connectInFlight => clientGeneration \in opening
  /\ connection = "open" => joined = {r \in Rooms : roomReferences[r] > 0}
=============================================================================
