------------------------------ MODULE Sockets -------------------------------
(***************************************************************************)
(* The WebSocket server of one API replica: chat/ws.service.ts with        *)
(* auth/ws-ticket.service.ts, auth/session-events.service.ts,              *)
(* realtime/realtime-event-bus.service.ts and presence.service.ts.         *)
(*                                                                         *)
(* The sockets belong to one refresh family of one account.  A handshake   *)
(* awaits Redis and the database several times; meanwhile the family may   *)
(* be revoked (Redis), the account's session version may change            *)
(* (database), the peer may go away and the process may shut down.         *)
(***************************************************************************)
EXTENDS Naturals, FiniteSets

CONSTANTS
  Sockets,                   \* connections that may be opened
  MAX_CONNECTIONS_PER_USER,
  MaxRevocations,            \* bound: revocations of the session or the account
  MaxPending,                \* bound: frames in progress over all sockets
  MaxSocketFaults            \* bound: Redis or database calls that fail

ASSUME SocketsAssumption ==
  /\ MAX_CONNECTIONS_PER_USER \in Nat \ {0}
  /\ MaxRevocations \in Nat /\ MaxPending \in Nat \ {0} /\ MaxSocketFaults \in Nat

VARIABLES
  shake,       \* where the connection handler of a socket stands
  ready,       \* readyState
  registered,  \* sockets in clientsByUser, clientsByJti and clientsByFamily
  joined,      \* sockets in a room of clientsByConversation
  presence,    \* sockets with a presence record
  cleanup,     \* cleanupConnection of a socket
  frame,       \* the message handler of a socket
  lateFrame,   \* the frame in progress arrived after a revocation
  revocation,  \* the two kinds of revocation and their event at this replica
  sweep,       \* the security sweep: snapshot and progress
  shuttingDown, drained, socketFaults

socketVars == <<shake, ready, registered, joined, presence, cleanup, frame, lateFrame,
                revocation, sweep, shuttingDown, drained, socketFaults>>

(* "family": the family record in Redis; "epoch": users.session_version or  *)
(* is_banned in PostgreSQL.                                                 *)
RevocationKinds == {"family", "epoch"}

Durable(kind) == revocation[kind] # "none"

NoSweep == [pc |-> "idle", clients |-> {}]

SocketsInit ==
  /\ shake = [s \in Sockets |-> "none"]
  /\ ready = [s \in Sockets |-> "none"]
  /\ registered = {}
  /\ joined = {}
  /\ presence = {}
  /\ cleanup = [s \in Sockets |-> "none"]
  /\ frame = [s \in Sockets |-> "idle"]
  /\ lateFrame = [s \in Sockets |-> FALSE]
  /\ revocation = [k \in RevocationKinds |-> "none"]
  /\ sweep = NoSweep
  /\ shuttingDown = FALSE
  /\ drained = FALSE
  /\ socketFaults = 0

SocketFault ==
  /\ socketFaults < MaxSocketFaults
  /\ socketFaults' = socketFaults + 1

(* client.close(): a socket that is not open any more is left alone. *)
Closing(S) == [s \in Sockets |-> IF s \in S /\ ready[s] = "open" THEN "closing" ELSE ready[s]]

-----------------------------------------------------------------------------
(* Handshake *)

(* Accepted or, once the shutdown gate is closed, turned away. *)
Connect(s) ==
  /\ shake[s] = "none" /\ ~drained
  /\ IF shuttingDown
       THEN /\ shake' = [shake EXCEPT ![s] = "ended"]
            /\ ready' = [ready EXCEPT ![s] = "closing"]
       ELSE /\ shake' = [shake EXCEPT ![s] = "session"]
            /\ ready' = [ready EXCEPT ![s] = "open"]
  /\ UNCHANGED <<registered, joined, presence, cleanup, frame, lateFrame, revocation, sweep,
                 shuttingDown, drained, socketFaults>>

(* The handler throws: the socket is closed and the handler ends. *)
RejectHandshake(s) ==
  /\ shake' = [shake EXCEPT ![s] = "ended"]
  /\ ready' = Closing({s})

(* The session and its family as Redis knows them. *)
authenticateSocket == ~Durable("family")

(* authenticateHandshake: the one-time ticket or the cookie names the session, *)
(* whose key and family are looked up in Redis.                                *)
CheckSession(s) ==
  /\ shake[s] = "session"
  /\ \/ /\ ~authenticateSocket \/ shuttingDown
        /\ RejectHandshake(s) /\ UNCHANGED socketFaults
     \/ SocketFault /\ RejectHandshake(s)
     \/ /\ authenticateSocket /\ ~shuttingDown
        /\ shake' = [shake EXCEPT ![s] = "account"]
        /\ UNCHANGED <<ready, socketFaults>>
  /\ UNCHANGED <<registered, joined, presence, cleanup, frame, lateFrame, revocation, sweep,
                 shuttingDown, drained>>

(* verifyUserAlive: not banned, and the session version is the token's. *)
verifyUserAlive == ~Durable("epoch")

(* The answer of the database.  The handler goes on without another await: the *)
(* maps are filled before the final check is asked for.                        *)
RegisterSocket(s) ==
  /\ shake[s] = "account"
  /\ \/ /\ \/ ~verifyUserAlive \/ shuttingDown
           \/ ready[s] = "open" /\ Cardinality(registered) >= MAX_CONNECTIONS_PER_USER
        /\ RejectHandshake(s)
        /\ UNCHANGED registered
     \/ /\ verifyUserAlive /\ ~shuttingDown /\ ready[s] # "open"
        /\ shake' = [shake EXCEPT ![s] = "ended"]
        /\ UNCHANGED <<ready, registered>>
     \/ /\ verifyUserAlive /\ ~shuttingDown /\ ready[s] = "open"
        /\ Cardinality(registered) < MAX_CONNECTIONS_PER_USER
        /\ registered' = registered \cup {s}
        /\ shake' = [shake EXCEPT ![s] = "registered"]
        /\ UNCHANGED ready
  /\ UNCHANGED <<joined, presence, cleanup, frame, lateFrame, revocation, sweep, shuttingDown,
                 drained, socketFaults>>

(* The maps by user, session, family and conversation forget the socket. *)
leaveAll(s) ==
  /\ registered' = registered \ {s}
  /\ joined' = IF s \in registered THEN joined \ {s} ELSE joined

(* cleanupConnection: the maps are left at once; the presence record, if its *)
(* registration has been started, is removed after that has been answered.   *)
StartCleanup(s) ==
  IF cleanup[s] = "none"
    THEN /\ leaveAll(s)
         /\ cleanup' = [cleanup EXCEPT ![s] =
              IF shake[s] \in {"presence", "present", "open"} \/ s \in presence
                THEN "awaiting" ELSE "done"]
    ELSE UNCHANGED <<registered, joined, cleanup>>

(* The socket still stands: presence is asked for before it is admitted. *)
BeginPresence(s) ==
  IF ready[s] # "open"
    THEN shake' = [shake EXCEPT ![s] = "ended"] /\ StartCleanup(s)
    ELSE /\ shake' = [shake EXCEPT ![s] = "presence"]
         /\ UNCHANGED <<registered, joined, cleanup>>

(* Mutant: the session was checked a moment ago, so it is not looked up again. *)
FinalCheck_Skipped(s) ==
  /\ shake[s] = "registered"
  /\ BeginPresence(s)
  /\ UNCHANGED <<ready, presence, frame, lateFrame, revocation, sweep, shuttingDown, drained,
                 socketFaults>>

(* findRevokedRealtimeClients([client]): revoked, or Redis can not tell. *)
FinalCheck(s) ==
  /\ shake[s] = "registered"
  /\ \/ /\ Durable("family")
        /\ RejectHandshake(s)
        /\ UNCHANGED <<registered, joined, cleanup, socketFaults>>
     \/ /\ SocketFault /\ RejectHandshake(s)
        /\ UNCHANGED <<registered, joined, cleanup>>
     \/ /\ ~Durable("family")
        /\ BeginPresence(s)
        /\ UNCHANGED <<ready, socketFaults>>
  /\ UNCHANGED <<presence, frame, lateFrame, revocation, sweep, shuttingDown, drained>>

(* PresenceService.register: the record is written with a time to live; a      *)
(* failure is logged and leaves the connection without a record until the next *)
(* heartbeat.                                                                  *)
RegisterPresence(s) ==
  /\ shake[s] = "presence"
  /\ shake' = [shake EXCEPT ![s] = "present"]
  /\ \/ presence' = presence \cup {s} /\ UNCHANGED socketFaults
     \/ SocketFault /\ UNCHANGED presence
  /\ UNCHANGED <<ready, registered, joined, cleanup, frame, lateFrame, revocation, sweep,
                 shuttingDown, drained>>

(* The handler resumes: the socket is admitted and told so, unless it is gone *)
(* or the process is stopping.                                                *)
Admit(s) ==
  /\ shake[s] = "present"
  /\ \/ /\ shuttingDown
        /\ RejectHandshake(s)
        /\ UNCHANGED <<registered, joined, cleanup>>
     \/ /\ ~shuttingDown /\ ready[s] # "open"
        /\ StartCleanup(s)
        /\ shake' = [shake EXCEPT ![s] = "ended"]
        /\ UNCHANGED ready
     \/ /\ ~shuttingDown /\ ready[s] = "open"
        /\ shake' = [shake EXCEPT ![s] = "open"]
        /\ UNCHANGED <<ready, registered, joined, cleanup>>
  /\ UNCHANGED <<presence, frame, lateFrame, revocation, sweep, shuttingDown, drained,
                 socketFaults>>

(* The heartbeat writes the records of the connections it knows again. *)
PresenceHeartbeat(s) ==
  /\ shake[s] = "open" /\ cleanup[s] = "none" /\ s \notin presence
  /\ presence' = presence \cup {s}
  /\ UNCHANGED <<shake, ready, registered, joined, cleanup, frame, lateFrame, revocation,
                 sweep, shuttingDown, drained, socketFaults>>

-----------------------------------------------------------------------------
(* Closing.  The close event follows client.close(), a lost peer, or a missed *)
(* pong.                                                                      *)
CloseEvent(s) ==
  /\ ready[s] \in {"open", "closing"}
  /\ ready' = [ready EXCEPT ![s] = "closed"]
  /\ StartCleanup(s)
  /\ UNCHANGED <<shake, presence, frame, lateFrame, revocation, sweep, shuttingDown, drained,
                 socketFaults>>

(* The registration has been answered; the record is removed. *)
UnregisterPresence(s) ==
  /\ cleanup[s] = "awaiting" /\ shake[s] # "presence"
  /\ presence' = presence \ {s}
  /\ cleanup' = [cleanup EXCEPT ![s] = "done"]
  /\ UNCHANGED <<shake, ready, registered, joined, frame, lateFrame, revocation, sweep,
                 shuttingDown, drained, socketFaults>>

-----------------------------------------------------------------------------
(* Frames *)

(* A frame within the budgets of frames and of concurrent handlers. *)
FrameArrives(s) ==
  /\ shake[s] = "open" /\ ready[s] = "open" /\ frame[s] = "idle" /\ ~shuttingDown
  /\ Cardinality({c \in Sockets : frame[c] # "idle"}) < MaxPending
  /\ frame' = [frame EXCEPT ![s] = "session"]
  /\ lateFrame' = [lateFrame EXCEPT ![s] = \E k \in RevocationKinds : Durable(k)]
  /\ UNCHANGED <<shake, ready, registered, joined, presence, cleanup, revocation, sweep,
                 shuttingDown, drained, socketFaults>>

(* A frame flood, or a send buffer that does not drain, closes the socket. *)
CloseAbusive(s) ==
  /\ shake[s] = "open" /\ ready[s] = "open"
  /\ ready' = Closing({s})
  /\ UNCHANGED <<shake, registered, joined, presence, cleanup, frame, lateFrame, revocation,
                 sweep, shuttingDown, drained, socketFaults>>

EndFrame(s) ==
  /\ frame' = [frame EXCEPT ![s] = "idle"]
  /\ lateFrame' = [lateFrame EXCEPT ![s] = FALSE]

(* The durable fallback of the event: tombstone and family, or no answer. *)
FrameSession(s) ==
  /\ frame[s] = "session"
  /\ \/ /\ Durable("family")
        /\ EndFrame(s) /\ ready' = Closing({s})
        /\ UNCHANGED socketFaults
     \/ /\ SocketFault
        /\ EndFrame(s)
        /\ ready' = IF shuttingDown THEN ready ELSE Closing({s})
     \/ /\ ~Durable("family")
        /\ frame' = [frame EXCEPT ![s] = "account"]
        /\ UNCHANGED <<ready, lateFrame, socketFaults>>
  /\ UNCHANGED <<shake, registered, joined, presence, cleanup, revocation, sweep,
                 shuttingDown, drained>>

(* verifyUserAlive once more, then the frame is dispatched by its type. *)
FrameAccount(s) ==
  /\ frame[s] = "account"
  /\ \/ /\ shuttingDown
        /\ EndFrame(s) /\ UNCHANGED <<ready, joined>>
     \/ /\ ~shuttingDown /\ ~verifyUserAlive
        /\ EndFrame(s) /\ ready' = Closing({s}) /\ UNCHANGED joined
     \/ /\ ~shuttingDown /\ verifyUserAlive
        /\ \/ frame' = [frame EXCEPT ![s] = "access"] /\ UNCHANGED <<joined, lateFrame>>
           \/ frame' = [frame EXCEPT ![s] = "sending"] /\ UNCHANGED <<joined, lateFrame>>
           \/ EndFrame(s) /\ joined' = joined \ {s}
        /\ UNCHANGED ready
  /\ UNCHANGED <<shake, registered, presence, cleanup, revocation, sweep, shuttingDown,
                 drained, socketFaults>>

(* join_conversation after canAccessConversation.  The socket may have been     *)
(* closed and cleaned up in the meantime: it is added to the room all the same. *)
CompleteJoin(s) ==
  /\ frame[s] = "access"
  /\ EndFrame(s)
  /\ joined' \in IF shuttingDown THEN {joined} ELSE {joined, joined \cup {s}, joined \ {s}}
  /\ UNCHANGED <<shake, ready, registered, presence, cleanup, revocation, sweep, shuttingDown,
                 drained, socketFaults>>

(* message: sendMessageIdempotently (module Chat) and the acknowledgement. *)
CompleteSend(s) ==
  /\ frame[s] = "sending"
  /\ EndFrame(s)
  /\ UNCHANGED <<shake, ready, registered, joined, presence, cleanup, revocation, sweep,
                 shuttingDown, drained, socketFaults>>

-----------------------------------------------------------------------------
(* Revocation (module Sessions) and its event *)

Revoke(kind) ==
  /\ revocation[kind] = "none"
  /\ Cardinality({k \in RevocationKinds : Durable(k)}) < MaxRevocations
  /\ revocation' = [revocation EXCEPT ![kind] = "durable"]
  /\ UNCHANGED <<shake, ready, registered, joined, presence, cleanup, frame, lateFrame, sweep,
                 shuttingDown, drained, socketFaults>>

(* The event reaches this replica, by the local dispatch of publish or by Redis *)
(* pub/sub, and closes what the maps name.                                      *)
DispatchRevocation(kind) ==
  /\ revocation[kind] = "durable"
  /\ revocation' = [revocation EXCEPT ![kind] = "dispatched"]
  /\ ready' = Closing(registered)
  /\ UNCHANGED <<shake, registered, joined, presence, cleanup, frame, lateFrame, sweep,
                 shuttingDown, drained, socketFaults>>

(* Pub/sub delivers at most once: the subscription may be down. *)
LoseRevocation(kind) ==
  /\ revocation[kind] = "durable"
  /\ SocketFault
  /\ revocation' = [revocation EXCEPT ![kind] = "lost"]
  /\ UNCHANGED <<shake, ready, registered, joined, presence, cleanup, frame, lateFrame, sweep,
                 shuttingDown, drained>>

(* Mutant: only the Redis half of the sweep closes sockets. *)
RevokedClients_RedisOnly(clients) == IF Durable("family") THEN clients ELSE {}

(* findStaleSessionVersionClients and findRevokedRealtimeClients. *)
RevokedClients(clients) ==
  IF \E k \in RevocationKinds : Durable(k) THEN clients ELSE {}

(* Every 30 s: the clients known now are checked against both stores. *)
StartSweep ==
  /\ sweep.pc = "idle" /\ ~shuttingDown /\ registered # {}
  /\ sweep' = [pc |-> "reading", clients |-> {s \in registered : ready[s] = "open"}]
  /\ UNCHANGED <<shake, ready, registered, joined, presence, cleanup, frame, lateFrame,
                 revocation, shuttingDown, drained, socketFaults>>

EvaluateSweep ==
  /\ sweep.pc = "reading"
  /\ \/ sweep' = [pc |-> "closing", clients |-> RevokedClients(sweep.clients)]
        /\ UNCHANGED socketFaults
     \/ SocketFault /\ sweep' = [pc |-> "closing", clients |-> {}]
  /\ UNCHANGED <<shake, ready, registered, joined, presence, cleanup, frame, lateFrame,
                 revocation, shuttingDown, drained>>

CloseSwept ==
  /\ sweep.pc = "closing"
  /\ ready' = Closing(sweep.clients)
  /\ sweep' = NoSweep
  /\ UNCHANGED <<shake, registered, joined, presence, cleanup, frame, lateFrame, revocation,
                 shuttingDown, drained, socketFaults>>

-----------------------------------------------------------------------------
(* Shutdown *)

BeginShutdown ==
  /\ ~shuttingDown
  /\ shuttingDown' = TRUE
  /\ ready' = Closing(Sockets)
  /\ UNCHANGED <<shake, registered, joined, presence, cleanup, frame, lateFrame, revocation,
                 sweep, drained, socketFaults>>

(* Mutant: the cleanup that a close event starts is not counted. *)
ActiveHandlers_NoCleanup ==
  {s \in Sockets : shake[s] \notin {"none", "open", "ended"} \/ frame[s] # "idle"}

(* What activeHandlers counts: handshakes, frames and the cleanup of closed *)
(* sockets.                                                                 *)
ActiveHandlers ==
  {s \in Sockets : \/ shake[s] \notin {"none", "open", "ended"}
                   \/ frame[s] # "idle"
                   \/ ready[s] = "closed" /\ cleanup[s] # "done"}

(* All sockets closed, then no handler left: the runtime reports drained. *)
Drain ==
  /\ shuttingDown /\ ~drained
  /\ \A s \in Sockets : ready[s] \in {"none", "closed"}
  /\ ActiveHandlers = {} /\ sweep.pc = "idle"
  /\ drained' = TRUE
  /\ UNCHANGED <<shake, ready, registered, joined, presence, cleanup, frame, lateFrame,
                 revocation, sweep, shuttingDown, socketFaults>>

-----------------------------------------------------------------------------
HandshakeStep(s) ==
  \/ CheckSession(s) \/ RegisterSocket(s) \/ FinalCheck(s)
  \/ RegisterPresence(s) \/ Admit(s)

FrameStep(s) == FrameSession(s) \/ FrameAccount(s) \/ CompleteJoin(s) \/ CompleteSend(s)

SweepStep == StartSweep \/ EvaluateSweep \/ CloseSwept

SocketsNext ==
  \/ \E s \in Sockets :
       \/ Connect(s) \/ HandshakeStep(s) \/ PresenceHeartbeat(s)
       \/ CloseEvent(s) \/ UnregisterPresence(s)
       \/ FrameArrives(s) \/ CloseAbusive(s) \/ FrameStep(s)
  \/ \E k \in RevocationKinds : Revoke(k) \/ DispatchRevocation(k) \/ LoseRevocation(k)
  \/ SweepStep \/ BeginShutdown \/ Drain

(* Calls return or fail, a socket that is being closed ends (ws destroys it *)
(* after a timeout), and the sweep is a timer.                              *)
SocketsFairness ==
  /\ WF_socketVars(SweepStep)
  /\ WF_socketVars(\E s \in Sockets : ready[s] = "closing" /\ CloseEvent(s))

SocketsSpec == SocketsInit /\ [][SocketsNext]_socketVars /\ SocketsFairness

-----------------------------------------------------------------------------
(* Every variable has its type. *)
SocketsTypeOK ==
  /\ shake \in [Sockets -> {"none", "session", "account", "registered",
                            "presence", "present", "open", "ended"}]
  /\ ready \in [Sockets -> {"none", "open", "closing", "closed"}]
  /\ registered \subseteq Sockets /\ joined \subseteq Sockets /\ presence \subseteq Sockets
  /\ cleanup \in [Sockets -> {"none", "awaiting", "done"}]
  /\ frame \in [Sockets -> {"idle", "session", "account", "access", "sending"}]
  /\ lateFrame \in [Sockets -> BOOLEAN]
  /\ revocation \in [RevocationKinds -> {"none", "durable", "dispatched", "lost"}]
  /\ sweep \in [pc : {"idle", "reading", "closing"}, clients : SUBSET Sockets]
  /\ shuttingDown \in BOOLEAN /\ drained \in BOOLEAN
  /\ socketFaults \in 0..MaxSocketFaults

(* Once the event of a revoked family has been handled here, no admitted     *)
(* socket of the family is left open: one that was still in its handshake is *)
(* either in the maps already or meets the final check.  And a frame that    *)
(* arrives after a revocation of either kind changes nothing, event or not.  *)
RevocationReachesSockets ==
  /\ revocation["family"] = "dispatched" =>
       \A s \in Sockets : shake[s] = "open" => ready[s] # "open"
  /\ \A s \in Sockets : lateFrame[s] => frame[s] \notin {"access", "sending"}

(* When the runtime reports that it has drained, no socket is in a map and no *)
(* presence record of this replica is left behind, whatever was pending.  A   *)
(* room may still list a closed socket (see CompleteJoin): `joined` is not    *)
(* spoken of.                                                                 *)
DrainLeavesNothing == drained => registered = {} /\ presence = {}

(* Once the session or the account is revoked, every socket that was admitted   *)
(* is closed in the end, even if the event was lost and it never sends a frame. *)
RevokedSocketsClose ==
  (\E s \in Sockets, k \in RevocationKinds : shake[s] = "open" /\ Durable(k))
    ~> \A s \in Sockets : shake[s] = "open" => ready[s] = "closed"
=============================================================================
