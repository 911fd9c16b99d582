------------------------------ MODULE EventBus ------------------------------
(***************************************************************************)
(* Realtime events on their way to a page: RealtimeEventBus (local         *)
(* dispatch, Redis pub/sub, the bounded memory of remote ids), the         *)
(* delivery to the sockets of a replica (ws.service.ts) and the toasts of  *)
(* the page (ToastCenter.tsx).  The outbox publishes an event again when   *)
(* its handler fails, from whichever process takes it then.  A process     *)
(* without Redis behaves as one whose publishes are all refused.           *)
(***************************************************************************)
EXTENDS Naturals, Sequences, SequencesExt, FiniteSetsExt

CONSTANTS
  Replicas,                        \* processes with a bus
  Alerts,                          \* notifications: published under their row's id
  OrderEvents,                     \* order events: published under a new id each time
  REMOTE_EVENT_DEDUP_MAX_ENTRIES,
  MAX_TOASTS,
  MaxPublishes,                    \* bound: publishes of all events
  MaxBusFaults                     \* bound: connections and publishes that fail

BusEvents == Alerts \union OrderEvents
NoReplica == "none"

ASSUME EventBusAssumption ==
  /\ Alerts \intersect OrderEvents = {} /\ NoReplica \notin Replicas
  /\ {REMOTE_EVENT_DEDUP_MAX_ENTRIES, MAX_TOASTS, MaxPublishes} \subseteq Nat \ {0}
  /\ MaxBusFaults \in Nat

VARIABLES
  bus,       \* of each replica: started, subscribed, seenRemoteEventIds (oldest first)
  wire,      \* messages Redis has sent a subscriber and it has not read
  publishing,\* of each event: how often published, from where, and how that stands
  viewer,      \* the page's replica, whether a user is signed in, and seenRef
  toasts,    \* the toasts on the page, newest first
  pops,      \* how often an event's toast was put on the page (history)
  owed,      \* ids new to the page's replica, sent to it over connections that held
             \* since (history)
  busFaults

busVars == <<bus, wire, publishing, viewer, toasts, pops, owed, busFaults>>

EventId(e, n) == [event |-> e, publish |-> IF e \in Alerts THEN 0 ELSE n]
EventIds == {EventId(e, n) : e \in BusEvents, n \in 0 .. MaxPublishes}

BusInit ==
  /\ bus = [r \in Replicas |-> [started |-> FALSE, subscribed |-> FALSE, seen |-> <<>>, stopped |-> FALSE]]
  /\ wire = [r \in Replicas |-> <<>>]
  /\ publishing = [e \in BusEvents |-> [state |-> "new", count |-> 0, source |-> NoReplica]]
  /\ viewer = [at |-> NoReplica, user |-> TRUE, seen |-> {}]
  /\ toasts = <<>>
  /\ pops = [e \in BusEvents |-> 0]
  /\ owed = {}
  /\ busFaults = 0

BusFault == busFaults < MaxBusFaults /\ busFaults' = busFaults + 1

-----------------------------------------------------------------------------
(* The page *)

(* The toast of a notification has the notification's id; that of an order  *)
(* event carries the time, so each delivery makes another.                  *)
ToastId(id) == IF id.event \in Alerts THEN id ELSE [id EXCEPT !.publish = pops[id.event] + 1]

(* Mutant: the ids already shown are not remembered. *)
pushToast_Unseen(toast) ==
  /\ viewer' = viewer
  /\ toasts' = SubSeq(<<toast>> \o toasts, 1, MAX_TOASTS)
  /\ pops' = [pops EXCEPT ![toast.event] = @ + 1]

pushToast(toast) ==
  IF toast \in viewer.seen THEN UNCHANGED <<viewer, toasts, pops>>
  ELSE /\ viewer' = [viewer EXCEPT !.seen = @ \union {toast}]
       /\ toasts' = SubSeq(<<toast>> \o toasts, 1, MAX_TOASTS)
       /\ pops' = [pops EXCEPT ![toast.event] = @ + 1]

(* The handler of a replica: its sockets of that user, and the page's listener, *)
(* which is there while a user is signed in.                                    *)
deliverRealtimeEventLocally(r, id) ==
  IF viewer.at = r /\ viewer.user THEN pushToast(ToastId(id)) ELSE UNCHANGED <<viewer, toasts,
                                                                               pops>>

Without(s, toast) == SelectSeq(s, LAMBDA t : t # toast)

dismiss ==
  /\ \E toast \in Range(toasts) : toasts' = Without(toasts, toast)
  /\ UNCHANGED <<bus, wire, publishing, viewer, pops, owed, busFaults>>

PageConnects(r) ==
  /\ viewer.at = NoReplica /\ viewer.user /\ bus[r].started
  /\ viewer' = [viewer EXCEPT !.at = r]
  /\ UNCHANGED <<bus, wire, publishing, toasts, pops, owed, busFaults>>

PageDrops ==
  /\ viewer.at # NoReplica
  /\ viewer' = [viewer EXCEPT !.at = NoReplica]
  /\ owed' = {}
  /\ UNCHANGED <<bus, wire, publishing, toasts, pops, busFaults>>

(* Signing out empties the list, and keeps seenRef: the component stays mounted. *)
UserChanges ==
  /\ viewer' = [viewer EXCEPT !.user = ~@, !.at = NoReplica]
  /\ toasts' = IF viewer.user THEN <<>> ELSE toasts
  /\ owed' = {}
  /\ UNCHANGED <<bus, wire, publishing, pops, busFaults>>

-----------------------------------------------------------------------------
(* The bus *)

StartBus(r) ==
  /\ ~bus[r].started /\ ~bus[r].stopped
  /\ bus' = [bus EXCEPT ![r].started = TRUE]
  /\ UNCHANGED <<wire, publishing, viewer, toasts, pops, owed, busFaults>>

(* On start and on every "ready" of the connection. *)
ensureSubscribed(r) ==
  /\ bus[r].started /\ ~bus[r].subscribed
  /\ bus' = [bus EXCEPT ![r].subscribed = TRUE]
  /\ UNCHANGED <<wire, publishing, viewer, toasts, pops, owed, busFaults>>

OwedAt(r) == IF viewer.at = r THEN {} ELSE owed

SubscriberDrops(r) ==
  /\ bus[r].subscribed /\ BusFault
  /\ bus' = [bus EXCEPT ![r].subscribed = FALSE]
  /\ wire' = [wire EXCEPT ![r] = <<>>]
  /\ owed' = OwedAt(r)
  /\ UNCHANGED <<publishing, viewer, toasts, pops>>

(* The process ends after it: its sockets are gone by then. *)
StopBus(r) ==
  /\ bus[r].started /\ viewer.at # r
  /\ bus' = [bus EXCEPT ![r] = [started |-> FALSE, subscribed |-> FALSE, seen |-> <<>>, stopped |-> TRUE]]
  /\ wire' = [wire EXCEPT ![r] = <<>>]
  /\ UNCHANGED <<publishing, viewer, toasts, pops, owed, busFaults>>

TotalPublishes == SumFunction([e \in BusEvents |-> publishing[e].count])

(* publish: this process first, then Redis. *)
dispatchLocal(e, r) ==
  /\ publishing[e].state # "sending" /\ TotalPublishes < MaxPublishes
  /\ publishing' = [publishing EXCEPT ![e] = [state |-> "sending", count |-> @.count + 1, source |-> r]]
  /\ deliverRealtimeEventLocally(r, EventId(e, publishing[e].count + 1))
  /\ UNCHANGED <<bus, wire, owed, busFaults>>

Subscribers == {r \in Replicas : bus[r].subscribed}

Sent(e) ==
  LET id == EventId(e, publishing[e].count)
      source == publishing[e].source
  IN  /\ wire' = [r \in Replicas |->
                    IF r \in Subscribers THEN Append(wire[r], [id |-> id, source |-> source]) ELSE wire[r]]
      /\ owed' = IF viewer.at \in Subscribers \ {source} /\ viewer.user /\ id \notin Range(bus[viewer.at].seen)
                 THEN owed \union {id} ELSE owed

(* Redis takes it; the handler may still fail later and the outbox publish again. *)
PublishAccepted(e) ==
  /\ publishing[e].state = "sending"
  /\ Sent(e)
  /\ publishing' = [publishing EXCEPT ![e].state = "published"]
  /\ UNCHANGED <<bus, viewer, toasts, pops, busFaults>>

(* The call fails, before or after Redis took the message: a strict caller throws. *)
PublishFails(e) ==
  /\ publishing[e].state = "sending" /\ BusFault
  /\ Sent(e) \/ UNCHANGED <<wire, owed>>
  /\ publishing' = [publishing EXCEPT ![e].state = "failed"]
  /\ UNCHANGED <<bus, viewer, toasts, pops>>

(* The ids a replica remembers after a new one: the oldest make room. *)
rememberRemoteEvent(seen, id) ==
  LET kept == IF Len(seen) >= REMOTE_EVENT_DEDUP_MAX_ENTRIES
              THEN SubSeq(seen, Len(seen) - REMOTE_EVENT_DEDUP_MAX_ENTRIES + 2, Len(seen))
              ELSE seen
  IN  Append(kept, id)

(* Its own echo, and an id it remembers. *)
Ignored(r, m) == ~bus[r].started \/ m.source = r \/ m.id \in Range(bus[r].seen)

consume(r) ==
  LET m == Head(wire[r])
  IN  /\ wire[r] # <<>>
      /\ wire' = [wire EXCEPT ![r] = Tail(@)]
      /\ IF Ignored(r, m) THEN UNCHANGED <<bus, viewer, toasts, pops>>
         ELSE /\ bus' = [bus EXCEPT ![r].seen = rememberRemoteEvent(@, m.id)]
              /\ deliverRealtimeEventLocally(r, m.id)
      /\ UNCHANGED <<publishing, owed, busFaults>>

(* REMOTE_EVENT_DEDUP_TTL_MS: the oldest id is the first to expire. *)
RememberedExpires(r) ==
  /\ bus[r].seen # <<>>
  /\ bus' = [bus EXCEPT ![r].seen = Tail(@)]
  /\ UNCHANGED <<wire, publishing, viewer, toasts, pops, owed, busFaults>>

BusNext ==
  \/ dismiss \/ PageDrops \/ UserChanges
  \/ \E r \in Replicas :
       PageConnects(r) \/ StartBus(r) \/ ensureSubscribed(r) \/ SubscriberDrops(r) \/ StopBus(r)
         \/ consume(r) \/ RememberedExpires(r)
  \/ \E e \in BusEvents :
       (\E r \in Replicas : dispatchLocal(e, r)) \/ PublishAccepted(e) \/ PublishFails(e)

BusSpec == BusInit /\ [][BusNext]_busVars

-----------------------------------------------------------------------------

(* Type invariant. *)
BusTypeOK ==
  /\ \A r \in Replicas :
       /\ bus[r].started \in BOOLEAN /\ bus[r].subscribed \in BOOLEAN
       /\ Range(bus[r].seen) \subseteq EventIds /\ Len(bus[r].seen) <= REMOTE_EVENT_DEDUP_MAX_ENTRIES
       /\ \A i \in DOMAIN wire[r] : wire[r][i].id \in EventIds /\ wire[r][i].source \in Replicas
  /\ viewer.at \in Replicas \union {NoReplica} /\ owed \subseteq EventIds
  /\ Len(toasts) <= MAX_TOASTS

(* A page is told of a notification exactly once: its toast never comes up a *)
(* second time, through retried handlers, a publish that failed after Redis  *)
(* took it, another publishing process, ids forgotten by a full or expired   *)
(* memory, reconnects to another replica and signing out and in; and a       *)
(* message new to the page's replica, sent over connections that have held   *)
(* since, is not swallowed: once read, its toast has come up. (A page that   *)
(* arrives after its replica handled the id waits for its next list.)        *)
AlertsReachThePageOnce ==
  /\ \A e \in Alerts : pops[e] <= 1
  /\ \A id \in owed :
       \/ \E i \in DOMAIN wire[viewer.at] : wire[viewer.at][i].id = id
       \/ pops[id.event] > 0
=============================================================================
