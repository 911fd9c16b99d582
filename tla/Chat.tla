-------------------------------- MODULE Chat --------------------------------
(***************************************************************************)
(* One conversation: chat.service.ts and chat.routes.ts on the server, the *)
(* moderation routes, the broadcasts of the outbox, and on the other side  *)
(* the realtime client and the ChatPanel of one browser.                   *)
(*                                                                         *)
(* The panel delivers a message over the socket and falls back to REST     *)
(* with the same clientMessageId, so several handlers may carry the same   *)
(* message; what it displays is fed by acknowledgements, broadcasts and    *)
(* history pages that overtake each other.                                 *)
(***************************************************************************)
EXTENDS Naturals, FiniteSets, Sequences, SequencesExt

CONSTANTS
  OwnMessages,     \* clientMessageIds the panel submits
  PeerMessages,    \* messages of the other party
  MaxAttempts,     \* bound: deliveries of one message
  MaxModerations,  \* bound: hide and restore
  MaxChatFaults    \* bound: lost answers and failed broadcasts

ASSUME ChatAssumption ==
  /\ OwnMessages \cap PeerMessages = {}
  /\ MaxAttempts \in Nat /\ MaxModerations \in Nat /\ MaxChatFaults \in Nat

VARIABLES
  conversations,  \* rows of conversations for this context, by who created them
  starter,        \* getOrCreateConversation of the two parties
  rows,           \* messages, in the order of their creation
  hiddenRows,     \* rows with hidden_at
  attempts,       \* deliveries of a message: channel and progress of the handler
  waits,          \* what deliverMessage awaits
  createdEvents,  \* message.created events the outbox has not finished
  moderations,    \* message.moderated events, in order
  air,            \* broadcasts on their way to the panel
  connected,      \* the panel's socket is open and in the room
  panel,          \* the messages displayed
  hiddenIds,      \* hiddenMessageIdsRef
  history,        \* the history query
  chatFaults

serverVars == <<conversations, starter, rows, hiddenRows, createdEvents, moderations>>
chatVars == <<serverVars, attempts, waits, air, connected, panel, hiddenIds, history,
              chatFaults>>

Parties == {"panel", "peer"}

ChatMessages == OwnMessages \cup PeerMessages

NoHistory == [pc |-> "idle", page |-> <<>>]

ChatInit ==
  /\ conversations = <<>>
  /\ starter = [p \in Parties |-> "none"]
  /\ rows = <<>> /\ hiddenRows = {}
  /\ attempts = [m \in OwnMessages |-> <<>>]
  /\ waits = [m \in OwnMessages |-> "none"]
  /\ createdEvents = {} /\ moderations = <<>>
  /\ air = {}
  /\ connected = TRUE
  /\ panel = <<>> /\ hiddenIds = {}
  /\ history = NoHistory
  /\ chatFaults = 0

ChatFault ==
  /\ chatFaults < MaxChatFaults
  /\ chatFaults' = chatFaults + 1

Stored(m) == m \in ToSet(rows)

(* Array.filter: the elements at the positions kept, in their order.  (Said  *)
(* by positions and not with SelectSeq, so that it can be reasoned about.)   *)
Nth(kept, n) == CHOOSE i \in kept : Cardinality({j \in kept : j <= i}) = n
Filtered(seq, kept) == [n \in 1 .. Cardinality(kept) |-> seq[Nth(kept, n)]]

-----------------------------------------------------------------------------
(* The conversation *)

(* getOrCreateConversation: the lookup. *)
LookUpConversation(p) ==
  /\ starter[p] = "none"
  /\ starter' = [starter EXCEPT ![p] = IF conversations = <<>> THEN "missing" ELSE "ready"]
  /\ UNCHANGED <<conversations, rows, hiddenRows, createdEvents, moderations, attempts, waits,
                 air, connected, panel, hiddenIds, history, chatFaults>>

(* insert ... on conflict do nothing: the unordered pair is unique, and a   *)
(* conflict is answered by reading the winner's row.                        *)
InsertConversation(p) ==
  /\ starter[p] = "missing"
  /\ conversations' = IF conversations = <<>> THEN <<p>> ELSE conversations
  /\ starter' = [starter EXCEPT ![p] = "ready"]
  /\ UNCHANGED <<rows, hiddenRows, createdEvents, moderations, attempts, waits, air,
                 connected, panel, hiddenIds, history, chatFaults>>

-----------------------------------------------------------------------------
(* Sending *)

ChatEntry(m, id, body, mark) == [m |-> m, id |-> id, body |-> body, status |-> mark]

(* deliverMessage: the socket if it is connected, else POST. *)
Channel == IF connected THEN "ws" ELSE "rest"

Deliver(m, via) ==
  /\ attempts' = [attempts EXCEPT ![m] = Append(@, [via |-> via, pc |-> "received"])]
  /\ waits' = [waits EXCEPT ![m] = via]

(* submit: the optimistic row is shown, then the message is delivered. *)
Submit(m) ==
  /\ starter["panel"] = "ready" /\ attempts[m] = <<>>
  /\ panel' = Append(panel, ChatEntry(m, "client", "real", "sending"))
  /\ Deliver(m, Channel)
  /\ UNCHANGED <<serverVars, air, connected, hiddenIds, history, chatFaults>>

(* retryMessage: a failed row that may be retried, delivered again. *)
RetryMessage(m) ==
  /\ Len(attempts[m]) + 1 < MaxAttempts
  /\ \E i \in DOMAIN panel :
       /\ panel[i].m = m /\ panel[i].status = "failed"
       /\ panel' = [panel EXCEPT ![i].status = "sending"]
  /\ Deliver(m, Channel)
  /\ UNCHANGED <<serverVars, air, connected, hiddenIds, history, chatFaults>>

(* assertCanSendMessage (a muted or blocked sender is refused, a replay too), *)
(* then the lookup by (sender, clientMessageId) outside the transaction.      *)
CheckSender(m, k) ==
  /\ attempts[m][k].pc = "received"
  /\ \E pc \in {"refused", IF Stored(m) THEN "answered" ELSE "absent"} :
       attempts' = [attempts EXCEPT ![m][k].pc = pc]
  /\ UNCHANGED <<serverVars, waits, air, connected, panel, hiddenIds, history, chatFaults>>

(* Mutant: the answer of the first lookup is trusted. *)
SaveMessage_NoSecondLookup(m, k) ==
  /\ attempts[m][k].pc = "absent"
  /\ rows' = Append(rows, m)
  /\ createdEvents' = createdEvents \cup {m}
  /\ attempts' = [attempts EXCEPT ![m][k].pc = "answered"]
  /\ UNCHANGED <<conversations, starter, hiddenRows, moderations, waits, air, connected,
                 panel, hiddenIds, history, chatFaults>>

(* The transaction: the advisory lock of (sender, clientMessageId), the second *)
(* lookup, the row and its message.created event.                              *)
SaveMessage(m, k) ==
  /\ attempts[m][k].pc = "absent"
  /\ IF Stored(m)
       THEN UNCHANGED <<rows, createdEvents>>
       ELSE rows' = Append(rows, m) /\ createdEvents' = createdEvents \cup {m}
  /\ attempts' = [attempts EXCEPT ![m][k].pc = "answered"]
  /\ UNCHANGED <<conversations, starter, hiddenRows, moderations, waits, air, connected,
                 panel, hiddenIds, history, chatFaults>>

(* The other party's message, sent by the same operation. *)
PeerSends(m) ==
  /\ starter["peer"] = "ready" /\ ~Stored(m)
  /\ rows' = Append(rows, m)
  /\ createdEvents' = createdEvents \cup {m}
  /\ UNCHANGED <<conversations, starter, hiddenRows, moderations, attempts, waits, air,
                 connected, panel, hiddenIds, history, chatFaults>>

(* markMessageSent: whatever row carries the clientMessageId becomes the    *)
(* server's message.                                                        *)
markMessageSent(m) ==
  [i \in DOMAIN panel |->
     IF panel[i].m = m THEN ChatEntry(m, "server", "real", "sent") ELSE panel[i]]

(* failed: may be retried; rejected: may not. *)
markMessageFailed(m, mark) ==
  [i \in DOMAIN panel |-> IF panel[i].m = m THEN [panel[i] EXCEPT !.status = mark]
                                            ELSE panel[i]]

(* A refusal is final, unless it is a 429 or a 5xx. *)
Settled(m, answer) ==
  IF answer = "answered"
    THEN {markMessageSent(m)}
    ELSE {markMessageFailed(m, mark) : mark \in {"failed", "rejected"}}

(* settleMessage: an acknowledgement of any attempt over the socket settles *)
(* the one that waits; without one nobody listens.                          *)
Acknowledge(m, k) ==
  /\ attempts[m][k].via = "ws" /\ attempts[m][k].pc \in {"answered", "refused"}
  /\ attempts' = [attempts EXCEPT ![m][k].pc = "done"]
  /\ IF connected /\ waits[m] = "ws"
       THEN /\ waits' = [waits EXCEPT ![m] = "none"]
            /\ panel' \in Settled(m, attempts[m][k].pc)
       ELSE UNCHANGED <<waits, panel>>
  /\ UNCHANGED <<serverVars, air, connected, hiddenIds, history, chatFaults>>

(* The answer of the POST that is awaited. *)
RestAnswer(m, k) ==
  /\ attempts[m][k].via = "rest" /\ attempts[m][k].pc \in {"answered", "refused"}
  /\ attempts' = [attempts EXCEPT ![m][k].pc = "done"]
  /\ IF waits[m] = "rest" /\ k = Len(attempts[m])
       THEN /\ waits' = [waits EXCEPT ![m] = "none"]
            /\ panel' \in Settled(m, attempts[m][k].pc)
       ELSE UNCHANGED <<waits, panel>>
  /\ UNCHANGED <<serverVars, air, connected, hiddenIds, history, chatFaults>>

(* The POST fails on the way: the server may carry it out all the same. *)
RestLost(m) ==
  /\ waits[m] = "rest"
  /\ ChatFault
  /\ waits' = [waits EXCEPT ![m] = "none"]
  /\ panel' = markMessageFailed(m, "failed")
  /\ UNCHANGED <<serverVars, attempts, air, connected, hiddenIds, history>>

(* No acknowledgement in time: the same message goes to REST. *)
AckTimeout(m) ==
  /\ waits[m] = "ws" /\ Len(attempts[m]) < MaxAttempts
  /\ ChatFault
  /\ Deliver(m, "rest")
  /\ UNCHANGED <<serverVars, air, connected, panel, hiddenIds, history>>

(* handleClose or refreshAuthentication: every unsaved message is rejected  *)
(* and falls back to REST.                                                  *)
SocketLost ==
  /\ connected
  /\ ChatFault
  /\ connected' = FALSE
  /\ LET unsaved == {m \in OwnMessages : waits[m] = "ws"}
     IN  /\ \A m \in unsaved : Len(attempts[m]) < MaxAttempts
         /\ attempts' = [m \in OwnMessages |->
              IF m \in unsaved THEN Append(attempts[m], [via |-> "rest", pc |-> "received"])
                               ELSE attempts[m]]
         /\ waits' = [m \in OwnMessages |-> IF m \in unsaved THEN "rest" ELSE waits[m]]
  /\ UNCHANGED <<serverVars, air, panel, hiddenIds, history>>

(* connect and handleOpen: the rooms are joined again. *)
Reconnect ==
  /\ ~connected
  /\ connected' = TRUE
  /\ UNCHANGED <<serverVars, attempts, waits, air, panel, hiddenIds, history, chatFaults>>

-----------------------------------------------------------------------------
(* Broadcasts *)

(* handleMessageCreated: a hidden message is not announced.  A failure after *)
(* the broadcast repeats it.                                                 *)
handleMessageCreated(m) ==
  /\ m \in createdEvents
  /\ air' = IF m \in hiddenRows THEN air ELSE air \cup {[kind |-> "message", m |-> m]}
  /\ \/ createdEvents' = createdEvents \ {m} /\ UNCHANGED chatFaults
     \/ ChatFault /\ UNCHANGED createdEvents
  /\ UNCHANGED <<conversations, starter, rows, hiddenRows, moderations, attempts, waits,
                 connected, panel, hiddenIds, history>>

Moderated(m, hidden) == [kind |-> "moderated", m |-> m, hidden |-> hidden]

(* POST /messages/:id/hide and /restore: the row, the event, and a broadcast. *)
ModerateMessage(m) ==
  /\ Stored(m) /\ Len(moderations) < MaxModerations
  /\ hiddenRows' = IF m \in hiddenRows THEN hiddenRows \ {m} ELSE hiddenRows \cup {m}
  /\ moderations' = Append(moderations, [m |-> m, done |-> FALSE])
  /\ air' = air \cup {Moderated(m, m \notin hiddenRows)}
  /\ UNCHANGED <<conversations, starter, rows, createdEvents, attempts, waits, connected,
                 panel, hiddenIds, history, chatFaults>>

(* handleMessageModerated announces what the row says by then. *)
handleMessageModerated(k) ==
  /\ ~moderations[k].done
  /\ air' = air \cup {Moderated(moderations[k].m, moderations[k].m \in hiddenRows)}
  /\ moderations' = [moderations EXCEPT ![k].done = TRUE]
  /\ UNCHANGED <<conversations, starter, rows, hiddenRows, createdEvents, attempts, waits,
                 connected, panel, hiddenIds, history, chatFaults>>

-----------------------------------------------------------------------------
(* The panel *)

(* messagesMatch: by server id or by clientMessageId, which both sides carry. *)
messagesMatch(left, m) == left.m = m

(* The row a message matches takes it over and keeps its delivery status; a *)
(* message that matches none is appended.                                   *)
MergeMessage(m) ==
  IF \E i \in DOMAIN panel : messagesMatch(panel[i], m)
    THEN [i \in DOMAIN panel |->
            IF messagesMatch(panel[i], m)
              THEN [panel[i] EXCEPT !.id = "server", !.body = "real"] ELSE panel[i]]
    ELSE Append(panel, ChatEntry(m, "server", "real", "none"))

(* A broadcast message the panel was told to hide is dropped. *)
ShowMessage(m) ==
  IF m \in hiddenIds THEN panel ELSE MergeMessage(m)

ReceiveMessage(x) ==
  /\ x \in air /\ x.kind = "message"
  /\ air' = air \ {x}
  /\ panel' = IF connected THEN ShowMessage(x.m) ELSE panel
  /\ UNCHANGED <<serverVars, attempts, waits, connected, hiddenIds, history, chatFaults>>

(* message.moderated: a hidden row leaves the screen at once, and the history *)
(* is asked for again either way.                                             *)
ReceiveModeration(x) ==
  /\ x \in air /\ x.kind = "moderated"
  /\ air' = air \ {x}
  /\ IF ~connected
       THEN UNCHANGED <<panel, hiddenIds, history>>
       ELSE /\ hiddenIds' = IF x.hidden THEN hiddenIds \cup {x.m} ELSE hiddenIds \ {x.m}
            /\ panel' = IF x.hidden
                          THEN Filtered(panel, {i \in DOMAIN panel :
                                                  ~(panel[i].id = "server" /\ panel[i].m = x.m)})
                          ELSE panel
            /\ history' = [pc |-> "requested", page |-> <<>>]
  /\ UNCHANGED <<serverVars, attempts, waits, connected, chatFaults>>

(* The query runs when the panel is opened and whenever the window regains  *)
(* focus.                                                                   *)
RequestHistory ==
  /\ starter["panel"] = "ready" /\ history.pc = "idle"
  /\ history' = [pc |-> "requested", page |-> <<>>]
  /\ UNCHANGED <<serverVars, attempts, waits, air, connected, panel, hiddenIds, chatFaults>>

(* getMessagePage: hidden rows with a placeholder for their body. *)
getMessagePage ==
  [i \in DOMAIN rows |-> [m |-> rows[i],
                          body |-> IF rows[i] \in hiddenRows THEN "masked" ELSE "real"]]

ReadHistory ==
  /\ history.pc = "requested"
  /\ history' = [pc |-> "answered", page |-> getMessagePage]
  /\ UNCHANGED <<serverVars, attempts, waits, air, connected, panel, hiddenIds, chatFaults>>

(* What the panel was told to hide is left out of the page. *)
VisibleServerMessages ==
  Filtered(history.page, {i \in DOMAIN history.page : history.page[i].m \notin hiddenIds})

(* mergeServerMessage: the page's rows with the delivery status of the local *)
(* row they match, then the local deliveries the page does not know.         *)
MergeHistory ==
  LET visible == VisibleServerMessages
      StatusOf(m) == IF \E i \in DOMAIN panel : messagesMatch(panel[i], m)
                       THEN panel[CHOOSE i \in DOMAIN panel : messagesMatch(panel[i], m)].status
                       ELSE "none"
      server == [i \in DOMAIN visible |->
                   ChatEntry(visible[i].m, "server", visible[i].body, StatusOf(visible[i].m))]
      Unmatched(e) == /\ e.status # "none"
                      /\ \A i \in DOMAIN visible : ~messagesMatch(e, visible[i].m)
  IN  server \o Filtered(panel, {i \in DOMAIN panel : Unmatched(panel[i])})

ApplyHistory ==
  /\ history.pc = "answered"
  /\ panel' = MergeHistory
  /\ history' = NoHistory
  /\ UNCHANGED <<serverVars, attempts, waits, air, connected, hiddenIds, chatFaults>>

-----------------------------------------------------------------------------
ChatNext ==
  \/ \E p \in Parties : LookUpConversation(p) \/ InsertConversation(p)
  \/ \E m \in OwnMessages :
       \/ Submit(m) \/ RetryMessage(m) \/ RestLost(m) \/ AckTimeout(m)
       \/ \E k \in DOMAIN attempts[m] :
            CheckSender(m, k) \/ SaveMessage(m, k) \/ Acknowledge(m, k) \/ RestAnswer(m, k)
  \/ \E m \in PeerMessages : PeerSends(m)
  \/ \E m \in ChatMessages : handleMessageCreated(m) \/ ModerateMessage(m)
  \/ \E k \in DOMAIN moderations : handleMessageModerated(k)
  \/ \E x \in air : ReceiveMessage(x) \/ ReceiveModeration(x)
  \/ SocketLost \/ Reconnect \/ RequestHistory \/ ReadHistory \/ ApplyHistory

ChatSpec == ChatInit /\ [][ChatNext]_chatVars

-----------------------------------------------------------------------------
(* Every variable has its type. *)
ChatTypeOK ==
  /\ conversations \in Seq(Parties) /\ Len(conversations) <= 2
  /\ starter \in [Parties -> {"none", "missing", "ready"}]
  /\ rows \in Seq(ChatMessages) /\ hiddenRows \subseteq ChatMessages
  /\ \A m \in OwnMessages : \A k \in DOMAIN attempts[m] :
       attempts[m][k] \in [via : {"ws", "rest"},
                           pc : {"received", "absent", "answered", "refused", "done"}]
  /\ waits \in [OwnMessages -> {"none", "ws", "rest"}]
  /\ createdEvents \subseteq ChatMessages
  /\ \A i \in DOMAIN panel :
       panel[i] \in [m : ChatMessages, id : {"client", "server"}, body : {"real", "masked"},
                     status : {"none", "sending", "sent", "failed", "rejected"}]
  /\ hiddenIds \subseteq ChatMessages
  /\ history.pc \in {"idle", "requested", "answered"}
  /\ chatFaults \in 0..MaxChatFaults /\ connected \in BOOLEAN

(* Each message is there once, in the store and on the screen.  Two parties     *)
(* that start a conversation at the same time end in one row; a message whose   *)
(* attempts over the socket and over REST overlap is stored once; what the      *)
(* panel marks as sent is stored, whichever attempt said so.  The panel shows   *)
(* no message twice, however acknowledgement, broadcast and history interleave, *)
(* and once it has been told that a message of the other party is hidden it     *)
(* does not show the body again, by a late broadcast or a page read before.     *)
EachMessageOnce ==
  /\ Len(conversations) <= 1
  /\ \A i, j \in DOMAIN rows : rows[i] = rows[j] => i = j
  /\ \A i, j \in DOMAIN panel : panel[i].m = panel[j].m => i = j
  /\ \A i \in DOMAIN panel :
       /\ panel[i].status = "sent" => Stored(panel[i].m)
       /\ panel[i].m \in PeerMessages \cap hiddenIds => panel[i].body # "real"
=============================================================================
