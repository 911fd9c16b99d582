------------------------------ MODULE Delivery ------------------------------
(***************************************************************************)
(* Notifications outside the site: linking a Telegram chat to an account   *)
(* (telegram-link.service.ts and the bot's webhook), the channel           *)
(* preferences (preferences.service.ts), and the delivery job that sends   *)
(* one notification by email and then by Telegram (jobs/queue.ts), which   *)
(* BullMQ runs again when it throws or its worker dies.                    *)
(***************************************************************************)
EXTENDS Integers, FiniteSets

CONSTANTS
  Members,          \* accounts
  Chats,            \* Telegram chats
  ConnectTokens,    \* deep-link tokens that may be issued
  DeliveryJobs,     \* notification_delivery jobs
  MaxJobAttempts    \* the job option `attempts`

VARIABLES
  telegram,      \* telegram_accounts: each member's chat and unconsumed token
  issuedTo,      \* whom each token was issued to
  linkedBy,      \* the chats each token has linked (history)
  preferences,   \* notification_preferences
  preferenceEdit,\* an update between its read and its write
  delivery,      \* the jobs
  telegrams      \* Telegram messages that left (job and chat)

telegramVars == <<telegram, issuedTo, linkedBy>>
deliveryVars == <<telegramVars, preferences, preferenceEdit, delivery, telegrams>>

NoChat == "no-chat"
NoToken == "no-token"
NoMember == "no-member"
Channels == [email : BOOLEAN, telegram : BOOLEAN]
DEFAULT_PREFERENCES == [email |-> TRUE, telegram |-> TRUE]

ASSUME DeliveryAssumption ==
  /\ NoChat \notin Chats /\ NoToken \notin ConnectTokens /\ NoMember \notin Members
  /\ MaxJobAttempts \in Nat \ {0}

NoRowYet == [chat |-> NoChat, token |-> NoToken]
Job(state, u, skip, chats) ==
  [state |-> state, user |-> u, skipTelegram |-> skip, attempt |-> 0,
   channels |-> DEFAULT_PREFERENCES, chat |-> NoChat, linkable |-> chats]
NoJob == Job("none", NoMember, FALSE, {})

-----------------------------------------------------------------------------
(* Jobs *)

(* createNotification adds a job that names its user; nothing is added when  *)
(* the queue is unavailable.  `linkable` is history: the chats linked to the *)
(* user when the job was made or since.                                      *)
Enqueued(jobs, u, skip, accounts) ==
  {jobs} \union
  {[jobs EXCEPT ![j] = Job("queued", u, skip, {accounts[u].chat} \ {NoChat})] :
     j \in {k \in DeliveryJobs : jobs[k].state = "none"}}

createNotification(u) ==
  /\ delivery' \in Enqueued(delivery, u, FALSE, telegram) \ {delivery}
  /\ UNCHANGED <<telegramVars, preferences, preferenceEdit, telegrams>>

(* A throw or a dead worker: BullMQ runs the job again from its start, up to *)
(* its attempts.                                                             *)
JobFails(j) ==
  /\ delivery[j].state \in {"running", "emailed", "sending", "sent"}
  /\ delivery' = [delivery EXCEPT ![j].state =
                    IF delivery[j].attempt < MaxJobAttempts THEN "queued" ELSE "failed"]
  /\ UNCHANGED <<telegramVars, preferences, preferenceEdit, telegrams>>

(* processNotificationDelivery: the recipient and the preferences are read once, *)
ReadRecipient(j) ==
  /\ delivery[j].state = "queued"
  /\ LET job == delivery[j]
     IN  delivery' = [delivery EXCEPT ![j] =
           [job EXCEPT !.state = "running", !.attempt = job.attempt + 1,
                       !.channels = preferences[job.user]]]
  /\ UNCHANGED <<telegramVars, preferences, preferenceEdit, telegrams>>

(* then the email leg, which throws when the provider refuses (JobFails), *)
EmailLeg(j) ==
  /\ delivery[j].state = "running"
  /\ delivery' = [delivery EXCEPT ![j].state = "emailed"]
  /\ UNCHANGED <<telegramVars, preferences, preferenceEdit, telegrams>>

(* then the Telegram leg: the chat is read now, and the message leaves later. *)
getTelegramChatId(u) == telegram[u].chat

TelegramLeg(j) ==
  LET wanted == delivery[j].channels.telegram /\ ~delivery[j].skipTelegram
      chat == getTelegramChatId(delivery[j].user)
  IN  /\ delivery[j].state = "emailed"
      /\ delivery' = [delivery EXCEPT ![j] =
           IF wanted /\ chat # NoChat THEN [@ EXCEPT !.state = "sending", !.chat = chat]
           ELSE [@ EXCEPT !.state = "done"]]
      /\ UNCHANGED <<telegramVars, preferences, preferenceEdit, telegrams>>

(* sendTelegramMessage never throws, whether or not the message arrived; the *)
(* job is completed after it, and a worker that dies in between has the job  *)
(* run again.                                                                *)
sendTelegramMessage(j) ==
  /\ delivery[j].state = "sending"
  /\ telegrams' \in {telegrams, telegrams \union {[job |-> j, chat |-> delivery[j].chat]}}
  /\ delivery' = [delivery EXCEPT ![j].state = "sent"]
  /\ UNCHANGED <<telegramVars, preferences, preferenceEdit>>

JobCompletes(j) ==
  /\ delivery[j].state = "sent"
  /\ delivery' = [delivery EXCEPT ![j].state = "done"]
  /\ UNCHANGED <<telegramVars, preferences, preferenceEdit, telegrams>>

-----------------------------------------------------------------------------
(* Linking *)

(* A new token replaces the member's unconsumed one and leaves the chat alone. *)
createTelegramConnectToken(u) ==
  /\ \E t \in {n \in ConnectTokens : issuedTo[n] = NoMember} :
       /\ issuedTo' = [issuedTo EXCEPT ![t] = u]
       /\ telegram' = [telegram EXCEPT ![u].token = t]
  /\ UNCHANGED <<linkedBy, preferences, preferenceEdit, delivery, telegrams>>

(* /start <token> from a chat, as often as Telegram or a person repeats it:   *)
(* the token is spent by the update that links the chat; any other reply only *)
(* answers.                                                                   *)
Linked_TokenKept(u, c) == [telegram EXCEPT ![u].chat = c]
Linked(u, c) == [telegram EXCEPT ![u] = [chat |-> c, token |-> NoToken]]

consumeTelegramConnectToken(t, c) ==
  \E u \in Members :
    /\ telegram[u].token = t
    /\ telegram' = Linked(u, c)
    /\ linkedBy' = [linkedBy EXCEPT ![t] = @ \union {c}]
    /\ delivery' \in Enqueued([j \in DeliveryJobs |->
                                 IF delivery[j].user = u THEN [delivery[j] EXCEPT !.linkable = @ \union {c}]
                                 ELSE delivery[j]], u, TRUE, telegram')
    /\ UNCHANGED <<issuedTo, preferences, preferenceEdit, telegrams>>

(* An update of the bot: /start with a token; everything else is only answered. *)
TelegramWebhook == \E t \in ConnectTokens, c \in Chats : consumeTelegramConnectToken(t, c)

disconnectTelegram(u) ==
  /\ telegram' = [telegram EXCEPT ![u] = NoRowYet]
  /\ delivery' \in Enqueued(delivery, u, FALSE, telegram')
  /\ UNCHANGED <<issuedTo, linkedBy, preferences, preferenceEdit, telegrams>>

-----------------------------------------------------------------------------
(* Preferences: read, merged, then written whole. *)

NoEdit == [user |-> NoMember, next |-> DEFAULT_PREFERENCES]

ReadPreferences(u) ==
  /\ preferenceEdit = NoEdit
  /\ \E channel \in {"email", "telegram"}, on \in BOOLEAN :
       preferenceEdit' = [user |-> u, next |-> [preferences[u] EXCEPT ![channel] = on]]
  /\ UNCHANGED <<telegramVars, preferences, delivery, telegrams>>

updateNotificationPreferences ==
  /\ preferenceEdit # NoEdit
  /\ preferences' = [preferences EXCEPT ![preferenceEdit.user] = preferenceEdit.next]
  /\ preferenceEdit' = NoEdit
  /\ UNCHANGED <<telegramVars, delivery, telegrams>>

-----------------------------------------------------------------------------

DeliveryInit ==
  /\ telegram = [u \in Members |-> NoRowYet]
  /\ issuedTo = [t \in ConnectTokens |-> NoMember] /\ linkedBy = [t \in ConnectTokens |-> {}]
  /\ preferences = [u \in Members |-> DEFAULT_PREFERENCES] /\ preferenceEdit = NoEdit
  /\ delivery = [j \in DeliveryJobs |-> NoJob] /\ telegrams = {}

DeliveryNext ==
  \/ \E u \in Members :
       createNotification(u) \/ createTelegramConnectToken(u) \/ disconnectTelegram(u) \/ ReadPreferences(u)
  \/ updateNotificationPreferences
  \/ TelegramWebhook
  \/ \E j \in DeliveryJobs :
       ReadRecipient(j) \/ EmailLeg(j) \/ TelegramLeg(j) \/ sendTelegramMessage(j)
       \/ JobCompletes(j) \/ JobFails(j)

DeliverySpec == DeliveryInit /\ [][DeliveryNext]_deliveryVars

(* Type invariant. *)
DeliveryTypeOK ==
  /\ telegram \in [Members -> [chat : Chats \union {NoChat}, token : ConnectTokens \union {NoToken}]]
  /\ issuedTo \in [ConnectTokens -> Members \union {NoMember}]
  /\ preferences \in [Members -> Channels]
  /\ \A j \in DeliveryJobs :
       /\ delivery[j].state \in {"none", "queued", "running", "emailed", "sending", "sent", "done", "failed"}
       /\ delivery[j].attempt \in 0 .. MaxJobAttempts
  /\ telegrams \subseteq [job : DeliveryJobs, chat : Chats]

(* A member's notifications reach only the chat that member linked: a token   *)
(* links one chat, however often it is presented; a Telegram message goes to  *)
(* a chat that was linked to the recipient when the notification was made or  *)
(* later, so never to one disconnected before it, through retries, reconnects *)
(* and late sends; and the notification about connecting is not repeated on   *)
(* Telegram.                                                                  *)
TelegramReachesItsOwner ==
  /\ \A t \in ConnectTokens : Cardinality(linkedBy[t]) <= 1
  /\ \A m \in telegrams : m.chat \in delivery[m.job].linkable /\ ~delivery[m.job].skipTelegram
=============================================================================
