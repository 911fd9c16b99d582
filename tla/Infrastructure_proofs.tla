------------------------ MODULE Infrastructure_proofs ------------------------
(***************************************************************************)
(* Proofs about what carries messages, media and events, for any number of *)
(* members, connections, objects, requests, replicas and events, and any   *)
(* bounds: Delivery, that a Telegram message reaches its own member;       *)
(* Sockets, that a revocation reaches every connection and that a drain    *)
(* leaves nothing; Storage, that bound media exist and that the quota      *)
(* accounts for every byte; EventBus, that an alert comes up once;         *)
(* MediaGate, that no slot and no wake-up is lost.                         *)
(***************************************************************************)
EXTENDS Delivery, Sockets, Storage, MediaGate, EventBus, FiniteSetTheorems, SequenceTheorems,
        TLAPS

----------------------------------------------------------------------------
(* Delivery: the inductive invariant *)

Accounts == [chat : Chats \cup {NoChat}, token : ConnectTokens \cup {NoToken}]
JobStates == {"none", "queued", "running", "emailed", "sending", "sent", "done", "failed"}
Jobs ==
  [state : JobStates, user : Members \cup {NoMember}, skipTelegram : BOOLEAN,
   attempt : Nat, channels : Channels, chat : Chats \cup {NoChat}, linkable : SUBSET Chats]

DeliveryShape ==
  /\ telegram \in [Members -> Accounts]
  /\ issuedTo \in [ConnectTokens -> Members \cup {NoMember}]
  /\ linkedBy \in [ConnectTokens -> SUBSET Chats]
  /\ preferences \in [Members -> Channels]
  /\ preferenceEdit \in [user : Members \cup {NoMember}, next : Channels]
  /\ delivery \in [DeliveryJobs -> Jobs]
  /\ telegrams \subseteq [job : DeliveryJobs, chat : Chats]

\* An unconsumed token is in the hands of the member it was issued to, and has
\* linked nothing; a token that has linked a chat is in nobody's hands.
TokensAreSpent ==
  /\ \A u \in Members : telegram[u].token # NoToken =>
       issuedTo[telegram[u].token] = u /\ linkedBy[telegram[u].token] = {}
  /\ \A t \in ConnectTokens :
       /\ issuedTo[t] = NoMember => linkedBy[t] = {}
       /\ \A c, d \in linkedBy[t] : c = d

\* The chat a member has now was linked since each of his jobs was made or
\* before; the chat a job is about to write to is one of those.
JobFits(job, accounts) ==
  /\ job.state = "none" => job.user = NoMember
  /\ job.state # "none" => /\ job.user \in Members
                           /\ accounts[job.user].chat \in job.linkable \cup {NoChat}
  /\ job.state = "sending" => job.chat \in job.linkable /\ ~job.skipTelegram

JobsKnowTheirChats(jobs, accounts) == \A j \in DeliveryJobs : JobFits(jobs[j], accounts)

\* What left, left for a chat of the job's recipient.
Justified(jobs) ==
  \A m \in telegrams : /\ jobs[m.job].state # "none"
                       /\ m.chat \in jobs[m.job].linkable /\ ~jobs[m.job].skipTelegram

DeliveryIInv ==
  /\ DeliveryShape /\ TokensAreSpent
  /\ JobsKnowTheirChats(delivery, telegram) /\ Justified(delivery)

----------------------------------------------------------------------------
(* Delivery: the steps *)

LEMMA EnqueuedFits ==
  ASSUME NEW jobs \in [DeliveryJobs -> Jobs], NEW accounts \in [Members -> Accounts],
         NEW u \in Members, NEW skip \in BOOLEAN, JobsKnowTheirChats(jobs, accounts),
         Justified(jobs),
         NEW after \in Enqueued(jobs, u, skip, accounts)
  PROVE  /\ after \in [DeliveryJobs -> Jobs] /\ JobsKnowTheirChats(after, accounts)
         /\ telegrams \subseteq [job : DeliveryJobs, chat : Chats] => Justified(after)
<1>1. CASE after = jobs
  BY <1>1
<1>2. ASSUME NEW k \in DeliveryJobs, jobs[k].state = "none",
             after = [jobs EXCEPT ![k] = Job("queued", u, skip, {accounts[u].chat} \ {NoChat})]
      PROVE  /\ after \in [DeliveryJobs -> Jobs] /\ JobsKnowTheirChats(after, accounts)
             /\ telegrams \subseteq [job : DeliveryJobs, chat : Chats] => Justified(after)
  <2> DEFINE new == Job("queued", u, skip, {accounts[u].chat} \ {NoChat})
  <2>1. after = [jobs EXCEPT ![k] = new]
    BY <1>2
  <2>2. accounts[u].chat \in Chats \cup {NoChat}
    BY DEF Accounts
  <2>3. new \in Jobs /\ JobFits(new, accounts)
    BY <2>2 DEF Job, Jobs, JobStates, Channels, DEFAULT_PREFERENCES, JobFits
  <2> HIDE DEF new
  <2>4. after \in [DeliveryJobs -> Jobs] /\ after[k] = new
        /\ \A j \in DeliveryJobs \ {k} : after[j] = jobs[j]
    BY <2>1, <2>3
  <2>5. JobsKnowTheirChats(after, accounts)
    BY <2>3, <2>4 DEF JobsKnowTheirChats
  <2>6. ASSUME telegrams \subseteq [job : DeliveryJobs, chat : Chats]
        PROVE  Justified(after)
    <3>1. \A m \in telegrams : m.job \in DeliveryJobs /\ m.job # k
      BY <1>2, <2>6 DEF Justified
    <3> QED
      BY <2>4, <3>1 DEF Justified
  <2> QED
    BY <2>4, <2>5, <2>6
<1> QED
  BY <1>1, <1>2 DEF Enqueued

LEMMA DeliveryInitInv == DeliveryInit => DeliveryIInv
<1> SUFFICES ASSUME DeliveryInit PROVE DeliveryIInv
  OBVIOUS
<1>1. NoJob \in Jobs /\ NoRowYet \in Accounts
  BY DEF NoJob, Job, Jobs, JobStates, Channels, DEFAULT_PREFERENCES, NoRowYet, Accounts
<1>2. DeliveryShape
  BY <1>1 DEF DeliveryInit, DeliveryShape, NoEdit, Channels, DEFAULT_PREFERENCES
<1>3. TokensAreSpent
  BY DEF DeliveryInit, TokensAreSpent, NoRowYet
<1>4. JobsKnowTheirChats(delivery, telegram)
  BY DEF DeliveryInit, JobsKnowTheirChats, JobFits, NoJob, Job
<1>5. Justified(delivery)
  BY DEF DeliveryInit, Justified
<1> QED
  BY <1>2, <1>3, <1>4, <1>5 DEF DeliveryIInv

\* A step that only adds a job.
LEMMA CreateNotificationInv ==
  ASSUME DeliveryIInv, NEW u \in Members, createNotification(u)
  PROVE  DeliveryIInv'
<1>1. /\ delivery' \in Enqueued(delivery, u, FALSE, telegram)
      /\ UNCHANGED <<telegramVars, preferences, preferenceEdit, telegrams>>
  BY DEF createNotification
<1>2. /\ delivery' \in [DeliveryJobs -> Jobs] /\ JobsKnowTheirChats(delivery', telegram)
      /\ Justified(delivery')
  BY <1>1, EnqueuedFits DEF DeliveryIInv, DeliveryShape
<1>3. DeliveryShape' /\ TokensAreSpent'
  BY <1>1, <1>2 DEF DeliveryIInv, DeliveryShape, TokensAreSpent, telegramVars
<1>4. JobsKnowTheirChats(delivery, telegram)' /\ Justified(delivery)'
  BY <1>1, <1>2 DEF JobsKnowTheirChats, Justified, telegramVars
<1> QED
  BY <1>3, <1>4 DEF DeliveryIInv

\* A step of one job that keeps its recipient and its history.
LEMMA OneJobMoves ==
  ASSUME DeliveryIInv, NEW j \in DeliveryJobs, NEW r \in Jobs,
         delivery' = [delivery EXCEPT ![j] = r], delivery[j].state # "none", r.state # "none",
         r.user = delivery[j].user, r.linkable = delivery[j].linkable,
         r.skipTelegram = delivery[j].skipTelegram, JobFits(r, telegram),
         UNCHANGED <<telegramVars, preferences, preferenceEdit>>,
         \/ telegrams' = telegrams
         \/ /\ delivery[j].state = "sending"
            /\ telegrams' = telegrams \cup {[job |-> j, chat |-> delivery[j].chat]}
  PROVE  DeliveryIInv'
<1>1. /\ delivery' \in [DeliveryJobs -> Jobs] /\ delivery'[j] = r
      /\ \A k \in DeliveryJobs \ {j} : delivery'[k] = delivery[k]
  BY DEF DeliveryIInv, DeliveryShape
<1>2. JobsKnowTheirChats(delivery', telegram)
  BY <1>1 DEF DeliveryIInv, JobsKnowTheirChats
<1>3. delivery[j].state = "sending" =>
        delivery[j].chat \in delivery[j].linkable /\ ~delivery[j].skipTelegram
  BY DEF DeliveryIInv, JobsKnowTheirChats, JobFits
<1>4. delivery[j].linkable \subseteq Chats
  BY DEF DeliveryIInv, DeliveryShape, Jobs
<1>5. DeliveryShape'
  BY <1>1, <1>3, <1>4 DEF DeliveryIInv, DeliveryShape, telegramVars
<1>6. TokensAreSpent'
  BY DEF DeliveryIInv, TokensAreSpent, telegramVars
<1>7. \A k \in DeliveryJobs :
        /\ delivery'[k].linkable = delivery[k].linkable
        /\ delivery'[k].skipTelegram = delivery[k].skipTelegram
        /\ delivery[k].state # "none" => delivery'[k].state # "none"
  BY <1>1
<1>8. ASSUME NEW m \in telegrams'
      PROVE  /\ delivery'[m.job].state # "none"
             /\ m.chat \in delivery'[m.job].linkable /\ ~delivery'[m.job].skipTelegram
  <2>1. CASE m \in telegrams
    <3>1. m.job \in DeliveryJobs
      BY <2>1 DEF DeliveryIInv, DeliveryShape
    <3> QED
      BY <1>7, <2>1, <3>1 DEF DeliveryIInv, Justified
  <2>2. CASE m \notin telegrams
    <3>1. m = [job |-> j, chat |-> delivery[j].chat] /\ delivery[j].state = "sending"
      BY <1>8, <2>2
    <3> QED
      BY <1>1, <1>3, <3>1
  <2> QED
    BY <2>1, <2>2
<1>9. Justified(delivery)' /\ JobsKnowTheirChats(delivery, telegram)'
  BY <1>2, <1>8 DEF Justified, JobsKnowTheirChats, telegramVars
<1> QED
  BY <1>5, <1>6, <1>9 DEF DeliveryIInv

LEMMA JobStepsInv ==
  ASSUME DeliveryIInv, NEW j \in DeliveryJobs,
         ReadRecipient(j) \/ EmailLeg(j) \/ TelegramLeg(j) \/ sendTelegramMessage(j)
         \/ JobCompletes(j) \/ JobFails(j)
  PROVE  DeliveryIInv'
<1> DEFINE job == delivery[j]
<1>1. job \in Jobs /\ JobFits(job, telegram)
  BY DEF DeliveryIInv, DeliveryShape, JobsKnowTheirChats
<1>2. job.state # "none" => /\ job.user \in Members
                            /\ telegram[job.user].chat \in job.linkable \cup {NoChat}
  BY <1>1 DEF JobFits
<1>3. preferences \in [Members -> Channels]
  BY DEF DeliveryIInv, DeliveryShape
<1>4. CASE ReadRecipient(j)
  <2> DEFINE chosen == preferences[job.user]
             next == job.attempt + 1
             r == [job EXCEPT !.state = "running", !.attempt = next, !.channels = chosen]
  <2>1. /\ job.state = "queued" /\ delivery' = [delivery EXCEPT ![j] = r]
        /\ UNCHANGED <<telegramVars, preferences, preferenceEdit, telegrams>>
    BY <1>4, Zenon DEF ReadRecipient
  <2>2. chosen \in Channels /\ next \in Nat
    BY <1>1, <1>2, <1>3, <2>1 DEF Jobs
  <2> HIDE DEF chosen, next
  <2>3. /\ r \in Jobs /\ r.state = "running" /\ r.user = job.user /\ r.linkable = job.linkable
        /\ r.skipTelegram = job.skipTelegram
    BY <1>1, <2>2 DEF Jobs, JobStates
  <2> HIDE DEF r
  <2>4. JobFits(r, telegram)
    BY <1>2, <2>1, <2>3 DEF JobFits
  <2> QED
    BY <2>1, <2>3, <2>4, OneJobMoves
<1>5. CASE EmailLeg(j) \/ JobCompletes(j) \/ JobFails(j)
  <2> DEFINE final == job.attempt < MaxJobAttempts
  <2>1. PICK next \in {"emailed", "done", "queued", "failed"} :
          /\ job.state # "none" /\ delivery' = [delivery EXCEPT ![j].state = next]
          /\ UNCHANGED <<telegramVars, preferences, preferenceEdit, telegrams>>
    <3>1. CASE EmailLeg(j)
      BY <3>1 DEF EmailLeg
    <3>2. CASE JobCompletes(j)
      BY <3>2 DEF JobCompletes
    <3>3. CASE JobFails(j)
      BY <3>3 DEF JobFails
    <3> QED
      BY <1>5, <3>1, <3>2, <3>3
  <2> DEFINE r == [job EXCEPT !.state = next]
  <2>2. delivery' = [delivery EXCEPT ![j] = r]
    BY <2>1
  <2>3. /\ r \in Jobs /\ r.state = next /\ r.user = job.user /\ r.linkable = job.linkable
        /\ r.skipTelegram = job.skipTelegram
    BY <1>1 DEF Jobs, JobStates
  <2> HIDE DEF r
  <2>4. JobFits(r, telegram)
    BY <1>2, <2>1, <2>3 DEF JobFits
  <2> QED
    BY <2>1, <2>2, <2>3, <2>4, OneJobMoves
<1>6. CASE TelegramLeg(j)
  <2> DEFINE there == telegram[job.user].chat
             wanted == job.channels.telegram /\ ~job.skipTelegram
  <2>1. /\ job.state = "emailed"
        /\ UNCHANGED <<telegramVars, preferences, preferenceEdit, telegrams>>
        /\ \/ /\ wanted /\ there # NoChat
              /\ delivery' = [delivery EXCEPT ![j] = [job EXCEPT !.state = "sending", !.chat = there]]
           \/ delivery' = [delivery EXCEPT ![j] = [job EXCEPT !.state = "done"]]
    BY <1>6 DEF TelegramLeg, getTelegramChatId
  <2>2. CASE /\ wanted /\ there # NoChat
             /\ delivery' = [delivery EXCEPT ![j] = [job EXCEPT !.state = "sending", !.chat = there]]
    <3> DEFINE r == [job EXCEPT !.state = "sending", !.chat = there]
    <3>1. there \in job.linkable /\ job.linkable \subseteq Chats
      BY <1>1, <1>2, <2>1, <2>2 DEF Jobs
    <3>2. /\ r \in Jobs /\ r.state = "sending" /\ r.user = job.user /\ r.linkable = job.linkable
          /\ r.chat = there
          /\ r.skipTelegram = job.skipTelegram
      BY <1>1, <3>1 DEF Jobs, JobStates
    <3>3. delivery' = [delivery EXCEPT ![j] = r]
      BY <2>2
    <3> HIDE DEF r
    <3>4. JobFits(r, telegram)
      BY <1>2, <2>1, <2>2, <3>1, <3>2 DEF JobFits
    <3> QED
      BY <2>1, <3>2, <3>3, <3>4, OneJobMoves
  <2>3. CASE delivery' = [delivery EXCEPT ![j] = [job EXCEPT !.state = "done"]]
    <3> DEFINE r == [job EXCEPT !.state = "done"]
    <3>1. /\ r \in Jobs /\ r.state = "done" /\ r.user = job.user /\ r.linkable = job.linkable
          /\ r.skipTelegram = job.skipTelegram
      BY <1>1 DEF Jobs, JobStates
    <3>2. delivery' = [delivery EXCEPT ![j] = r]
      BY <2>3
    <3> HIDE DEF r
    <3>3. JobFits(r, telegram)
      BY <1>2, <2>1, <3>1 DEF JobFits
    <3> QED
      BY <2>1, <3>1, <3>2, <3>3, OneJobMoves
  <2> QED
    BY <2>1, <2>2, <2>3
<1>7. CASE sendTelegramMessage(j)
  <2> DEFINE r == [job EXCEPT !.state = "sent"]
  <2>1. /\ job.state = "sending" /\ delivery' = [delivery EXCEPT ![j] = r]
        /\ telegrams' \in {telegrams, telegrams \cup {[job |-> j, chat |-> job.chat]}}
        /\ UNCHANGED <<telegramVars, preferences, preferenceEdit>>
    BY <1>7 DEF sendTelegramMessage
  <2>2. /\ r \in Jobs /\ r.state = "sent" /\ r.user = job.user /\ r.linkable = job.linkable
        /\ r.skipTelegram = job.skipTelegram
    BY <1>1 DEF Jobs, JobStates
  <2> HIDE DEF r
  <2>3. JobFits(r, telegram)
    BY <1>2, <2>1, <2>2 DEF JobFits
  <2> QED
    BY <2>1, <2>2, <2>3, OneJobMoves
<1> QED
  BY <1>4, <1>5, <1>6, <1>7

LEMMA ConnectTokenInv ==
  ASSUME DeliveryIInv, NEW u \in Members, createTelegramConnectToken(u)
  PROVE  DeliveryIInv'
<1>1. PICK t \in ConnectTokens :
        /\ issuedTo[t] = NoMember /\ issuedTo' = [issuedTo EXCEPT ![t] = u]
        /\ telegram' = [telegram EXCEPT ![u].token = t]
        /\ UNCHANGED <<linkedBy, preferences, preferenceEdit, delivery, telegrams>>
  BY DEF createTelegramConnectToken
<1>2. /\ telegram \in [Members -> Accounts]
      /\ issuedTo \in [ConnectTokens -> Members \cup {NoMember}]
      /\ t # NoToken /\ u # NoMember /\ NoMember \notin Members
  BY DeliveryAssumption DEF DeliveryIInv, DeliveryShape
<1>3. /\ telegram' \in [Members -> Accounts] /\ telegram'[u].token = t
      /\ \A v \in Members : telegram'[v].chat = telegram[v].chat
      /\ \A v \in Members \ {u} : telegram'[v] = telegram[v]
  BY <1>1, <1>2 DEF Accounts
<1>4. /\ issuedTo' \in [ConnectTokens -> Members \cup {NoMember}] /\ issuedTo'[t] = u
      /\ \A s \in ConnectTokens \ {t} : issuedTo'[s] = issuedTo[s]
  BY <1>1, <1>2
<1>5. DeliveryShape'
  BY <1>1, <1>3, <1>4 DEF DeliveryIInv, DeliveryShape
<1>6. ASSUME NEW v \in Members, telegram'[v].token # NoToken
      PROVE  issuedTo'[telegram'[v].token] = v /\ linkedBy'[telegram'[v].token] = {}
  <2>1. CASE v = u
    BY <1>1, <1>3, <1>4, <2>1 DEF DeliveryIInv, TokensAreSpent
  <2>2. CASE v # u
    <3>1. /\ telegram'[v] = telegram[v] /\ telegram[v].token \in ConnectTokens
          /\ issuedTo[telegram[v].token] = v
      BY <1>2, <1>3, <1>6, <2>2 DEF DeliveryIInv, TokensAreSpent, Accounts
    <3>2. telegram[v].token # t
      BY <1>1, <1>2, <3>1
    <3> QED
      BY <1>1, <1>4, <1>6, <3>1, <3>2 DEF DeliveryIInv, TokensAreSpent
  <2> QED
    BY <2>1, <2>2
<1>7. TokensAreSpent'
  BY <1>1, <1>2, <1>4, <1>6 DEF DeliveryIInv, TokensAreSpent
<1>8. JobsKnowTheirChats(delivery, telegram)' /\ Justified(delivery)'
  BY <1>1, <1>3 DEF DeliveryIInv, JobsKnowTheirChats, JobFits, Justified
<1> QED
  BY <1>5, <1>7, <1>8 DEF DeliveryIInv

\* The token links the chat and is spent; every job of the member may write
\* to that chat from now on.
LEMMA WebhookInv ==
  ASSUME DeliveryIInv, NEW t \in ConnectTokens, NEW c \in Chats, consumeTelegramConnectToken(t, c)
  PROVE  DeliveryIInv'
<1>1. PICK u \in Members :
        /\ telegram[u].token = t
        /\ telegram' = Linked(u, c)
        /\ linkedBy' = [linkedBy EXCEPT ![t] = @ \union {c}]
        /\ delivery' \in Enqueued([j \in DeliveryJobs |->
                                     IF delivery[j].user = u
                                     THEN [delivery[j] EXCEPT !.linkable = @ \union {c}]
                                     ELSE delivery[j]], u, TRUE, telegram')
        /\ UNCHANGED <<issuedTo, preferences, preferenceEdit, telegrams>>
  BY DEF consumeTelegramConnectToken
<1> DEFINE informed == [j \in DeliveryJobs |->
                          IF delivery[j].user = u
                          THEN [delivery[j] EXCEPT !.linkable = @ \union {c}]
                          ELSE delivery[j]]
<1>2. delivery' \in Enqueued(informed, u, TRUE, telegram')
  BY <1>1
<1>3. /\ telegram \in [Members -> Accounts] /\ delivery \in [DeliveryJobs -> Jobs]
      /\ linkedBy \in [ConnectTokens -> SUBSET Chats]
      /\ issuedTo \in [ConnectTokens -> Members \cup {NoMember}]
      /\ telegrams \subseteq [job : DeliveryJobs, chat : Chats]
      /\ t # NoToken /\ u # NoMember /\ NoMember \notin Members
  BY DeliveryAssumption DEF DeliveryIInv, DeliveryShape
<1>4. /\ telegram' \in [Members -> Accounts] /\ telegram'[u] = [chat |-> c, token |-> NoToken]
      /\ \A v \in Members \ {u} : telegram'[v] = telegram[v]
  BY <1>1, <1>3 DEF Accounts, Linked
<1>5. /\ linkedBy' \in [ConnectTokens -> SUBSET Chats] /\ linkedBy'[t] = linkedBy[t] \cup {c}
      /\ \A s \in ConnectTokens \ {t} : linkedBy'[s] = linkedBy[s]
  BY <1>1, <1>3
<1>6. issuedTo[t] = u /\ linkedBy[t] = {}
  BY <1>1, <1>3 DEF DeliveryIInv, TokensAreSpent
<1>7. TokensAreSpent'
  <2>1. ASSUME NEW v \in Members, telegram'[v].token # NoToken
        PROVE  issuedTo'[telegram'[v].token] = v /\ linkedBy'[telegram'[v].token] = {}
    <3>1. v # u
      BY <1>4, <2>1
    <3>2. /\ telegram'[v] = telegram[v] /\ telegram[v].token \in ConnectTokens
          /\ issuedTo[telegram[v].token] = v /\ linkedBy[telegram[v].token] = {}
      BY <1>3, <1>4, <2>1, <3>1 DEF DeliveryIInv, TokensAreSpent, Accounts
    <3>3. telegram[v].token # t
      BY <1>6, <3>1, <3>2
    <3> QED
      BY <1>1, <1>5, <3>2, <3>3
  <2>2. ASSUME NEW s \in ConnectTokens
        PROVE  /\ issuedTo'[s] = NoMember => linkedBy'[s] = {}
               /\ \A a, b \in linkedBy'[s] : a = b
    <3>1. CASE s = t
      BY <1>1, <1>3, <1>5, <1>6, <3>1
    <3>2. CASE s # t
      BY <1>1, <1>5, <3>2 DEF DeliveryIInv, TokensAreSpent
    <3> QED
      BY <3>1, <3>2
  <2> QED
    BY <2>1, <2>2 DEF TokensAreSpent
<1>8. ASSUME NEW j \in DeliveryJobs
      PROVE  /\ informed[j] \in Jobs /\ informed[j].state = delivery[j].state
             /\ informed[j].user = delivery[j].user
             /\ informed[j].chat = delivery[j].chat
             /\ informed[j].skipTelegram = delivery[j].skipTelegram
             /\ delivery[j].linkable \subseteq informed[j].linkable
             /\ delivery[j].user = u => c \in informed[j].linkable
  <2>1. delivery[j] \in Jobs
    BY <1>3
  <2>2. CASE delivery[j].user = u
    <3>1. informed[j] = [delivery[j] EXCEPT !.linkable = delivery[j].linkable \union {c}]
      BY <2>2
    <3> QED
      BY <2>1, <2>2, <3>1 DEF Jobs
  <2>3. CASE delivery[j].user # u
    <3>1. informed[j] = delivery[j]
      BY <2>3
    <3> QED
      BY <2>1, <2>3, <3>1
  <2> QED
    BY <2>2, <2>3
<1>9. informed \in [DeliveryJobs -> Jobs]
  <2>1. informed = [j \in DeliveryJobs |-> informed[j]]
    OBVIOUS
  <2> HIDE DEF informed
  <2> QED
    BY <1>8, <2>1
<1> HIDE DEF informed
<1>10. JobsKnowTheirChats(informed, telegram')
  <2> SUFFICES ASSUME NEW j \in DeliveryJobs
               PROVE  JobFits(informed[j], telegram')
    BY DEF JobsKnowTheirChats
  <2>1. JobFits(delivery[j], telegram)
    BY DEF DeliveryIInv, JobsKnowTheirChats
  <2>2. CASE delivery[j].user = u
    BY <1>3, <1>4, <1>8, <2>1, <2>2 DEF JobFits
  <2>3. CASE delivery[j].user # u
    BY <1>4, <1>8, <2>1, <2>3 DEF JobFits
  <2> QED
    BY <2>2, <2>3
<1>11. Justified(informed)
  <2> SUFFICES ASSUME NEW m \in telegrams
               PROVE  /\ informed[m.job].state # "none"
                      /\ m.chat \in informed[m.job].linkable /\ ~informed[m.job].skipTelegram
    BY DEF Justified
  <2>1. m.job \in DeliveryJobs
    BY <1>3
  <2>2. /\ delivery[m.job].state # "none"
        /\ m.chat \in delivery[m.job].linkable /\ ~delivery[m.job].skipTelegram
    BY DEF DeliveryIInv, Justified
  <2> QED
    BY <1>8, <2>1, <2>2
<1>12. /\ delivery' \in [DeliveryJobs -> Jobs] /\ JobsKnowTheirChats(delivery', telegram')
       /\ Justified(delivery')
  BY <1>2, <1>3, <1>4, <1>9, <1>10, <1>11, EnqueuedFits
<1>13. DeliveryShape'
  BY <1>1, <1>4, <1>5, <1>12 DEF DeliveryIInv, DeliveryShape
<1>14. JobsKnowTheirChats(delivery, telegram)' /\ Justified(delivery)'
  BY <1>1, <1>12 DEF JobsKnowTheirChats, Justified
<1> QED
  BY <1>7, <1>13, <1>14 DEF DeliveryIInv

LEMMA DisconnectInv ==
  ASSUME DeliveryIInv, NEW u \in Members, disconnectTelegram(u)
  PROVE  DeliveryIInv'
<1>1. /\ telegram' = [telegram EXCEPT ![u] = NoRowYet]
      /\ delivery' \in Enqueued(delivery, u, FALSE, telegram')
      /\ UNCHANGED <<issuedTo, linkedBy, preferences, preferenceEdit, telegrams>>
  BY DEF disconnectTelegram
<1>2. telegram \in [Members -> Accounts] /\ delivery \in [DeliveryJobs -> Jobs]
  BY DEF DeliveryIInv, DeliveryShape
<1>3. /\ telegram' \in [Members -> Accounts] /\ telegram'[u].token = NoToken
      /\ telegram'[u].chat = NoChat
      /\ \A v \in Members \ {u} : telegram'[v] = telegram[v]
  BY <1>1, <1>2 DEF Accounts, NoRowYet
<1>4. TokensAreSpent'
  BY <1>1, <1>3 DEF DeliveryIInv, TokensAreSpent
<1>5. JobsKnowTheirChats(delivery, telegram')
  BY <1>3 DEF DeliveryIInv, JobsKnowTheirChats, JobFits
<1>6. /\ delivery' \in [DeliveryJobs -> Jobs] /\ JobsKnowTheirChats(delivery', telegram')
      /\ Justified(delivery')
  BY <1>1, <1>2, <1>3, <1>5, EnqueuedFits DEF DeliveryIInv, DeliveryShape
<1>7. DeliveryShape'
  BY <1>1, <1>3, <1>6 DEF DeliveryIInv, DeliveryShape
<1>8. JobsKnowTheirChats(delivery, telegram)' /\ Justified(delivery)'
  BY <1>1, <1>6 DEF JobsKnowTheirChats, Justified
<1> QED
  BY <1>4, <1>7, <1>8 DEF DeliveryIInv

LEMMA PreferencesInv ==
  ASSUME DeliveryIInv,
         updateNotificationPreferences \/ \E u \in Members : ReadPreferences(u)
  PROVE  DeliveryIInv'
<1>1. /\ UNCHANGED <<telegramVars, delivery, telegrams>>
      /\ preferences' \in [Members -> Channels]
      /\ preferenceEdit' \in [user : Members \cup {NoMember}, next : Channels]
  <2>1. CASE updateNotificationPreferences
    BY <2>1 DEF updateNotificationPreferences, NoEdit, Channels, DEFAULT_PREFERENCES,
                DeliveryIInv, DeliveryShape
  <2>2. ASSUME NEW u \in Members, ReadPreferences(u)
        PROVE  <1>1
    <3>1. PICK channel \in {"email", "telegram"}, on \in BOOLEAN :
            preferenceEdit' = [user |-> u, next |-> [preferences[u] EXCEPT ![channel] = on]]
      BY <2>2 DEF ReadPreferences
    <3>2. preferences[u] \in Channels
      BY DEF DeliveryIInv, DeliveryShape
    <3>3. [preferences[u] EXCEPT ![channel] = on] \in Channels
      <4>1. CASE channel = "email"
        BY <3>2, <4>1 DEF Channels
      <4>2. CASE channel = "telegram"
        BY <3>2, <4>2 DEF Channels
      <4> QED
        BY <4>1, <4>2
    <3> QED
      BY <2>2, <3>1, <3>3 DEF ReadPreferences, DeliveryIInv, DeliveryShape
  <2> QED
    BY <2>1, <2>2
<1>2. DeliveryShape' /\ TokensAreSpent'
  BY <1>1 DEF DeliveryIInv, DeliveryShape, TokensAreSpent, telegramVars
<1>3. JobsKnowTheirChats(delivery, telegram)' /\ Justified(delivery)'
  BY <1>1 DEF DeliveryIInv, JobsKnowTheirChats, Justified, telegramVars
<1> QED
  BY <1>2, <1>3 DEF DeliveryIInv

LEMMA DeliveryNextInv == DeliveryIInv /\ [DeliveryNext]_deliveryVars => DeliveryIInv'
<1> SUFFICES ASSUME DeliveryIInv, [DeliveryNext]_deliveryVars
             PROVE  DeliveryIInv'
  OBVIOUS
<1>1. CASE UNCHANGED deliveryVars
  BY <1>1 DEF DeliveryIInv, DeliveryShape, TokensAreSpent, JobsKnowTheirChats, Justified,
              deliveryVars, telegramVars
<1>2. CASE DeliveryNext
  BY <1>2, CreateNotificationInv, ConnectTokenInv, DisconnectInv, PreferencesInv, WebhookInv,
     JobStepsInv DEF DeliveryNext, TelegramWebhook
<1> QED
  BY <1>1, <1>2

LEMMA DeliveryIInvImplies == DeliveryIInv => TelegramReachesItsOwner
<1> SUFFICES ASSUME DeliveryIInv
             PROVE  TelegramReachesItsOwner
  OBVIOUS
<1>1. ASSUME NEW t \in ConnectTokens
      PROVE  Cardinality(linkedBy[t]) <= 1
  <2>1. CASE linkedBy[t] = {}
    BY <2>1, FS_EmptySet
  <2>2. ASSUME NEW c \in linkedBy[t]
        PROVE  Cardinality(linkedBy[t]) <= 1
    <3>1. linkedBy[t] = {c}
      BY DEF DeliveryIInv, TokensAreSpent
    <3>2. Cardinality({c}) = 1
      BY FS_Singleton, Zenon
    <3> QED
      BY <3>1, <3>2
  <2> QED
    BY <2>1, <2>2
<1> QED
  BY <1>1 DEF DeliveryIInv, Justified, TelegramReachesItsOwner

\* Whatever is linked, disconnected, retried, repeated or late, a Telegram
\* message reaches only a chat its recipient had linked, and a token links one
\* chat.
THEOREM TelegramIsPrivate == DeliverySpec => []TelegramReachesItsOwner
<1>1. DeliverySpec => []DeliveryIInv
  BY DeliveryInitInv, DeliveryNextInv, PTL DEF DeliverySpec
<1> QED
  BY <1>1, DeliveryIInvImplies, PTL

----------------------------------------------------------------------------
(* Sockets: the inductive invariant *)

\* The maps list only sockets that are being served, the presence records
\* outlive them until the cleanup, and a socket that has been closed has
\* begun its cleanup.
SocketStands(s) ==
  /\ shake[s] = "none" => ready[s] = "none" /\ cleanup[s] = "none" /\ frame[s] = "idle"
  /\ shake[s] # "none" => ready[s] # "none"
  /\ ready[s] = "open" => cleanup[s] = "none"
  /\ ready[s] = "closed" => cleanup[s] # "none"
  /\ s \in registered => shake[s] # "none" /\ cleanup[s] = "none"
  /\ s \in presence => shake[s] \in {"present", "open", "ended"} /\ cleanup[s] # "done"
  /\ shake[s] = "presence" => cleanup[s] # "done"

\* A socket past the registration that is open is in the maps; once the event
\* of the revoked family has been handled, one past the final check is not
\* open.
SocketIsKnown(s) ==
  /\ shake[s] \in {"registered", "presence", "present", "open"} /\ ready[s] = "open" =>
       s \in registered
  /\ shake[s] \in {"presence", "present", "open"} /\ revocation["family"] = "dispatched" =>
       ready[s] # "open"

\* A frame that came after a revocation stops at the check of its store.
LateFrameStops(s) ==
  lateFrame[s] => /\ \E k \in RevocationKinds : Durable(k)
                  /\ frame[s] \in {"idle", "session", "account"}
                  /\ frame[s] = "account" => Durable("epoch")

DrainedIsQuiet ==
  drained => /\ shuttingDown /\ ActiveHandlers = {}
             /\ \A s \in Sockets : ready[s] \in {"none", "closed"}

SocketsShape ==
  /\ shake \in [Sockets -> {"none", "session", "account", "registered",
                            "presence", "present", "open", "ended"}]
  /\ ready \in [Sockets -> {"none", "open", "closing", "closed"}]
  /\ registered \subseteq Sockets /\ joined \subseteq Sockets /\ presence \subseteq Sockets
  /\ cleanup \in [Sockets -> {"none", "awaiting", "done"}]
  /\ frame \in [Sockets -> {"idle", "session", "account", "access", "sending"}]
  /\ lateFrame \in [Sockets -> BOOLEAN]
  /\ revocation \in [RevocationKinds -> {"none", "durable", "dispatched", "lost"}]
  /\ sweep.clients \subseteq Sockets

SocketsIInv ==
  /\ SocketsShape /\ DrainedIsQuiet
  /\ \A s \in Sockets : SocketStands(s) /\ SocketIsKnown(s) /\ LateFrameStops(s)

----------------------------------------------------------------------------
(* Sockets: the steps *)

LEMMA SocketsInitInv == SocketsInit => SocketsIInv
  BY DEF SocketsInit, SocketsIInv, SocketsShape, DrainedIsQuiet, SocketStands, SocketIsKnown,
         LateFrameStops, NoSweep, RevocationKinds

\* What a step of socket s leaves alone.
OnlySocket(s) ==
  /\ \A c \in Sockets \ {s} :
       /\ shake'[c] = shake[c] /\ ready'[c] = ready[c] /\ cleanup'[c] = cleanup[c]
       /\ frame'[c] = frame[c] /\ lateFrame'[c] = lateFrame[c]
       /\ (c \in registered') <=> (c \in registered)
       /\ (c \in presence') <=> (c \in presence)
  /\ UNCHANGED <<revocation, sweep, shuttingDown, drained>>

\* A socket with work to do, or that may still get some: not after the drain.
LEMMA QuietSockets ==
  ASSUME SocketsIInv, drained, NEW s \in Sockets
  PROVE  /\ ready[s] \in {"none", "closed"} /\ frame[s] = "idle"
         /\ shake[s] \in {"none", "open", "ended"}
         /\ cleanup[s] = IF shake[s] = "none" THEN "none" ELSE "done"
         /\ s \notin registered /\ s \notin presence
  BY DEF SocketsIInv, SocketsShape, DrainedIsQuiet, ActiveHandlers, SocketStands

LEMMA OneSocketMoves ==
  ASSUME SocketsIInv, NEW s \in Sockets, OnlySocket(s), SocketsShape', ~drained,
         SocketStands(s)', SocketIsKnown(s)', LateFrameStops(s)'
  PROVE  SocketsIInv'
<1>1. ASSUME NEW c \in Sockets \ {s}
      PROVE  SocketStands(c)' /\ SocketIsKnown(c)' /\ LateFrameStops(c)'
  <2>1. SocketStands(c)'
    BY DEF OnlySocket, SocketsIInv, SocketStands
  <2>2. SocketIsKnown(c)'
    BY DEF OnlySocket, SocketsIInv, SocketIsKnown
  <2>3. LateFrameStops(c)'
    BY DEF OnlySocket, SocketsIInv, LateFrameStops, Durable
  <2> QED
    BY <2>1, <2>2, <2>3
<1>2. DrainedIsQuiet'
  BY DEF OnlySocket, DrainedIsQuiet
<1> QED
  BY <1>1, <1>2 DEF SocketsIInv

LEMMA ClosingShape ==
  ASSUME SocketsShape, NEW S
  PROVE  /\ Closing(S) \in [Sockets -> {"none", "open", "closing", "closed"}]
         /\ \A c \in Sockets : \/ Closing(S)[c] = ready[c] /\ (c \in S => ready[c] # "open")
                               \/ c \in S /\ ready[c] = "open" /\ Closing(S)[c] = "closing"
  BY DEF SocketsShape, Closing

LEMMA StartCleanupShape ==
  ASSUME SocketsShape, NEW s \in Sockets, StartCleanup(s)
  PROVE  /\ registered' \subseteq Sockets /\ joined' \subseteq Sockets
         /\ cleanup' \in [Sockets -> {"none", "awaiting", "done"}]
         /\ \A c \in Sockets \ {s} : /\ cleanup'[c] = cleanup[c]
                                     /\ (c \in registered') <=> (c \in registered)
         /\ cleanup'[s] # "none"
         /\ \/ cleanup'[s] = cleanup[s] /\ registered' = registered
            \/ /\ cleanup[s] = "none" /\ s \notin registered'
               /\ cleanup'[s] = "done" => s \notin presence /\ shake[s] # "presence"
  BY DEF SocketsShape, StartCleanup, leaveAll

LEMMA ConnectInv ==
  ASSUME SocketsIInv, NEW s \in Sockets, Connect(s)
  PROVE  SocketsIInv'
<1>1. ~drained
  BY QuietSockets DEF Connect
<1>2. SocketsShape /\ SocketStands(s) /\ SocketIsKnown(s) /\ LateFrameStops(s)
  BY DEF SocketsIInv
<1>3. OnlySocket(s) /\ SocketsShape'
  BY <1>2 DEF Connect, OnlySocket, SocketsShape, Durable
<1>4. SocketStands(s)'
  BY <1>2 DEF Connect, SocketsShape, SocketStands
<1>5. SocketIsKnown(s)'
  BY <1>2 DEF Connect, SocketsShape, SocketStands, SocketIsKnown, Durable
<1>6. LateFrameStops(s)'
  BY <1>2 DEF Connect, SocketsShape, SocketStands, LateFrameStops, Durable, RevocationKinds
<1> QED
  BY <1>1, <1>3, <1>4, <1>5, <1>6, OneSocketMoves

LEMMA CheckSessionInv ==
  ASSUME SocketsIInv, NEW s \in Sockets, CheckSession(s)
  PROVE  SocketsIInv'
<1>1. ~drained
  BY QuietSockets DEF CheckSession, RejectHandshake, SocketFault, authenticateSocket
<1>2. SocketsShape /\ SocketStands(s) /\ SocketIsKnown(s) /\ LateFrameStops(s)
  BY DEF SocketsIInv
<1>3. OnlySocket(s) /\ SocketsShape'
  BY <1>2, ClosingShape
  DEF CheckSession, RejectHandshake, SocketFault, authenticateSocket, OnlySocket, SocketsShape,
      Durable
<1>4. SocketStands(s)'
  BY <1>2, ClosingShape
  DEF CheckSession, RejectHandshake, SocketFault, authenticateSocket, SocketsShape, SocketStands
<1>5. SocketIsKnown(s)'
  BY <1>2, ClosingShape
  DEF CheckSession, RejectHandshake, SocketFault, authenticateSocket, SocketsShape, SocketStands,
      SocketIsKnown, Durable
<1>6. LateFrameStops(s)'
  BY <1>2
  DEF CheckSession, RejectHandshake, SocketFault, authenticateSocket, SocketsShape, SocketStands,
      LateFrameStops, Durable, RevocationKinds
<1> QED
  BY <1>1, <1>3, <1>4, <1>5, <1>6, OneSocketMoves

\* The maps are filled while the socket is open.
LEMMA RegisterSocketInv ==
  ASSUME SocketsIInv, NEW s \in Sockets, RegisterSocket(s)
  PROVE  SocketsIInv'
<1>1. ~drained
  BY QuietSockets DEF RegisterSocket, RejectHandshake
<1>2. SocketsShape /\ SocketStands(s) /\ SocketIsKnown(s) /\ LateFrameStops(s)
  BY DEF SocketsIInv
<1>3. OnlySocket(s) /\ SocketsShape'
  BY <1>2, ClosingShape DEF RegisterSocket, RejectHandshake, OnlySocket, SocketsShape, Durable
<1>4. SocketStands(s)'
  BY <1>2, ClosingShape DEF RegisterSocket, RejectHandshake, SocketsShape, SocketStands
<1>5. SocketIsKnown(s)'
  BY <1>2, ClosingShape
  DEF RegisterSocket, RejectHandshake, SocketsShape, SocketStands, SocketIsKnown, Durable
<1>6. LateFrameStops(s)'
  BY <1>2
  DEF RegisterSocket, RejectHandshake, SocketsShape, SocketStands, LateFrameStops, Durable,
      RevocationKinds
<1> QED
  BY <1>1, <1>3, <1>4, <1>5, <1>6, OneSocketMoves

\* A socket whose family is revoked does not get past the final check.
LEMMA FinalCheckInv ==
  ASSUME SocketsIInv, NEW s \in Sockets, FinalCheck(s)
  PROVE  SocketsIInv'
<1>1. ~drained
  BY QuietSockets DEF FinalCheck, RejectHandshake, BeginPresence, SocketFault
<1>2. SocketsShape /\ SocketStands(s) /\ SocketIsKnown(s) /\ LateFrameStops(s)
  BY DEF SocketsIInv
<1>3. OnlySocket(s) /\ SocketsShape'
  BY <1>2, ClosingShape, StartCleanupShape
  DEF FinalCheck, RejectHandshake, BeginPresence, SocketFault, OnlySocket, SocketsShape, Durable
<1>4. SocketStands(s)'
  BY <1>2, ClosingShape, StartCleanupShape
  DEF FinalCheck, RejectHandshake, BeginPresence, SocketFault, SocketsShape, SocketStands
<1>5. SocketIsKnown(s)'
  BY <1>2, ClosingShape, StartCleanupShape
  DEF FinalCheck, RejectHandshake, BeginPresence, SocketFault, SocketsShape, SocketStands,
      SocketIsKnown, Durable
<1>6. LateFrameStops(s)'
  BY <1>2
  DEF FinalCheck, RejectHandshake, BeginPresence, SocketFault, SocketsShape, SocketStands,
      LateFrameStops, Durable, RevocationKinds
<1> QED
  BY <1>1, <1>3, <1>4, <1>5, <1>6, OneSocketMoves

LEMMA RegisterPresenceInv ==
  ASSUME SocketsIInv, NEW s \in Sockets, RegisterPresence(s)
  PROVE  SocketsIInv'
<1>1. ~drained
  BY QuietSockets DEF RegisterPresence, SocketFault
<1>2. SocketsShape /\ SocketStands(s) /\ SocketIsKnown(s) /\ LateFrameStops(s)
  BY DEF SocketsIInv
<1>3. OnlySocket(s) /\ SocketsShape'
  BY <1>2 DEF RegisterPresence, SocketFault, OnlySocket, SocketsShape, Durable
<1>4. SocketStands(s)'
  BY <1>2 DEF RegisterPresence, SocketFault, SocketsShape, SocketStands
<1>5. SocketIsKnown(s)'
  BY <1>2 DEF RegisterPresence, SocketFault, SocketsShape, SocketStands, SocketIsKnown, Durable
<1>6. LateFrameStops(s)'
  BY <1>2
  DEF RegisterPresence, SocketFault, SocketsShape, SocketStands, LateFrameStops, Durable,
      RevocationKinds
<1> QED
  BY <1>1, <1>3, <1>4, <1>5, <1>6, OneSocketMoves

LEMMA AdmitInv ==
  ASSUME SocketsIInv, NEW s \in Sockets, Admit(s)
  PROVE  SocketsIInv'
<1>1. ~drained
  BY QuietSockets DEF Admit, RejectHandshake
<1>2. SocketsShape /\ SocketStands(s) /\ SocketIsKnown(s) /\ LateFrameStops(s)
  BY DEF SocketsIInv
<1>3. OnlySocket(s) /\ SocketsShape'
  BY <1>2, ClosingShape, StartCleanupShape
  DEF Admit, RejectHandshake, OnlySocket, SocketsShape, Durable
<1>4. SocketStands(s)'
  BY <1>2, ClosingShape, StartCleanupShape DEF Admit, RejectHandshake, SocketsShape, SocketStands
<1>5. SocketIsKnown(s)'
  BY <1>2, ClosingShape, StartCleanupShape
  DEF Admit, RejectHandshake, SocketsShape, SocketStands, SocketIsKnown, Durable
<1>6. LateFrameStops(s)'
  BY <1>2
  DEF Admit, RejectHandshake, SocketsShape, SocketStands, LateFrameStops, Durable, RevocationKinds
<1> QED
  BY <1>1, <1>3, <1>4, <1>5, <1>6, OneSocketMoves

LEMMA PresenceHeartbeatInv ==
  ASSUME SocketsIInv, NEW s \in Sockets, PresenceHeartbeat(s)
  PROVE  SocketsIInv'
<1>1. ~drained
  BY QuietSockets DEF PresenceHeartbeat
<1>2. SocketsShape /\ SocketStands(s) /\ SocketIsKnown(s) /\ LateFrameStops(s)
  BY DEF SocketsIInv
<1>3. OnlySocket(s) /\ SocketsShape'
  BY <1>2 DEF PresenceHeartbeat, OnlySocket, SocketsShape, Durable
<1>4. SocketStands(s)'
  BY <1>2 DEF PresenceHeartbeat, SocketsShape, SocketStands
<1>5. SocketIsKnown(s)'
  BY <1>2 DEF PresenceHeartbeat, SocketsShape, SocketStands, SocketIsKnown, Durable
<1>6. LateFrameStops(s)'
  BY <1>2
  DEF PresenceHeartbeat, SocketsShape, SocketStands, LateFrameStops, Durable, RevocationKinds
<1> QED
  BY <1>1, <1>3, <1>4, <1>5, <1>6, OneSocketMoves

\* A socket closed while its record is being written waits for the record.
LEMMA CloseEventInv ==
  ASSUME SocketsIInv, NEW s \in Sockets, CloseEvent(s)
  PROVE  SocketsIInv'
<1>1. ~drained
  BY QuietSockets DEF CloseEvent
<1>2. SocketsShape /\ SocketStands(s) /\ SocketIsKnown(s) /\ LateFrameStops(s)
  BY DEF SocketsIInv
<1>3. OnlySocket(s) /\ SocketsShape'
  BY <1>2, StartCleanupShape DEF CloseEvent, OnlySocket, SocketsShape, Durable
<1>4. SocketStands(s)'
  BY <1>2, StartCleanupShape DEF CloseEvent, SocketsShape, SocketStands
<1>5. SocketIsKnown(s)'
  BY <1>2, StartCleanupShape DEF CloseEvent, SocketsShape, SocketStands, SocketIsKnown, Durable
<1>6. LateFrameStops(s)'
  BY <1>2 DEF CloseEvent, SocketsShape, SocketStands, LateFrameStops, Durable, RevocationKinds
<1> QED
  BY <1>1, <1>3, <1>4, <1>5, <1>6, OneSocketMoves

LEMMA UnregisterPresenceInv ==
  ASSUME SocketsIInv, NEW s \in Sockets, UnregisterPresence(s)
  PROVE  SocketsIInv'
<1>1. ~drained
  BY QuietSockets DEF UnregisterPresence
<1>2. SocketsShape /\ SocketStands(s) /\ SocketIsKnown(s) /\ LateFrameStops(s)
  BY DEF SocketsIInv
<1>3. OnlySocket(s) /\ SocketsShape'
  BY <1>2 DEF UnregisterPresence, OnlySocket, SocketsShape, Durable
<1>4. SocketStands(s)'
  BY <1>2 DEF UnregisterPresence, SocketsShape, SocketStands
<1>5. SocketIsKnown(s)'
  BY <1>2 DEF UnregisterPresence, SocketsShape, SocketStands, SocketIsKnown, Durable
<1>6. LateFrameStops(s)'
  BY <1>2
  DEF UnregisterPresence, SocketsShape, SocketStands, LateFrameStops, Durable, RevocationKinds
<1> QED
  BY <1>1, <1>3, <1>4, <1>5, <1>6, OneSocketMoves

LEMMA FrameArrivesInv ==
  ASSUME SocketsIInv, NEW s \in Sockets, FrameArrives(s)
  PROVE  SocketsIInv'
<1>1. ~drained
  BY QuietSockets DEF FrameArrives
<1>2. SocketsShape /\ SocketStands(s) /\ SocketIsKnown(s) /\ LateFrameStops(s)
  BY DEF SocketsIInv
<1>3. OnlySocket(s) /\ SocketsShape'
  BY <1>2 DEF FrameArrives, OnlySocket, SocketsShape, Durable
<1>4. SocketStands(s)'
  BY <1>2 DEF FrameArrives, SocketsShape, SocketStands
<1>5. SocketIsKnown(s)'
  BY <1>2 DEF FrameArrives, SocketsShape, SocketStands, SocketIsKnown, Durable
<1>6. LateFrameStops(s)'
  BY <1>2 DEF FrameArrives, SocketsShape, SocketStands, LateFrameStops, Durable, RevocationKinds
<1> QED
  BY <1>1, <1>3, <1>4, <1>5, <1>6, OneSocketMoves

LEMMA CloseAbusiveInv ==
  ASSUME SocketsIInv, NEW s \in Sockets, CloseAbusive(s)
  PROVE  SocketsIInv'
<1>1. ~drained
  BY QuietSockets DEF CloseAbusive
<1>2. SocketsShape /\ SocketStands(s) /\ SocketIsKnown(s) /\ LateFrameStops(s)
  BY DEF SocketsIInv
<1>3. OnlySocket(s) /\ SocketsShape'
  BY <1>2, ClosingShape DEF CloseAbusive, OnlySocket, SocketsShape, Durable
<1>4. SocketStands(s)'
  BY <1>2, ClosingShape DEF CloseAbusive, SocketsShape, SocketStands
<1>5. SocketIsKnown(s)'
  BY <1>2, ClosingShape DEF CloseAbusive, SocketsShape, SocketStands, SocketIsKnown, Durable
<1>6. LateFrameStops(s)'
  BY <1>2 DEF CloseAbusive, SocketsShape, SocketStands, LateFrameStops, Durable, RevocationKinds
<1> QED
  BY <1>1, <1>3, <1>4, <1>5, <1>6, OneSocketMoves

LEMMA FrameSessionInv ==
  ASSUME SocketsIInv, NEW s \in Sockets, FrameSession(s)
  PROVE  SocketsIInv'
<1>1. ~drained
  BY QuietSockets DEF FrameSession, EndFrame, SocketFault
<1>2. SocketsShape /\ SocketStands(s) /\ SocketIsKnown(s) /\ LateFrameStops(s)
  BY DEF SocketsIInv
<1>3. /\ \/ ready' = ready
         \/ ready' = Closing({s})
      /\ UNCHANGED <<shake, registered, presence, cleanup, revocation, sweep, shuttingDown,
                     drained>>
      /\ joined' \in {joined, joined \ {s}}
  BY DEF FrameSession, EndFrame, SocketFault
<1>4. /\ frame' \in [Sockets -> {"idle", "session", "account", "access", "sending"}]
      /\ lateFrame' \in [Sockets -> BOOLEAN]
      /\ \A c \in Sockets \ {s} : frame'[c] = frame[c] /\ lateFrame'[c] = lateFrame[c]
  BY <1>2 DEF FrameSession, EndFrame, SocketFault, SocketsShape
<1>5. OnlySocket(s) /\ SocketsShape'
  BY <1>3, <1>4, <1>2, ClosingShape DEF OnlySocket, SocketsShape
<1>6. SocketStands(s)'
  BY <1>2, ClosingShape DEF FrameSession, EndFrame, SocketFault, SocketsShape, SocketStands
<1>7. SocketIsKnown(s)'
  BY <1>3, <1>2, ClosingShape DEF SocketsShape, SocketIsKnown
<1>8. LateFrameStops(s)'
  BY <1>2
  DEF FrameSession, EndFrame, SocketFault, SocketsShape, SocketStands, LateFrameStops, Durable,
      RevocationKinds
<1> QED
  BY <1>1, <1>5, <1>6, <1>7, <1>8, OneSocketMoves

LEMMA FrameAccountInv ==
  ASSUME SocketsIInv, NEW s \in Sockets, FrameAccount(s)
  PROVE  SocketsIInv'
<1>1. ~drained
  BY QuietSockets DEF FrameAccount, EndFrame, verifyUserAlive
<1>2. SocketsShape /\ SocketStands(s) /\ SocketIsKnown(s) /\ LateFrameStops(s)
  BY DEF SocketsIInv
<1>3. /\ \/ ready' = ready
         \/ ready' = Closing({s})
      /\ UNCHANGED <<shake, registered, presence, cleanup, revocation, sweep, shuttingDown,
                     drained>>
      /\ joined' \in {joined, joined \ {s}}
  BY DEF FrameAccount, EndFrame, verifyUserAlive
<1>4. /\ frame' \in [Sockets -> {"idle", "session", "account", "access", "sending"}]
      /\ lateFrame' \in [Sockets -> BOOLEAN]
      /\ \A c \in Sockets \ {s} : frame'[c] = frame[c] /\ lateFrame'[c] = lateFrame[c]
  BY <1>2 DEF FrameAccount, EndFrame, verifyUserAlive, SocketsShape
<1>5. OnlySocket(s) /\ SocketsShape'
  BY <1>3, <1>4, <1>2, ClosingShape DEF OnlySocket, SocketsShape
<1>6. SocketStands(s)'
  BY <1>2, ClosingShape DEF FrameAccount, EndFrame, verifyUserAlive, SocketsShape, SocketStands
<1>7. SocketIsKnown(s)'
  BY <1>3, <1>2, ClosingShape DEF SocketsShape, SocketIsKnown
<1>8. LateFrameStops(s)'
  BY <1>2
  DEF FrameAccount, EndFrame, verifyUserAlive, SocketsShape, SocketStands, LateFrameStops, Durable,
      RevocationKinds
<1> QED
  BY <1>1, <1>5, <1>6, <1>7, <1>8, OneSocketMoves

LEMMA CompleteJoinInv ==
  ASSUME SocketsIInv, NEW s \in Sockets, CompleteJoin(s)
  PROVE  SocketsIInv'
<1>1. ~drained
  BY QuietSockets DEF CompleteJoin, EndFrame
<1>2. SocketsShape /\ SocketStands(s) /\ SocketIsKnown(s) /\ LateFrameStops(s)
  BY DEF SocketsIInv
<1>3. OnlySocket(s) /\ SocketsShape'
  BY <1>2 DEF CompleteJoin, EndFrame, OnlySocket, SocketsShape, Durable
<1>4. SocketStands(s)'
  BY <1>2 DEF CompleteJoin, EndFrame, SocketsShape, SocketStands
<1>5. SocketIsKnown(s)'
  BY <1>2 DEF CompleteJoin, EndFrame, SocketsShape, SocketStands, SocketIsKnown, Durable
<1>6. LateFrameStops(s)'
  BY <1>2
  DEF CompleteJoin, EndFrame, SocketsShape, SocketStands, LateFrameStops, Durable, RevocationKinds
<1> QED
  BY <1>1, <1>3, <1>4, <1>5, <1>6, OneSocketMoves

LEMMA CompleteSendInv ==
  ASSUME SocketsIInv, NEW s \in Sockets, CompleteSend(s)
  PROVE  SocketsIInv'
<1>1. ~drained
  BY QuietSockets DEF CompleteSend, EndFrame
<1>2. SocketsShape /\ SocketStands(s) /\ SocketIsKnown(s) /\ LateFrameStops(s)
  BY DEF SocketsIInv
<1>3. OnlySocket(s) /\ SocketsShape'
  BY <1>2 DEF CompleteSend, EndFrame, OnlySocket, SocketsShape, Durable
<1>4. SocketStands(s)'
  BY <1>2 DEF CompleteSend, EndFrame, SocketsShape, SocketStands
<1>5. SocketIsKnown(s)'
  BY <1>2 DEF CompleteSend, EndFrame, SocketsShape, SocketStands, SocketIsKnown, Durable
<1>6. LateFrameStops(s)'
  BY <1>2
  DEF CompleteSend, EndFrame, SocketsShape, SocketStands, LateFrameStops, Durable, RevocationKinds
<1> QED
  BY <1>1, <1>3, <1>4, <1>5, <1>6, OneSocketMoves

\* A step that closes sockets and touches nothing else of them.
LEMMA SocketsClose ==
  ASSUME SocketsIInv, NEW S, ready' = Closing(S) \/ ready' = ready,
         UNCHANGED <<shake, registered, joined, presence, cleanup, frame, lateFrame, drained>>,
         shuttingDown => shuttingDown', SocketsShape',
         \A k \in RevocationKinds : Durable(k) => Durable(k)',
         \A s \in Sockets : SocketIsKnown(s)'
  PROVE  SocketsIInv'
<1>1. SocketsShape
  BY DEF SocketsIInv
<1>2. ASSUME NEW s \in Sockets
      PROVE  SocketStands(s)' /\ LateFrameStops(s)'
  <2>1. SocketStands(s) /\ LateFrameStops(s)
    BY DEF SocketsIInv
  <2>2. SocketStands(s)'
    BY <1>1, <2>1, ClosingShape DEF SocketStands, SocketsShape
  <2>3. LateFrameStops(s)'
    BY <2>1 DEF LateFrameStops, RevocationKinds
  <2> QED
    BY <2>2, <2>3
<1>3. DrainedIsQuiet'
  <2> SUFFICES ASSUME drained
               PROVE  /\ shuttingDown' /\ (ActiveHandlers = {})'
                      /\ \A s \in Sockets : ready'[s] \in {"none", "closed"}
    BY DEF DrainedIsQuiet
  <2>1. /\ shuttingDown /\ ActiveHandlers = {}
        /\ \A s \in Sockets : ready[s] \in {"none", "closed"}
    BY DEF SocketsIInv, DrainedIsQuiet
  <2>2. \A s \in Sockets : ready'[s] = ready[s]
    BY <1>1, <2>1, ClosingShape
  <2> QED
    BY <2>1, <2>2 DEF ActiveHandlers
<1> QED
  BY <1>2, <1>3 DEF SocketsIInv

LEMMA RevokeInv ==
  ASSUME SocketsIInv, NEW k \in RevocationKinds,
         Revoke(k) \/ DispatchRevocation(k) \/ LoseRevocation(k)
  PROVE  SocketsIInv'
<1>1. PICK status \in {"durable", "dispatched", "lost"} :
        /\ revocation' = [revocation EXCEPT ![k] = status]
        /\ IF status = "dispatched" THEN ready' = Closing(registered) ELSE ready' = ready
        /\ UNCHANGED <<shake, registered, joined, presence, cleanup, frame, lateFrame, sweep,
                       shuttingDown, drained>>
  BY DEF Revoke, DispatchRevocation, LoseRevocation
<1>2. SocketsShape
  BY DEF SocketsIInv
<1>3. /\ revocation' \in [RevocationKinds -> {"none", "durable", "dispatched", "lost"}]
      /\ revocation'[k] = status
      /\ \A m \in RevocationKinds \ {k} : revocation'[m] = revocation[m]
  BY <1>1, <1>2 DEF SocketsShape
<1>4. SocketsShape'
  BY <1>1, <1>2, <1>3, ClosingShape DEF SocketsShape
<1>5. \A m \in RevocationKinds : Durable(m) => Durable(m)'
  BY <1>1, <1>3 DEF Durable
<1>6. ASSUME NEW s \in Sockets
      PROVE  SocketIsKnown(s)'
  <2>1. SocketIsKnown(s)
    BY DEF SocketsIInv
  <2>2. CASE status = "dispatched"
    BY <1>1, <1>2, <2>1, <2>2, ClosingShape DEF SocketIsKnown, SocketsShape
  <2>3. CASE status # "dispatched"
    <3>1. ready' = ready /\ (revocation'["family"] = "dispatched" => revocation["family"] = "dispatched")
      BY <1>1, <1>3, <2>3 DEF RevocationKinds
    <3> QED
      BY <1>1, <2>1, <3>1 DEF SocketIsKnown
  <2> QED
    BY <2>2, <2>3
<1> QED
  BY <1>1, <1>4, <1>5, <1>6, SocketsClose

LEMMA SweepAndShutdownInv ==
  ASSUME SocketsIInv, SweepStep \/ BeginShutdown
  PROVE  SocketsIInv'
<1>1. SocketsShape
  BY DEF SocketsIInv
<1>2. /\ UNCHANGED <<shake, registered, joined, presence, cleanup, frame, lateFrame, drained,
                     revocation>>
      /\ shuttingDown => shuttingDown'
  BY DEF SweepStep, StartSweep, EvaluateSweep, CloseSwept, BeginShutdown
<1>3. sweep'.clients \subseteq Sockets
  BY <1>1 DEF SocketsShape, SweepStep, StartSweep, EvaluateSweep, CloseSwept, BeginShutdown,
              RevokedClients, NoSweep
<1>4. PICK S : ready' = Closing(S) \/ ready' = ready
  BY DEF SweepStep, StartSweep, EvaluateSweep, CloseSwept, BeginShutdown
<1>5. SocketsShape'
  BY <1>1, <1>2, <1>3, <1>4, ClosingShape DEF SocketsShape
<1>6. ASSUME NEW s \in Sockets
      PROVE  SocketIsKnown(s)'
  <2>1. SocketIsKnown(s)
    BY DEF SocketsIInv
  <2>2. ready'[s] = "open" => ready[s] = "open"
    BY <1>1, <1>4, ClosingShape
  <2> QED
    BY <1>2, <2>1, <2>2 DEF SocketIsKnown
<1>7. \A k \in RevocationKinds : Durable(k) => Durable(k)'
  BY <1>2 DEF Durable
<1> QED
  BY <1>2, <1>4, <1>5, <1>6, <1>7, SocketsClose

LEMMA DrainInv ==
  ASSUME SocketsIInv, Drain
  PROVE  SocketsIInv'
<1>1. /\ shuttingDown /\ ActiveHandlers = {} /\ drained'
      /\ \A s \in Sockets : ready[s] \in {"none", "closed"}
      /\ UNCHANGED <<shake, ready, registered, joined, presence, cleanup, frame, lateFrame,
                     revocation, sweep, shuttingDown>>
  BY DEF Drain
<1>2. DrainedIsQuiet'
  BY <1>1 DEF DrainedIsQuiet, ActiveHandlers
<1>3. SocketsShape'
  BY <1>1 DEF SocketsIInv, SocketsShape
<1>4. \A s \in Sockets : SocketStands(s)' /\ SocketIsKnown(s)' /\ LateFrameStops(s)'
  BY <1>1 DEF SocketsIInv, SocketStands, SocketIsKnown, LateFrameStops, Durable
<1> QED
  BY <1>2, <1>3, <1>4 DEF SocketsIInv

LEMMA SocketsNextInv == SocketsIInv /\ [SocketsNext]_socketVars => SocketsIInv'
<1> SUFFICES ASSUME SocketsIInv, [SocketsNext]_socketVars
             PROVE  SocketsIInv'
  OBVIOUS
<1>1. CASE UNCHANGED socketVars
  BY <1>1 DEF socketVars, SocketsIInv, SocketsShape, DrainedIsQuiet, ActiveHandlers,
              SocketStands, SocketIsKnown, LateFrameStops, Durable
<1>2. ASSUME NEW s \in Sockets, Connect(s) \/ HandshakeStep(s) \/ PresenceHeartbeat(s)
      PROVE  SocketsIInv'
  BY <1>2, ConnectInv, CheckSessionInv, RegisterSocketInv, FinalCheckInv, RegisterPresenceInv,
     AdmitInv, PresenceHeartbeatInv DEF HandshakeStep
<1>3. ASSUME NEW s \in Sockets,
             \/ CloseEvent(s) \/ UnregisterPresence(s)
             \/ FrameArrives(s) \/ CloseAbusive(s) \/ FrameStep(s)
      PROVE  SocketsIInv'
  BY <1>3, CloseEventInv, UnregisterPresenceInv, FrameArrivesInv, CloseAbusiveInv,
     FrameSessionInv, FrameAccountInv, CompleteJoinInv, CompleteSendInv DEF FrameStep
<1> QED
  BY <1>1, <1>2, <1>3, RevokeInv, SweepAndShutdownInv, DrainInv DEF SocketsNext

LEMMA SocketsAlwaysStand == SocketsSpec => []SocketsIInv
  BY SocketsInitInv, SocketsNextInv, PTL DEF SocketsSpec

\* A revocation reaches the sockets whose handshake it meets, wherever it meets
\* it, and no later frame is served.
THEOREM RevocationIsEffective == SocketsSpec => []RevocationReachesSockets
<1>1. SocketsIInv => RevocationReachesSockets
  BY DEF SocketsIInv, SocketIsKnown, LateFrameStops, RevocationReachesSockets
<1> QED
  BY <1>1, SocketsAlwaysStand, PTL

\* A drained process has no socket in its maps and no presence record.
THEOREM DrainIsClean == SocketsSpec => []DrainLeavesNothing
<1>1. ASSUME SocketsIInv, drained
      PROVE  registered = {} /\ presence = {}
  <2>1. registered \subseteq Sockets /\ presence \subseteq Sockets
    BY <1>1 DEF SocketsIInv, SocketsShape
  <2>2. \A s \in Sockets : s \notin registered /\ s \notin presence
    BY <1>1, QuietSockets
  <2> QED
    BY <2>1, <2>2
<1>2. SocketsIInv => DrainLeavesNothing
  BY <1>1 DEF DrainLeavesNothing
<1> QED
  BY <1>2, SocketsAlwaysStand, PTL

----------------------------------------------------------------------------
(* Storage: the inductive invariant *)

IntentStates == {"none", "pending", "processing", "processed", "failed"}
UploadStates == {"idle", "processed", "writing", "written", "failing", "answered", "ended"}
Deleters ==
  [object : Objects \cup {"none"}, key : IntentKeys,
   pc : {"idle", "unlink", "mark", "return"}, holds : BOOLEAN]

StorageShape ==
  /\ objStatus \in [Objects -> Charged \cup {"none", "deleted"}]
  /\ objPurpose \in [Objects -> storagePurposes]
  /\ bound \subseteq Objects /\ bytes \subseteq Objects
  /\ uploads \in [Objects -> UploadStates]
  /\ intents \in [Objects -> [IntentKeys -> IntentStates]]
  /\ deleters \in [DeleteTasks -> Deleters]
  /\ \A t \in DeleteTasks : deleters[t].pc # "idle" => deleters[t].object \in Objects

\* Nothing has asked for the deletion of the object yet.
Fresh == {"none", "uploading", "temporary", "attached"}

Running == {"writing", "written", "failing"}

\* An object that is still fresh has no deletion event and no handler; so what
\* its upload wrote is there, and a bound object is one of those.
FreshIsUntouched(o) ==
  /\ uploads[o] \in {"idle", "processed"} => objStatus[o] = "none"
  /\ objStatus[o] \in Fresh =>
       /\ \A k \in IntentKeys : intents[o][k] = "none"
       /\ \A t \in DeleteTasks : deleters[t].pc = "idle" \/ deleters[t].object # o
       /\ uploads[o] \in {"written", "answered"} => o \in bytes
  /\ o \in bound => /\ objStatus[o] = "attached" /\ objPurpose[o] # "catalog_asset"
                    /\ uploads[o] = "answered"

\* Unless the cleanup took the row from under its upload, the row of a running
\* upload is fresh, and a handler marks the row deleted with the bytes gone.
BytesAreCharged(o) ==
  o \notin overtaken =>
    /\ uploads[o] \in Running => objStatus[o] \in {"uploading", "temporary"}
    /\ o \in bytes => objStatus[o] \in Charged
    /\ \A t \in DeleteTasks : deleters[t].pc = "mark" /\ deleters[t].object = o => o \notin bytes

ObjectStands(o) == FreshIsUntouched(o) /\ BytesAreCharged(o)

ChargedRows(p) ==
  {o \in Objects \ overtaken : objPurpose[o] = p /\ objStatus[o] \in Charged}

QuotaHolds == \A p \in storagePurposes : Cardinality(ChargedRows(p)) <= MaxObjectsPerPurpose

StorageIInv == StorageShape /\ (\A o \in Objects : ObjectStands(o)) /\ QuotaHolds

----------------------------------------------------------------------------
(* Storage: the steps *)

LEMMA ChargedRowsCount ==
  ASSUME NEW p
  PROVE  IsFiniteSet(ChargedRows(p)) /\ Cardinality(ChargedRows(p)) \in Nat
  BY StorageAssumption, FS_Subset, FS_CardinalityType DEF ChargedRows

\* A step that charges no further row keeps the limit.
LEMMA NothingCharged ==
  ASSUME QuotaHolds, \A p \in storagePurposes : ChargedRows(p)' \subseteq ChargedRows(p)
  PROVE  QuotaHolds'
<1> SUFFICES ASSUME NEW p \in storagePurposes
             PROVE  Cardinality(ChargedRows(p)') <= MaxObjectsPerPurpose
  BY DEF QuotaHolds
<1> DEFINE before == ChargedRows(p)
           after == ChargedRows(p)'
<1>1. IsFiniteSet(before) /\ after \subseteq before
  BY ChargedRowsCount
<1>2. Cardinality(after) <= Cardinality(before) /\ Cardinality(after) \in Nat
      /\ Cardinality(before) \in Nat
  <2> HIDE DEF before, after
  <2> QED
    BY <1>1, FS_Subset, FS_CardinalityType
<1>3. Cardinality(before) <= MaxObjectsPerPurpose
  BY DEF QuotaHolds
<1> QED
  BY <1>2, <1>3, StorageAssumption

\* What belongs to object o alone.
OnlyObject(o) ==
  /\ \A x \in Objects \ {o} :
       /\ objStatus'[x] = objStatus[x] /\ objPurpose'[x] = objPurpose[x]
       /\ uploads'[x] = uploads[x] /\ intents'[x] = intents[x]
       /\ (x \in bytes') <=> (x \in bytes)
       /\ (x \in bound') <=> (x \in bound)
       /\ (x \in overtaken') <=> (x \in overtaken)
  /\ deleters' = deleters

LEMMA OneObjectMoves ==
  ASSUME StorageIInv, NEW o \in Objects, OnlyObject(o), StorageShape', ObjectStands(o)',
         \/ QuotaHolds'
         \/ /\ objStatus'[o] \in Charged /\ o \notin overtaken' =>
                 objStatus[o] \in Charged /\ o \notin overtaken /\ objPurpose'[o] = objPurpose[o]
  PROVE  StorageIInv'
<1>1. ASSUME NEW x \in Objects \ {o}
      PROVE  ObjectStands(x)'
  BY DEF OnlyObject, StorageIInv, ObjectStands, FreshIsUntouched, BytesAreCharged
<1>2. QuotaHolds'
  <2> SUFFICES ASSUME objStatus'[o] \in Charged /\ o \notin overtaken' =>
                        /\ objStatus[o] \in Charged /\ o \notin overtaken
                        /\ objPurpose'[o] = objPurpose[o]
               PROVE  QuotaHolds'
    OBVIOUS
  <2>1. ASSUME NEW p \in storagePurposes
        PROVE  ChargedRows(p)' \subseteq ChargedRows(p)
    BY DEF ChargedRows, OnlyObject
  <2> QED
    BY <2>1, NothingCharged DEF StorageIInv
<1> QED
  BY <1>1, <1>2 DEF StorageIInv

LEMMA BeginUploadInv ==
  ASSUME StorageIInv, NEW o \in Objects, NEW p \in UploadPurposes[o], BeginUpload(o, p)
  PROVE  StorageIInv'
<1>1. StorageShape /\ ObjectStands(o)
  BY DEF StorageIInv
<1>2. p \in storagePurposes
  BY StorageAssumption
<1>3. OnlyObject(o) /\ StorageShape'
  BY <1>1, <1>2 DEF BeginUpload, OnlyObject, StorageShape, UploadStates
<1>4. ObjectStands(o)'
  BY <1>1 DEF BeginUpload, StorageShape, ObjectStands, FreshIsUntouched, BytesAreCharged, Running
<1>5. objStatus'[o] \notin Charged
  BY <1>1 DEF BeginUpload, ObjectStands, FreshIsUntouched, Charged
<1> QED
  BY <1>3, <1>4, <1>5, OneObjectMoves

\* The check and the insert are one step: the row it adds is within the limit.
LEMMA ReserveUploadInv ==
  ASSUME StorageIInv, NEW o \in Objects, ReserveUpload(o)
  PROVE  StorageIInv'
<1>1. StorageShape /\ ObjectStands(o) /\ uploads[o] = "processed" /\ objStatus[o] = "none"
  BY DEF StorageIInv, ReserveUpload, ObjectStands, FreshIsUntouched
<1>2. OnlyObject(o) /\ StorageShape'
  BY <1>1 DEF ReserveUpload, OnlyObject, StorageShape, UploadStates, Charged
<1>3. ObjectStands(o)'
  BY <1>1 DEF ReserveUpload, StorageShape, ObjectStands, FreshIsUntouched, BytesAreCharged,
              Running, Fresh, Charged
<1>4. CASE objStatus' = objStatus
  BY <1>1, <1>2, <1>3, <1>4, OneObjectMoves DEF ReserveUpload, Charged
<1>5. CASE assertUploadQuota(objPurpose[o]) /\ objStatus' = [objStatus EXCEPT ![o] = "uploading"]
  <2>0. PICK mine \in storagePurposes : mine = objPurpose[o]
    BY <1>1 DEF StorageShape
  <2> DEFINE all == {x \in Objects : objPurpose[x] = mine /\ objStatus[x] \in Charged}
             before == ChargedRows(mine)
             after == ChargedRows(mine)'
  <2>1. objPurpose' = objPurpose /\ overtaken' = overtaken
    BY DEF ReserveUpload
  <2>2. ASSUME NEW p \in storagePurposes \ {mine}
        PROVE  Cardinality(ChargedRows(p)') <= MaxObjectsPerPurpose
    <3>1. ChargedRows(p)' = ChargedRows(p)
      BY <1>1, <1>5, <2>0, <2>1 DEF ChargedRows, StorageShape
    <3> QED
      BY <3>1 DEF StorageIInv, QuotaHolds
  <2>3. Cardinality(all) < MaxObjectsPerPurpose
    BY <1>5, <2>0 DEF assertUploadQuota
  <2>4. before \subseteq all /\ after \subseteq before \cup {o} /\ IsFiniteSet(all)
    BY <1>1, <1>5, <2>1, StorageAssumption, FS_Subset DEF ChargedRows, StorageShape
  <2> HIDE DEF all, before, after
  <2>5. /\ IsFiniteSet(before) /\ Cardinality(before) <= Cardinality(all)
        /\ Cardinality(before) \in Nat /\ Cardinality(all) \in Nat
    BY <2>4, FS_Subset, FS_CardinalityType
  <2>6. /\ IsFiniteSet(before \cup {o}) /\ Cardinality(before \cup {o}) \in Nat
        /\ Cardinality(before \cup {o}) <= Cardinality(before) + 1
    <3>1. /\ IsFiniteSet(before \cup {o})
          /\ \/ o \in before /\ Cardinality(before \cup {o}) = Cardinality(before)
             \/ o \notin before /\ Cardinality(before \cup {o}) = Cardinality(before) + 1
      BY <2>5, FS_AddElement, Zenon
    <3> QED
      BY <2>5, <3>1
  <2>7. Cardinality(after) <= Cardinality(before \cup {o}) /\ Cardinality(after) \in Nat
    BY <2>4, <2>6, FS_Subset, FS_CardinalityType
  <2>8. Cardinality(after) <= MaxObjectsPerPurpose
    BY <2>3, <2>5, <2>6, <2>7, StorageAssumption
  <2>9. QuotaHolds'
    <3>1. Cardinality(ChargedRows(mine)') <= MaxObjectsPerPurpose
      BY <2>8 DEF after
    <3>2. \A p \in storagePurposes : Cardinality(ChargedRows(p)') <= MaxObjectsPerPurpose
      BY <2>2, <3>1
    <3> QED
      BY <3>2 DEF QuotaHolds
  <2> QED
    BY <1>2, <1>3, <2>9, OneObjectMoves
<1> QED
  BY <1>4, <1>5 DEF ReserveUpload

\* The bytes arrive while the row is fresh, or the cleanup has taken it.
LEMMA WriteInv ==
  ASSUME StorageIInv, NEW o \in Objects, writePhysicalObject(o) \/ UploadCrashes(o)
  PROVE  StorageIInv'
<1>1. StorageShape /\ ObjectStands(o) /\ uploads[o] \in Running
  BY DEF StorageIInv, writePhysicalObject, UploadCrashes, Running
<1>2. PICK next \in {"written", "failing", "ended"} :
        /\ uploads' = [uploads EXCEPT ![o] = next]
        /\ bytes' \in {bytes, bytes \cup {o}}
        /\ next = "written" => o \in bytes'
        /\ next # "ended" => uploads[o] = "writing"
        /\ UNCHANGED <<objStatus, objPurpose, bound, overtaken, intents, deleters>>
  BY DEF writePhysicalObject, UploadCrashes
<1>3. OnlyObject(o) /\ StorageShape'
  BY <1>1, <1>2 DEF OnlyObject, StorageShape, UploadStates
<1>4. uploads'[o] = next
  BY <1>1, <1>2 DEF StorageShape
<1>5. FreshIsUntouched(o)'
  BY <1>1, <1>2, <1>4 DEF ObjectStands, FreshIsUntouched, Running
<1>6. BytesAreCharged(o)'
  BY <1>1, <1>2, <1>4 DEF ObjectStands, FreshIsUntouched, BytesAreCharged, Running, Fresh, Charged
<1> QED
  BY <1>2, <1>3, <1>5, <1>6, OneObjectMoves DEF ObjectStands

LEMMA FinalizeUploadInv ==
  ASSUME StorageIInv, NEW o \in Objects, FinalizeUpload(o)
  PROVE  StorageIInv'
<1>1. StorageShape /\ ObjectStands(o) /\ uploads[o] = "written"
  BY DEF StorageIInv, FinalizeUpload
<1>2. PICK next \in {"answered", "failing"} :
        /\ uploads' = [uploads EXCEPT ![o] = next]
        /\ UNCHANGED <<objPurpose, bytes, bound, overtaken, intents, deleters>>
        /\ \/ objStatus' = objStatus /\ next = "failing"
           \/ objStatus[o] = "uploading" /\ objStatus' = [objStatus EXCEPT ![o] = "temporary"]
  <2>1. objStatus[o] # "uploading" =>
          [objStatus EXCEPT ![o] = IF objStatus[o] = "uploading" THEN "temporary" ELSE objStatus[o]]
            = objStatus
    BY <1>1 DEF StorageShape
  <2> QED
    BY <2>1 DEF FinalizeUpload
<1>3. OnlyObject(o) /\ StorageShape'
  BY <1>1, <1>2 DEF OnlyObject, StorageShape, UploadStates, Charged
<1>4. uploads'[o] = next /\ objStatus'[o] \in {objStatus[o], "temporary"}
      /\ (objStatus'[o] # objStatus[o] => objStatus[o] = "uploading")
      /\ (next = "answered" => objStatus[o] = "uploading")
  BY <1>1, <1>2 DEF StorageShape
<1>5. FreshIsUntouched(o)'
  BY <1>1, <1>2, <1>4 DEF ObjectStands, FreshIsUntouched, Fresh
<1>6. BytesAreCharged(o)'
  BY <1>1, <1>2, <1>4 DEF ObjectStands, BytesAreCharged, Running, Charged
<1> QED
  BY <1>2, <1>3, <1>4, <1>5, <1>6, OneObjectMoves DEF ObjectStands, Charged

\* A deletion is asked for: of a row that has been inserted, or of one the
\* cleanup took from under its upload.
LEMMA EnqueuedShape ==
  ASSUME StorageShape, NEW o \in Objects, NEW key \in IntentKeys, NEW again \in BOOLEAN,
         enqueueStorageDeletion(o, key, again)
  PROVE  /\ objStatus' \in [Objects -> Charged \cup {"none", "deleted"}]
         /\ intents' \in [Objects -> [IntentKeys -> IntentStates]]
         /\ \A x \in Objects \ {o} : objStatus'[x] = objStatus[x] /\ intents'[x] = intents[x]
         /\ \/ objStatus'[o] = "deleting"
            \/ objStatus[o] = "deleted" /\ objStatus' = objStatus /\ intents' = intents
<1>1. \A after \in IntentsAfter(o, key) : after \in [IntentKeys -> IntentStates]
  <2> SUFFICES ASSUME NEW after \in IntentsAfter(o, key)
               PROVE  after \in [IntentKeys -> IntentStates]
    OBVIOUS
  <2>1. intents[o] \in [IntentKeys -> IntentStates]
    BY DEF StorageShape
  <2>2. \/ \E k \in IntentKeys : after = [intents[o] EXCEPT ![k] = "pending"]
        \/ after = [intents[o] EXCEPT ![key] = IF intents[o][key] = "none" THEN "pending"
                                               ELSE intents[o][key]]
    BY DEF IntentsAfter
  <2> QED
    BY <2>1, <2>2 DEF IntentStates
<1>2. CASE objStatus[o] # "deleted" \/ again
  BY <1>1, <1>2 DEF enqueueStorageDeletion, StorageShape, Charged
<1>3. CASE ~(objStatus[o] # "deleted" \/ again)
  BY <1>3 DEF enqueueStorageDeletion, StorageShape
<1> QED
  BY <1>2, <1>3

LEMMA RecoverUploadInv ==
  ASSUME StorageIInv, NEW o \in Objects, RecoverUpload(o)
  PROVE  StorageIInv'
<1>1. StorageShape /\ ObjectStands(o) /\ uploads[o] = "failing"
  BY DEF StorageIInv, RecoverUpload
<1>2. /\ uploads' = [uploads EXCEPT ![o] = "ended"]
      /\ UNCHANGED <<objPurpose, bytes, bound, overtaken, deleters>>
      /\ \/ enqueueStorageDeletion(o, "recovery", TRUE)
         \/ UNCHANGED <<objStatus, intents>>
  BY DEF RecoverUpload
<1>3. /\ objStatus' \in [Objects -> Charged \cup {"none", "deleted"}]
      /\ intents' \in [Objects -> [IntentKeys -> IntentStates]]
      /\ \A x \in Objects \ {o} : objStatus'[x] = objStatus[x] /\ intents'[x] = intents[x]
      /\ \/ objStatus'[o] = "deleting"
         \/ objStatus' = objStatus /\ intents' = intents
  BY <1>1, <1>2, EnqueuedShape DEF IntentKeys, StorageShape
<1>4. OnlyObject(o) /\ StorageShape' /\ uploads'[o] = "ended"
  BY <1>1, <1>2, <1>3 DEF OnlyObject, StorageShape, UploadStates
<1>5. FreshIsUntouched(o)'
  BY <1>1, <1>2, <1>3, <1>4 DEF ObjectStands, FreshIsUntouched, Fresh
<1>6. BytesAreCharged(o)'
  BY <1>1, <1>2, <1>3, <1>4 DEF ObjectStands, BytesAreCharged, Running, Charged
<1>7. o \notin overtaken => objStatus[o] \in Charged
  BY <1>1 DEF ObjectStands, BytesAreCharged, Running, Charged
<1> QED
  BY <1>2, <1>4, <1>5, <1>6, <1>7, OneObjectMoves DEF ObjectStands

LEMMA AttachInv ==
  ASSUME StorageIInv, NEW o \in Objects, AttachToMessage(o) \/ AttachCatalogAsset(o)
  PROVE  StorageIInv'
<1>1. StorageShape /\ ObjectStands(o)
  BY DEF StorageIInv
<1>2. /\ uploads[o] = "answered" /\ objStatus[o] = "temporary"
      /\ objStatus' = [objStatus EXCEPT ![o] = "attached"]
      /\ \/ bound' = bound
         \/ bound' = bound \cup {o} /\ objPurpose[o] = "chat_attachment"
      /\ UNCHANGED <<objPurpose, bytes, uploads, overtaken, intents, deleters>>
  BY DEF AttachToMessage, AttachCatalogAsset, Attachable
<1>3. OnlyObject(o) /\ StorageShape' /\ objStatus'[o] = "attached"
  BY <1>1, <1>2 DEF OnlyObject, StorageShape, Charged
<1>4. FreshIsUntouched(o)'
  BY <1>1, <1>2, <1>3 DEF ObjectStands, FreshIsUntouched, Fresh
<1>5. BytesAreCharged(o)'
  BY <1>1, <1>2, <1>3 DEF ObjectStands, BytesAreCharged, Running, Charged
<1> QED
  BY <1>2, <1>3, <1>4, <1>5, OneObjectMoves DEF ObjectStands, Charged

\* The condition is looked at again under the row's lock: a bound object is
\* attached and no catalog asset, so it is not taken.
LEMMA CleanCandidateInv ==
  ASSUME StorageIInv, NEW o \in Objects, CleanCandidate(o)
  PROVE  StorageIInv'
<1>1. StorageShape /\ ObjectStands(o)
  BY DEF StorageIInv
<1>2. UNCHANGED <<objPurpose, bytes, bound, uploads, deleters>>
  BY DEF CleanCandidate
<1>3. CASE ~Eligible(o)
  BY <1>1, <1>2, <1>3, OneObjectMoves
  DEF CleanCandidate, OnlyObject, StorageShape, ObjectStands, FreshIsUntouched, BytesAreCharged
<1>4. CASE Eligible(o)
  <2>1. /\ enqueueStorageDeletion(o, "default", FALSE)
        /\ overtaken' = IF uploads[o] \in Running THEN overtaken \cup {o} ELSE overtaken
    BY <1>4 DEF CleanCandidate, Running
  <2>2. objStatus[o] \in Charged /\ o \notin bound
    BY <1>1, <1>4 DEF Eligible, Charged, ObjectStands, FreshIsUntouched
  <2>3. /\ objStatus' \in [Objects -> Charged \cup {"none", "deleted"}]
        /\ intents' \in [Objects -> [IntentKeys -> IntentStates]]
        /\ \A x \in Objects \ {o} : objStatus'[x] = objStatus[x] /\ intents'[x] = intents[x]
        /\ objStatus'[o] = "deleting"
    BY <1>1, <2>1, <2>2, EnqueuedShape DEF IntentKeys, Charged
  <2>4. OnlyObject(o) /\ StorageShape'
    BY <1>1, <1>2, <2>1, <2>3 DEF OnlyObject, StorageShape
  <2>5. FreshIsUntouched(o)'
    BY <1>1, <1>2, <2>2, <2>3 DEF ObjectStands, FreshIsUntouched, Fresh, Charged
  <2>6. BytesAreCharged(o)'
    BY <1>1, <1>2, <2>1, <2>3 DEF ObjectStands, BytesAreCharged, Charged
  <2> QED
    BY <1>2, <2>1, <2>2, <2>4, <2>5, <2>6, OneObjectMoves DEF ObjectStands
<1> QED
  BY <1>3, <1>4

\* New media are attached and old ones marked, in one transaction.
LEMMA ReplaceMediaInv ==
  ASSUME StorageIInv, NEW p \in {"avatar", "product_media"}, NEW new \in SUBSET Objects,
         ReplaceMedia(p, new)
  PROVE  StorageIInv'
<1> DEFINE old == {o \in bound : objPurpose[o] = p}
<1>1. /\ \A o \in new : uploads[o] = "answered" /\ objStatus[o] = "temporary" /\ objPurpose[o] = p
      /\ bound' = (bound \ old) \cup new
      /\ objStatus' = [o \in Objects |-> IF o \in new THEN "attached"
                                         ELSE IF o \in old THEN "deleting"
                                         ELSE objStatus[o]]
      /\ UNCHANGED <<objPurpose, bytes, uploads, overtaken, deleters>>
  BY DEF ReplaceMedia, Attachable
<1>2. PICK after \in [old -> [IntentKeys -> IntentStates]] :
        intents' = [o \in Objects |-> IF o \in old THEN after[o] ELSE intents[o]]
  BY DEF ReplaceMedia, IntentStates
<1>3. StorageShape /\ old \subseteq Objects /\ old \subseteq bound
  BY DEF StorageIInv, StorageShape
<1> HIDE DEF old
<1>4. ASSUME NEW o \in Objects
      PROVE  /\ ObjectStands(o) /\ (o \in old => o \notin new /\ objStatus[o] = "attached")
             /\ o \in bound /\ o \notin old => o \notin new
  BY <1>1, <1>3 DEF StorageIInv, ObjectStands, FreshIsUntouched
<1>5. StorageShape'
  BY <1>1, <1>2, <1>3 DEF StorageShape, Charged
<1>6. ASSUME NEW o \in Objects
      PROVE  ObjectStands(o)'
  <2>1. CASE o \in new
    <3>1. objStatus'[o] = "attached" /\ intents'[o] = intents[o] /\ p # "catalog_asset"
      BY <1>1, <1>2, <1>4, <2>1
    <3>2. FreshIsUntouched(o)'
      BY <1>1, <1>4, <2>1, <3>1 DEF ObjectStands, FreshIsUntouched, Fresh
    <3>3. BytesAreCharged(o)'
      BY <1>1, <1>4, <2>1, <3>1 DEF ObjectStands, BytesAreCharged, Running, Charged
    <3> QED
      BY <3>2, <3>3 DEF ObjectStands
  <2>2. CASE o \in old
    <3>1. objStatus'[o] = "deleting" /\ o \notin bound' /\ uploads[o] = "answered"
      BY <1>1, <1>3, <1>4, <2>2 DEF ObjectStands, FreshIsUntouched
    <3>2. FreshIsUntouched(o)'
      BY <1>1, <3>1 DEF FreshIsUntouched, Fresh
    <3>3. BytesAreCharged(o)'
      BY <1>1, <1>4, <3>1 DEF ObjectStands, BytesAreCharged, Running, Charged
    <3> QED
      BY <3>2, <3>3 DEF ObjectStands
  <2>3. CASE o \notin new /\ o \notin old
    <3>1. objStatus'[o] = objStatus[o] /\ intents'[o] = intents[o] /\ (o \in bound' => o \in bound)
      BY <1>1, <1>2, <2>3
    <3> QED
      BY <1>1, <1>4, <3>1 DEF ObjectStands, FreshIsUntouched, BytesAreCharged
  <2> QED
    BY <2>1, <2>2, <2>3
<1>7. \A o \in Objects : objStatus'[o] \in Charged => objStatus[o] \in Charged
  BY <1>1, <1>4 DEF Charged
<1>8. ASSUME NEW q \in storagePurposes
      PROVE  ChargedRows(q)' \subseteq ChargedRows(q)
  BY <1>1, <1>7 DEF ChargedRows
<1>9. QuotaHolds'
  BY <1>8, NothingCharged DEF StorageIInv
<1> QED
  BY <1>5, <1>6, <1>9 DEF StorageIInv

\* Steps that leave the rows, the bytes and the handlers alone.
LEMMA StorageUntouched ==
  ASSUME StorageIInv,
         UNCHANGED <<objStatus, objPurpose, bytes, bound, uploads, overtaken, intents, deleters>>
  PROVE  StorageIInv'
<1>1. StorageShape' /\ \A o \in Objects : ObjectStands(o)'
  BY DEF StorageIInv, StorageShape, ObjectStands, FreshIsUntouched, BytesAreCharged
<1>2. QuotaHolds'
  BY DEF StorageIInv, QuotaHolds, ChargedRows
<1> QED
  BY <1>1, <1>2 DEF StorageIInv

----------------------------------------------------------------------------
(* Storage: the deletion handler *)

LEMMA HandlerStartsInv ==
  ASSUME StorageIInv, NEW t \in DeleteTasks, NEW o \in Objects, NEW k \in IntentKeys,
         HandlerStarts(t, o, k)
  PROVE  StorageIInv'
<1> DEFINE next == IF objStatus[o] \in {"none", "deleted"} THEN "return" ELSE "unlink"
<1>1. /\ intents[o][k] = "pending" /\ intents' = [intents EXCEPT ![o][k] = "processing"]
      /\ deleters' = [deleters EXCEPT ![t] = [object |-> o, key |-> k, holds |-> TRUE, pc |-> next]]
      /\ UNCHANGED <<objStatus, objPurpose, bytes, bound, uploads, overtaken>>
  BY DEF HandlerStarts
<1>2. StorageShape /\ next \in {"return", "unlink"}
  BY DEF StorageIInv
<1> HIDE DEF next
<1>3. /\ deleters' \in [DeleteTasks -> Deleters]
      /\ deleters'[t].object = o /\ deleters'[t].pc = next
      /\ \A u \in DeleteTasks \ {t} : deleters'[u] = deleters[u]
  BY <1>1, <1>2 DEF StorageShape, Deleters
<1>4. /\ intents' \in [Objects -> [IntentKeys -> IntentStates]]
      /\ \A x \in Objects \ {o} : intents'[x] = intents[x]
  BY <1>1, <1>2 DEF StorageShape, IntentStates
<1>5. StorageShape'
  BY <1>1, <1>2, <1>3, <1>4 DEF StorageShape
<1>6. ASSUME NEW x \in Objects
      PROVE  ObjectStands(x)'
  <2>1. ObjectStands(x)
    BY DEF StorageIInv
  <2>2. CASE x = o
    <3>1. objStatus[o] \notin Fresh
      BY <1>1, <2>1, <2>2 DEF ObjectStands, FreshIsUntouched
    <3>2. FreshIsUntouched(x)'
      BY <1>1, <2>1, <2>2, <3>1 DEF ObjectStands, FreshIsUntouched
    <3>3. BytesAreCharged(x)'
      BY <1>1, <1>2, <1>3, <2>1, <2>2 DEF ObjectStands, BytesAreCharged
    <3> QED
      BY <3>2, <3>3 DEF ObjectStands
  <2>3. CASE x # o
    <3>1. FreshIsUntouched(x)'
      BY <1>1, <1>3, <1>4, <2>1, <2>3 DEF ObjectStands, FreshIsUntouched
    <3>2. BytesAreCharged(x)'
      BY <1>1, <1>3, <2>1, <2>3 DEF ObjectStands, BytesAreCharged
    <3> QED
      BY <3>1, <3>2 DEF ObjectStands
  <2> QED
    BY <2>2, <2>3
<1>7. QuotaHolds'
  BY <1>1 DEF StorageIInv, QuotaHolds, ChargedRows
<1> QED
  BY <1>5, <1>6, <1>7 DEF StorageIInv

\* A handler that goes on works on an object that is no longer fresh.
LEMMA HandlerObject ==
  ASSUME StorageIInv, NEW t \in DeleteTasks, deleters[t].pc # "idle"
  PROVE  /\ deleters[t].object \in Objects /\ objStatus[deleters[t].object] \notin Fresh
         /\ deleters[t].object \notin bound
  BY DEF StorageIInv, StorageShape, ObjectStands, FreshIsUntouched, Fresh

\* A step of one handler at its object.
LEMMA OneHandlerMoves ==
  ASSUME StorageIInv, NEW t \in DeleteTasks, deleters[t].pc # "idle", NEW o \in Objects,
         o = deleters[t].object,
         NEW r \in Deleters, deleters' = [deleters EXCEPT ![t] = r],
         r.pc = "idle" \/ r.object = o,
         r.pc = "mark" => o \notin bytes' \/ deleters[t].pc = "mark",
         UNCHANGED <<objPurpose, bound, uploads, overtaken>>,
         bytes' \in {bytes, bytes \ {o}},
         objStatus' = objStatus \/ (deleters[t].pc = "mark"
                                    /\ objStatus' = [objStatus EXCEPT ![o] = "deleted"]),
         intents' \in [Objects -> [IntentKeys -> IntentStates]],
         \A x \in Objects \ {o} : intents'[x] = intents[x]
  PROVE  StorageIInv'
<1>1. StorageShape /\ objStatus[o] \notin Fresh /\ o \notin bound
  BY HandlerObject DEF StorageIInv
<1>2. /\ deleters' \in [DeleteTasks -> Deleters] /\ deleters'[t] = r
      /\ \A u \in DeleteTasks \ {t} : deleters'[u] = deleters[u]
  BY <1>1 DEF StorageShape
<1>3. /\ objStatus' \in [Objects -> Charged \cup {"none", "deleted"}]
      /\ \A x \in Objects \ {o} : objStatus'[x] = objStatus[x]
      /\ objStatus'[o] \in {objStatus[o], "deleted"}
      /\ objStatus'[o] # objStatus[o] => deleters[t].pc = "mark"
  BY <1>1 DEF StorageShape
<1>4. StorageShape'
  BY <1>1, <1>2, <1>3 DEF StorageShape
<1>5. ASSUME NEW x \in Objects
      PROVE  ObjectStands(x)'
  <2>1. ObjectStands(x)
    BY DEF StorageIInv
  <2>2. CASE x = o
    <3>1. FreshIsUntouched(x)'
      BY <1>1, <1>3, <2>1, <2>2 DEF ObjectStands, FreshIsUntouched, Fresh
    <3>2. BytesAreCharged(x)'
      BY <1>1, <1>2, <1>3, <2>1, <2>2
      DEF ObjectStands, BytesAreCharged, Fresh, Running
    <3> QED
      BY <3>1, <3>2 DEF ObjectStands
  <2>3. CASE x # o
    <3>1. FreshIsUntouched(x)'
      BY <1>2, <1>3, <2>1, <2>3 DEF ObjectStands, FreshIsUntouched
    <3>2. BytesAreCharged(x)'
      BY <1>2, <1>3, <2>1, <2>3 DEF ObjectStands, BytesAreCharged
    <3> QED
      BY <3>1, <3>2 DEF ObjectStands
  <2> QED
    BY <2>2, <2>3
<1>6. \A x \in Objects : objStatus'[x] \in Charged => objStatus[x] \in Charged
  BY <1>3 DEF Charged
<1>7. ASSUME NEW q \in storagePurposes
      PROVE  ChargedRows(q)' \subseteq ChargedRows(q)
  BY <1>6 DEF ChargedRows
<1>8. QuotaHolds'
  BY <1>7, NothingCharged DEF StorageIInv
<1> QED
  BY <1>4, <1>5, <1>8 DEF StorageIInv

LEMMA HandlerInv ==
  ASSUME StorageIInv, NEW t \in DeleteTasks,
         DeleterStep(t) \/ HandlerThrows(t) \/ LeaseLost(t)
  PROVE  StorageIInv'
<1>1. deleters[t].pc # "idle"
  BY DEF DeleterStep, deletePhysicalObject, MarkDeleted, HandlerReturns, HandlerThrows, LeaseLost
<1>2. PICK o \in Objects : o = deleters[t].object
  BY <1>1, HandlerObject
<1>3. /\ deleters[t] \in Deleters /\ intents \in [Objects -> [IntentKeys -> IntentStates]]
      /\ StorageShape /\ ObjectStands(o)
  BY DEF StorageIInv, StorageShape
<1>4. deleters[t].key \in IntentKeys
  BY <1>3 DEF Deleters
<1> DEFINE key == deleters[t].key
<1>5. ASSUME NEW next \in IntentStates, intents' = [intents EXCEPT ![o][key] = next] \/ intents' = intents
      PROVE  /\ intents' \in [Objects -> [IntentKeys -> IntentStates]]
             /\ \A x \in Objects \ {o} : intents'[x] = intents[x]
  BY <1>3, <1>4, <1>5
<1>6. CASE deletePhysicalObject(t)
  <2> DEFINE r == [deleters[t] EXCEPT !.pc = "mark"]
  <2>1. r \in Deleters /\ r.object = o
    BY <1>2, <1>3 DEF Deleters
  <2>2. /\ deleters' = [deleters EXCEPT ![t] = r] /\ bytes' = bytes \ {o}
        /\ UNCHANGED <<objStatus, objPurpose, bound, uploads, overtaken, intents>>
    BY <1>2, <1>6 DEF deletePhysicalObject
  <2> HIDE DEF r
  <2> QED
    BY <1>1, <1>2, <1>3, <2>1, <2>2, OneHandlerMoves
<1>7. CASE MarkDeleted(t)
  <2> DEFINE r == [deleters[t] EXCEPT !.pc = "return"]
  <2>1. r \in Deleters /\ r.object = o /\ r.pc = "return"
    BY <1>2, <1>3 DEF Deleters
  <2>2. /\ deleters' = [deleters EXCEPT ![t] = r] /\ deleters[t].pc = "mark"
        /\ objStatus' = [objStatus EXCEPT ![o] = "deleted"]
        /\ UNCHANGED <<bytes, objPurpose, bound, uploads, overtaken, intents>>
    BY <1>2, <1>7 DEF MarkDeleted
  <2> HIDE DEF r
  <2> QED
    BY <1>1, <1>2, <1>3, <2>1, <2>2, OneHandlerMoves
<1>8. IdleDeleter \in Deleters /\ IdleDeleter.pc = "idle"
  BY DEF IdleDeleter, Deleters, IntentKeys
<1>9. CASE HandlerReturns(t) \/ HandlerThrows(t)
  <2>1. /\ deleters' = [deleters EXCEPT ![t] = IdleDeleter]
        /\ UNCHANGED <<objStatus, bytes, objPurpose, bound, uploads, overtaken>>
    BY <1>9 DEF HandlerReturns, HandlerThrows
  <2>2. \E next \in IntentStates :
          intents' = [intents EXCEPT ![o][key] = next] \/ intents' = intents
    BY <1>2, <1>9 DEF HandlerReturns, HandlerThrows, IntentStates
  <2>3. /\ intents' \in [Objects -> [IntentKeys -> IntentStates]]
        /\ \A x \in Objects \ {o} : intents'[x] = intents[x]
    BY <1>5, <2>2
  <2> QED
    BY <1>1, <1>2, <1>8, <2>1, <2>3, OneHandlerMoves
<1>10. CASE LeaseLost(t)
  <2> DEFINE r == [deleters[t] EXCEPT !.holds = FALSE]
  <2>1. r \in Deleters /\ r.object = o /\ r.pc = deleters[t].pc
    BY <1>2, <1>3 DEF Deleters
  <2>2. /\ deleters' = [deleters EXCEPT ![t] = r]
        /\ intents' = [intents EXCEPT ![o][key] = "pending"]
        /\ UNCHANGED <<objStatus, bytes, objPurpose, bound, uploads, overtaken>>
    BY <1>2, <1>10 DEF LeaseLost
  <2>3. /\ intents' \in [Objects -> [IntentKeys -> IntentStates]]
        /\ \A x \in Objects \ {o} : intents'[x] = intents[x]
    BY <1>5, <2>2 DEF IntentStates
  <2> HIDE DEF r
  <2> QED
    BY <1>1, <1>2, <2>1, <2>2, <2>3, OneHandlerMoves
<1> QED
  BY <1>6, <1>7, <1>9, <1>10 DEF DeleterStep

LEMMA StorageInitInv == StorageInit => StorageIInv
<1> SUFFICES ASSUME StorageInit
             PROVE  StorageIInv
  OBVIOUS
<1>1. StorageShape
  BY DEF StorageInit, StorageShape, storagePurposes, UploadStates, IntentStates, Deleters,
         IdleDeleter, IntentKeys, Charged
<1>2. \A o \in Objects : ObjectStands(o)
  BY DEF StorageInit, ObjectStands, FreshIsUntouched, BytesAreCharged, IdleDeleter, Running
<1>3. ASSUME NEW p \in storagePurposes
      PROVE  Cardinality(ChargedRows(p)) <= MaxObjectsPerPurpose
  <2>1. ChargedRows(p) = {}
    BY DEF StorageInit, ChargedRows, Charged
  <2> QED
    BY <2>1, FS_EmptySet, StorageAssumption
<1> QED
  BY <1>1, <1>2, <1>3 DEF StorageIInv, QuotaHolds

LEMMA StorageNextInv == StorageIInv /\ [StorageNext]_storageVars => StorageIInv'
<1> SUFFICES ASSUME StorageIInv, [StorageNext]_storageVars
             PROVE  StorageIInv'
  OBVIOUS
<1>1. CASE UNCHANGED storageVars
  BY <1>1, StorageUntouched DEF storageVars
<1>2. ASSUME NEW o \in Objects,
             \/ \E p \in UploadPurposes[o] : BeginUpload(o, p)
             \/ UploadStep(o) \/ UploadCrashes(o)
      PROVE  StorageIInv'
  BY <1>2, BeginUploadInv, ReserveUploadInv, WriteInv, FinalizeUploadInv, RecoverUploadInv
  DEF UploadStep
<1>3. ASSUME NEW o \in Objects, AttachToMessage(o) \/ AttachCatalogAsset(o) \/ CleanCandidate(o)
      PROVE  StorageIInv'
  BY <1>3, AttachInv, CleanCandidateInv
<1>4. ASSUME NEW o \in Objects, SaveCatalogUrl(o) \/ CreatedLongAgo(o)
      PROVE  StorageIInv'
  BY <1>4, StorageUntouched DEF SaveCatalogUrl, CreatedLongAgo
<1>5. CASE ListCandidates
  BY <1>5, StorageUntouched DEF ListCandidates
<1>6. ASSUME NEW p \in {"avatar", "product_media"}, NEW new \in SUBSET Objects,
             ReplaceMedia(p, new)
      PROVE  StorageIInv'
  BY <1>6, ReplaceMediaInv
<1>7. ASSUME NEW t \in DeleteTasks,
             \/ DeleterStep(t) \/ HandlerThrows(t) \/ LeaseLost(t)
             \/ \E o \in Objects, k \in IntentKeys : HandlerStarts(t, o, k)
      PROVE  StorageIInv'
  BY <1>7, HandlerInv, HandlerStartsInv
<1> QED
  BY <1>1, <1>2, <1>3, <1>4, <1>5, <1>6, <1>7 DEF StorageNext

LEMMA StorageAlwaysStands == StorageSpec => []StorageIInv
  BY StorageInitInv, StorageNextInv, PTL DEF StorageSpec

\* Media that something names exist, whatever the cleanup and late handlers do.
THEOREM BoundMediaExist == StorageSpec => []BoundIsKept
<1>1. StorageIInv => BoundIsKept
  BY DEF StorageIInv, StorageShape, ObjectStands, FreshIsUntouched, Fresh, BoundIsKept
<1> QED
  BY <1>1, StorageAlwaysStands, PTL

\* Bytes are charged until they are gone, and the limit is kept.
THEOREM QuotaIsHonest == StorageSpec => []QuotaAccountsBytes
<1>1. StorageIInv => QuotaAccountsBytes
  BY DEF StorageIInv, StorageShape, ObjectStands, BytesAreCharged, QuotaHolds, ChargedRows,
         QuotaAccountsBytes
<1> QED
  BY <1>1, StorageAlwaysStands, PTL

----------------------------------------------------------------------------
(* EventBus: the inductive invariant *)

\* The id of a notification is that of its row; every toast counts its event.
Toasts == [event : BusEvents, publish : Nat]
Ids == {x \in Toasts : x.event \in Alerts => x.publish = 0}

BusShape ==
  /\ bus \in [Replicas -> [started : BOOLEAN, subscribed : BOOLEAN, seen : Seq(Ids),
                           stopped : BOOLEAN]]
  /\ wire \in [Replicas -> Seq([id : Ids, source : Replicas \cup {NoReplica}])]
  /\ publishing \in [BusEvents -> [state : {"new", "sending", "published", "failed"},
                                   count : Nat, source : Replicas \cup {NoReplica}]]
  /\ viewer \in [at : Replicas \cup {NoReplica}, user : BOOLEAN, seen : SUBSET Toasts]
  /\ pops \in [BusEvents -> Nat]
  /\ owed \subseteq Ids

\* What the page remembers to have shown has come up, and a notification that
\* has come up is remembered.
ShownIsRemembered ==
  /\ \A x \in viewer.seen : /\ pops[x.event] > 0
                            /\ x.event \notin Alerts => x.publish <= pops[x.event]
  /\ \A e \in Alerts : /\ pops[e] <= 1
                       /\ pops[e] = 1 => EventId(e, 0) \in viewer.seen

\* The page is connected to a process whose bus runs.
PageIsServed == viewer.at \in Replicas => bus[viewer.at].started

\* What the page is owed has come up, or is on the wire from another process
\* to a replica that does not know it.
OnItsWay(id) ==
  /\ id \notin Range(bus[viewer.at].seen)
  /\ \E i \in DOMAIN wire[viewer.at] :
       wire[viewer.at][i].id = id /\ wire[viewer.at][i].source # viewer.at

NothingIsSwallowed ==
  \A id \in owed : /\ viewer.at \in Replicas /\ viewer.user
                   /\ pops[id.event] > 0 \/ OnItsWay(id)

BusIInv == BusShape /\ ShownIsRemembered /\ PageIsServed /\ NothingIsSwallowed

----------------------------------------------------------------------------
(* EventBus: the steps *)

LEMMA BusInitInv == BusInit => BusIInv
<1> SUFFICES ASSUME BusInit
             PROVE  BusIInv
  OBVIOUS
<1>1. BusShape
  <2>1. << >> \in Seq(Ids) /\ << >> \in Seq([id : Ids, source : Replicas \cup {NoReplica}])
    OBVIOUS
  <2> QED
    BY <2>1 DEF BusInit, BusShape
<1> QED
  BY <1>1, EventBusAssumption
  DEF BusInit, BusIInv, ShownIsRemembered, PageIsServed, NothingIsSwallowed, BusEvents

\* The delivery to the page: a notification comes up once, and after it the
\* event has come up.
LEMMA DeliveredToPage ==
  ASSUME BusShape, ShownIsRemembered, NEW r \in Replicas, NEW id \in Ids,
         deliverRealtimeEventLocally(r, id)
  PROVE  /\ viewer' \in [at : Replicas \cup {NoReplica}, user : BOOLEAN, seen : SUBSET Toasts]
         /\ viewer'.at = viewer.at /\ viewer'.user = viewer.user
         /\ pops' \in [BusEvents -> Nat]
         /\ \A e \in BusEvents : pops[e] > 0 => pops'[e] > 0
         /\ ShownIsRemembered'
         /\ viewer.at = r /\ viewer.user => pops'[id.event] > 0
<1> DEFINE toast == ToastId(id)
<1>1. /\ viewer \in [at : Replicas \cup {NoReplica}, user : BOOLEAN, seen : SUBSET Toasts]
      /\ pops \in [BusEvents -> Nat] /\ id \in Toasts /\ id.event \in BusEvents
      /\ id.event \in Alerts => id.publish = 0
  BY DEF BusShape, Ids, Toasts
<1>2. /\ toast \in Toasts /\ toast.event = id.event
      /\ id.event \in Alerts => toast = EventId(id.event, 0)
      /\ id.event \notin Alerts => toast.publish = pops[id.event] + 1
  <2>1. CASE id.event \in Alerts
    BY <1>1, <2>1 DEF ToastId, EventId, Toasts
  <2>2. CASE id.event \notin Alerts
    <3> DEFINE n == pops[id.event] + 1
    <3>1. n \in Nat /\ toast = [id EXCEPT !.publish = n]
      BY <1>1, <2>2 DEF ToastId
    <3> HIDE DEF n
    <3>2. [id EXCEPT !.publish = n] \in Toasts /\ [id EXCEPT !.publish = n].event = id.event
          /\ [id EXCEPT !.publish = n].publish = n
      BY <1>1, <3>1 DEF Toasts
    <3> QED
      BY <2>2, <3>1, <3>2 DEF n
  <2> QED
    BY <2>1, <2>2
<1> HIDE DEF toast
<1>3. CASE ~(viewer.at = r /\ viewer.user)
  BY <1>1, <1>3 DEF deliverRealtimeEventLocally, ShownIsRemembered
<1>4. CASE viewer.at = r /\ viewer.user /\ toast \in viewer.seen
  <2>1. UNCHANGED <<viewer, pops>>
    BY <1>4 DEF deliverRealtimeEventLocally, pushToast, toast
  <2>2. pops[id.event] > 0
    <3>1. pops[toast.event] > 0
      BY <1>4, Zenon DEF ShownIsRemembered
    <3> QED
      BY <1>2, <3>1
  <2> QED
    BY <1>1, <2>1, <2>2 DEF ShownIsRemembered
<1>5. CASE viewer.at = r /\ viewer.user /\ toast \notin viewer.seen
  <2> DEFINE more == pops[id.event] + 1
  <2>1. /\ viewer' = [viewer EXCEPT !.seen = viewer.seen \cup {toast}]
        /\ pops' = [pops EXCEPT ![id.event] = more]
    BY <1>2, <1>5 DEF deliverRealtimeEventLocally, pushToast, toast
  <2>2. more \in Nat /\ more > 0 /\ more > pops[id.event]
    BY <1>1
  <2>3. /\ viewer' \in [at : Replicas \cup {NoReplica}, user : BOOLEAN, seen : SUBSET Toasts]
        /\ viewer'.at = viewer.at /\ viewer'.user = viewer.user
        /\ viewer'.seen = viewer.seen \cup {toast}
    BY <1>1, <1>2, <2>1
  <2>4. /\ pops' \in [BusEvents -> Nat] /\ pops'[id.event] = more
        /\ \A e \in BusEvents \ {id.event} : pops'[e] = pops[e]
    <3> HIDE DEF more
    <3> QED
      BY <1>1, <2>1, <2>2
  <2>5. \A e \in BusEvents : pops'[e] \in Nat /\ pops[e] \in Nat /\ pops'[e] >= pops[e]
    BY <1>1, <2>2, <2>4
  <2>6. ASSUME NEW x \in viewer'.seen
        PROVE  pops'[x.event] > 0 /\ (x.event \notin Alerts => x.publish <= pops'[x.event])
    <3>1. CASE x = toast
      BY <1>2, <2>2, <2>4, <3>1
    <3>2. CASE x # toast
      <4>1. x \in viewer.seen /\ x \in Toasts /\ x.event \in BusEvents /\ x.publish \in Nat
        BY <1>1, <2>3, <2>6, <3>2 DEF Toasts
      <4>2. pops[x.event] > 0 /\ (x.event \notin Alerts => x.publish <= pops[x.event])
        BY <4>1, Zenon DEF ShownIsRemembered
      <4> QED
        BY <2>5, <4>1, <4>2
    <3> QED
      BY <3>1, <3>2
  <2>7. ASSUME NEW e \in Alerts
        PROVE  pops'[e] <= 1 /\ (pops'[e] = 1 => EventId(e, 0) \in viewer'.seen)
    <3>0. pops[e] <= 1 /\ (pops[e] = 1 => EventId(e, 0) \in viewer.seen)
      BY Zenon DEF ShownIsRemembered
    <3>1. e \in BusEvents /\ pops[e] \in Nat /\ pops[e] <= 1
          /\ (pops[e] = 1 => EventId(e, 0) \in viewer.seen)
      BY <1>1, <3>0 DEF BusEvents
    <3>2. CASE e = id.event
      <4>1. toast = EventId(e, 0)
        BY <1>2, <3>2
      <4>2. pops[e] = 0
        BY <1>5, <3>1, <4>1
      <4> QED
        BY <2>3, <2>4, <3>2, <4>1, <4>2
    <3>3. CASE e # id.event
      BY <2>3, <2>4, <3>1, <3>3
    <3> QED
      BY <3>2, <3>3
  <2> QED
    BY <2>2, <2>3, <2>4, <2>5, <2>6, <2>7 DEF ShownIsRemembered
<1> QED
  BY <1>3, <1>4, <1>5

\* Steps that leave the buses, the wires and what is owed alone, or owe nothing.
LEMMA PageMovesInv ==
  ASSUME BusIInv, dismiss \/ PageDrops \/ UserChanges \/ \E r \in Replicas : PageConnects(r)
  PROVE  BusIInv'
<1>1. BusShape
  BY DEF BusIInv
<1>2. /\ UNCHANGED <<bus, wire, publishing, pops>> /\ viewer'.seen = viewer.seen
      /\ viewer' \in [at : Replicas \cup {NoReplica}, user : BOOLEAN, seen : SUBSET Toasts]
      /\ \/ owed' = {} /\ viewer'.at = NoReplica
         \/ owed' = owed /\ viewer' = viewer
         \/ owed' = owed /\ viewer.at = NoReplica /\ bus[viewer'.at].started
  BY <1>1 DEF BusShape, dismiss, PageDrops, UserChanges, PageConnects
<1>3. BusShape'
  BY <1>1, <1>2 DEF BusShape
<1>4. ShownIsRemembered'
  BY <1>2 DEF BusIInv, ShownIsRemembered
<1>5. PageIsServed'
  BY <1>2, EventBusAssumption DEF BusIInv, PageIsServed
<1>6. NothingIsSwallowed'
  BY <1>2, EventBusAssumption DEF BusIInv, NothingIsSwallowed, OnItsWay
<1> QED
  BY <1>3, <1>4, <1>5, <1>6 DEF BusIInv

\* Steps of one bus that forget ids or change its connection: what is owed to a
\* page of that replica is on its wire still, or no longer owed.
LEMMA BusMovesInv ==
  ASSUME BusIInv, NEW r \in Replicas,
         StartBus(r) \/ ensureSubscribed(r) \/ SubscriberDrops(r) \/ StopBus(r)
         \/ RememberedExpires(r)
  PROVE  BusIInv'
<1>1. BusShape /\ bus[r].seen \in Seq(Ids)
  BY DEF BusIInv, BusShape
<1>2. /\ UNCHANGED <<publishing, viewer, pops>>
      /\ bus' \in [Replicas -> [started : BOOLEAN, subscribed : BOOLEAN, seen : Seq(Ids),
                                stopped : BOOLEAN]]
      /\ \A q \in Replicas \ {r} : bus'[q] = bus[q] /\ wire'[q] = wire[q]
      /\ Range(bus'[r].seen) \subseteq Range(bus[r].seen)
      /\ viewer.at = r /\ bus[r].started => bus'[r].started
      /\ \/ wire' = wire /\ owed' = owed
         \/ wire' = [wire EXCEPT ![r] = << >>] /\ owed' \in {owed, {}}
            /\ (viewer.at = r => owed' = {})
  <2>1. CASE StartBus(r) \/ ensureSubscribed(r)
    <3>1. /\ bus' = [bus EXCEPT ![r].started = TRUE] \/ bus' = [bus EXCEPT ![r].subscribed = TRUE]
          /\ UNCHANGED <<wire, publishing, viewer, pops, owed>>
      BY <2>1 DEF StartBus, ensureSubscribed
    <3>2. /\ bus' \in [Replicas -> [started : BOOLEAN, subscribed : BOOLEAN, seen : Seq(Ids),
                                    stopped : BOOLEAN]]
          /\ bus'[r].seen = bus[r].seen /\ (bus[r].started => bus'[r].started)
          /\ \A q \in Replicas \ {r} : bus'[q] = bus[q]
      <4> DEFINE Buses == [started : BOOLEAN, subscribed : BOOLEAN, seen : Seq(Ids),
                           stopped : BOOLEAN]
                 one == [bus[r] EXCEPT !.started = TRUE]
                 two == [bus[r] EXCEPT !.subscribed = TRUE]
      <4>1. bus \in [Replicas -> Buses]
        BY <1>1 DEF BusShape
      <4>2. one \in Buses /\ one.seen = bus[r].seen /\ one.started
        BY <4>1
      <4>3. two \in Buses /\ two.seen = bus[r].seen /\ two.started = bus[r].started
        BY <4>1
      <4>4. bus' = [bus EXCEPT ![r] = one] \/ bus' = [bus EXCEPT ![r] = two]
        BY <3>1
      <4> HIDE DEF Buses, one, two
      <4>5. bus' \in [Replicas -> Buses] /\ (bus'[r] = one \/ bus'[r] = two)
            /\ \A q \in Replicas \ {r} : bus'[q] = bus[q]
        BY <4>1, <4>2, <4>3, <4>4
      <4> QED
        BY <4>2, <4>3, <4>5 DEF Buses
    <3> QED
      BY <3>1, <3>2
  <2>2. CASE SubscriberDrops(r)
    BY <1>1, <2>2 DEF SubscriberDrops, OwedAt, BusShape
  <2>3. CASE StopBus(r)
    <3>1. << >> \in Seq(Ids) /\ Range(<< >>) = {}
      BY DEF Range
    <3> QED
      BY <1>1, <2>3, <3>1 DEF StopBus, BusShape
  <2>4. CASE RememberedExpires(r)
    <3> DEFINE rest == Tail(bus[r].seen)
    <3>1. rest \in Seq(Ids) /\ Range(rest) \subseteq Range(bus[r].seen)
      BY <1>1, <2>4 DEF RememberedExpires, Range
    <3>2. bus' = [bus EXCEPT ![r].seen = rest]
          /\ UNCHANGED <<publishing, viewer, pops, wire, owed>>
      BY <2>4 DEF RememberedExpires
    <3> HIDE DEF rest
    <3>3. /\ bus' \in [Replicas -> [started : BOOLEAN, subscribed : BOOLEAN, seen : Seq(Ids),
                                    stopped : BOOLEAN]]
          /\ \A q \in Replicas \ {r} : bus'[q] = bus[q]
          /\ bus'[r].seen = rest /\ bus'[r].started = bus[r].started
      BY <1>1, <3>1, <3>2 DEF BusShape
    <3> QED
      BY <3>1, <3>2, <3>3
  <2> QED
    BY <2>1, <2>2, <2>3, <2>4
<1>3. << >> \in Seq([id : Ids, source : Replicas \cup {NoReplica}])
  OBVIOUS
<1>4. BusShape'
  BY <1>1, <1>2, <1>3 DEF BusShape
<1>5. ShownIsRemembered'
  BY <1>2 DEF BusIInv, ShownIsRemembered
<1>6. PageIsServed'
  BY <1>2 DEF BusIInv, PageIsServed
<1>7. ASSUME NEW id \in owed'
      PROVE  /\ viewer'.at \in Replicas /\ viewer'.user
             /\ pops'[id.event] > 0 \/ OnItsWay(id)'
  <2>1. /\ id \in owed /\ viewer.at \in Replicas /\ viewer.user
        /\ pops[id.event] > 0 \/ OnItsWay(id)
    BY <1>2, <1>7 DEF BusIInv, NothingIsSwallowed
  <2>2. wire'[viewer.at] = wire[viewer.at]
    BY <1>2, <1>7, <2>1
  <2>3. Range(bus'[viewer.at].seen) \subseteq Range(bus[viewer.at].seen)
    BY <1>2, <2>1
  <2>4. OnItsWay(id) => OnItsWay(id)'
    BY <1>2, <2>2, <2>3 DEF OnItsWay
  <2> QED
    BY <1>2, <2>1, <2>4
<1> QED
  BY <1>4, <1>5, <1>6, <1>7 DEF BusIInv, NothingIsSwallowed

LEMMA IdsOfEvents ==
  ASSUME NEW e \in BusEvents, NEW n \in Nat
  PROVE  EventId(e, n) \in Ids /\ EventId(e, n).event = e
  BY DEF EventId, Ids, Toasts

\* The local dispatch of a publish.
LEMMA DispatchInv ==
  ASSUME BusIInv, NEW e \in BusEvents, NEW r \in Replicas, dispatchLocal(e, r)
  PROVE  BusIInv'
<1> DEFINE n == publishing[e].count + 1
<1>1. BusShape /\ ShownIsRemembered /\ n \in Nat
  <2>1. BusShape /\ ShownIsRemembered
    BY DEF BusIInv
  <2>2. publishing[e].count \in Nat
    BY <2>1 DEF BusShape
  <2> QED
    BY <2>1, <2>2
<1>2. /\ publishing' = [publishing EXCEPT ![e] = [state |-> "sending", count |-> n, source |-> r]]
      /\ deliverRealtimeEventLocally(r, EventId(e, n))
      /\ UNCHANGED <<bus, wire, owed>>
  BY DEF dispatchLocal
<1> HIDE DEF n
<1>3. EventId(e, n) \in Ids
  BY <1>1, IdsOfEvents
<1>4. /\ viewer' \in [at : Replicas \cup {NoReplica}, user : BOOLEAN, seen : SUBSET Toasts]
      /\ viewer'.at = viewer.at /\ viewer'.user = viewer.user
      /\ pops' \in [BusEvents -> Nat]
      /\ \A x \in BusEvents : pops[x] > 0 => pops'[x] > 0
      /\ ShownIsRemembered'
  BY <1>1, <1>2, <1>3, DeliveredToPage
<1>5. BusShape'
  BY <1>1, <1>2, <1>4 DEF BusShape
<1>6. PageIsServed'
  BY <1>2, <1>4 DEF BusIInv, PageIsServed
<1>7. NothingIsSwallowed'
  <2>1. \A id \in owed : id.event \in BusEvents
    BY <1>1 DEF BusShape, Ids, Toasts
  <2> QED
    BY <1>2, <1>4, <2>1 DEF BusIInv, NothingIsSwallowed, OnItsWay
<1> QED
  BY <1>4, <1>5, <1>6, <1>7 DEF BusIInv

\* Redis takes a publish: the message is appended to the wires of the
\* subscribers, and a page that is to see it is owed it.
LEMMA SentKeeps ==
  ASSUME BusIInv, NEW e \in BusEvents, Sent(e), UNCHANGED <<bus, viewer, pops>>
  PROVE  /\ wire' \in [Replicas -> Seq([id : Ids, source : Replicas \cup {NoReplica}])]
         /\ owed' \subseteq Ids /\ NothingIsSwallowed'
<1> DEFINE new == EventId(e, publishing[e].count)
           from == publishing[e].source
           m == [id |-> new, source |-> from]
           Messages == [id : Ids, source : Replicas \cup {NoReplica}]
<1>1. /\ BusShape /\ new \in Ids /\ m \in Messages
      /\ m.id = new /\ m.source = from
  BY IdsOfEvents DEF BusIInv, BusShape
<1>2. /\ wire' = [r \in Replicas |-> IF r \in Subscribers THEN Append(wire[r], m) ELSE wire[r]]
      /\ \/ owed' = owed
         \/ /\ viewer.at \in Subscribers /\ viewer.at # from /\ viewer.user
            /\ new \notin Range(bus[viewer.at].seen) /\ owed' = owed \cup {new}
  BY DEF Sent
<1> HIDE DEF m, new, from
<1>3. ASSUME NEW r \in Replicas
      PROVE  /\ wire'[r] \in Seq(Messages)
             /\ \A i \in DOMAIN wire[r] : i \in DOMAIN wire'[r] /\ wire'[r][i] = wire[r][i]
             /\ r \in Subscribers => \E i \in DOMAIN wire'[r] : wire'[r][i] = m
  <2>1. wire[r] \in Seq(Messages)
    BY <1>1 DEF BusShape
  <2>2. CASE r \in Subscribers
    <3> DEFINE longer == Append(wire[r], m)
    <3>1. wire'[r] = longer
      BY <1>2, <2>2
    <3>2. /\ longer \in Seq(Messages) /\ Len(longer) = Len(wire[r]) + 1 /\ Len(wire[r]) \in Nat
          /\ \A i \in 1 .. Len(wire[r]) : longer[i] = wire[r][i]
          /\ longer[Len(wire[r]) + 1] = m
          /\ DOMAIN wire[r] = 1 .. Len(wire[r]) /\ DOMAIN longer = 1 .. Len(longer)
      <4> HIDE DEF Messages
      <4> QED
        BY <1>1, <2>1, AppendProperties, LenProperties
    <3> HIDE DEF longer
    <3> QED
      BY <3>1, <3>2
  <2>3. CASE r \notin Subscribers
    BY <1>2, <2>1, <2>3
  <2> QED
    BY <2>2, <2>3
<1>4. wire' \in [Replicas -> Seq(Messages)]
  <2>1. wire' = [r \in Replicas |-> wire'[r]]
    BY <1>2
  <2> HIDE DEF Messages
  <2> QED
    BY <1>3, <2>1
<1>5. owed' \subseteq Ids
  BY <1>1, <1>2 DEF BusShape
<1>6. ASSUME NEW id \in owed'
      PROVE  /\ viewer'.at \in Replicas /\ viewer'.user
             /\ pops'[id.event] > 0 \/ OnItsWay(id)'
  <2>1. CASE id \in owed
    <3>1. /\ viewer.at \in Replicas /\ viewer.user
          /\ pops[id.event] > 0 \/ OnItsWay(id)
      BY <2>1 DEF BusIInv, NothingIsSwallowed
    <3>2. OnItsWay(id) => OnItsWay(id)'
      BY <1>3, <3>1 DEF OnItsWay
    <3> QED
      BY <3>1, <3>2
  <2>2. CASE id \notin owed
    <3>1. /\ id = new /\ viewer.at \in Subscribers /\ viewer.at # from /\ viewer.user
          /\ new \notin Range(bus[viewer.at].seen)
      BY <1>2, <1>6, <2>2
    <3>2. viewer.at \in Replicas
      BY <3>1 DEF Subscribers
    <3>3. PICK i \in DOMAIN wire'[viewer.at] : wire'[viewer.at][i] = m
      BY <1>3, <3>1, <3>2
    <3> QED
      BY <1>1, <3>1, <3>2, <3>3 DEF OnItsWay
  <2> QED
    BY <2>1, <2>2
<1> QED
  BY <1>4, <1>5, <1>6 DEF NothingIsSwallowed

LEMMA PublishInv ==
  ASSUME BusIInv, NEW e \in BusEvents, PublishAccepted(e) \/ PublishFails(e)
  PROVE  BusIInv'
<1>1. /\ UNCHANGED <<bus, viewer, toasts, pops>>
      /\ Sent(e) \/ UNCHANGED <<wire, owed>>
      /\ \E next \in {"published", "failed"} :
           publishing' = [publishing EXCEPT ![e].state = next]
  BY DEF PublishAccepted, PublishFails
<1>2. publishing' \in [BusEvents -> [state : {"new", "sending", "published", "failed"},
                                     count : Nat, source : Replicas \cup {NoReplica}]]
  <2>1. PICK next \in {"published", "failed"} : publishing' = [publishing EXCEPT ![e].state = next]
    BY <1>1
  <2>2. publishing \in [BusEvents -> [state : {"new", "sending", "published", "failed"},
                                     count : Nat, source : Replicas \cup {NoReplica}]]
    BY DEF BusIInv, BusShape
  <2> QED
    BY <2>1, <2>2
<1>3. /\ wire' \in [Replicas -> Seq([id : Ids, source : Replicas \cup {NoReplica}])]
      /\ owed' \subseteq Ids /\ NothingIsSwallowed'
  <2>1. CASE Sent(e)
    BY <1>1, <2>1, SentKeeps
  <2>2. CASE UNCHANGED <<wire, owed>>
    BY <1>1, <2>2 DEF BusIInv, BusShape, NothingIsSwallowed, OnItsWay
  <2> QED
    BY <1>1, <2>1, <2>2
<1>4. BusShape'
  BY <1>1, <1>2, <1>3 DEF BusIInv, BusShape
<1>5. ShownIsRemembered' /\ PageIsServed'
  BY <1>1 DEF BusIInv, ShownIsRemembered, PageIsServed
<1> QED
  BY <1>3, <1>4, <1>5 DEF BusIInv

\* What a replica remembers after a new id: that id, and none it did not know.
LEMMA Remembered ==
  ASSUME NEW known \in Seq(Ids), NEW id \in Ids
  PROVE  /\ rememberRemoteEvent(known, id) \in Seq(Ids)
         /\ Range(rememberRemoteEvent(known, id)) \subseteq Range(known) \cup {id}
<1> DEFINE n == Len(known)
           kept == IF n >= REMOTE_EVENT_DEDUP_MAX_ENTRIES
                   THEN SubSeq(known, n - REMOTE_EVENT_DEDUP_MAX_ENTRIES + 2, n)
                   ELSE known
           after == Append(kept, id)
<1>1. /\ n \in Nat /\ DOMAIN known = 1 .. n /\ \A i \in 1 .. n : known[i] \in Ids
      /\ REMOTE_EVENT_DEDUP_MAX_ENTRIES \in Nat \ {0}
  BY EventBusAssumption, LenProperties
<1>2. kept \in Seq(Ids) /\ \A i \in DOMAIN kept : kept[i] \in Range(known)
  <2>1. CASE n >= REMOTE_EVENT_DEDUP_MAX_ENTRIES
    <3> DEFINE m == n - REMOTE_EVENT_DEDUP_MAX_ENTRIES + 2
    <3>1. m \in Int /\ m >= 2 /\ n \in Int /\ \A i \in m .. n : known[i] \in Ids /\ i \in 1 .. n
      BY <1>1, <2>1
    <3>2. kept = SubSeq(known, m, n)
      BY <2>1
    <3> HIDE DEF kept, m, n
    <3>3. /\ kept \in Seq(Ids)
          /\ Len(kept) = IF m <= n THEN n - m + 1 ELSE 0
          /\ \A i \in 1 .. n - m + 1 : kept[i] = known[m + i - 1]
      BY <3>1, <3>2, SubSeqProperties
    <3>4. DOMAIN kept = 1 .. Len(kept)
      BY <3>3
    <3>5. ASSUME NEW i \in DOMAIN kept
          PROVE  kept[i] \in Range(known)
      <4>1. i \in 1 .. n - m + 1 /\ m + i - 1 \in 1 .. n
        BY <3>1, <3>3, <3>4
      <4> QED
        BY <1>1, <3>3, <4>1 DEF Range
    <3> QED
      BY <3>3, <3>5
  <2>2. CASE ~(n >= REMOTE_EVENT_DEDUP_MAX_ENTRIES)
    BY <1>1, <2>2 DEF Range
  <2> QED
    BY <2>1, <2>2
<1> HIDE DEF kept
<1>3. /\ after \in Seq(Ids) /\ Len(after) = Len(kept) + 1 /\ Len(kept) \in Nat
      /\ \A i \in 1 .. Len(kept) : after[i] = kept[i]
      /\ after[Len(kept) + 1] = id
      /\ DOMAIN after = 1 .. Len(after) /\ DOMAIN kept = 1 .. Len(kept)
  BY <1>2, AppendProperties, LenProperties
<1> HIDE DEF after
<1>4. \A i \in DOMAIN after : after[i] \in Range(known) \cup {id}
  BY <1>2, <1>3
<1> QED
  BY <1>3, <1>4 DEF rememberRemoteEvent, after, kept, Range

\* A message is read: ignored, or remembered and shown to the page that is
\* there.  What the page is owed is behind it, or was this message.
LEMMA ConsumeInv ==
  ASSUME BusIInv, NEW r \in Replicas, consume(r)
  PROVE  BusIInv'
<1> DEFINE Messages == [id : Ids, source : Replicas \cup {NoReplica}]
           m == Head(wire[r])
           rest == Tail(wire[r])
<1>1. /\ BusShape /\ ShownIsRemembered /\ wire[r] \in Seq(Messages) /\ wire[r] # << >>
      /\ bus[r].seen \in Seq(Ids)
  BY DEF BusIInv, BusShape, consume
<1>2. /\ wire' = [wire EXCEPT ![r] = rest]
      /\ UNCHANGED <<publishing, owed>>
      /\ \/ Ignored(r, m) /\ UNCHANGED <<bus, viewer, pops>>
         \/ /\ ~Ignored(r, m)
            /\ bus' = [bus EXCEPT ![r].seen = rememberRemoteEvent(bus[r].seen, m.id)]
            /\ deliverRealtimeEventLocally(r, m.id)
  BY DEF consume
<1>3. /\ m \in Messages /\ rest \in Seq(Messages) /\ m = wire[r][1]
      /\ DOMAIN wire[r] = 1 .. Len(wire[r]) /\ DOMAIN rest = 1 .. Len(rest)
      /\ Len(wire[r]) \in Nat /\ Len(rest) = Len(wire[r]) - 1
      /\ \A i \in 1 .. Len(rest) : rest[i] = wire[r][i + 1]
  <2> HIDE DEF Messages
  <2> QED
    BY <1>1, HeadTailProperties, LenProperties
<1>4. m.id \in Ids
  BY <1>3
<1> HIDE DEF m, rest
<1>5. /\ wire' \in [Replicas -> Seq(Messages)] /\ wire'[r] = rest
      /\ \A q \in Replicas \ {r} : wire'[q] = wire[q]
  <2>1. wire \in [Replicas -> Seq(Messages)]
    BY <1>1 DEF BusShape
  <2> HIDE DEF Messages
  <2> QED
    BY <1>2, <1>3, <2>1
\* A message other than the head is still there.
<1>6. ASSUME NEW id, NEW i \in DOMAIN wire[r], wire[r][i].id = id, wire[r][i].source # r,
             ~(m.id = id /\ m.source # r)
      PROVE  \E j \in DOMAIN wire'[r] : wire'[r][j].id = id /\ wire'[r][j].source # r
  <2>1. i # 1
    BY <1>3, <1>6
  <2>2. i - 1 \in 1 .. Len(rest) /\ (i - 1) + 1 = i
    BY <1>3, <2>1
  <2>3. rest[i - 1] = wire[r][i]
    BY <1>3, <2>2
  <2> QED
    BY <1>3, <1>5, <1>6, <2>2, <2>3
<1>7. CASE Ignored(r, m) /\ UNCHANGED <<bus, viewer, pops>>
  <2>1. BusShape'
    BY <1>1, <1>2, <1>5, <1>7 DEF BusShape
  <2>2. ShownIsRemembered' /\ PageIsServed'
    BY <1>7 DEF BusIInv, ShownIsRemembered, PageIsServed
  <2>3. ASSUME NEW id \in owed'
        PROVE  /\ viewer'.at \in Replicas /\ viewer'.user
               /\ pops'[id.event] > 0 \/ OnItsWay(id)'
    <3>1. /\ viewer.at \in Replicas /\ viewer.user
          /\ pops[id.event] > 0 \/ OnItsWay(id)
      BY <1>2, <2>3 DEF BusIInv, NothingIsSwallowed
    <3>2. CASE viewer.at # r
      BY <1>5, <1>7, <3>1, <3>2 DEF OnItsWay
    <3>3. CASE viewer.at = r /\ OnItsWay(id)
      <4>1. bus[r].started
        BY <3>3 DEF BusIInv, PageIsServed
      <4>2. ~(m.id = id /\ m.source # r)
        BY <1>7, <3>3, <4>1 DEF Ignored, OnItsWay
      <4>3. PICK i \in DOMAIN wire[r] : wire[r][i].id = id /\ wire[r][i].source # r
        BY <3>3 DEF OnItsWay
      <4>4. \E j \in DOMAIN wire'[r] : wire'[r][j].id = id /\ wire'[r][j].source # r
        BY <1>6, <4>2, <4>3
      <4>5. OnItsWay(id)'
        BY <1>7, <3>3, <4>4 DEF OnItsWay
      <4> QED
        BY <1>7, <3>1, <4>5
    <3> QED
      BY <1>7, <3>1, <3>2, <3>3
  <2> QED
    BY <2>1, <2>2, <2>3 DEF BusIInv, NothingIsSwallowed
<1>8. CASE /\ ~Ignored(r, m)
           /\ bus' = [bus EXCEPT ![r].seen = rememberRemoteEvent(bus[r].seen, m.id)]
           /\ deliverRealtimeEventLocally(r, m.id)
  <2> DEFINE known == rememberRemoteEvent(bus[r].seen, m.id)
  <2>1. known \in Seq(Ids) /\ Range(known) \subseteq Range(bus[r].seen) \cup {m.id}
    BY <1>1, <1>4, Remembered
  <2>2. bus' = [bus EXCEPT ![r].seen = known]
    BY <1>8
  <2> HIDE DEF known
  <2>3. /\ bus' \in [Replicas -> [started : BOOLEAN, subscribed : BOOLEAN, seen : Seq(Ids),
                                  stopped : BOOLEAN]]
        /\ \A q \in Replicas \ {r} : bus'[q] = bus[q]
        /\ bus'[r].seen = known /\ bus'[r].started = bus[r].started
    BY <1>1, <2>1, <2>2 DEF BusShape
  <2>4. /\ viewer' \in [at : Replicas \cup {NoReplica}, user : BOOLEAN, seen : SUBSET Toasts]
        /\ viewer'.at = viewer.at /\ viewer'.user = viewer.user
        /\ pops' \in [BusEvents -> Nat]
        /\ \A e \in BusEvents : pops[e] > 0 => pops'[e] > 0
        /\ ShownIsRemembered'
        /\ viewer.at = r /\ viewer.user => pops'[m.id.event] > 0
    BY <1>1, <1>4, <1>8, DeliveredToPage
  <2>5. BusShape'
    BY <1>1, <1>2, <1>5, <2>3, <2>4 DEF BusShape
  <2>6. PageIsServed'
    BY <2>3, <2>4 DEF BusIInv, PageIsServed
  <2>7. ASSUME NEW id \in owed'
        PROVE  /\ viewer'.at \in Replicas /\ viewer'.user
               /\ pops'[id.event] > 0 \/ OnItsWay(id)'
    <3>1. /\ viewer.at \in Replicas /\ viewer.user
          /\ pops[id.event] > 0 \/ OnItsWay(id)
          /\ id.event \in BusEvents
      BY <1>1, <1>2, <2>7 DEF BusIInv, NothingIsSwallowed, BusShape, Ids, Toasts
    <3>2. CASE pops[id.event] > 0
      BY <2>4, <3>1, <3>2
    <3>3. CASE OnItsWay(id) /\ viewer.at # r
      <4>1. OnItsWay(id)'
        BY <1>5, <2>3, <2>4, <3>1, <3>3 DEF OnItsWay
      <4> QED
        BY <2>4, <3>1, <4>1
    <3>4. CASE viewer.at = r /\ m.id = id
      BY <2>4, <3>1, <3>4
    <3>5. CASE OnItsWay(id) /\ viewer.at = r /\ m.id # id
      <4>1. id \notin Range(known)
        BY <2>1, <3>5 DEF OnItsWay
      <4>2. PICK i \in DOMAIN wire[r] : wire[r][i].id = id /\ wire[r][i].source # r
        BY <3>5 DEF OnItsWay
      <4>3. \E j \in DOMAIN wire'[r] : wire'[r][j].id = id /\ wire'[r][j].source # r
        BY <1>6, <3>5, <4>2
      <4>4. OnItsWay(id)'
        BY <2>3, <2>4, <3>5, <4>1, <4>3 DEF OnItsWay
      <4> QED
        BY <2>4, <3>1, <4>4
    <3> QED
      BY <3>1, <3>2, <3>3, <3>4, <3>5
  <2> QED
    BY <2>4, <2>5, <2>6, <2>7 DEF BusIInv, NothingIsSwallowed
<1> QED
  BY <1>2, <1>7, <1>8

LEMMA BusNextInv == BusIInv /\ [BusNext]_busVars => BusIInv'
<1> SUFFICES ASSUME BusIInv, [BusNext]_busVars
             PROVE  BusIInv'
  OBVIOUS
<1>1. CASE UNCHANGED busVars
  BY <1>1 DEF busVars, BusIInv, BusShape, ShownIsRemembered, PageIsServed, NothingIsSwallowed,
              OnItsWay
<1>2. CASE BusNext
  BY <1>2, PageMovesInv, BusMovesInv, ConsumeInv, DispatchInv, PublishInv DEF BusNext
<1> QED
  BY <1>1, <1>2

\* A notification comes up at most once, and what is sent to a page over
\* connections that hold is on the wire or has come up.
THEOREM AlertsComeUpOnce == BusSpec => []AlertsReachThePageOnce
<1>1. BusSpec => []BusIInv
  BY BusInitInv, BusNextInv, PTL DEF BusSpec
<1>2. BusIInv => AlertsReachThePageOnce
  BY DEF BusIInv, ShownIsRemembered, NothingIsSwallowed, OnItsWay, AlertsReachThePageOnce
<1> QED
  BY <1>1, <1>2, PTL

----------------------------------------------------------------------------
(* MediaGate: a queue of waiters *)

\* The queue holds the waiters, each at one place.
InLine(queue, Waiters) ==
  /\ \A i \in 1 .. Len(queue) : queue[i] \in Waiters
  /\ \A i, j \in 1 .. Len(queue) : queue[i] = queue[j] => i = j
  /\ \A w \in Waiters : \E i \in 1 .. Len(queue) : queue[i] = w

\* A queue has as many places as there are waiters, and they are its elements.
LEMMA LineIsCounted ==
  ASSUME NEW S, NEW queue \in Seq(S), NEW Waiters, InLine(queue, Waiters)
  PROVE  /\ IsFiniteSet(Waiters)
         /\ Cardinality(Waiters) = Len(queue)
         /\ ToSet(queue) = Waiters
<1> DEFINE Places == 1 .. Len(queue)
           At == [i \in Places |-> queue[i]]
<1>1. Len(queue) \in Nat /\ DOMAIN queue = Places
  BY LenProperties
<1>2. IsFiniteSet(Places) /\ Cardinality(Places) = Len(queue)
  BY <1>1, FS_Interval
<1>3. At \in [Places -> Waiters]
  BY DEF InLine
<1>4. \A i, j \in Places : At[i] = At[j] => i = j
  BY DEF InLine
<1>5. \A w \in Waiters : \E i \in Places : At[i] = w
  BY DEF InLine
<1>6. ExistsBijection(Places, Waiters)
  <2> HIDE DEF Places, At
  <2> QED
    BY <1>3, <1>4, <1>5 DEF ExistsBijection, Bijection, Injection, Surjection, IsInjective
<1>7. ToSet(queue) = Waiters
  BY <1>1 DEF ToSet, InLine
<1>8. IsFiniteSet(Waiters) /\ Cardinality(Waiters) = Cardinality(Places)
  <2> HIDE DEF Places
  <2> QED
    BY <1>2, <1>6, FS_Bijection
<1> QED
  BY <1>2, <1>7, <1>8

\* One more waiter at the end of the queue.
LEMMA JoinsTheLine ==
  ASSUME NEW S, NEW queue \in Seq(S), NEW Waiters, InLine(queue, Waiters),
         NEW w \in S, w \notin Waiters
  PROVE  /\ Append(queue, w) \in Seq(S)
         /\ Append(queue, w) # <<>>
         /\ InLine(Append(queue, w), Waiters \cup {w})
<1>1. Len(queue) \in Nat
  BY LenProperties
<1>2. /\ Append(queue, w) \in Seq(S)
      /\ Append(queue, w) # <<>>
      /\ Len(Append(queue, w)) = Len(queue) + 1
      /\ \A i \in 1 .. Len(queue) : Append(queue, w)[i] = queue[i]
      /\ Append(queue, w)[Len(queue) + 1] = w
  BY AppendProperties
<1> DEFINE longer == Append(queue, w)
<1> HIDE DEF longer
<1>3. \A i \in 1 .. Len(longer) : i \in 1 .. Len(queue) \/ i = Len(queue) + 1
  BY <1>1, <1>2 DEF longer
<1>4. /\ \A i \in 1 .. Len(queue) : i \in 1 .. Len(longer)
      /\ Len(queue) + 1 \in 1 .. Len(longer)
  BY <1>1, <1>2 DEF longer
<1>5. InLine(longer, Waiters \cup {w})
  BY <1>2, <1>3, <1>4 DEF InLine, longer
<1> QED
  BY <1>2, <1>5 DEF longer

\* The oldest waiter is served.
LEMMA HeadLeavesTheLine ==
  ASSUME NEW S, NEW queue \in Seq(S), NEW Waiters, InLine(queue, Waiters), queue # <<>>
  PROVE  /\ Head(queue) \in S \cap Waiters
         /\ Tail(queue) \in Seq(S)
         /\ InLine(Tail(queue), Waiters \ {Head(queue)})
<1>1. Len(queue) \in Nat \ {0} /\ Head(queue) = queue[1]
  BY LenProperties, EmptySeq
<1>2. /\ Head(queue) \in S /\ Tail(queue) \in Seq(S)
      /\ Len(Tail(queue)) = Len(queue) - 1
      /\ \A i \in 1 .. Len(Tail(queue)) : Tail(queue)[i] = queue[i + 1]
  BY HeadTailProperties
<1>3. Head(queue) \in Waiters
  BY <1>1 DEF InLine
<1> DEFINE rest == Tail(queue)
<1> HIDE DEF rest
<1>4. /\ \A i \in 1 .. Len(rest) : i + 1 \in 1 .. Len(queue) /\ i + 1 # 1 /\ rest[i] = queue[i + 1]
      /\ \A i \in 1 .. Len(queue) : i # 1 => i - 1 \in 1 .. Len(rest) /\ rest[i - 1] = queue[i]
      /\ 1 \in 1 .. Len(queue)
  BY <1>1, <1>2 DEF rest
<1>5. \A i \in 1 .. Len(rest) : rest[i] \in Waiters \ {Head(queue)}
  BY <1>1, <1>4 DEF InLine
<1>6. \A i, j \in 1 .. Len(rest) : rest[i] = rest[j] => i = j
  <2> SUFFICES ASSUME NEW i \in 1 .. Len(rest), NEW j \in 1 .. Len(rest), rest[i] = rest[j]
               PROVE  i = j
    OBVIOUS
  <2>1. i + 1 = j + 1
    BY <1>4 DEF InLine
  <2> QED
    BY <2>1
<1>7. \A w \in Waiters \ {Head(queue)} : \E i \in 1 .. Len(rest) : rest[i] = w
  <2> SUFFICES ASSUME NEW w \in Waiters, w # Head(queue)
               PROVE  \E i \in 1 .. Len(rest) : rest[i] = w
    OBVIOUS
  <2>1. PICK i \in 1 .. Len(queue) : queue[i] = w
    BY DEF InLine
  <2> QED
    BY <1>1, <1>4, <2>1
<1> QED
  BY <1>2, <1>3, <1>5, <1>6, <1>7 DEF InLine, rest

\* A waiter that is cancelled leaves its place, and only its place.
LEMMA WaiterLeavesTheLine ==
  ASSUME NEW S, NEW queue \in Seq(S), NEW Waiters, InLine(queue, Waiters), NEW w \in Waiters
  PROVE  /\ WithoutWaiter(queue, w) \in Seq(S)
         /\ WithoutWaiter(queue, w) # <<>> => queue # <<>>
         /\ InLine(WithoutWaiter(queue, w), Waiters \ {w})
<1>1. /\ Len(queue) \in Nat /\ DOMAIN queue = 1 .. Len(queue)
      /\ \A i \in 1 .. Len(queue) : queue[i] \in S
  BY LenProperties
<1>2. PICK k \in 1 .. Len(queue) : queue[k] = w
  BY DEF InLine
<1>3. {i \in DOMAIN queue : queue[i] = w} = {k}
  BY <1>1, <1>2 DEF InLine
<1>4. (CHOOSE i \in {k} : \A j \in {k} : i <= j) = k
  <2>1. k <= k
    BY <1>2
  <2>2. k \in {k} /\ \A j \in {k} : k <= j
    BY <2>1
  <2> QED
    BY <2>2
<1>5. WithoutWaiter(queue, w) = SubSeq(queue, 1, k - 1) \o SubSeq(queue, k + 1, Len(queue))
  BY <1>3, <1>4 DEF WithoutWaiter, RemoveAt
<1> DEFINE before == SubSeq(queue, 1, k - 1)
           after == SubSeq(queue, k + 1, Len(queue))
<1>6. /\ k \in Int /\ k - 1 \in Int /\ k + 1 \in Int /\ Len(queue) \in Int
      /\ \A i \in 1 .. k - 1 : i \in 1 .. Len(queue)
      /\ \A i \in k + 1 .. Len(queue) : i \in 1 .. Len(queue)
  BY <1>1, <1>2
<1>7. /\ before \in Seq(S)
      /\ Len(before) = k - 1
      /\ \A i \in 1 .. k - 1 : before[i] = queue[i]
  <2>1. /\ before \in Seq(S)
        /\ Len(before) = IF 1 <= k - 1 THEN k - 1 - 1 + 1 ELSE 0
        /\ \A i \in 1 .. k - 1 - 1 + 1 : before[i] = queue[1 + i - 1]
    BY <1>1, <1>6, SubSeqProperties
  <2>2. \A i \in 1 .. k - 1 : i \in 1 .. k - 1 - 1 + 1 /\ 1 + i - 1 = i
    BY <1>6
  <2>3. (IF 1 <= k - 1 THEN k - 1 - 1 + 1 ELSE 0) = k - 1
    BY <1>2
  <2> HIDE DEF before
  <2> QED
    BY <2>1, <2>2, <2>3
<1>8. /\ after \in Seq(S)
      /\ Len(after) = Len(queue) - k
      /\ \A i \in 1 .. Len(queue) - k : after[i] = queue[k + i]
  <2>1. /\ after \in Seq(S)
        /\ Len(after) = IF k + 1 <= Len(queue) THEN Len(queue) - (k + 1) + 1 ELSE 0
        /\ \A i \in 1 .. Len(queue) - (k + 1) + 1 : after[i] = queue[k + 1 + i - 1]
    BY <1>1, <1>6, SubSeqProperties
  <2>2. \A i \in 1 .. Len(queue) - k :
          i \in 1 .. Len(queue) - (k + 1) + 1 /\ k + 1 + i - 1 = k + i
    BY <1>6
  <2>3. (IF k + 1 <= Len(queue) THEN Len(queue) - (k + 1) + 1 ELSE 0) = Len(queue) - k
    <3>1. ASSUME NEW n \in Nat, NEW m \in 1 .. n
          PROVE  (IF m + 1 <= n THEN n - (m + 1) + 1 ELSE 0) = n - m
      OBVIOUS
    <3> QED
      BY <1>1, <3>1
  <2> HIDE DEF after
  <2> QED
    BY <2>1, <2>2, <2>3
<1> HIDE DEF before, after
<1>9. /\ before \o after \in Seq(S)
      /\ Len(before \o after) = Len(before) + Len(after)
      /\ \A i \in 1 .. Len(before) + Len(after) :
           (before \o after)[i] = IF i <= Len(before) THEN before[i] ELSE after[i - Len(before)]
  BY <1>7, <1>8, ConcatProperties
<1> DEFINE rest == before \o after
           moved(i) == IF i < k THEN i ELSE i + 1
<1> HIDE DEF rest
<1>10. rest \in Seq(S) /\ Len(rest) = Len(queue) - 1
  BY <1>1, <1>2, <1>7, <1>8, <1>9 DEF rest
<1>11. \A i \in 1 .. Len(rest) :
         /\ moved(i) \in 1 .. Len(queue) /\ moved(i) # k
         /\ rest[i] = queue[moved(i)]
  <2> SUFFICES ASSUME NEW i \in 1 .. Len(rest)
               PROVE  /\ moved(i) \in 1 .. Len(queue) /\ moved(i) # k
                      /\ rest[i] = queue[moved(i)]
    OBVIOUS
  <2>1. rest[i] = IF i <= k - 1 THEN before[i] ELSE after[i - (k - 1)]
    BY <1>1, <1>2, <1>7, <1>8, <1>9, <1>10 DEF rest
  <2>2. CASE i <= k - 1
    BY <1>1, <1>2, <1>7, <2>1, <2>2
  <2>3. CASE ~(i <= k - 1)
    <3>1. i - (k - 1) \in 1 .. Len(queue) - k /\ k + (i - (k - 1)) = i + 1
      BY <1>1, <1>2, <1>10, <2>3
    <3>2. rest[i] = queue[i + 1]
      BY <1>8, <2>1, <2>3, <3>1
    <3> QED
      BY <1>1, <1>2, <1>10, <2>3, <3>2
  <2> QED
    BY <2>2, <2>3
<1>12. \A i \in 1 .. Len(rest) : rest[i] \in Waiters \ {w}
  BY <1>2, <1>11 DEF InLine
<1>13. \A i, j \in 1 .. Len(rest) : rest[i] = rest[j] => i = j
  <2> SUFFICES ASSUME NEW i \in 1 .. Len(rest), NEW j \in 1 .. Len(rest), rest[i] = rest[j]
               PROVE  i = j
    OBVIOUS
  <2>1. moved(i) = moved(j)
    <3>1. /\ moved(i) \in 1 .. Len(queue) /\ moved(j) \in 1 .. Len(queue)
          /\ queue[moved(i)] = queue[moved(j)]
      BY <1>11
    <3> HIDE DEF moved
    <3> QED
      BY <3>1 DEF InLine
  <2> QED
    BY <1>2, <2>1
<1>14. \A v \in Waiters \ {w} : \E i \in 1 .. Len(rest) : rest[i] = v
  <2> SUFFICES ASSUME NEW v \in Waiters, v # w
               PROVE  \E i \in 1 .. Len(rest) : rest[i] = v
    OBVIOUS
  <2>1. PICK j \in 1 .. Len(queue) : queue[j] = v
    BY DEF InLine
  <2>2. CASE j < k
    <3>1. j \in 1 .. Len(rest) /\ moved(j) = j
      BY <1>1, <1>2, <1>10, <2>2
    <3> QED
      BY <1>11, <2>1, <3>1
  <2>3. CASE j > k
    <3>1. j - 1 \in 1 .. Len(rest) /\ moved(j - 1) = j
      BY <1>1, <1>2, <1>10, <2>3
    <3> QED
      BY <1>11, <2>1, <3>1
  <2> QED
    BY <1>2, <2>1, <2>2, <2>3
<1>15. queue # <<>>
  BY <1>1, <1>2, EmptySeq
<1>16. WithoutWaiter(queue, w) = rest
  BY <1>5 DEF rest, before, after
<1> QED
  BY <1>10, <1>12, <1>13, <1>14, <1>15, <1>16 DEF InLine

----------------------------------------------------------------------------
(* MediaGate: a semaphore *)

\* A bounded semaphore between its calls: `active` counts those at work, and
\* somebody waits only when every slot is taken.
Semaphore(active, queue, Working, Waiters, limit) ==
  /\ IsFiniteSet(Working) /\ active = Cardinality(Working)
  /\ active <= limit
  /\ InLine(queue, Waiters)
  /\ queue # <<>> => active = limit

\* run with a free slot.
LEMMA SlotTaken ==
  ASSUME NEW S, NEW queue \in Seq(S), NEW Working, NEW Waiters, NEW active, NEW limit \in Nat,
         Semaphore(active, queue, Working, Waiters, limit),
         active < limit, NEW w, w \notin Working
  PROVE  Semaphore(active + 1, queue, Working \cup {w}, Waiters, limit)
<1>1. active \in Nat
  BY FS_CardinalityType DEF Semaphore
<1>2. IsFiniteSet(Working \cup {w}) /\ Cardinality(Working \cup {w}) = active + 1
  BY FS_AddElement DEF Semaphore
<1> QED
  BY <1>1, <1>2 DEF Semaphore

\* run without one.
LEMMA SlotAwaited ==
  ASSUME NEW S, NEW queue \in Seq(S), NEW Working, NEW Waiters, NEW active, NEW limit \in Nat,
         Semaphore(active, queue, Working, Waiters, limit),
         active >= limit, NEW w \in S, w \notin Waiters
  PROVE  /\ Append(queue, w) \in Seq(S)
         /\ Semaphore(active, Append(queue, w), Working, Waiters \cup {w}, limit)
<1>1. active \in Nat
  BY FS_CardinalityType DEF Semaphore
<1>2. active = limit
  BY <1>1 DEF Semaphore
<1> QED
  BY <1>2, JoinsTheLine DEF Semaphore

\* The finally block with nobody waiting.
LEMMA SlotFreed ==
  ASSUME NEW queue, NEW Working, NEW Waiters, NEW active, NEW limit \in Nat,
         Semaphore(active, queue, Working, Waiters, limit),
         queue = <<>>, NEW w \in Working
  PROVE  /\ active - 1 \in Nat
         /\ Semaphore(active - 1, queue, Working \ {w}, Waiters, limit)
<1>1. active \in Nat
  BY FS_CardinalityType DEF Semaphore
<1>2. IsFiniteSet(Working \ {w}) /\ Cardinality(Working \ {w}) = active - 1
  BY FS_RemoveElement DEF Semaphore
<1>3. active - 1 \in Nat
  BY <1>2, FS_CardinalityType
<1> QED
  BY <1>1, <1>2, <1>3 DEF Semaphore

\* The finally block with somebody waiting: the slot changes hands.
LEMMA SlotHandedOver ==
  ASSUME NEW S, NEW queue \in Seq(S), NEW Working, NEW Waiters, NEW active, NEW limit \in Nat,
         Semaphore(active, queue, Working, Waiters, limit),
         queue # <<>>, NEW w \in Working, Working \cap Waiters = {}
  PROVE  /\ Head(queue) \in S \cap Waiters /\ Tail(queue) \in Seq(S)
         /\ Semaphore(active, Tail(queue), (Working \ {w}) \cup {Head(queue)},
                      Waiters \ {Head(queue)}, limit)
<1>1. /\ Head(queue) \in S \cap Waiters
      /\ Tail(queue) \in Seq(S)
      /\ InLine(Tail(queue), Waiters \ {Head(queue)})
  BY HeadLeavesTheLine DEF Semaphore
<1>2. active \in Nat
  BY FS_CardinalityType DEF Semaphore
<1>3. IsFiniteSet(Working \ {w}) /\ Cardinality(Working \ {w}) = active - 1
  BY FS_RemoveElement DEF Semaphore
<1> DEFINE others == Working \ {w}
           h == Head(queue)
<1>4. h \notin others
  BY <1>1
<1> HIDE DEF others, h
<1>5. IsFiniteSet(others \cup {h}) /\ Cardinality(others \cup {h}) = Cardinality(others) + 1
  BY <1>3, <1>4, FS_AddElement DEF others
<1>6. Cardinality(others \cup {h}) = active
  BY <1>2, <1>3, <1>5 DEF others
<1> QED
  BY <1>1, <1>5, <1>6 DEF Semaphore, others, h

\* A waiter's signal aborts.
LEMMA WaiterCancelled ==
  ASSUME NEW S, NEW queue \in Seq(S), NEW Working, NEW Waiters, NEW active, NEW limit \in Nat,
         Semaphore(active, queue, Working, Waiters, limit), NEW w \in Waiters
  PROVE  /\ WithoutWaiter(queue, w) \in Seq(S)
         /\ Semaphore(active, WithoutWaiter(queue, w), Working, Waiters \ {w}, limit)
BY WaiterLeavesTheLine DEF Semaphore

----------------------------------------------------------------------------
(* MediaGate: the inductive invariant *)

ReaderStates == {"idle", "found", "queued", "reading"}
ImageStates == {"idle", "received", "queued", "processing", "stored", "refused"}
MediaReaders ==
  [pc : ReaderStates, readable : BOOLEAN, answer : {"none", "200", "404", "503"}]

ReadersAt(pc) == {r \in Readers : reader[r].pc = pc}
UploadsAt(pc) == {u \in ImageUploads : imaging[u] = pc}

ReadGate ==
  /\ reader \in [Readers -> MediaReaders]
  /\ readWaiting \in Seq(Readers)
  /\ Semaphore(readActive, readWaiting, ReadersAt("reading"), ReadersAt("queued"),
               STORAGE_MAX_CONCURRENT_READS)

ProcessingGate ==
  /\ imaging \in [ImageUploads -> ImageStates]
  /\ procWaiting \in Seq(ImageUploads)
  /\ Semaphore(procActive, procWaiting, UploadsAt("processing"), UploadsAt("queued"),
               STORAGE_MAX_CONCURRENT_PROCESSING)

MediaIInv == ReadGate /\ ProcessingGate

LEMMA NobodyServed ==
  ASSUME NEW limit \in Nat
  PROVE  Semaphore(0, <<>>, {}, {}, limit)
<1>1. IsFiniteSet({}) /\ Cardinality({}) = 0
  BY FS_EmptySet
<1> QED
  BY <1>1, EmptySeq DEF Semaphore, InLine

LEMMA MediaInitInv == MediaInit => MediaIInv
<1> SUFFICES ASSUME MediaInit
             PROVE  MediaIInv
  OBVIOUS
<1>1. /\ reader \in [Readers -> MediaReaders] /\ \A r \in Readers : reader[r].pc = "idle"
      /\ imaging \in [ImageUploads -> ImageStates] /\ \A u \in ImageUploads : imaging[u] = "idle"
      /\ readActive = 0 /\ readWaiting = <<>> /\ procActive = 0 /\ procWaiting = <<>>
  BY DEF MediaInit, IdleReader, MediaReaders, ReaderStates, ImageStates
<1>2. /\ ReadersAt("reading") = {} /\ ReadersAt("queued") = {}
      /\ UploadsAt("processing") = {} /\ UploadsAt("queued") = {}
  BY <1>1 DEF ReadersAt, UploadsAt
<1>3. /\ Semaphore(0, <<>>, {}, {}, STORAGE_MAX_CONCURRENT_READS)
      /\ Semaphore(0, <<>>, {}, {}, STORAGE_MAX_CONCURRENT_PROCESSING)
  BY NobodyServed, MediaGateAssumption
<1>4. readWaiting \in Seq(Readers) /\ procWaiting \in Seq(ImageUploads)
  BY <1>1, EmptySeq
<1> QED
  BY <1>1, <1>2, <1>3, <1>4 DEF MediaIInv, ReadGate, ProcessingGate

----------------------------------------------------------------------------
(* MediaGate: reading *)

\* A request moves from one place to another and every other request stays.
LEMMA ReaderMoved ==
  ASSUME reader' \in [Readers -> MediaReaders], NEW r \in Readers,
         \A q \in Readers \ {r} : reader'[q].pc = reader[q].pc
  PROVE  \A pc \in ReaderStates :
           ReadersAt(pc)' = IF reader'[r].pc = pc THEN ReadersAt(pc) \cup {r}
                            ELSE ReadersAt(pc) \ {r}
BY DEF ReadersAt

\* The record of an answered request.
LEMMA AnsweredReader ==
  ASSUME reader \in [Readers -> MediaReaders], NEW r \in Readers,
         NEW answer \in {"200", "404", "503"}
  PROVE  /\ Answered(r, answer) \in [Readers -> MediaReaders]
         /\ Answered(r, answer)[r].pc = "idle"
         /\ \A q \in Readers \ {r} : Answered(r, answer)[q] = reader[q]
BY DEF Answered, IdleReader, MediaReaders, ReaderStates

\* A request that neither waits nor reads moves without doing so.
LEMMA OutsideTheGate ==
  ASSUME ReadGate, NEW r \in Readers, reader[r].pc \notin {"queued", "reading"},
         reader' \in [Readers -> MediaReaders],
         \A q \in Readers \ {r} : reader'[q] = reader[q],
         reader'[r].pc \notin {"queued", "reading"},
         UNCHANGED <<readActive, readWaiting>>
  PROVE  ReadGate'
<1>1. ReadersAt("reading")' = ReadersAt("reading") /\ ReadersAt("queued")' = ReadersAt("queued")
  BY DEF ReadersAt
<1> QED
  BY <1>1 DEF ReadGate

LEMMA RequestMediaInv ==
  ASSUME ReadGate, NEW r \in Readers, RequestMedia(r)
  PROVE  ReadGate'
<1>1. /\ reader[r].pc = "idle" /\ UNCHANGED <<readActive, readWaiting>>
      /\ \/ reader' = Answered(r, "404")
         \/ reader' = Answered(r, "503")
         \/ \E readable \in {c.readable : c \in Completions} :
              reader' = [reader EXCEPT ![r] = [pc |-> "found", readable |-> readable,
                                               answer |-> "none"]]
  BY DEF RequestMedia
<1>2. reader \in [Readers -> MediaReaders]
  BY DEF ReadGate
<1>3. CASE reader' = Answered(r, "404") \/ reader' = Answered(r, "503")
  BY <1>1, <1>2, <1>3, AnsweredReader, OutsideTheGate
<1>4. ASSUME NEW readable \in {c.readable : c \in Completions},
             reader' = [reader EXCEPT ![r] = [pc |-> "found", readable |-> readable,
                                              answer |-> "none"]]
      PROVE  ReadGate'
  <2>1. readable \in BOOLEAN
    <3>1. PICK row \in ServedRows : readable = assertReadableStorageObjectMetadata(row)
      BY DEF Completions
    <3> QED
      BY <3>1 DEF assertReadableStorageObjectMetadata
  <2>2. [pc |-> "found", readable |-> readable, answer |-> "none"] \in MediaReaders
    BY <2>1 DEF MediaReaders, ReaderStates
  <2>3. /\ reader' \in [Readers -> MediaReaders]
        /\ reader'[r].pc = "found"
        /\ \A q \in Readers \ {r} : reader'[q] = reader[q]
    BY <1>2, <1>4, <2>2
  <2> QED
    BY <1>1, <2>3, OutsideTheGate
<1> QED
  BY <1>1, <1>3, <1>4

LEMMA EnterReadInv ==
  ASSUME ReadGate, NEW r \in Readers, EnterRead(r)
  PROVE  ReadGate'
<1> DEFINE limit == STORAGE_MAX_CONCURRENT_READS
<1>1. /\ reader \in [Readers -> MediaReaders] /\ readWaiting \in Seq(Readers)
      /\ reader[r].pc = "found" /\ limit \in Nat
      /\ Semaphore(readActive, readWaiting, ReadersAt("reading"), ReadersAt("queued"), limit)
  BY MediaGateAssumption DEF ReadGate, EnterRead
<1>2. r \notin ReadersAt("reading") /\ r \notin ReadersAt("queued")
  BY <1>1 DEF ReadersAt
<1>3. \A pc \in ReaderStates :
        /\ [reader EXCEPT ![r].pc = pc] \in [Readers -> MediaReaders]
        /\ [reader EXCEPT ![r].pc = pc][r].pc = pc
        /\ \A q \in Readers \ {r} : [reader EXCEPT ![r].pc = pc][q] = reader[q]
  BY <1>1 DEF MediaReaders
<1>4. CASE /\ readActive < limit /\ readActive' = readActive + 1
           /\ reader' = [reader EXCEPT ![r].pc = "reading"] /\ UNCHANGED readWaiting
  <2>1. Semaphore(readActive + 1, readWaiting, ReadersAt("reading") \cup {r}, ReadersAt("queued"),
                  limit)
    BY <1>1, <1>2, <1>4, SlotTaken
  <2>2. /\ reader' \in [Readers -> MediaReaders] /\ reader'[r].pc = "reading"
        /\ \A q \in Readers \ {r} : reader'[q] = reader[q]
    BY <1>3, <1>4 DEF ReaderStates
  <2>3. /\ ReadersAt("reading")' = ReadersAt("reading") \cup {r}
        /\ ReadersAt("queued")' = ReadersAt("queued")
    BY <1>2, <2>2, ReaderMoved DEF ReaderStates
  <2> QED
    BY <1>1, <1>4, <2>1, <2>2, <2>3 DEF ReadGate
<1>5. CASE /\ readActive >= limit /\ readWaiting' = Append(readWaiting, r)
           /\ reader' = [reader EXCEPT ![r].pc = "queued"] /\ UNCHANGED readActive
  <2>1. /\ Append(readWaiting, r) \in Seq(Readers)
        /\ Semaphore(readActive, Append(readWaiting, r), ReadersAt("reading"),
                     ReadersAt("queued") \cup {r}, limit)
    BY <1>1, <1>2, <1>5, SlotAwaited
  <2>2. /\ reader' \in [Readers -> MediaReaders] /\ reader'[r].pc = "queued"
        /\ \A q \in Readers \ {r} : reader'[q] = reader[q]
    BY <1>3, <1>5 DEF ReaderStates
  <2>3. /\ ReadersAt("reading")' = ReadersAt("reading")
        /\ ReadersAt("queued")' = ReadersAt("queued") \cup {r}
    BY <1>2, <2>2, ReaderMoved DEF ReaderStates
  <2> QED
    BY <1>5, <2>1, <2>2, <2>3 DEF ReadGate
<1>6. CASE reader' = Answered(r, "503") /\ UNCHANGED <<readActive, readWaiting>>
  BY <1>1, <1>6, AnsweredReader, OutsideTheGate
<1> QED
  BY <1>4, <1>5, <1>6 DEF EnterRead

\* The finally block of a request that holds a slot.
LEMMA ReleaseReadInv ==
  ASSUME ReadGate, NEW r \in Readers, reader[r].pc = "reading",
         NEW answer \in {"200", "503"}, ReleaseRead(r, answer)
  PROVE  ReadGate'
<1> DEFINE limit == STORAGE_MAX_CONCURRENT_READS
<1>1. /\ reader \in [Readers -> MediaReaders] /\ readWaiting \in Seq(Readers) /\ limit \in Nat
      /\ Semaphore(readActive, readWaiting, ReadersAt("reading"), ReadersAt("queued"), limit)
  BY MediaGateAssumption DEF ReadGate
<1>2. /\ r \in ReadersAt("reading") /\ r \notin ReadersAt("queued")
      /\ ReadersAt("reading") \cap ReadersAt("queued") = {}
  BY DEF ReadersAt
<1>3. /\ Answered(r, answer) \in [Readers -> MediaReaders]
      /\ Answered(r, answer)[r].pc = "idle"
      /\ \A q \in Readers \ {r} : Answered(r, answer)[q] = reader[q]
  BY <1>1, AnsweredReader
<1>4. CASE readWaiting = <<>>
  <2>1. /\ readActive' = readActive - 1 /\ reader' = Answered(r, answer)
        /\ UNCHANGED readWaiting
    BY <1>4 DEF ReleaseRead
  <2>2. Semaphore(readActive - 1, readWaiting, ReadersAt("reading") \ {r}, ReadersAt("queued"), limit)
    BY <1>1, <1>2, <1>4, SlotFreed
  <2>3. /\ reader' \in [Readers -> MediaReaders] /\ reader'[r].pc = "idle"
        /\ \A q \in Readers \ {r} : reader'[q] = reader[q]
    BY <1>3, <2>1
  <2>4. /\ ReadersAt("reading")' = ReadersAt("reading") \ {r}
        /\ ReadersAt("queued")' = ReadersAt("queued")
    BY <1>2, <2>3, ReaderMoved DEF ReaderStates
  <2> QED
    BY <1>1, <2>1, <2>2, <2>3, <2>4 DEF ReadGate
<1>5. CASE readWaiting # <<>>
  <2> DEFINE h == Head(readWaiting)
             answered == Answered(r, answer)
  <2>1. /\ reader' = [answered EXCEPT ![h].pc = "reading"]
        /\ readWaiting' = Tail(readWaiting) /\ UNCHANGED readActive
    BY <1>5 DEF ReleaseRead
  <2>2. /\ h \in Readers \cap ReadersAt("queued") /\ Tail(readWaiting) \in Seq(Readers)
        /\ Semaphore(readActive, Tail(readWaiting), (ReadersAt("reading") \ {r}) \cup {h},
                     ReadersAt("queued") \ {h}, limit)
    BY <1>1, <1>2, <1>5, SlotHandedOver
  <2> HIDE DEF h, answered
  <2>3. h # r
    BY <1>2, <2>2
  <2>4. /\ answered \in [Readers -> MediaReaders] /\ answered[r].pc = "idle"
        /\ \A q \in Readers \ {r} : answered[q] = reader[q]
    BY <1>3 DEF answered
  <2>5. /\ reader' \in [Readers -> MediaReaders] /\ reader'[h].pc = "reading"
        /\ \A q \in Readers \ {h} : reader'[q] = answered[q]
    BY <2>1, <2>2, <2>4 DEF MediaReaders, ReaderStates
  <2>6. /\ ReadersAt("reading")' = (ReadersAt("reading") \ {r}) \cup {h}
        /\ ReadersAt("queued")' = ReadersAt("queued") \ {h}
    BY <1>2, <2>2, <2>3, <2>4, <2>5 DEF ReadersAt
  <2> QED
    BY <2>1, <2>2, <2>5, <2>6 DEF ReadGate
<1> QED
  BY <1>4, <1>5

LEMMA AbortReadInv ==
  ASSUME ReadGate, NEW r \in Readers, AbortRead(r)
  PROVE  ReadGate'
<1>1. /\ reader \in [Readers -> MediaReaders] /\ readWaiting \in Seq(Readers)
      /\ STORAGE_MAX_CONCURRENT_READS \in Nat
      /\ Semaphore(readActive, readWaiting, ReadersAt("reading"), ReadersAt("queued"),
                   STORAGE_MAX_CONCURRENT_READS)
  BY MediaGateAssumption DEF ReadGate
<1>2. CASE reader[r].pc = "reading" /\ ReleaseRead(r, "503")
  BY <1>2, ReleaseReadInv
<1>3. CASE /\ reader[r].pc = "queued" /\ readWaiting' = WithoutWaiter(readWaiting, r)
           /\ reader' = Answered(r, "503") /\ UNCHANGED readActive
  <2>1. r \in ReadersAt("queued") /\ r \notin ReadersAt("reading")
    BY <1>3 DEF ReadersAt
  <2>2. /\ WithoutWaiter(readWaiting, r) \in Seq(Readers)
        /\ Semaphore(readActive, WithoutWaiter(readWaiting, r), ReadersAt("reading"),
                     ReadersAt("queued") \ {r}, STORAGE_MAX_CONCURRENT_READS)
    BY <1>1, <2>1, WaiterCancelled
  <2>3. /\ reader' \in [Readers -> MediaReaders] /\ reader'[r].pc = "idle"
        /\ \A q \in Readers \ {r} : reader'[q] = reader[q]
    BY <1>1, <1>3, AnsweredReader
  <2>4. /\ ReadersAt("reading")' = ReadersAt("reading")
        /\ ReadersAt("queued")' = ReadersAt("queued") \ {r}
    BY <2>1, <2>3, ReaderMoved DEF ReaderStates
  <2> QED
    BY <1>3, <2>2, <2>3, <2>4 DEF ReadGate
<1>4. CASE /\ reader[r].pc = "found" /\ reader' = Answered(r, "503")
           /\ UNCHANGED <<readActive, readWaiting>>
  BY <1>1, <1>4, AnsweredReader, OutsideTheGate
<1> QED
  BY <1>2, <1>3, <1>4 DEF AbortRead

----------------------------------------------------------------------------
(* MediaGate: uploads *)

LEMMA EnterProcessingInv ==
  ASSUME ProcessingGate, NEW u \in ImageUploads, EnterProcessing(u)
  PROVE  ProcessingGate'
<1> DEFINE limit == STORAGE_MAX_CONCURRENT_PROCESSING
<1>1. /\ imaging \in [ImageUploads -> ImageStates] /\ procWaiting \in Seq(ImageUploads)
      /\ imaging[u] = "received" /\ limit \in Nat
      /\ Semaphore(procActive, procWaiting, UploadsAt("processing"), UploadsAt("queued"), limit)
  BY MediaGateAssumption DEF ProcessingGate, EnterProcessing
<1>2. u \notin UploadsAt("processing") /\ u \notin UploadsAt("queued")
  BY <1>1 DEF UploadsAt
<1>3. CASE /\ procActive < limit /\ procActive' = procActive + 1
           /\ imaging' = [imaging EXCEPT ![u] = "processing"] /\ UNCHANGED procWaiting
  <2>1. Semaphore(procActive + 1, procWaiting, UploadsAt("processing") \cup {u},
                  UploadsAt("queued"), limit)
    BY <1>1, <1>2, <1>3, SlotTaken
  <2>2. /\ imaging' \in [ImageUploads -> ImageStates]
        /\ UploadsAt("processing")' = UploadsAt("processing") \cup {u}
        /\ UploadsAt("queued")' = UploadsAt("queued")
    BY <1>1, <1>2, <1>3 DEF UploadsAt, ImageStates
  <2> QED
    BY <1>1, <1>3, <2>1, <2>2 DEF ProcessingGate
<1>4. CASE /\ procActive >= limit /\ procWaiting' = Append(procWaiting, u)
           /\ imaging' = [imaging EXCEPT ![u] = "queued"] /\ UNCHANGED procActive
  <2>1. /\ Append(procWaiting, u) \in Seq(ImageUploads)
        /\ Semaphore(procActive, Append(procWaiting, u), UploadsAt("processing"),
                     UploadsAt("queued") \cup {u}, limit)
    BY <1>1, <1>2, <1>4, SlotAwaited
  <2>2. /\ imaging' \in [ImageUploads -> ImageStates]
        /\ UploadsAt("processing")' = UploadsAt("processing")
        /\ UploadsAt("queued")' = UploadsAt("queued") \cup {u}
    BY <1>1, <1>2, <1>4 DEF UploadsAt, ImageStates
  <2> QED
    BY <1>4, <2>1, <2>2 DEF ProcessingGate
<1>5. CASE imaging' = [imaging EXCEPT ![u] = "refused"] /\ UNCHANGED <<procActive, procWaiting>>
  <2>1. /\ imaging' \in [ImageUploads -> ImageStates]
        /\ UploadsAt("processing")' = UploadsAt("processing")
        /\ UploadsAt("queued")' = UploadsAt("queued")
    BY <1>1, <1>2, <1>5 DEF UploadsAt, ImageStates
  <2> QED
    BY <1>1, <1>5, <2>1 DEF ProcessingGate
<1> QED
  BY <1>3, <1>4, <1>5 DEF EnterProcessing

\* An upload that is neither waiting nor being processed moves without.
LEMMA OutsideProcessing ==
  ASSUME ProcessingGate, NEW u \in ImageUploads, imaging[u] \notin {"queued", "processing"},
         NEW pc \in {"idle", "received", "refused"}, imaging' = [imaging EXCEPT ![u] = pc],
         UNCHANGED <<procActive, procWaiting>>
  PROVE  ProcessingGate'
<1>1. imaging \in [ImageUploads -> ImageStates] /\ pc \in ImageStates
  BY DEF ProcessingGate, ImageStates
<1>2. /\ imaging' \in [ImageUploads -> ImageStates]
      /\ UploadsAt("processing")' = UploadsAt("processing")
      /\ UploadsAt("queued")' = UploadsAt("queued")
  BY <1>1 DEF UploadsAt
<1> QED
  BY <1>2 DEF ProcessingGate

LEMMA ProcessingEndsInv ==
  ASSUME ProcessingGate, NEW u \in ImageUploads, ProcessingEnds(u)
  PROVE  ProcessingGate'
<1> DEFINE limit == STORAGE_MAX_CONCURRENT_PROCESSING
<1>1. /\ imaging \in [ImageUploads -> ImageStates] /\ procWaiting \in Seq(ImageUploads)
      /\ imaging[u] = "processing" /\ limit \in Nat
      /\ Semaphore(procActive, procWaiting, UploadsAt("processing"), UploadsAt("queued"), limit)
  BY MediaGateAssumption DEF ProcessingGate, ProcessingEnds
<1>2. /\ u \in UploadsAt("processing") /\ u \notin UploadsAt("queued")
      /\ UploadsAt("processing") \cap UploadsAt("queued") = {}
  BY <1>1 DEF UploadsAt
<1>3. PICK pc \in {"stored", "refused"} :
        IF procWaiting = <<>>
        THEN /\ imaging' = [imaging EXCEPT ![u] = pc]
             /\ procActive' = procActive - 1
             /\ UNCHANGED procWaiting
        ELSE /\ imaging' = [[imaging EXCEPT ![u] = pc] EXCEPT ![Head(procWaiting)] = "processing"]
             /\ procWaiting' = Tail(procWaiting)
             /\ UNCHANGED procActive
  BY DEF ProcessingEnds
<1>4. CASE procWaiting = <<>>
  <2>1. Semaphore(procActive - 1, procWaiting, UploadsAt("processing") \ {u}, UploadsAt("queued"),
                  limit)
    BY <1>1, <1>2, <1>4, SlotFreed
  <2>2. /\ imaging' \in [ImageUploads -> ImageStates]
        /\ UploadsAt("processing")' = UploadsAt("processing") \ {u}
        /\ UploadsAt("queued")' = UploadsAt("queued")
    BY <1>1, <1>2, <1>3, <1>4 DEF UploadsAt, ImageStates
  <2> QED
    BY <1>1, <1>3, <1>4, <2>1, <2>2 DEF ProcessingGate
<1>5. CASE procWaiting # <<>>
  <2> DEFINE h == Head(procWaiting)
             finished == [imaging EXCEPT ![u] = pc]
  <2>1. /\ h \in ImageUploads \cap UploadsAt("queued") /\ Tail(procWaiting) \in Seq(ImageUploads)
        /\ Semaphore(procActive, Tail(procWaiting), (UploadsAt("processing") \ {u}) \cup {h},
                     UploadsAt("queued") \ {h}, limit)
    BY <1>1, <1>2, <1>5, SlotHandedOver
  <2>2. /\ imaging' = [finished EXCEPT ![h] = "processing"]
        /\ procWaiting' = Tail(procWaiting) /\ UNCHANGED procActive
    BY <1>3, <1>5
  <2>3. /\ finished \in [ImageUploads -> ImageStates] /\ finished[u] \in {"stored", "refused"}
        /\ \A v \in ImageUploads \ {u} : finished[v] = imaging[v]
    BY <1>1 DEF ImageStates
  <2> HIDE DEF h, finished
  <2>4. /\ imaging' \in [ImageUploads -> ImageStates] /\ imaging'[h] = "processing"
        /\ \A v \in ImageUploads \ {h} : imaging'[v] = finished[v]
    BY <2>1, <2>2, <2>3 DEF ImageStates
  <2>5. h # u
    BY <1>2, <2>1
  <2>6. /\ UploadsAt("processing")' = (UploadsAt("processing") \ {u}) \cup {h}
        /\ UploadsAt("queued")' = UploadsAt("queued") \ {h}
    BY <1>2, <2>1, <2>3, <2>4, <2>5 DEF UploadsAt
  <2> QED
    BY <2>1, <2>2, <2>4, <2>6 DEF ProcessingGate
<1> QED
  BY <1>4, <1>5

LEMMA MediaNextInv == MediaIInv /\ [MediaNext]_mediaVars => MediaIInv'
<1> SUFFICES ASSUME MediaIInv, [MediaNext]_mediaVars
             PROVE  MediaIInv'
  OBVIOUS
<1>1. ReadGate /\ ProcessingGate
  BY DEF MediaIInv
<1>2. ASSUME UNCHANGED procVars
      PROVE  ProcessingGate'
  BY <1>1, <1>2 DEF ProcessingGate, procVars, UploadsAt
<1>3. ASSUME UNCHANGED readVars
      PROVE  ReadGate'
  BY <1>1, <1>3 DEF ReadGate, readVars, ReadersAt
<1>4. CASE UNCHANGED mediaVars
  BY <1>2, <1>3, <1>4 DEF MediaIInv, mediaVars, readVars, procVars
<1>5. ASSUME NEW r \in Readers, RequestMedia(r)
      PROVE  MediaIInv'
  BY <1>1, <1>2, <1>5, RequestMediaInv DEF MediaIInv, RequestMedia
<1>6. ASSUME NEW r \in Readers, EnterRead(r)
      PROVE  MediaIInv'
  BY <1>1, <1>2, <1>6, EnterReadInv DEF MediaIInv, EnterRead
<1>7. ASSUME NEW r \in Readers, ProviderAnswers(r)
      PROVE  MediaIInv'
  <2>1. /\ reader[r].pc = "reading" /\ UNCHANGED procVars
        /\ ReleaseRead(r, "200") \/ ReleaseRead(r, "503")
    BY <1>7 DEF ProviderAnswers
  <2> QED
    BY <1>1, <1>2, <2>1, ReleaseReadInv DEF MediaIInv
<1>8. ASSUME NEW r \in Readers, AbortRead(r)
      PROVE  MediaIInv'
  BY <1>1, <1>2, <1>8, AbortReadInv DEF MediaIInv, AbortRead
<1>9. ASSUME NEW r \in Readers, LingeringEnds(r)
      PROVE  MediaIInv'
  <2>1. UNCHANGED <<reader, readActive, readWaiting>> /\ UNCHANGED procVars
    BY <1>9 DEF LingeringEnds
  <2>2. ReadGate'
    BY <1>1, <2>1 DEF ReadGate, ReadersAt
  <2> QED
    BY <1>2, <2>1, <2>2 DEF MediaIInv
<1>10. ASSUME NEW u \in ImageUploads, ReceiveUpload(u)
       PROVE  MediaIInv'
  <2>1. /\ imaging[u] = "idle" /\ UNCHANGED readVars /\ UNCHANGED <<procActive, procWaiting>>
        /\ \/ imaging' = [imaging EXCEPT ![u] = "received"]
           \/ imaging' = [imaging EXCEPT ![u] = "refused"]
    BY <1>10 DEF ReceiveUpload
  <2> QED
    BY <1>1, <1>3, <2>1, OutsideProcessing DEF MediaIInv
<1>11. ASSUME NEW u \in ImageUploads, EnterProcessing(u)
       PROVE  MediaIInv'
  BY <1>1, <1>3, <1>11, EnterProcessingInv DEF MediaIInv, EnterProcessing
<1>12. ASSUME NEW u \in ImageUploads, ProcessingEnds(u)
       PROVE  MediaIInv'
  BY <1>1, <1>3, <1>12, ProcessingEndsInv DEF MediaIInv, ProcessingEnds
<1>13. ASSUME NEW u \in ImageUploads, UploadAnswered(u)
       PROVE  MediaIInv'
  <2>1. /\ imaging[u] \notin {"queued", "processing"} /\ UNCHANGED readVars
        /\ imaging' = [imaging EXCEPT ![u] = "idle"] /\ UNCHANGED <<procActive, procWaiting>>
    BY <1>13 DEF UploadAnswered
  <2> QED
    BY <1>1, <1>3, <2>1, OutsideProcessing DEF MediaIInv
<1> QED
  BY <1>4, <1>5, <1>6, <1>7, <1>8, <1>9, <1>10, <1>11, <1>12, <1>13 DEF MediaNext

\* Neither semaphore loses a slot or a wake-up, however deadlines, closed
\* connections and finished operations interleave.
THEOREM NoSlotIsLost == MediaSpec => []SlotsServeTheQueue
<1>1. MediaSpec => []MediaIInv
  BY MediaInitInv, MediaNextInv, PTL DEF MediaSpec
<1>2. MediaIInv => SlotsServeTheQueue
  <2> SUFFICES ASSUME MediaIInv
               PROVE  SlotsServeTheQueue
    OBVIOUS
  <2>1. /\ ToSet(readWaiting) = ReadersAt("queued")
        /\ Len(readWaiting) = Cardinality(ReadersAt("queued"))
        /\ ToSet(procWaiting) = UploadsAt("queued")
        /\ Len(procWaiting) = Cardinality(UploadsAt("queued"))
    BY LineIsCounted DEF MediaIInv, ReadGate, ProcessingGate, Semaphore
  <2>2. /\ ReadersAt("queued") # {} => readWaiting # <<>>
        /\ UploadsAt("queued") # {} => procWaiting # <<>>
    BY EmptySeq DEF MediaIInv, ReadGate, ProcessingGate, Semaphore, InLine
  <2> QED
    BY <2>1, <2>2 DEF MediaIInv, ReadGate, ProcessingGate, Semaphore, SlotsServeTheQueue,
                      ReadersAt, UploadsAt
<1> QED
  BY <1>1, <1>2, PTL
=============================================================================
