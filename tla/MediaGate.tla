------------------------------ MODULE MediaGate ------------------------------
(***************************************************************************)
(* Serving and re-encoding media: the read routes of storage.routes.ts     *)
(* with their access decision, and the two bounded semaphores of           *)
(* storage.service.ts, StorageReadSemaphore (whose waiters may be          *)
(* cancelled by a deadline or a closed connection) and ProcessingSemaphore *)
(* around Sharp.                                                           *)
(*                                                                         *)
(* A finished holder, the waiter it resumes and that waiter's increment of *)
(* `active` run in one drain of Node's microtask queue: one step here.     *)
(* Aborts arrive as events of their own.                                   *)
(***************************************************************************)
EXTENDS Naturals, Sequences, FiniteSets, SequencesExt

CONSTANTS
  Readers,                           \* media requests in progress at once
  ImageUploads,                      \* upload requests in progress at once
  STORAGE_MAX_CONCURRENT_READS,
  STORAGE_READ_QUEUE_LIMIT,
  STORAGE_MAX_CONCURRENT_PROCESSING,
  STORAGE_PROCESSING_QUEUE_LIMIT,
  MaxStoredBytes                     \* STORAGE_MAX_STORED_IMAGE_BYTES

ASSUME MediaGateAssumption ==
  /\ STORAGE_MAX_CONCURRENT_READS \in Nat \ {0}
  /\ STORAGE_MAX_CONCURRENT_PROCESSING \in Nat \ {0}
  /\ STORAGE_READ_QUEUE_LIMIT \in Nat
  /\ STORAGE_PROCESSING_QUEUE_LIMIT \in Nat
  /\ MaxStoredBytes \in Nat \ {0}

VARIABLES
  reader,        \* where a media request stands, whether the row it found may be
                 \* read at all, and the answer of the previous request
  readActive,    \* StorageReadSemaphore.active
  readWaiting,   \* StorageReadSemaphore.waiting, oldest first
  lingering,     \* provider operations that outlive their answered request
  imaging,       \* where an upload request stands
  procActive,    \* ProcessingSemaphore.active
  procWaiting    \* ProcessingSemaphore.waiting, oldest first

mediaVars == <<reader, readActive, readWaiting, lingering, imaging, procActive, procWaiting>>
readVars == <<reader, readActive, readWaiting, lingering>>
procVars == <<imaging, procActive, procWaiting>>

Sizes == 0 .. MaxStoredBytes + 1

(* A storage_objects row as a reader sees it: the message it is bound to is *)
(* of a conversation, of a dispute, or missing.                             *)
MediaRows ==
  [status : {"uploading", "temporary", "attached"},
   purpose : {"avatar", "catalog_asset", "chat_attachment"},
   driver : {"local", "s3"}, webp : BOOLEAN, sizeBytes : Sizes,
   namedBy : {"none", "group", "item"},  \* the catalog row with its URL or key
   live : BOOLEAN,                       \* that row and its ancestors are active
   binding : {"none", "conversation", "dispute"}, hidden : BOOLEAN, underDispute : BOOLEAN]

Viewers == [role : {"user", "moderator", "admin"}, owner : BOOLEAN, party : BOOLEAN]

IdleReader == [pc |-> "idle", readable |-> TRUE, answer |-> "none"]

MediaInit ==
  /\ reader = [r \in Readers |-> IdleReader]
  /\ readActive = 0
  /\ readWaiting = <<>>
  /\ lingering = {}
  /\ imaging = [u \in ImageUploads |-> "idle"]
  /\ procActive = 0
  /\ procWaiting = <<>>

-----------------------------------------------------------------------------
(* Which rows a route may serve *)

publicCatalogAssetBindingExistsSql(row) == row.namedBy # "none" /\ row.live

getPublicStorageObjectById(row) ==
  /\ row.purpose # "chat_attachment"
  /\ row.status = "attached"
  /\ row.purpose = "catalog_asset" => publicCatalogAssetBindingExistsSql(row)

(* The legacy route looks the same rows up by their key, after its path has *)
(* been checked to name a public purpose.                                   *)
getLegacyPublicStorageObjectByKey(row) == getPublicStorageObjectById(row)

getProtectedStorageObjectById(row) == row.status \in {"temporary", "attached"}

assertConversationAccess(caller) == caller.role = "admin" \/ caller.party

assertDisputeAttachmentAccess(caller) == caller.role \in {"admin", "moderator"} \/ caller.party

(* The message the attachment belongs to decides; a moderator who is not a  *)
(* party sees a conversation's attachment only through its dispute.         *)
BindingAccess(row, caller) ==
  /\ row.binding # "none"
  /\ row.hidden => caller.role = "admin"
  /\ \/ /\ row.binding = "conversation"
        /\ \/ assertConversationAccess(caller)
           \/ caller.role = "moderator" /\ row.underDispute
     \/ row.binding = "dispute" /\ assertDisputeAttachmentAccess(caller)

assertProtectedReadAccess(row, caller) ==
  \/ row.status = "temporary" /\ caller.owner
  \/ /\ row.status # "temporary"
     /\ \/ row.purpose = "catalog_asset" /\ caller.role = "admin" /\ caller.owner
        \/ row.purpose = "chat_attachment" /\ BindingAccess(row, caller)

(* HEAD and GET of /public and of the legacy path; HEAD and GET of /private. *)
PublicRoute(row) == getPublicStorageObjectById(row) \/ getLegacyPublicStorageObjectByKey(row)

PrivateRoute(row) ==
  \E caller \in Viewers : getProtectedStorageObjectById(row) /\ assertProtectedReadAccess(row, caller)

(* The rows that some request may be served. *)
ServedRows == {row \in MediaRows : PublicRoute(row) \/ PrivateRoute(row)}

assertReadableStorageObjectMetadata(row) == row.sizeBytes \in 1 .. MaxStoredBytes /\ row.webp

-----------------------------------------------------------------------------
(* What the provider may return *)

(* The stat of the open handle decides first; one byte past the expected size *)
(* is asked for, so that growth after the stat shows.                         *)
readLocalBodyBounded(expected, statSize, onDisk) ==
  /\ statSize = expected
  /\ (IF onDisk > expected THEN expected + 1 ELSE onDisk) = expected

(* The announced length and type are compared before the body is drained. *)
readS3BodyBounded(expected, stated, typeMatches, streamed) ==
  /\ stated = expected /\ typeMatches
  /\ streamed <= MaxStoredBytes /\ streamed = expected

(* Whether GET may send the body, given what the provider turned out to hold. *)
readStorageObjectBody(row, stated, typeMatches, actual) ==
  /\ assertReadableStorageObjectMetadata(row)
  /\ \/ row.driver = "local" /\ readLocalBodyBounded(row.sizeBytes, stated, actual)
     \/ row.driver = "s3" /\ readS3BodyBounded(row.sizeBytes, stated, typeMatches, actual)

(* The same for HEAD, which reads no body. *)
assertStorageObjectAvailable(row, stated, typeMatches) ==
  /\ assertReadableStorageObjectMetadata(row)
  /\ stated = row.sizeBytes
  /\ row.driver = "s3" => typeMatches

(* Whether a request for a row that is or is not readable can succeed: of a *)
(* row nothing else matters once it has been found.                         *)
Completions ==
  {[readable |-> assertReadableStorageObjectMetadata(row),
    complete |-> IF headOnly THEN assertStorageObjectAvailable(row, stated, typeMatches)
                 ELSE readStorageObjectBody(row, stated, typeMatches, actual)] :
     row \in ServedRows, headOnly \in BOOLEAN, stated \in Sizes, actual \in Sizes,
     typeMatches \in BOOLEAN}

-----------------------------------------------------------------------------
(* Reading *)

(* The request is answered; "200" means that headers and body were sent. *)
Answered(r, answer) == [reader EXCEPT ![r] = [IdleReader EXCEPT !.answer = answer]]

(* A route looks the row up and decides on access; nobody may see a row that   *)
(* does not qualify, whoever asks.  A HEAD checks the row before it asks for a *)
(* slot.                                                                       *)
RequestMedia(r) ==
  /\ reader[r].pc = "idle"
  /\ r \notin lingering
  /\ \/ reader' = Answered(r, "404")
     \/ \E readable \in {c.readable : c \in Completions}, headOnly \in BOOLEAN :
          reader' = IF headOnly /\ ~readable
                    THEN Answered(r, "503")
                    ELSE [reader EXCEPT ![r] = [pc |-> "found", readable |-> readable,
                                                answer |-> "none"]]
  /\ UNCHANGED <<readActive, readWaiting, lingering>>
  /\ UNCHANGED procVars

(* StorageReadSemaphore.run up to its first await. *)
EnterRead(r) ==
  /\ reader[r].pc = "found"
  /\ \/ /\ readActive < STORAGE_MAX_CONCURRENT_READS
        /\ readActive' = readActive + 1
        /\ reader' = [reader EXCEPT ![r].pc = "reading"]
        /\ UNCHANGED readWaiting
     \/ /\ readActive >= STORAGE_MAX_CONCURRENT_READS
        /\ Len(readWaiting) < STORAGE_READ_QUEUE_LIMIT
        /\ readWaiting' = Append(readWaiting, r)
        /\ reader' = [reader EXCEPT ![r].pc = "queued"]
        /\ UNCHANGED readActive
     \/ /\ readActive >= STORAGE_MAX_CONCURRENT_READS
        /\ Len(readWaiting) >= STORAGE_READ_QUEUE_LIMIT
        /\ reader' = Answered(r, "503")
        /\ UNCHANGED <<readActive, readWaiting>>
  /\ UNCHANGED lingering
  /\ UNCHANGED procVars

(* Removal from the queue of a waiter whose signal aborts: indexOf, splice. *)
WithoutWaiter_Kept(queue, r) == queue
WithoutWaiter(queue, r) ==
  LET places == {i \in DOMAIN queue : queue[i] = r}
  IN  IF places = {} THEN queue
      ELSE RemoveAt(queue, CHOOSE i \in places : \A j \in places : i <= j)

(* The finally block: the slot is given up and the oldest waiter takes one. *)
ReleaseRead(r, answer) ==
  IF readWaiting = <<>>
  THEN /\ readActive' = readActive - 1
       /\ reader' = Answered(r, answer)
       /\ UNCHANGED readWaiting
  ELSE /\ reader' = [Answered(r, answer) EXCEPT ![Head(readWaiting)].pc = "reading"]
       /\ readWaiting' = Tail(readWaiting)
       /\ UNCHANGED readActive

(* The provider answers in time: sendStorageObject, sendStorageObjectHead. *)
ProviderAnswers(r) ==
  /\ reader[r].pc = "reading"
  /\ \E c \in Completions :
       /\ c.readable = reader[r].readable
       /\ ReleaseRead(r, IF c.complete THEN "200" ELSE "503")
  /\ UNCHANGED lingering
  /\ UNCHANGED procVars

(* The deadline passes or the client is gone: a waiter is cancelled, a reader  *)
(* is answered at once and its slot given up, while the provider's operation   *)
(* may still be under way; a request that has not asked for a slot is refused. *)
AbortRead(r) ==
  /\ \/ /\ reader[r].pc = "reading"
        /\ ReleaseRead(r, "503")
        /\ lingering' = lingering \union {r}
     \/ /\ reader[r].pc = "queued"
        /\ readWaiting' = WithoutWaiter(readWaiting, r)
        /\ reader' = Answered(r, "503")
        /\ UNCHANGED <<readActive, lingering>>
     \/ /\ reader[r].pc = "found"
        /\ reader' = Answered(r, "503")
        /\ UNCHANGED <<readActive, readWaiting, lingering>>
  /\ UNCHANGED procVars

(* The abandoned operation ends and its result is ignored. *)
LingeringEnds(r) ==
  /\ r \in lingering
  /\ lingering' = lingering \ {r}
  /\ UNCHANGED <<reader, readActive, readWaiting>>
  /\ UNCHANGED procVars

-----------------------------------------------------------------------------
(* Uploads *)

(* What multer makes of the multipart body: one purpose field and one file of *)
(* a supported type within the size limit.                                    *)
ParsedUploads == {"accepted", "payload_too_large", "invalid", "unsupported_type"}

(* The route and createStorageUpload up to the semaphore. *)
ReceiveUpload(u) ==
  /\ imaging[u] = "idle"
  /\ \E parsed \in ParsedUploads, mayUsePurpose \in BOOLEAN, withinQuota \in BOOLEAN :
       \/ /\ parsed = "accepted" /\ mayUsePurpose /\ withinQuota
          /\ imaging' = [imaging EXCEPT ![u] = "received"]
       \/ /\ ~(parsed = "accepted" /\ mayUsePurpose /\ withinQuota)
          /\ imaging' = [imaging EXCEPT ![u] = "refused"]
  /\ UNCHANGED <<procActive, procWaiting>>
  /\ UNCHANGED readVars

(* ProcessingSemaphore.run up to its first await. *)
EnterProcessing(u) ==
  /\ imaging[u] = "received"
  /\ \/ /\ procActive < STORAGE_MAX_CONCURRENT_PROCESSING
        /\ procActive' = procActive + 1
        /\ imaging' = [imaging EXCEPT ![u] = "processing"]
        /\ UNCHANGED procWaiting
     \/ /\ procActive >= STORAGE_MAX_CONCURRENT_PROCESSING
        /\ Len(procWaiting) < STORAGE_PROCESSING_QUEUE_LIMIT
        /\ procWaiting' = Append(procWaiting, u)
        /\ imaging' = [imaging EXCEPT ![u] = "queued"]
        /\ UNCHANGED procActive
     \/ /\ procActive >= STORAGE_MAX_CONCURRENT_PROCESSING
        /\ Len(procWaiting) >= STORAGE_PROCESSING_QUEUE_LIMIT
        /\ imaging' = [imaging EXCEPT ![u] = "refused"]
        /\ UNCHANGED <<procActive, procWaiting>>
  /\ UNCHANGED readVars

(* Facts Sharp establishes about a file: the decoded format is the declared  *)
(* one, it is not animated, its sides and its re-encoded size are in bounds. *)
DecodedImages ==
  [decodes : BOOLEAN, declaredFormat : BOOLEAN, animated : BOOLEAN,
   sidesInBounds : BOOLEAN, storedInBounds : BOOLEAN]

processUploadedImage(image) ==
  /\ image.decodes /\ image.declaredFormat /\ ~image.animated
  /\ image.sidesInBounds /\ image.storedInBounds

ProcessingOutcomes == {processUploadedImage(image) : image \in DecodedImages}

(* Sharp resolves or rejects and the finally block runs.  The accepted image *)
(* goes on to the reservation of its row (module Storage).                   *)
ProcessingEnds(u) ==
  /\ imaging[u] = "processing"
  /\ \E taken \in ProcessingOutcomes :
       LET finished == [imaging EXCEPT ![u] = IF taken THEN "stored" ELSE "refused"]
       IN  IF procWaiting = <<>>
           THEN /\ imaging' = finished
                /\ procActive' = procActive - 1
                /\ UNCHANGED procWaiting
           ELSE /\ imaging' = [finished EXCEPT ![Head(procWaiting)] = "processing"]
                /\ procWaiting' = Tail(procWaiting)
                /\ UNCHANGED procActive
  /\ UNCHANGED readVars

(* toUploadDto: the row is temporary, so the answer carries its private URL. *)
UploadAnswered(u) ==
  /\ imaging[u] \in {"stored", "refused"}
  /\ imaging' = [imaging EXCEPT ![u] = "idle"]
  /\ UNCHANGED <<procActive, procWaiting>>
  /\ UNCHANGED readVars

-----------------------------------------------------------------------------

MediaNext ==
  \/ \E r \in Readers : \/ RequestMedia(r) \/ EnterRead(r) \/ ProviderAnswers(r)
                        \/ AbortRead(r) \/ LingeringEnds(r)
  \/ \E u \in ImageUploads : \/ ReceiveUpload(u) \/ EnterProcessing(u)
                             \/ ProcessingEnds(u) \/ UploadAnswered(u)

MediaSpec == MediaInit /\ [][MediaNext]_mediaVars

MediaTypeOK ==
  /\ \A r \in Readers :
       /\ reader[r].pc \in {"idle", "found", "queued", "reading"}
       /\ reader[r].answer \in {"none", "200", "404", "503"}
  /\ readActive \in Nat /\ procActive \in Nat
  /\ readWaiting \in Seq(Readers) /\ procWaiting \in Seq(ImageUploads)
  /\ lingering \subseteq Readers
  /\ imaging \in [ImageUploads -> {"idle", "received", "queued", "processing", "stored", "refused"}]

(* Neither semaphore loses a slot or a wake-up: the counter is the number of *)
(* requests at work and within the limit, exactly the requests that wait are *)
(* in the queue, each once, and nobody waits while a slot is free, whatever  *)
(* deadlines and closed connections cancel in between.                       *)
SlotsServeTheQueue ==
  LET Reading == {r \in Readers : reader[r].pc = "reading"}
      Queued == {r \in Readers : reader[r].pc = "queued"}
      Processing == {u \in ImageUploads : imaging[u] = "processing"}
      Pending == {u \in ImageUploads : imaging[u] = "queued"}
  IN  /\ readActive = Cardinality(Reading) /\ procActive = Cardinality(Processing)
      /\ readActive <= STORAGE_MAX_CONCURRENT_READS
      /\ procActive <= STORAGE_MAX_CONCURRENT_PROCESSING
      /\ ToSet(readWaiting) = Queued /\ Len(readWaiting) = Cardinality(Queued)
      /\ ToSet(procWaiting) = Pending /\ Len(procWaiting) = Cardinality(Pending)
      /\ Queued # {} => readActive = STORAGE_MAX_CONCURRENT_READS
      /\ Pending # {} => procActive = STORAGE_MAX_CONCURRENT_PROCESSING
=============================================================================
