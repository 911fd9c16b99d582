------------------------------ MODULE Storage -------------------------------
(***************************************************************************)
(* Owned media objects: storage/storage.service.ts, the upload and attach  *)
(* routes, the profile and listing edits that bind and replace media, the  *)
(* outbox handler of storage.delete and the hourly cleanup.                *)
(*                                                                         *)
(* The row and the provider's bytes are written in separate steps by a     *)
(* request that may stall or crash between them, while the cleanup and the *)
(* deletion handlers of other processes work on the same object.           *)
(***************************************************************************)
EXTENDS Naturals, FiniteSets

CONSTANTS
  Objects,              \* object keys that may be generated
  UploadPurposes,       \* the purposes each of them may be uploaded for
  MaxObjectsPerPurpose, \* STORAGE_MAX_OBJECTS_PER_PURPOSE
  DeleteTasks,          \* outbox runners that may handle storage.delete at once
  MaxStorageFaults      \* bound: provider failures, crashes, expired leases

storagePurposes == {"avatar", "product_media", "chat_attachment", "catalog_asset"}

ASSUME StorageAssumption ==
  /\ IsFiniteSet(Objects)
  /\ UploadPurposes \in [Objects -> SUBSET storagePurposes]
  /\ MaxObjectsPerPurpose \in Nat \ {0}
  /\ MaxStorageFaults \in Nat

VARIABLES
  objStatus,    \* storage_objects.status, "none" before the row exists
  objPurpose,   \* storage_objects.purpose
  oldEnough,    \* objects created more than STORAGE_TEMP_TTL_HOURS ago
  bytes,        \* objects whose bytes the provider holds
  bound,        \* objects a foreign key of users, product_media or messages names
  catalogRefs,  \* objects a catalog row names by URL
  uploads,      \* where the upload request of an object stands
  overtaken,    \* objects the cleanup took while their upload was still running
  intents,      \* status of the storage.delete events of an object
  deleters,     \* handlers of storage.delete in progress
  candidates,   \* ids the running cleanup has selected
  storageFaults

storageVars == <<objStatus, objPurpose, oldEnough, bytes, bound, catalogRefs, uploads,
                 overtaken, intents, deleters, candidates, storageFaults>>

(* Rows that count against the quota: reserved or possibly present bytes. *)
Charged == {"uploading", "temporary", "attached", "deleting"}

(* The two event keys of an object, storage.delete:<id> with or without the *)
(* suffix :upload-recovery.                                                 *)
IntentKeys == {"default", "recovery"}

IdleDeleter == [object |-> "none", key |-> "default", pc |-> "idle", holds |-> FALSE]

StorageInit ==
  /\ objStatus = [o \in Objects |-> "none"]
  /\ objPurpose = [o \in Objects |-> "avatar"]
  /\ oldEnough = {}
  /\ bytes = {}
  /\ bound = {}
  /\ catalogRefs = {}
  /\ uploads = [o \in Objects |-> "idle"]
  /\ overtaken = {}
  /\ intents = [o \in Objects |-> [k \in IntentKeys |-> "none"]]
  /\ deleters = [t \in DeleteTasks |-> IdleDeleter]
  /\ candidates = {}
  /\ storageFaults = 0

StorageFault ==
  /\ storageFaults < MaxStorageFaults
  /\ storageFaults' = storageFaults + 1

-----------------------------------------------------------------------------
(* Upload *)

(* Usage and limit are those of one owner; bytes are counted as objects. *)
assertUploadQuota(purpose) ==
  Cardinality({o \in Objects : objPurpose[o] = purpose /\ objStatus[o] \in Charged})
    < MaxObjectsPerPurpose

(* The request passes the route's checks and the unlocked quota check, and  *)
(* the image is decoded and re-encoded.                                     *)
BeginUpload(o, purpose) ==
  /\ uploads[o] = "idle"
  /\ assertUploadQuota(purpose)
  /\ uploads' = [uploads EXCEPT ![o] = "processed"]
  /\ objPurpose' = [objPurpose EXCEPT ![o] = purpose]
  /\ UNCHANGED <<objStatus, oldEnough, bytes, bound, catalogRefs, overtaken, intents,
                 deleters, candidates, storageFaults>>

(* Mutant: the reservation trusts the check made before the image work. *)
ReserveUpload_Unchecked(o) ==
  /\ uploads[o] = "processed"
  /\ objStatus' = [objStatus EXCEPT ![o] = "uploading"]
  /\ uploads' = [uploads EXCEPT ![o] = "writing"]
  /\ UNCHANGED <<objPurpose, oldEnough, bytes, bound, catalogRefs, overtaken, intents,
                 deleters, candidates, storageFaults>>

(* The reservation, under the advisory lock of the owner's quota. *)
ReserveUpload(o) ==
  /\ uploads[o] = "processed"
  /\ IF assertUploadQuota(objPurpose[o])
       THEN /\ objStatus' = [objStatus EXCEPT ![o] = "uploading"]
            /\ uploads' = [uploads EXCEPT ![o] = "writing"]
       ELSE /\ uploads' = [uploads EXCEPT ![o] = "ended"]
            /\ UNCHANGED objStatus
  /\ UNCHANGED <<objPurpose, oldEnough, bytes, bound, catalogRefs, overtaken, intents,
                 deleters, candidates, storageFaults>>

(* The provider accepts the object, or answers with an error after which the *)
(* bytes may be there all the same.                                          *)
writePhysicalObject(o) ==
  /\ uploads[o] = "writing"
  /\ \/ /\ bytes' = bytes \cup {o}
        /\ uploads' = [uploads EXCEPT ![o] = "written"]
        /\ UNCHANGED storageFaults
     \/ /\ StorageFault
        /\ bytes' \in {bytes, bytes \cup {o}}
        /\ uploads' = [uploads EXCEPT ![o] = "failing"]
  /\ UNCHANGED <<objStatus, objPurpose, oldEnough, bound, catalogRefs, overtaken, intents,
                 deleters, candidates>>

(* update ... set status = 'temporary' where status = 'uploading'; the query *)
(* may also fail, before or after it took effect.                            *)
FinalizeUpload(o) ==
  /\ uploads[o] = "written"
  /\ \/ /\ objStatus[o] = "uploading"
        /\ objStatus' = [objStatus EXCEPT ![o] = "temporary"]
        /\ uploads' = [uploads EXCEPT ![o] = "answered"]
        /\ UNCHANGED storageFaults
     \/ /\ objStatus[o] # "uploading"
        /\ uploads' = [uploads EXCEPT ![o] = "failing"]
        /\ UNCHANGED <<objStatus, storageFaults>>
     \/ /\ StorageFault
        /\ objStatus' \in {objStatus,
             [objStatus EXCEPT ![o] = IF @ = "uploading" THEN "temporary" ELSE @]}
        /\ uploads' = [uploads EXCEPT ![o] = "failing"]
  /\ UNCHANGED <<objPurpose, oldEnough, bytes, bound, catalogRefs, overtaken, intents,
                 deleters, candidates>>

(* What enqueueStorageDeletion leaves in the outbox: one failed intent of the *)
(* object is revived; otherwise the event of this key is inserted unless the  *)
(* key exists.                                                                *)
IntentsAfter(o, key) ==
  LET failed == {k \in IntentKeys : intents[o][k] = "failed"}
  IN  IF failed # {}
        THEN {[intents[o] EXCEPT ![k] = "pending"] : k \in failed}
        ELSE {[intents[o] EXCEPT ![key] = IF @ = "none" THEN "pending" ELSE @]}

enqueueStorageDeletion(o, key, reopenDeleted) ==
  IF objStatus[o] # "deleted" \/ reopenDeleted
    THEN /\ objStatus' = [objStatus EXCEPT ![o] = "deleting"]
         /\ \E after \in IntentsAfter(o, key) : intents' = [intents EXCEPT ![o] = after]
    ELSE UNCHANGED <<objStatus, intents>>

(* The upload's error path: a durable intent to delete, or a logged error when *)
(* that transaction fails too.                                                 *)
RecoverUpload(o) ==
  /\ uploads[o] = "failing"
  /\ uploads' = [uploads EXCEPT ![o] = "ended"]
  /\ \/ enqueueStorageDeletion(o, "recovery", TRUE) /\ UNCHANGED storageFaults
     \/ StorageFault /\ UNCHANGED <<objStatus, intents>>
  /\ UNCHANGED <<objPurpose, oldEnough, bytes, bound, catalogRefs, overtaken, deleters,
                 candidates>>

(* The process dies; a write in flight may have reached the provider. *)
UploadCrashes(o) ==
  /\ uploads[o] \in {"writing", "written", "failing"}
  /\ StorageFault
  /\ uploads' = [uploads EXCEPT ![o] = "ended"]
  /\ bytes' \in IF uploads[o] = "writing" THEN {bytes, bytes \cup {o}} ELSE {bytes}
  /\ UNCHANGED <<objStatus, objPurpose, oldEnough, bound, catalogRefs, overtaken, intents,
                 deleters, candidates>>

-----------------------------------------------------------------------------
(* Attachment.  Each of these is one transaction that locks the object row. *)

(* The guard of attachStorageObject: the row is locked and still temporary. *)
(* Only the answer of the upload tells a client the id.                     *)
Attachable(o, purpose) ==
  uploads[o] = "answered" /\ objStatus[o] = "temporary" /\ objPurpose[o] = purpose

(* A message of a conversation or a dispute names the object for good. *)
AttachToMessage(o) ==
  /\ Attachable(o, "chat_attachment")
  /\ objStatus' = [objStatus EXCEPT ![o] = "attached"]
  /\ bound' = bound \cup {o}
  /\ UNCHANGED <<objPurpose, oldEnough, bytes, catalogRefs, uploads, overtaken, intents,
                 deleters, candidates, storageFaults>>

(* PATCH /me and replaceProductMedia: attach the new media, drop the reference *)
(* to the old, mark the old for deletion; without new media the slot is        *)
(* cleared.                                                                    *)
ReplaceMedia(purpose, new) ==
  LET old == {o \in bound : objPurpose[o] = purpose}
  IN  /\ \A o \in new : Attachable(o, purpose)
      /\ new \cup old # {}
      /\ bound' = (bound \ old) \cup new
      /\ objStatus' = [o \in Objects |-> IF o \in new THEN "attached"
                                         ELSE IF o \in old THEN "deleting"
                                         ELSE objStatus[o]]
      /\ \E after \in [old -> [IntentKeys -> {"none", "pending", "processing",
                                              "processed", "failed"}]] :
           /\ \A o \in old : after[o] \in IntentsAfter(o, "default")
           /\ intents' = [o \in Objects |-> IF o \in old THEN after[o] ELSE intents[o]]
      /\ UNCHANGED <<objPurpose, oldEnough, bytes, catalogRefs, uploads, overtaken, deleters,
                     candidates, storageFaults>>

(* POST /catalog-assets/:uploadId/attach: attached before any catalog row   *)
(* names it.                                                                *)
AttachCatalogAsset(o) ==
  /\ Attachable(o, "catalog_asset")
  /\ objStatus' = [objStatus EXCEPT ![o] = "attached"]
  /\ UNCHANGED <<objPurpose, oldEnough, bytes, bound, catalogRefs, uploads, overtaken,
                 intents, deleters, candidates, storageFaults>>

(* The admin saves or clears the URL in a catalog form; nothing checks the   *)
(* object, the column holds a text.  Saving it after the cleanup has decided *)
(* no longer changes the fate of the object.                                 *)
SaveCatalogUrl(o) ==
  /\ objPurpose[o] = "catalog_asset"
  /\ objStatus[o] = "attached"
  /\ catalogRefs' \in {catalogRefs \cup {o}, catalogRefs \ {o}}
  /\ UNCHANGED <<objStatus, objPurpose, oldEnough, bytes, bound, uploads, overtaken, intents,
                 deleters, candidates, storageFaults>>

-----------------------------------------------------------------------------
(* Cleanup *)

(* Time passes; the age is looked at in these statuses only. *)
CreatedLongAgo(o) ==
  /\ objStatus[o] \in {"uploading", "temporary", "attached"}
  /\ o \notin oldEnough
  /\ oldEnough' = oldEnough \cup {o}
  /\ UNCHANGED <<objStatus, objPurpose, bytes, bound, catalogRefs, uploads, overtaken,
                 intents, deleters, candidates, storageFaults>>

HasLiveIntent(o) == \E k \in IntentKeys : intents[o][k] \in {"pending", "processing"}

(* Mutant: the query forgets rows whose deletion event has ended. *)
Eligible_NoDeletingLane(o) ==
  \/ objStatus[o] \in {"uploading", "temporary"} /\ o \in oldEnough
  \/ /\ objStatus[o] = "attached"
     /\ objPurpose[o] = "catalog_asset"
     /\ o \in oldEnough
     /\ o \notin catalogRefs

(* The condition of the cleanup's query, used again under the row lock. *)
Eligible(o) ==
  \/ objStatus[o] \in {"uploading", "temporary"} /\ o \in oldEnough
  \/ objStatus[o] = "deleting" /\ ~HasLiveIntent(o)
  \/ /\ objStatus[o] = "attached"
     /\ objPurpose[o] = "catalog_asset"
     /\ o \in oldEnough
     /\ o \notin catalogRefs

ListCandidates ==
  /\ candidates = {}
  /\ \E o \in Objects : Eligible(o)
  /\ candidates' = {o \in Objects : Eligible(o)}
  /\ UNCHANGED <<objStatus, objPurpose, oldEnough, bytes, bound, catalogRefs, uploads,
                 overtaken, intents, deleters, storageFaults>>

(* Mutant: the list is trusted and the row is not examined again. *)
CleanCandidate_NoRecheck(o) ==
  /\ o \in candidates
  /\ candidates' = candidates \ {o}
  /\ enqueueStorageDeletion(o, "default", FALSE)
  /\ overtaken' = IF uploads[o] \in {"writing", "written", "failing"}
                    THEN overtaken \cup {o} ELSE overtaken
  /\ UNCHANGED <<objPurpose, oldEnough, bytes, bound, catalogRefs, uploads, deleters,
                 storageFaults>>

(* One candidate: select ... for update with the condition once more. *)
CleanCandidate(o) ==
  /\ o \in candidates
  /\ candidates' = candidates \ {o}
  /\ IF Eligible(o)
       THEN /\ enqueueStorageDeletion(o, "default", FALSE)
            /\ overtaken' = IF uploads[o] \in {"writing", "written", "failing"}
                              THEN overtaken \cup {o} ELSE overtaken
       ELSE UNCHANGED <<objStatus, intents, overtaken>>
  /\ UNCHANGED <<objPurpose, oldEnough, bytes, bound, catalogRefs, uploads, deleters,
                 storageFaults>>

-----------------------------------------------------------------------------
(* deleteStorageObject, called by the outbox handler of storage.delete.  The *)
(* lease of the event may expire under the handler (module Outbox): another  *)
(* runner then starts while the first goes on.                               *)

HandlerStarts(t, o, k) ==
  /\ deleters[t].pc = "idle"
  /\ intents[o][k] = "pending"
  /\ intents' = [intents EXCEPT ![o][k] = "processing"]
  /\ deleters' = [deleters EXCEPT ![t] =
       [object |-> o, key |-> k, holds |-> TRUE,
        pc |-> IF objStatus[o] \in {"none", "deleted"} THEN "return" ELSE "unlink"]]
  /\ UNCHANGED <<objStatus, objPurpose, oldEnough, bytes, bound, catalogRefs, uploads,
                 overtaken, candidates, storageFaults>>

deletePhysicalObject(t) ==
  /\ deleters[t].pc = "unlink"
  /\ bytes' = bytes \ {deleters[t].object}
  /\ deleters' = [deleters EXCEPT ![t].pc = "mark"]
  /\ UNCHANGED <<objStatus, objPurpose, oldEnough, bound, catalogRefs, uploads, overtaken,
                 intents, candidates, storageFaults>>

MarkDeleted(t) ==
  /\ deleters[t].pc = "mark"
  /\ objStatus' = [objStatus EXCEPT ![deleters[t].object] = "deleted"]
  /\ deleters' = [deleters EXCEPT ![t].pc = "return"]
  /\ UNCHANGED <<objPurpose, oldEnough, bytes, bound, catalogRefs, uploads, overtaken,
                 intents, candidates, storageFaults>>

(* The worker marks the event processed, if it still holds it. *)
HandlerReturns(t) ==
  /\ deleters[t].pc = "return"
  /\ intents' = IF deleters[t].holds
                  THEN [intents EXCEPT ![deleters[t].object][deleters[t].key] = "processed"]
                  ELSE intents
  /\ deleters' = [deleters EXCEPT ![t] = IdleDeleter]
  /\ UNCHANGED <<objStatus, objPurpose, oldEnough, bytes, bound, catalogRefs, uploads,
                 overtaken, candidates, storageFaults>>

(* The provider or a query throws, or the process dies: the event is retried *)
(* or, at its last attempt, failed.                                          *)
HandlerThrows(t) ==
  /\ deleters[t].pc \in {"unlink", "mark"}
  /\ StorageFault
  /\ intents' \in IF deleters[t].holds
       THEN {[intents EXCEPT ![deleters[t].object][deleters[t].key] = s] :
               s \in {"pending", "failed"}}
       ELSE {intents}
  /\ deleters' = [deleters EXCEPT ![t] = IdleDeleter]
  /\ UNCHANGED <<objStatus, objPurpose, oldEnough, bytes, bound, catalogRefs, uploads,
                 overtaken, candidates>>

LeaseLost(t) ==
  /\ deleters[t].pc # "idle" /\ deleters[t].holds
  /\ StorageFault
  /\ intents' = [intents EXCEPT ![deleters[t].object][deleters[t].key] = "pending"]
  /\ deleters' = [deleters EXCEPT ![t].holds = FALSE]
  /\ UNCHANGED <<objStatus, objPurpose, oldEnough, bytes, bound, catalogRefs, uploads,
                 overtaken, candidates>>

-----------------------------------------------------------------------------
DeleterStep(t) ==
  deletePhysicalObject(t) \/ MarkDeleted(t) \/ HandlerReturns(t)

UploadStep(o) ==
  ReserveUpload(o) \/ writePhysicalObject(o) \/ FinalizeUpload(o) \/ RecoverUpload(o)

StorageNext ==
  \/ \E o \in Objects :
       \/ \E p \in UploadPurposes[o] : BeginUpload(o, p)
       \/ UploadStep(o) \/ UploadCrashes(o)
       \/ AttachToMessage(o) \/ AttachCatalogAsset(o) \/ SaveCatalogUrl(o)
       \/ CreatedLongAgo(o) \/ CleanCandidate(o)
  \/ \E p \in {"avatar", "product_media"}, new \in SUBSET Objects : ReplaceMedia(p, new)
  \/ ListCandidates
  \/ \E t \in DeleteTasks :
       \/ DeleterStep(t) \/ HandlerThrows(t) \/ LeaseLost(t)
       \/ \E o \in Objects, k \in IntentKeys : HandlerStarts(t, o, k)

CleanupStep == ListCandidates \/ \E o \in Objects : CleanCandidate(o)

HandlerStep ==
  \E t \in DeleteTasks :
    DeleterStep(t) \/ \E o \in Objects, k \in IntentKeys : HandlerStarts(t, o, k)

(* The hourly cleanup and the outbox poller keep running, and an upload that *)
(* was started goes on.                                                      *)
StorageFairness ==
  /\ WF_storageVars(CleanupStep)
  /\ WF_storageVars(HandlerStep)
  /\ WF_storageVars(\E o \in Objects : UploadStep(o))

StorageSpec == StorageInit /\ [][StorageNext]_storageVars /\ StorageFairness

-----------------------------------------------------------------------------
(* Statuses, purposes and program counters are among those the code uses. *)
StorageTypeOK ==
  /\ objStatus \in [Objects -> Charged \cup {"none", "deleted"}]
  /\ objPurpose \in [Objects -> storagePurposes]
  /\ oldEnough \subseteq Objects /\ bytes \subseteq Objects /\ bound \subseteq Objects
  /\ catalogRefs \subseteq Objects /\ overtaken \subseteq Objects
  /\ candidates \subseteq Objects
  /\ uploads \in [Objects -> {"idle", "processed", "writing", "written", "failing",
                           "answered", "ended"}]
  /\ intents \in [Objects -> [IntentKeys ->
                    {"none", "pending", "processing", "processed", "failed"}]]
  /\ deleters \in [DeleteTasks ->
       [object : Objects \cup {"none"}, key : IntentKeys,
        pc : {"idle", "unlink", "mark", "return"}, holds : BOOLEAN]]
  /\ storageFaults \in 0..MaxStorageFaults

(* Media that a profile, a listing or a message names by foreign key is       *)
(* attached and its bytes exist, although the cleanup lists objects before it *)
(* locks them, and deletion handlers of the same object may be late.          *)
BoundIsKept == \A o \in bound : objStatus[o] = "attached" /\ o \in bytes

(* Bytes the provider holds are charged to their owner until they are gone,    *)
(* whatever crashes (the comment above assertUploadQuota), and the rows of one *)
(* purpose never exceed the limit, although the check before the image work    *)
(* is stale when the row is inserted.  An upload that is still running when    *)
(* the cleanup has taken its row away is excepted from both: a handler that    *)
(* unlinked before the late write and marks the row after it leaves bytes that *)
(* no row accounts for, and reopening a deleted row skips the limit.           *)
QuotaAccountsBytes ==
  /\ \A o \in bytes \ overtaken : objStatus[o] \in Charged
  /\ \A p \in storagePurposes :
       Cardinality({o \in Objects \ overtaken :
                      objPurpose[o] = p /\ objStatus[o] \in Charged}) <= MaxObjectsPerPurpose

(* Objects marked for deletion do not stay marked: in the end each of them is *)
(* deleted, although its event may fail for good and its key may already be   *)
(* used up.                                                                   *)
DeletionCompletes ==
  (\E o \in Objects : objStatus[o] = "deleting") ~> \A o \in Objects : objStatus[o] # "deleting"
=============================================================================
