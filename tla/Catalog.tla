------------------------------ MODULE Catalog -------------------------------
(***************************************************************************)
(* The catalog builder and the listings that live in it: modules/catalog   *)
(* (groups, items, sections, versioned section schemas), the seller's      *)
(* listing routes of modules/marketplace and listing moderation.           *)
(*                                                                         *)
(* One group, one item in it and one section in the item.  An admin        *)
(* handler is a series of pool queries, each its own transaction: what one *)
(* query read may be stale when the next one writes.  A seller's route is  *)
(* one transaction that locks the chain it reads, hence one step.          *)
(***************************************************************************)
EXTENDS Naturals, FiniteSets

CONSTANTS
  CatalogAdmins,   \* concurrent calls of the admin routes
  Lots,            \* listings that may be created
  MaxVersions,     \* bound: schema versions of the section
  MaxEdits,        \* bound: edits of one schema version
  MaxAdminCalls    \* bound: admin calls of more than one query

ASSUME CatalogAssumption == MaxVersions \in Nat \ {0} /\ MaxEdits \in Nat /\ MaxAdminCalls \in Nat

VARIABLES
  levelStatus,     \* status of group, item and section; "absent": no row
  currentVersion,  \* game_sections.current_schema_version, 0 for null
  schema,          \* catalog_section_schemas by version: status and edition
  lot,             \* products: status, place, schema_version and the edition it was checked against
  call,            \* the admin handler in progress
  calls            \* admin calls of more than one query so far

catalogVars == <<levelStatus, currentVersion, schema, lot, call, calls>>

Levels == {"group", "item", "section"}
(* "hidden" stands for hidden, archived and deleted, which no condition below *)
(* tells apart, and "paused" of a listing for paused and blocked.             *)
STATUS_VALUES == {"draft", "active", "hidden"}
Versions == 1 .. MaxVersions
SchemaStatus == {"absent", "draft", "active", "archived"}
ProductStatus == {"active", "paused", "deleted"}
Places == {"none", "item", "section"}

NoCall == [op |-> "idle", level |-> "group", ver |-> 0, previous |-> 0, draft |-> FALSE,
           empty |-> FALSE, products |-> FALSE]
NoLot == [status |-> "none", place |-> "none", ver |-> 0, edition |-> 0]
NoVersion == [status |-> "absent", edition |-> 0]

(* An admin may have prepared the section and drafts of its schema. *)
CatalogInit ==
  /\ \E drafts \in {0, MaxVersions} :
       /\ levelStatus = [lv \in Levels |-> IF lv # "section" THEN "active"
                                           ELSE IF drafts = 0 THEN "absent" ELSE "draft"]
       /\ schema = [v \in Versions |->
                      [NoVersion EXCEPT !.status = IF v <= drafts THEN "draft" ELSE @]]
  /\ currentVersion = 0
  /\ lot = [l \in Lots |-> NoLot]
  /\ call = [a \in CatalogAdmins |-> NoCall]
  /\ calls = 0

Rows(place) == {l \in Lots : lot[l].status # "none" /\ lot[l].place \in place}

ActiveVersions == {v \in Versions : schema[v].status = "active"}

(* The first query of a handler has been answered. *)
Begins(a, c) ==
  /\ call[a].op = "idle" /\ calls < MaxAdminCalls
  /\ call' = [call EXCEPT ![a] = c]
  /\ calls' = calls + 1

Returns(a) == call' = [call EXCEPT ![a] = NoCall] /\ UNCHANGED calls

-----------------------------------------------------------------------------
(* Groups, items and sections *)

createCatalogGroup(a, st) ==
  /\ call[a].op = "idle" /\ levelStatus["group"] = "absent"
  /\ levelStatus' = [levelStatus EXCEPT !["group"] = st]
  /\ UNCHANGED <<currentVersion, schema, lot, call, calls>>

createCatalogItem(a, st) ==
  /\ call[a].op = "idle" /\ levelStatus["item"] = "absent" /\ levelStatus["group"] # "absent"
  /\ levelStatus' = [levelStatus EXCEPT !["item"] = st]
  /\ UNCHANGED <<currentVersion, schema, lot, call, calls>>

createCatalogSection(a, st) ==
  /\ call[a].op = "idle" /\ levelStatus["section"] = "absent" /\ levelStatus["item"] # "absent"
  /\ levelStatus' = [levelStatus EXCEPT !["section"] = st]
  /\ UNCHANGED <<currentVersion, schema, lot, call, calls>>

(* PATCH with a status: any of STATUS_VALUES, from any status. *)
UpdateStatus(a, lv, st) ==
  /\ call[a].op = "idle" /\ levelStatus[lv] # "absent"
  /\ levelStatus' = [levelStatus EXCEPT ![lv] = st]
  /\ UNCHANGED <<currentVersion, schema, lot, call, calls>>

updateCatalogGroup(a, st) == UpdateStatus(a, "group", st)
updateCatalogItem(a, st) == UpdateStatus(a, "item", st)
updateCatalogSection(a, st) == UpdateStatus(a, "section", st)

(* POST /sections/:id/archive and /hide. *)
setCatalogSectionStatus(a, st) == UpdateStatus(a, "section", st)

(* POST /sections/:id/publish and /unhide read the row, then write. *)
publishCatalogSection(a) ==
  /\ levelStatus["section"] # "absent" /\ currentVersion # 0
  /\ Begins(a, [NoCall EXCEPT !.op = "publishSection"])
  /\ UNCHANGED <<levelStatus, currentVersion, schema, lot>>

WritePublished(a) ==
  /\ call[a].op = "publishSection"
  /\ levelStatus' = [levelStatus EXCEPT !["section"] = IF @ = "absent" THEN @ ELSE "active"]
  /\ Returns(a)
  /\ UNCHANGED <<currentVersion, schema, lot>>

(* The three delete handlers read the row, count what hangs below it, and then *)
(* delete a childless draft, refuse, or mark the row deleted.                  *)
ReadDoomed(a, lv) ==
  /\ levelStatus[lv] # "absent"
  /\ Begins(a, [NoCall EXCEPT !.op = "delete", !.level = lv, !.draft = levelStatus[lv] = "draft"])
  /\ UNCHANGED <<levelStatus, currentVersion, schema, lot>>

Products(lv) ==
  CASE lv = "group"   -> {}
    [] lv = "item"    -> Rows({"item", "section"})
    [] lv = "section" -> Rows({"section"})

HasChildren(lv) ==
  CASE lv = "group"   -> levelStatus["item"] # "absent"
    [] lv = "item"    -> levelStatus["section"] # "absent"
    [] lv = "section" -> \E v \in Versions : schema[v].status # "absent"

CountChildren(a) ==
  /\ call[a].op = "delete"
  /\ LET lv == call[a].level
     IN  call' = [call EXCEPT ![a].op = "counted",
                              ![a].products = Products(lv) # {},
                              ![a].empty = ~HasChildren(lv) /\ Products(lv) = {}]
  /\ UNCHANGED <<levelStatus, currentVersion, schema, lot, calls>>

(* delete from ...: a referencing row that does not cascade fails the       *)
(* statement; sections go with their item and schemas with their section.   *)
HardDelete(lv) ==
  IF Products(lv) # {} \/ (lv = "group" /\ HasChildren(lv))
    THEN UNCHANGED <<levelStatus, currentVersion, schema>>
    ELSE /\ levelStatus' = [levelStatus EXCEPT ![lv] = "absent",
                                     !["section"] = IF lv = "item" THEN "absent" ELSE @]
         /\ IF lv = "group" THEN UNCHANGED <<currentVersion, schema>>
            ELSE currentVersion' = 0 /\ schema' = [v \in Versions |-> NoVersion]

WriteDeleted(a) ==
  /\ call[a].op = "counted"
  /\ \/ /\ call[a].draft /\ call[a].empty
        /\ HardDelete(call[a].level)
     \/ /\ ~(call[a].draft /\ call[a].empty)
        /\ levelStatus' = [levelStatus EXCEPT ![call[a].level] =
                        IF @ = "absent" \/ call[a].products THEN @ ELSE "hidden"]
        /\ UNCHANGED <<currentVersion, schema>>
  /\ Returns(a)
  /\ UNCHANGED lot

-----------------------------------------------------------------------------
(* Schema versions *)

(* The next number is read, then inserted; (section_id, version) is unique. *)
createSchemaVersion(a) ==
  /\ levelStatus["section"] # "absent"
  /\ \E v \in Versions :
       /\ v = Cardinality({w \in Versions : schema[w].status # "absent"}) + 1
       /\ Begins(a, [NoCall EXCEPT !.op = "newVersion", !.ver = v])
  /\ UNCHANGED <<levelStatus, currentVersion, schema, lot>>

InsertVersion(a) ==
  /\ call[a].op = "newVersion"
  /\ LET v == call[a].ver
     IN  schema' = IF schema[v].status = "absent" /\ levelStatus["section"] # "absent"
                     THEN [schema EXCEPT ![v].status = "draft"] ELSE schema
  /\ Returns(a)
  /\ UNCHANGED <<levelStatus, currentVersion, lot>>

(* Only a draft is edited, by the status the first query saw. *)
updateSchemaVersion(a, v) ==
  /\ schema[v].status = "draft" /\ schema[v].edition < MaxEdits
  /\ Begins(a, [NoCall EXCEPT !.op = "editVersion", !.ver = v])
  /\ UNCHANGED <<levelStatus, currentVersion, schema, lot>>

WriteEdition(a) ==
  /\ call[a].op = "editVersion"
  /\ LET v == call[a].ver
     IN  schema' = IF schema[v].status # "absent" /\ schema[v].edition < MaxEdits
                     THEN [schema EXCEPT ![v].edition = @ + 1] ELSE schema
  /\ Returns(a)
  /\ UNCHANGED <<levelStatus, currentVersion, lot>>

(* getSchemaRow: an active version is returned as it is. *)
publishSchemaVersion(a, v) ==
  /\ schema[v].status \in {"draft", "archived"}
  /\ Begins(a, [NoCall EXCEPT !.op = "publishVersion", !.ver = v])
  /\ UNCHANGED <<levelStatus, currentVersion, schema, lot>>

(* The transaction selects the active version without locking it ... *)
ReadPreviousActive(a) ==
  /\ call[a].op = "publishVersion"
  /\ \E p \in IF ActiveVersions = {} THEN {0} ELSE ActiveVersions :
       call' = [call EXCEPT ![a].op = "publishing", ![a].previous = p]
  /\ UNCHANGED <<levelStatus, currentVersion, schema, lot, calls>>

(* The statuses after archiving the version that was read and activating v. *)
Republished(v, previous) ==
  [w \in Versions |->
     [schema[w] EXCEPT !.status = IF w = v THEN "active"
                                  ELSE IF w = previous /\ @ # "absent" THEN "archived" ELSE @]]

(* Mutant: without the unique index the second of two publishes succeeds too. *)
OneActive_Any(table) == TRUE

(* uq_catalog_section_schemas_one_active *)
OneActive(table) == Cardinality({w \in Versions : table[w].status = "active"}) <= 1

(* ... and archives it, activates the new one and repoints the section.  The   *)
(* row locks order two such transactions; the second one acts on what it read. *)
WritePublication(a) ==
  /\ call[a].op = "publishing"
  /\ LET v     == call[a].ver
         table == Republished(v, call[a].previous)
     IN  IF schema[v].status = "absent" \/ ~OneActive(table)
           THEN UNCHANGED <<currentVersion, schema>>
           ELSE schema' = table /\ currentVersion' = v
  /\ Returns(a)
  /\ UNCHANGED <<levelStatus, lot>>

-----------------------------------------------------------------------------
(* Listings *)

(* resolveActiveSectionChain, with the rows of the chain locked for share. *)
resolveActiveSectionChain ==
  /\ \A lv \in Levels : levelStatus[lv] = "active"
  /\ currentVersion # 0 /\ schema[currentVersion].status = "active"

(* validateLotMetadata stamps the version the metadata was checked against. *)
validateLotMetadata(place) ==
  [ver |-> IF place = "section" THEN currentVersion ELSE 0,
   edition |-> IF place = "section" THEN schema[currentVersion].edition ELSE 0]

(* resolveCategorization: a section brings its whole chain, an item only has to exist. *)
resolveCategorization(place) ==
  /\ place = "section" => resolveActiveSectionChain
  /\ place = "item" => levelStatus["item"] # "absent"

CreateLot(l, place) ==
  /\ lot[l].status = "none"
  /\ resolveCategorization(place)
  /\ LET stamp == validateLotMetadata(place)
     IN  lot' = [lot EXCEPT ![l] = [status |-> "active", place |-> place, ver |-> stamp.ver,
                                    edition |-> stamp.edition]]
  /\ UNCHANGED <<levelStatus, currentVersion, schema, call, calls>>

(* PATCH /products/:id.  to: the place asked for, "keep" when sectionId and  *)
(* gameId are left out; metadata: new metadata is sent; st: the status sent. *)
PatchLot(l, to, metadata, st) ==
  LET was     == lot[l].place
      place   == IF to = "keep" THEN was ELSE to
      moved   == (place = "section") # (was = "section")
      chained == \/ to = "section"
                 \/ was = "section" /\ ~moved /\ (metadata \/ st = "active")
      validated == metadata \/ st = "active"
      stamp   == IF validated THEN validateLotMetadata(place)
                 ELSE [ver |-> lot[l].ver, edition |-> lot[l].edition]
  IN  /\ lot[l].status \notin {"none", "deleted"}
      /\ moved => metadata
      /\ place = "item" => levelStatus["item"] # "absent"
      /\ chained => resolveActiveSectionChain
      /\ st = "active" /\ place = "section" /\ ~metadata => lot[l].ver = currentVersion
      /\ lot' = [lot EXCEPT ![l] = [status |-> IF st = "keep" THEN @.status ELSE st,
                                    place |-> place, ver |-> stamp.ver,
                                    edition |-> stamp.edition]]
      /\ UNCHANGED <<levelStatus, currentVersion, schema, call, calls>>

DeleteLot(l) ==
  /\ lot[l].status \notin {"none", "deleted"}
  /\ lot' = [lot EXCEPT ![l].status = "deleted"]
  /\ UNCHANGED <<levelStatus, currentVersion, schema, call, calls>>

(* PATCH /admin/listings/:id asks nothing of the catalog. *)
ModerateLot(l, st) ==
  /\ lot[l].status # "none"
  /\ lot' = [lot EXCEPT ![l].status = st]
  /\ UNCHANGED <<levelStatus, currentVersion, schema, call, calls>>

-----------------------------------------------------------------------------
(* The routers: which calls each group of routes makes. *)
GroupRoutes(a) ==
  \/ \E st \in STATUS_VALUES : createCatalogGroup(a, st) \/ updateCatalogGroup(a, st)
  \/ ReadDoomed(a, "group")

ItemRoutes(a) ==
  \/ \E st \in STATUS_VALUES : createCatalogItem(a, st) \/ updateCatalogItem(a, st)
  \/ ReadDoomed(a, "item")

SectionRoutes(a) ==
  \/ \E st \in STATUS_VALUES : createCatalogSection(a, st) \/ updateCatalogSection(a, st)
  \/ ReadDoomed(a, "section")

SchemaRoutes(a) ==
  \/ createSchemaVersion(a)
  \/ \E v \in Versions : updateSchemaVersion(a, v) \/ publishSchemaVersion(a, v)

SectionLifecycleRoutes(a) ==
  \/ publishCatalogSection(a)
  \/ setCatalogSectionStatus(a, "hidden")

ContinueCall(a) ==
  \/ WritePublished(a)
  \/ CountChildren(a) \/ WriteDeleted(a)
  \/ InsertVersion(a) \/ WriteEdition(a)
  \/ ReadPreviousActive(a) \/ WritePublication(a)

SellerRoutes(l) ==
  \/ \E place \in Places : CreateLot(l, place)
  \/ \E to \in Places \cup {"keep"}, metadata \in BOOLEAN, st \in {"keep", "active", "paused"} :
       PatchLot(l, to, metadata, st)
  \/ DeleteLot(l)

CatalogNext ==
  \/ \E a \in CatalogAdmins :
       \/ GroupRoutes(a) \/ ItemRoutes(a) \/ SectionRoutes(a)
       \/ SchemaRoutes(a) \/ SectionLifecycleRoutes(a)
       \/ ContinueCall(a)
  \/ \E l \in Lots :
       \/ SellerRoutes(l)
       \/ \E st \in ProductStatus : ModerateLot(l, st)

CatalogSpec == CatalogInit /\ [][CatalogNext]_catalogVars

-----------------------------------------------------------------------------
CatalogTypeOK ==
  /\ levelStatus \in [Levels -> STATUS_VALUES \cup {"absent"}]
  /\ currentVersion \in 0 .. MaxVersions
  /\ schema \in [Versions -> [status : SchemaStatus, edition : 0 .. MaxEdits]]
  /\ lot \in [Lots -> [status : ProductStatus \cup {"none"}, place : Places,
                       ver : 0 .. MaxVersions, edition : 0 .. MaxEdits]]

(* The section points at its one active schema, whatever two admins publish at *)
(* the same time, and a listing is pinned to a version that has been published *)
(* and is still there: publishSchemaVersion, the delete handlers and the       *)
(* listing routes against each other.                                          *)
SectionPointsAtItsSchema ==
  /\ ActiveVersions = IF currentVersion = 0 THEN {} ELSE {currentVersion}
  /\ \A l \in Lots : lot[l].place = "section" =>
       lot[l].ver # 0 /\ schema[lot[l].ver].status \in {"active", "archived"}

(* What catalog-schemas.service.ts says of the stamped version: a later schema *)
(* edit never changes how an already created listing displays.                 *)
LotsKeepTheirSchema ==
  \A l \in Lots : lot[l].ver # 0 => schema[lot[l].ver].edition = lot[l].edition
=============================================================================
