----------------------------- MODULE PublicCache ----------------------------
(***************************************************************************)
(* Public browsing and its Redis cache: marketplace-cache.service, the     *)
(* browse routes that fill and serve it, and the handlers that invalidate  *)
(* it after their transaction has committed.                               *)
(*                                                                         *)
(* One listing with one picture, in one catalog item, of one seller.  What *)
(* the public may see follows from four facts of the database; the rest of *)
(* the content (price, title) is an edition number.  Every entry carries   *)
(* the generation its reader saw, and an invalidation advances the         *)
(* generation before it deletes.  Keys do not interact, so each behaviour  *)
(* follows one of them, chosen at the start.                               *)
(***************************************************************************)
EXTENDS Integers, FiniteSets

CONSTANTS
  Visitors,        \* concurrent requests of the browse routes
  Editors,         \* concurrent requests that change public content
  MaxCommits,      \* bound: committed changes
  MaxCacheFaults   \* bound: failed Redis commands, crashes and Redis restarts

ASSUME CacheAssumption == MaxCommits \in Nat /\ MaxCacheFaults \in Nat

VARIABLES
  on,          \* the facts that hold: see Facts
  edition,     \* edition of the content
  generation,  \* marketplace:cache:generation
  cacheKey,         \* the cache key this behaviour follows
  cacheEntry,       \* the payload cached under it
  visit,       \* the browse request in progress
  edit,        \* the changing request in progress
  event,       \* product.blocked / user.banned in the outbox, and its handler
  restarted,   \* ghost: Redis has lost its data
  floor,       \* ghost: edition at the last advance of the generation
  cacheFaults

cacheVars == <<on, edition, generation, cacheKey, cacheEntry, visit, edit, event, restarted, floor, cacheFaults>>

Keys == {"product", "products", "marketplace:games", "categories"}
(* The listing is active, its seller not banned, its picture approved, its item active. *)
Facts == {"listed", "seller", "approved", "item"}
Items == {"product", "media", "game"}
NoEntry == [gen |-> 0, items |-> {}, edition |-> 0, there |-> FALSE]
Unreachable == -1   \* no generation: the snapshot of a reader Redis did not answer
Idle == [pc |-> "idle", preview |-> FALSE, snapshot |-> 0,
         items |-> {}, edition |-> 0, during |-> {}, floor |-> 0]

-----------------------------------------------------------------------------
(* What the public may see *)

(* The listing's item and group are active. *)
publicProductEligibilitySql == "item" \in on

ProductIsPublic == {"listed", "seller"} \subseteq on /\ publicProductEligibilitySql

PublicItems ==
  (IF ProductIsPublic THEN {"product"} \cup (IF "approved" \in on THEN {"media"} ELSE {}) ELSE {})
    \cup (IF "item" \in on THEN {"game"} ELSE {})

(* Mutant: a hit is served without asking the database. *)
cachedContentIsPublic_Trusting(items) == TRUE

(* Every listing, picture or game of the cached payload is asked for; a payload *)
(* of categories names none.                                                    *)
cachedContentIsPublic(items) == items \subseteq PublicItems

CacheInit ==
  /\ on = Facts
  /\ edition = 0
  /\ generation = 0
  /\ cacheKey \in Keys
  /\ cacheEntry = NoEntry
  /\ visit = [v \in Visitors |-> Idle]
  /\ edit = [w \in Editors |-> "idle"]
  /\ event = "none"
  /\ restarted = FALSE
  /\ floor = 0
  /\ cacheFaults = 0

Fault == cacheFaults < MaxCacheFaults /\ cacheFaults' = cacheFaults + 1

-----------------------------------------------------------------------------
(* A browse request *)

(* preview: the caller is the owner or staff; only the detail route looks at it. *)
BeginVisit(v, preview) ==
  /\ visit[v].pc \in {"idle", "answered"}
  /\ preview => cacheKey = "product"
  /\ visit' = [visit EXCEPT ![v] = [Idle EXCEPT !.pc = "read", !.preview = preview,
                                                !.during = PublicItems, !.floor = floor]]
  /\ UNCHANGED <<on, edition, generation, cacheKey, cacheEntry, edit, event, restarted, floor,
                 cacheFaults>>

(* An entry of another generation is a miss. *)
Current(e) == e.there /\ e.gen = generation

(* readMarketplaceCache: one MGET, then the check of what a hit would show. *)
readMarketplaceCache(v) ==
  /\ visit[v].pc = "read"
  /\ visit' = [visit EXCEPT ![v] =
                  IF Current(cacheEntry)
                    THEN [@ EXCEPT !.pc = "check", !.snapshot = generation,
                                   !.items = cacheEntry.items, !.edition = cacheEntry.edition]
                    ELSE [@ EXCEPT !.pc = "query", !.snapshot = generation]]
  /\ UNCHANGED <<on, edition, generation, cacheKey, cacheEntry, edit, event, restarted, floor,
                 cacheFaults>>

ReadFails(v) ==
  /\ visit[v].pc = "read"
  /\ Fault
  /\ visit' = [visit EXCEPT ![v].pc = "query", ![v].snapshot = Unreachable]
  /\ UNCHANGED <<on, edition, generation, cacheKey, cacheEntry, edit, event, restarted, floor>>

CheckHit(v) ==
  /\ visit[v].pc = "check"
  /\ visit' = [visit EXCEPT ![v].pc =
                 IF cachedContentIsPublic(visit[v].items) THEN "answered" ELSE "query"]
  /\ UNCHANGED <<on, edition, generation, cacheKey, cacheEntry, edit, event, restarted, floor,
                 cacheFaults>>

(* The rows a query returned become the payload to store and to answer with. *)
Loads(v, k, items, next) ==
  /\ visit[v].pc = "query" /\ cacheKey = k
  /\ visit' = [visit EXCEPT ![v].pc = next, ![v].items = items, ![v].edition = edition]
  /\ UNCHANGED <<on, edition, generation, cacheKey, cacheEntry, edit, event, restarted, floor,
                 cacheFaults>>

(* GET /products/:id.  A listing that is not public is 404, or an uncached  *)
(* preview for its owner and for staff.                                     *)
GetProduct(v) ==
  \/ ProductIsPublic /\ Loads(v, "product", PublicItems \ {"game"}, "store")
  \/ ~ProductIsPublic /\ ~visit[v].preview /\ Loads(v, "product", {}, "answered")
  \/ /\ ~ProductIsPublic /\ visit[v].preview
     /\ Loads(v, "product", {"product"} \cup (IF "approved" \in on THEN {"media"} ELSE {}), "answered")

(* GET /products: the page has the listings that are public. *)
GetProducts(v) == Loads(v, "products", PublicItems \ {"game"}, "store")

GetGames(v) == Loads(v, "marketplace:games", PublicItems \cap {"game"}, "store")

GetCategories(v) == Loads(v, "categories", {}, "store")

(* setMarketplaceCacheIfCurrent, one Lua script; then the answer. *)
setMarketplaceCacheIfCurrent(v) ==
  LET r == visit[v]
  IN  /\ r.pc = "store"
      /\ cacheEntry' = IF r.snapshot = generation
                    THEN [gen |-> r.snapshot, items |-> r.items, edition |-> r.edition, there |-> TRUE]
                    ELSE cacheEntry
      /\ visit' = [visit EXCEPT ![v].pc = "answered"]
      /\ UNCHANGED <<on, edition, generation, cacheKey, edit, event, restarted, floor,
                     cacheFaults>>

StoreFails(v) ==
  /\ visit[v].pc = "store"
  /\ Fault
  /\ visit' = [visit EXCEPT ![v].pc = "answered"]
  /\ UNCHANGED <<on, edition, generation, cacheKey, cacheEntry, edit, event, restarted, floor>>

-----------------------------------------------------------------------------
(* Changes of public content *)

(* The commit of a changing request, with the outbox event it enqueued. *)
Commit(w, facts, ed, next, announced) ==
  /\ edit[w] = "idle" /\ edition < MaxCommits
  /\ on' = facts
  /\ edition' = ed
  /\ edit' = [edit EXCEPT ![w] = next]
  /\ event' = IF announced THEN "pending" ELSE event
  /\ visit' = [v \in Visitors |->
                 IF visit[v].pc \in {"idle", "answered"} THEN visit[v]
                 ELSE [visit[v] EXCEPT !.during = @ \cup PublicItems']]
  /\ UNCHANGED <<generation, cacheKey, cacheEntry, restarted, floor, cacheFaults>>

Flip(fact) == IF fact \in on THEN on \ {fact} ELSE on \cup {fact}

(* POST, PATCH and DELETE of the seller's listing, and a paid order's stock. *)
ChangeListing(w) ==
  \E facts \in {on, Flip("listed")} : Commit(w, facts, edition + 1, "batch", FALSE)

(* PATCH /admin/listings/:id; blocking announces product.blocked. *)
ModerateListing(w) ==
  \E announced \in {"listed" \in on, FALSE} :
     Commit(w, Flip("listed"), edition + 1, "batch", announced)

ModerateMedia(w) == Commit(w, Flip("approved"), edition + 1, "batch", FALSE)

(* PATCH /admin/users/:id; a new ban announces user.banned. *)
BanSeller(w) == Commit(w, Flip("seller"), edition + 1, "batch", "seller" \in on)

(* Items and sections know their listings; a group only sweeps the prefix. *)
ChangeItem(w) == Commit(w, Flip("item"), edition + 1, "batch", FALSE)
ChangeGroup(w) == Commit(w, Flip("item"), edition + 1, "group", FALSE)

(* advanceMarketplaceCacheGeneration *)
Advanced ==
  /\ generation' = generation + 1
  /\ floor' = edition

(* invalidateProductCacheBatch: the generation first, then the keys and prefixes. *)
AdvanceGeneration(w) ==
  /\ edit[w] \in {"batch", "group"}
  /\ edit' = [edit EXCEPT ![w] = IF @ = "batch" THEN "delete" ELSE "deleteGroup"]
  /\ \/ Advanced /\ UNCHANGED cacheFaults
     \/ Fault /\ UNCHANGED <<generation, floor>>
  /\ UNCHANGED <<on, edition, cacheKey, cacheEntry, visit, event, restarted>>

DeleteKeys(w) ==
  /\ edit[w] \in {"delete", "deleteGroup"}
  /\ \E gone \in {Keys, {}} :
       LET swept == IF edit[w] = "deleteGroup" THEN gone \ {"product"} ELSE gone
       IN  /\ IF gone = {} THEN Fault ELSE UNCHANGED cacheFaults
           /\ cacheEntry' = IF cacheKey \in swept THEN NoEntry ELSE cacheEntry
  /\ edit' = [edit EXCEPT ![w] = IF @ = "deleteGroup" THEN "sweep" ELSE "idle"]
  /\ UNCHANGED <<on, edition, generation, cacheKey, visit, event, restarted, floor>>

(* invalidateCatalogCaches: the second pass, over marketplace:product: *)
SweepProducts(w) ==
  /\ edit[w] = "sweep"
  /\ \/ cacheEntry' = (IF cacheKey = "product" THEN NoEntry ELSE cacheEntry) /\ UNCHANGED cacheFaults
     \/ Fault /\ UNCHANGED cacheEntry
  /\ edit' = [edit EXCEPT ![w] = "idle"]
  /\ UNCHANGED <<on, edition, generation, cacheKey, visit, event, restarted, floor>>

(* The process dies after the commit. *)
EditorCrashes(w) ==
  /\ edit[w] # "idle"
  /\ Fault
  /\ edit' = [edit EXCEPT ![w] = "idle"]
  /\ UNCHANGED <<on, edition, generation, cacheKey, cacheEntry, visit, event, restarted, floor>>

(* The outbox handler invalidates strictly: an error leaves the event pending. *)
HandleEvent ==
  /\ \/ event = "pending" /\ Advanced /\ event' = "advanced" /\ UNCHANGED cacheEntry
     \/ /\ event = "advanced" /\ event' = "none"
        /\ cacheEntry' = NoEntry
        /\ UNCHANGED <<generation, floor>>
  /\ UNCHANGED <<on, edition, cacheKey, visit, edit, restarted, cacheFaults>>

HandlerFails ==
  /\ event = "advanced"
  /\ Fault
  /\ event' = "pending"
  /\ UNCHANGED <<on, edition, generation, cacheKey, cacheEntry, visit, edit, restarted, floor>>

-----------------------------------------------------------------------------
(* Redis *)

Expire ==
  /\ cacheEntry.there
  /\ cacheEntry' = NoEntry
  /\ UNCHANGED <<on, edition, generation, cacheKey, visit, edit, event, restarted, floor,
                 cacheFaults>>

(* The entries and the generation are lost together. *)
RedisRestarts ==
  /\ Fault
  /\ generation' = 0
  /\ cacheEntry' = NoEntry
  /\ restarted' = TRUE
  /\ UNCHANGED <<on, edition, cacheKey, visit, edit, event, floor>>

CacheNext ==
  \/ \E v \in Visitors :
       \/ \E preview \in BOOLEAN : BeginVisit(v, preview)
       \/ readMarketplaceCache(v) \/ ReadFails(v) \/ CheckHit(v)
       \/ GetProduct(v) \/ GetProducts(v) \/ GetGames(v) \/ GetCategories(v)
       \/ setMarketplaceCacheIfCurrent(v) \/ StoreFails(v)
  \/ \E w \in Editors :
       \/ ChangeListing(w) \/ ModerateListing(w) \/ ModerateMedia(w) \/ BanSeller(w)
       \/ ChangeItem(w) \/ ChangeGroup(w)
       \/ AdvanceGeneration(w) \/ DeleteKeys(w) \/ SweepProducts(w) \/ EditorCrashes(w)
  \/ HandleEvent \/ HandlerFails
  \/ Expire \/ RedisRestarts

CacheSpec == CacheInit /\ [][CacheNext]_cacheVars

-----------------------------------------------------------------------------
CacheTypeOK ==
  /\ on \subseteq Facts
  /\ edition \in 0 .. MaxCommits
  /\ generation \in Nat
  /\ cacheKey \in Keys
  /\ cacheEntry.items \subseteq Items /\ cacheEntry.edition \in 0 .. edition
  /\ \A v \in Visitors : visit[v].pc \in {"idle", "read", "check", "query", "store", "answered"}
  /\ edit \in [Editors -> {"idle", "batch", "group", "delete", "deleteGroup", "sweep"}]
  /\ event \in {"none", "pending", "advanced"}

(* What a visitor is shown was public at some moment of the request, however    *)
(* stale the cache is (lost invalidations, crashes after the commit, a Redis    *)
(* that comes back with old entries); and a request that began after an         *)
(* invalidation advanced the generation never sees older content, although the  *)
(* keys may not be deleted yet and a slower reader may still write its payload. *)
(* A Redis that lost its data starts over at generation 0, so the second part   *)
(* is only promised while it has not.                                           *)
ServedIsPublicAndFresh ==
  \A v \in Visitors :
    LET r == visit[v]
    IN  r.pc = "answered" =>
          /\ r.preview \/ r.items \subseteq r.during
          /\ restarted \/ r.edition >= r.floor
=============================================================================
