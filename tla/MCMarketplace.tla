--------------------------- MODULE MCMarketplace ----------------------------
(***************************************************************************)
(* The marketplace as its visitors and sellers use it, where correctness   *)
(* is a matter of safety alone; each component on its own small instance.  *)
(* They share no state: a behaviour follows one of them, the focus, and    *)
(* the others stay in one initial state.                                   *)
(***************************************************************************)
EXTENDS Wallet, Purchase, Chat, RefreshLease, Lifecycle, Catalog, PublicCache, Paging,
        SecurityLinks, RateLimit, TLC

CONSTANTS u1, u2, t1, t2, p1, p2, up, down, c1, c2, s1, s2, z1, z2

MCOwnerOf ==
  (t1 :> u1) @@ (t2 :> u2) @@ (p1 :> u1) @@ (p2 :> u1) @@ (up :> u1) @@ (down :> u2)
MCCentsOf ==
  (t1 :> 5) @@ (t2 :> 2) @@ (p1 :> 4) @@ (p2 :> 3) @@ (up :> 1) @@ (down :> -2)

\* One account with two sessions, an email and a phone; a body that names
\* nothing, and one that names another email and the same phone.
MCSessionOwner == (s1 :> u1) @@ (s2 :> u1)
MCProfiles == u1 :> {[email |-> z1, phone |-> z1]}
MCBodies == {NoBody, [NoBody EXCEPT !.email = z2, !.twoFactorToken = z1, !.phone = z1]}

VARIABLE focus

marketplaceVars ==
  <<focus, walletVars, purchaseVars, chatVars, leaseVars, lifecycleVars, catalogVars,
    cacheVars, pagingVars, linkVars, limitVars>>

Components ==
  {"wallet", "purchase", "chat", "lease", "lifecycle", "catalog", "cache", "paging", "links",
   "limits"}

\* Components with several initial states wait in one of them.
OthersPinned ==
  /\ focus # "purchase" => pageProduct = CHOOSE p \in OfferedProducts : TRUE
  /\ focus # "lifecycle" => role = "api"
  /\ focus # "catalog" => schema = [v \in Versions |-> NoVersion]
  /\ focus # "cache" => cacheKey = CHOOSE k \in Keys : TRUE
  /\ focus # "paging" => /\ list = ConversationPage /\ limit = 1
                         /\ at = [r \in RowIds |-> 0] /\ rank = [r \in RowIds |-> 1]
                         /\ tableRows = {}

MarketplaceInit ==
  /\ focus \in Components
  /\ OthersPinned
  /\ WalletInit /\ PurchaseInit /\ ChatInit /\ LeaseInit /\ LifecycleInit /\ CatalogInit
  /\ CacheInit /\ PagingInit /\ LinksInit /\ RateLimitInit

\* A step of the component in focus; the others stay as they are.
Only(c) ==
  /\ focus = c /\ UNCHANGED focus
  /\ c # "wallet" => UNCHANGED walletVars
  /\ c # "purchase" => UNCHANGED purchaseVars
  /\ c # "chat" => UNCHANGED chatVars
  /\ c # "lease" => UNCHANGED leaseVars
  /\ c # "lifecycle" => UNCHANGED lifecycleVars
  /\ c # "catalog" => UNCHANGED catalogVars
  /\ c # "cache" => UNCHANGED cacheVars
  /\ c # "paging" => UNCHANGED pagingVars
  /\ c # "links" => UNCHANGED linkVars
  /\ c # "limits" => UNCHANGED limitVars

MarketplaceNext ==
  \/ Only("wallet") /\ WalletNext
  \/ Only("purchase") /\ PurchaseNext
  \/ Only("chat") /\ ChatNext
  \/ Only("lease") /\ LeaseNext
  \/ Only("lifecycle") /\ LifecycleNext
  \/ Only("catalog") /\ CatalogNext
  \/ Only("cache") /\ CacheNext
  \/ Only("paging") /\ PagingNext
  \/ Only("links") /\ LinksNext
  \/ Only("limits") /\ RateLimitNext

\* The variables of the other components are constant in a behaviour.
MarketplaceView ==
  CASE focus = "wallet" -> <<focus, walletVars>>
    [] focus = "purchase" -> <<focus, purchaseVars>>
    [] focus = "chat" -> <<focus, chatVars>>
    [] focus = "lease" -> <<focus, leaseVars>>
    [] focus = "lifecycle" -> <<focus, lifecycleVars>>
    [] focus = "catalog" -> <<focus, catalogVars>>
    [] focus = "cache" -> <<focus, cacheVars>>
    [] focus = "paging" -> <<focus, pagingVars>>
    [] focus = "links" -> <<focus, linkVars>>
    [] focus = "limits" -> <<focus, limitVars>>

MarketplaceSpec == MarketplaceInit /\ [][MarketplaceNext]_marketplaceVars
=============================================================================
