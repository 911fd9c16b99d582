# Skrynia marketplace: formal models

TLA+ models of the marketplace: the backend under `backend/`, the stateful parts of the
frontend under `frontend/lib`, and the release tooling under `scripts/`. They are checked with
TLC on small instances, and all safety properties are proved with TLAPS for every value of the
constants. The modules are translated from the TypeScript sources; `PROJECT.json` maps
each definition to the lines it stands for.

## 1. Inventory

The system is a Next.js frontend and a Node/Express backend over PostgreSQL and Redis. Three
kinds of backend process run at once: API replicas, a BullMQ worker and outbox pollers.

| Component | State | Operations | Interacts with |
|---|---|---|---|
| Money and ledger (`domain/money.ts`, `orders/accounting.service.ts`) | `ledger_entries`, `ledger_lines` | checked arithmetic, fee, post a balanced entry under an idempotency key, reconcile | called inside every money transaction |
| Orders and escrow (`orders/*`) | `orders`, `order_events`, `wallets`, `platform_wallets`, `products.stock` | create, capture (`lockEscrow`), start, deliver, confirm, auto-release, refund, review | payments, disputes, jobs, outbox |
| Request idempotency (`idempotency/*`, the product page) | `idempotency_keys`, the page's key | claim, run, store the answer, replay, expire, clean up | order creation |
| Payments (`payments/*`) | checkout pages and the gateways' own state | checkout, webhook, manual confirmation, test payments | escrow, wallet |
| Disputes (`disputes/*`) | `disputes` | open, claim, carry out, finalise, mark failed, recover | escrow, jobs, outbox |
| Wallet and payouts (`users/wallet.service.ts`) | `wallets`, `wallet_topups`, `payouts` | top up, withdraw, adjust, complete, reject | ledger, payments, admin |
| Outbox (`outbox/*`, `notifications/*`) | `domain_outbox`, `notifications`, BullMQ jobs | enqueue, claim, heartbeat, handle, mark, retry | fed by every business transaction |
| Jobs and delivery (`jobs/queue.ts`, Telegram linking) | BullMQ queues, linked chats, connect tokens | escrow sweep, dispute timer, delivery, storage cleanup | escrow, disputes, storage |
| Listings, catalog, browsing (`marketplace/*`, `catalog/*`) | `products`, groups, items, sections, schema versions, the public cache | create, edit, delete, moderate; publish a schema; browse, page, cache, invalidate | escrow reads stock and status |
| Sessions (`auth/session.service.ts`) | `users.session_version`, Redis session, refresh and family keys | login, rotate, logout, logout-all, security change | every request, sockets |
| Links and second factor (`auth/*`) | Redis records, `user_email_change_requests`, two-factor methods | issue, redeem, replace, expire; set up, confirm, accept a code, disable | sessions |
| Chat (`chat/*`, `ChatPanel`) | `conversations`, `messages`, the panel's list | send over socket or REST, replay, moderate, broadcast, load pages | outbox, sockets, storage |
| Sockets and realtime bus (`chat/ws.service.ts`, `realtime/*`) | connection maps, pending work, presence, remembered ids | admit, frame, join, revoke, sweep, drain; dispatch, publish, deduplicate | sessions, chat |
| Storage (`storage/*`) | `storage_objects`, provider objects, two semaphores | reserve, write, publish, attach, replace, delete, clean up, serve | outbox, jobs |
| Rate limits (`common/middleware/security.ts`) | Redis counters per window | count a request in each of its limiters | every route |
| Process lifecycle (`runtime/*`) | start and shutdown state, readiness, heartbeat | start, signal, drain, close, hard exit | every process |
| Frontend session handling (`lib/api.ts`, `lib/auth-store.ts`) | leases and markers in localStorage, each tab's belief | lock, refresh, login, logout, retry, events between tabs | sessions |
| Frontend realtime client (`lib/realtime-client.ts`) | socket, timers, rooms | start, stop, open, reconnect, join | sockets |
| Release gate (`scripts/*`, `check-npm-audit.mjs`) | checkout, containers, exit code | plan, run steps, compare with the freeze, audit | none at run time |
| Currencies, reports, support, profiles, admin lists | their tables | record keeping | listings, paging |

What is hard here:

* *concurrency*: transactions of several processes on one order, dispute, payout, event, schema
  or object; values read before a transaction or an await and used after it; several tabs of a
  browser on one set of cookies;
* *failure*: a crash between two transactions of one operation or between the provider's bytes
  and the row, a lost answer, a query that fails on the error path;
* *ordering and repetition*: webhooks that are late or repeated, a slow holder of an expired
  lease, retries of what was already done, broadcasts and history pages that overtake each other;
* *progress*: delivered orders, claimed resolutions, outbox events, deletions and revoked
  sockets must end.

`PROJECT.json` lists each hazard with its line and the properties that watch over it.

## 2. Plan

Done, the most important behaviour first:

1. `Ledger`, `Settlement`, `Escrow`: money and the order lifecycle, with proofs;
2. `DisputeResolution`, `Wallet`, `Outbox`, `Sessions`: decisions, payouts, events, logins;
3. `Storage`, `MediaGate`, `Sockets`, `EventBus`, `Chat`, `Purchase`, `Delivery`: media,
   connections, messages, purchases and notifications;
4. `SecurityLinks`, `TwoFactor`, `RateLimit`, `Catalog`, `PublicCache`, `Paging`, `Lifecycle`:
   the rest of the backend that keeps state;
5. `RefreshLease`, `AuthTabs`, `RealtimeClient`: the frontend's own protocols;
6. `FreezeGuard`, `AuditPolicy`, `ReleaseGate`: the gate in front of a release.

7. `Ledger_proofs`, `Escrow_proofs`, `Wallet_proofs`, `Operations_proofs`, `Sessions_proofs`,
   `Account_proofs`, `Marketplace_proofs`, `Infrastructure_proofs`: the safety properties of all
   modules, each from an inductive invariant, and three refinements: `Escrow` implements
   `Settlement`, `DisputeResolution` implements `Resolution`, `Outbox` implements `Effects`.

What could follow: a promise of the same kind for the delivery job, whose email leg is not
repeatable (section 7), and a model of the routes that section 8 leaves out.

## 3. Modules

| Module | Models | State and steps |
|---|---|---|
| `Ledger` | `domain/money.ts`, `accounting.service.ts` | operators only: `MoneyCents`, `CanAdd`, `CanSubtract`, `PlatformFeeCents`, entries, `PostLedgerEntry` (skipped when the key exists), `LedgerBalance` |
| `Settlement` | what escrow promises | abstract: the money of an order goes `unpaid` → `held` → `seller` or `buyer` |
| `Escrow` | `orders/*`, payments, listings, opening and deciding disputes | one action per route, job or webhook; each transaction is one step because it locks its order row first |
| `Resolution` | what a resolution promises | abstract: a dispute is decided, the money held moves that way, the dispute is closed and announced; each once |
| `DisputeResolution` | `dispute-resolution.service.ts` | one program counter per running call: claim, escrow, finalise, mark; recovery reads, then claims |
| `Wallet` | `wallet.service.ts` | top-ups, withdrawals, adjustments; `completePayout` is two steps, its query's lock ends with the query |
| `Purchase` | `idempotency.service.ts`, `POST /orders`, the buy button | one program counter per request: the inserting transaction, waiters for its row, the commit; the page gives up, retries and changes its mind; PostgreSQL's waiting insert is external |
| `Effects` | what the outbox promises | abstract: an event is recorded, its notification and then its job are made once, it is done for good or given up and taken up again |
| `Outbox` | `outbox.worker.ts`, `createNotification` | rows with status, attempts, holder and lease; tasks of each worker; notifications and jobs |
| `Delivery` | `telegram-link.service.ts`, the bot's webhook, `preferences.service.ts`, the delivery job | tokens, links, preferences; the job's email and Telegram legs as separate steps, retried by BullMQ |
| `EventBus` | `realtime-event-bus.service.ts`, delivery in `ws.service.ts`, `ToastCenter.tsx` | what each replica remembers, what Redis carries, which replica the page is on and what it has shown |
| `Chat` | `chat.service.ts`, `chat.routes.ts`, moderation, broadcasts, `ChatPanel` | server handlers under way for one message, frames and pages on their way, the panel's list |
| `Sockets` | `ws.service.ts`, `ws-ticket.service.ts`, `session-events.service.ts`, presence | per socket the handshake's and the frames' awaits, the maps of the replica, pending counters, the sweep and the drain |
| `RealtimeClient` | `realtime-client.ts`, `ws.ts`, `RealtimeProvider` | socket, open in flight with its generation, timer, rooms and their references, account, visibility, network |
| `Storage` | `storage.service.ts`, upload and attach routes, deletion handler, cleanup | rows, bytes and quota as separate facts; an upload, a cleanup and deletion tasks each with their own program counter |
| `MediaGate` | `storage.routes.ts` reads, `StorageReadSemaphore`, `ProcessingSemaphore` | requests, the two queues, aborts and deadlines, the access decision |
| `Sessions` | `session.service.ts`, the routes that use it, `authenticate` | the Redis keys of one account as sets of credentials, cookies per browser, one program counter per request; each Lua script and MULTI is one step |
| `SecurityLinks` | verification, password reset, email change, step-up | records bound to the address, generations and session version at issue; several requests for links overlap |
| `TwoFactor` | `twofa.service.ts`, `totp.service.ts`, key handling | method row, pending secret, backup codes, last counter, a clock; each operation is a transaction on the locked row |
| `RefreshLease` | the cross-tab lock of `lib/api.ts` | Web Lock holder and queue, leases with ticket numbers read one by one, pages without storage, suspended and closed tabs, requests still at the server |
| `AuthTabs` | `auth-store.ts`, the session events of `lib/api.ts` | belief of each tab, markers, messages between tabs with timestamps of a clock that passes with each login and logout |
| `RateLimit` | `common/middleware/security.ts` | requests with their cookie, account and body, the keys each limiter takes from them in the code's order, counters per bucket and window, requests between their limiters |
| `Lifecycle` | entrypoints, `runtime/*` | one process: phase, requests and audit writes under way, cleanup steps, deadline, readiness, heartbeat |
| `Catalog` | `catalog/*`, listing routes, moderation | one group, item and section with schema versions and listings; an admin handler is one step per query |
| `PublicCache` | `marketplace-cache.service.ts`, browse routes, invalidation | the database's visibility facts, generation, entries, readers and editors under way |
| `Paging` | `common/pagination.ts`, cursors and list routes | a table, a list's contract, a client walking it; each page is one query |
| `FreezeGuard` | `check-financial-freeze.mjs` | base, HEAD, index and working tree; the comparison as operators, edits, staging and commits as actions |
| `AuditPolicy` | `check-npm-audit.mjs` | operators over a report and a list of exceptions; the walk along causes as a function of its level |
| `ReleaseGate` | `verify-all.mjs` | plan, position, results, containers, exit code; uses the two above for its steps |
| `Ledger_proofs` | lemmas about sums over finite journals and sets of rows | see section 6 for these and the other proof modules |
| `Escrow_proofs` | theorems about `Escrow` and `DisputeResolution` | |
| `Wallet_proofs` | theorems about `Wallet` | |
| `Operations_proofs` | theorems about `Outbox`, `Lifecycle`, `RealtimeClient`, `ReleaseGate` with its guards | |
| `Sessions_proofs` | theorems about `Sessions`, `AuthTabs` | |
| `Account_proofs` | theorems about `TwoFactor`, `SecurityLinks`, `RateLimit`, `RefreshLease` | |
| `Marketplace_proofs` | theorems about `Purchase`, `Catalog`, `PublicCache`, `Paging`, `Chat` | |
| `Infrastructure_proofs` | theorems about `Delivery`, `Sockets`, `Storage`, `EventBus`, `MediaGate` | |
| `MCEscrow`, `MCDispute`, `MCWallet`, `MCOutbox` | instances for TLC | constants that a cfg cannot write |
| `MCOperations`, `MCMarketplace`, `MCIdentity`, `MCInfrastructure` | several components, one at a time | see section 4 |

Conventions. A transaction (`inTx`, `inSerializableTx`) is one step when it locks the row it
decides on. What the code reads outside a transaction is a step of its own (`ConfirmChecked`,
`SweepListsDue`, `RecoveryReads`, `CompletePayoutChecks`, the admin handlers of `Catalog`). A
guard that fails in the code with an error and a rollback is a disabled action, unless the error
has an effect (a webhook that is acknowledged, a resolution marked failed, a claimed token).
Operators whose names end in `_Something` and whose comment begins with "Mutant" are plausible
bugs used to show that a property notices them; no specification uses them.

Abstractions. One currency. Times are two-valued (due or not, fresh or stale, lease held or
expired) and pass nondeterministically, or are a small clock where the code compares instants
(`Purchase`, `TwoFactor`, `AuthTabs`, `RateLimit`). Bans and email verification only disable
actions, so leaving them out adds behaviours and no safety property is weakened. The reasons
`service_released` and `service_refunded` of `transitionOrder` have no caller and are left out.
In `Sessions` a credential is an access and a refresh token issued together; requests are shorter
than the five minutes of an alias and the fifteen of an access token, so neither expires under a
request that uses it; the 90-day expiry of refresh tokens and records from before refresh families
are left out. In `AuthTabs` the clock of the browser passes with every login and every logout:
`Date.now()` is taken not to be set back, and at least a millisecond to lie between a logout and
the login after it (a page load and a request lie between them). Section 7 says what happens
otherwise. A login reads the account's row, waits for `verifyPassword`, and then asks for the second
factor or calls `issueSession`; these are steps of their own in `Sessions`, so a security change may
come between any two of them. Only the second factor's bridge carries on the version that was read
with the password.
Texts, metrics, audit rows and the `transactions` history are left out.

## 4. Runs

| Run | Shows |
|---|---|
| `escrow` | Two orders of one listing, two buyers, an admin, edits of the stock: the ledger, wallets, escrow, sales, stock and announcements agree in every interleaving; nothing but a decision leaves a dispute; escrow implements `Settlement` |
| `outbox` | Two workers, expiring leases, a crash and failing handlers: the outbox implements `Effects` (notification, job, done, each once), only the holder decides, every event ends |
| `operations` | Escrow with two gateways, late and repeated confirmations, test payments and moderation: a delivered order settles. Overlapping dispute resolutions with crashes implement `Resolution` (one decision, one transfer, one announcement) and complete while their admin keeps the role. Telegram messages reach only their owner's chat, a toast comes up once, a page is never left without realtime, the media semaphores lose no slot or waiter, a code is accepted once, a green gate vouches for the tree |
| `identity` | Overlapping requests of one browser with a failing Redis call and lost responses: a confirmed logout is final, a session is of the version its login was dated by, which a refresh never moves to a newer one, a refresh token is exchanged once, every stored key is listed. Two tabs: a queued logout ends only the session it was asked for |
| `infrastructure` | Storage with crashes between provider and database: bound media is kept, the quota covers the bytes, deletions complete. Sockets: a revocation reaches every one, a drain leaves no registered socket and no presence, revoked sockets close |
| `marketplace` | Wallets equal the ledger; one key, one order; a message is stored and shown once; tabs that share a lock keep their session requests apart; a clean shutdown; a section points at its one active schema; cached answers are public and fresh; a cursor walk sees each row once; the newest link works; requests stay within the buckets that count them |
| `escrow_ack` (violation) | The comment that a refused confirmation "cannot become payable again" is wrong: stock may return |
| `dispute_demoted` (violation) | If the claiming admin loses the role no retry can ever succeed |
| `wallet_race` (violation) | A payout may be returned and then marked paid |
| `outbox_orphan` (violation) | An exhausted event may be left pending where nothing claims or fails it |
| `catalog_edit` (violation) | A draft's edit, checked before the draft is published, changes the schema under existing listings |
| `paging_dates` (violation) | A cursor that loses the microseconds skips a row of the same millisecond |

One component at a time. The components of `MCOperations`, `MCMarketplace`, `MCIdentity` and
`MCInfrastructure` share no variable, so their interleavings show nothing that each does not show
alone. A behaviour of such a run chooses a `focus` at the start and only that component moves;
the others wait in one of their initial states (`OthersPinned`). Where a component has fairness,
none of its fair actions is enabled in the state it waits in, so the fairness of the others asks
nothing. `MarketplaceView` keeps the focus and the variables of the component in focus, which is
sound because the others are constant. Where components do interact, the module models both sides:
`Escrow` holds the orders, payments, listings and disputes of one transaction, `Chat` the server
and the panel, `Purchase` the page and the route, `ReleaseGate` its guards, `EventBus` the replicas
and the page.

A deadlock is not an error in any run: orders, events and links all end, and the bounds stop the
environment.

### Bounds

* `escrow`: two orders of quantities 1 and 2 that compete for a stock of 2, which is where
  capture, restock and oversell meet; a third order adds no new pair of conflicting transactions.
  The fee of 25 % makes rounding happen.
* `outbox`: two workers, two events, a batch of two with one runner (so that a claimed event
  waits and its lease can expire), two attempts (the second is the last), one crash and one
  thrown error. The orphaned event needs a second fault and has its own cfg.
* `operations`: one instant order with two gateways; one dispute (disputes share no rows), three
  overlapping calls, two admins of whom one may be demoted, three faults: a stale claim taken over
  from a live holder, with a third call that replays, needs no more. `Delivery`: two chats and two
  tokens of one member, so that a reconnect can happen while a job of two attempts is under way.
  `EventBus`: two replicas and a memory of one id, so that an id is forgotten, with a repeated
  publish and one fault. `RealtimeClient`: two accounts, one room with two panels, four opens.
  `MediaGate`: one slot and a queue of one for three requests: holder, waiter, refused.
  `TwoFactor`: two secrets, one backup code, four counters. `ReleaseGate`: a frozen symbol
  followed by another and an anchor, one edit, and exceptions of each kind of flaw.
* `identity`: one account and one browser with two requests in flight (what overlaps in one family
  always shares a cookie jar), three credentials (a token with two successors needs three), one
  security change, and a family capacity of two, so that the limit is met. The two requests are
  interchangeable and only invariants are checked, so symmetry is sound; so are the two tabs.
  Two tabs and two events among logins, logouts and network faults: the browser starts with a
  session, so a logout of it and a later login is what a late logout message or a queued attempt
  would need to end the wrong session (three events were checked as well, in four minutes).
  `IdentityView` leaves the waiting component out of the fingerprint, as `MarketplaceView` does.
* `infrastructure`: two objects that share a limit of one, two deletion tasks, one fault. Two
  sockets with a limit of one connection per user, so that a newer one displaces an older, one
  revocation, one pending operation and one fault.
* `marketplace`: two users and one withdrawal and top-up more than a balance covers; three
  requests of two purchase keys over two products and a lifetime of one tick that passes within
  the run (two requests of one key meet beside a third of the other, and a dead key is used
  again); one
  message of each party with two attempts each (a manual retry would be a third: the theorem,
  which has no bound, covers it); three tabs, one with Web Locks only, one with
  storage only, one with both (so each lock is contended, and the first two share none); both
  kinds of process with two faults; two admins and two schema versions; one reader and one editor with two commits; three rows over three instants of which
  two share a millisecond, in pages of one or two; two reset links and a change of address; two
  requests against limits of one in two windows, of two addresses, with a verified cookie of either
  of an account's two sessions, a forged one or none, a body that names nothing or one that names
  another email than the account's, on eight classes of routes that between them use every kind of
  key but those of a link's token and of Telegram.

Every module states its own type invariant (`WalletTypeOK`, `StorageTypeOK`, `SocketsTypeOK`, ...)
next to its properties; of these the runs list that of `Escrow`, which the proofs use.

### What the properties except

* `QuotaAccountsBytes`: an upload that still writes after the cleanup has taken its row away.
* `ServedIsPublicAndFresh`: freshness, not visibility, after a Redis that lost its data.
* `AlertsReachThePageOnce`: a page that connects to a replica after it handled an event waits for
  its next list.
* `EpochCoversFamily`: a login that hands no version to `issueSession` is dated when it is
  prepared, not when its password was read (section 7).
* `LogoutHitsItsSession`: a page may show the old account while the message is on its way to it, a
  login that was answered may not have been taken up by its page yet, and one that another tab
  overtook is not the current one.
* `OneSessionMutation`: tabs that share no lock, and the request of a closed page that had no
  storage.
* `DrainLeavesNothing`: the rooms; a closed socket may stay listed in one (section 7).
* `LimitsHold`: a limit is one of a bucket; which buckets must have counted a request is said per
  kind of route, and queries outside public browsing have none.
* `EventSettles`: an event whose `markFailed` query itself failed (the finding `outbox_orphan`).
* `DeliveredOrderSettles` and `ResolutionCompletesForAdmin`: see the fairness below.

## 5. Fairness

* `SweepListsDue` is weakly fair: the sweep is a repeating job, every 60 s. `RunRelease` is
  strongly fair: a single release may be lost to a crash or to three serialization failures,
  but not every one forever.
* A running call of `resolveDisputeResolution` proceeds; the dispute timer runs every five
  minutes; an admin who is shown a failed resolution retries it. The last is an assumption about
  people; without it the code leaves a failed resolution as it is.
* The outbox poller runs every second, a handler returns or times out, backoff passes, and
  leases of dead workers expire.
* Storage: the cleanup is an hourly job, the deletion handler runs from the outbox poller, and a
  started upload goes on unless it crashes.
* Sockets: the security sweep is a timer of the replica, and a socket that is closing ends.
* The other specifications have no fairness and only safety properties.

## 6. Proofs

The safety properties the runs check are theorems for every value of the constants: any number
of orders, users, gateways, requests, tabs, workers, sockets, objects, replicas, crashes and
retries, any text of the frozen file, any report of npm. Each is proved the same way. A
conjunction of named parts (`...IInv`) was first checked by TLC as an invariant of the run;
lemmas, one per action or per group of actions with the same effect, show that a step preserves
it; the theorem combines them.

| Theorem | States | What its inductive invariant adds, and why |
|---|---|---|
| `Escrow_proofs!TypeCorrect`, `LedgerFollowsLifecycle` | `TypeOK`, `MoneyFollowsStatus` | `IInv` is their conjunction: a release posts an entry, and only `MoneyFollowsStatus` says that none of that key exists and that the capture does |
| `EscrowSettlesOnce` | `SettlesOnce`: `Escrow` implements `Settlement` | `IInv`; each step of the journal is a step of `Settlement` or a stutter |
| `DisputeHolds` | `DisputeFreezesFunds` | `DecisionsSettled`: an event of a decision exists only for a settled order, so the idempotent repeat of `transitionOrder` cannot be what moves a disputed one |
| `BooksReconcile` | `WalletsReconcile` | that the journal is finite and its entries add up, so that one more entry adds its own lines to an account (`Ledger_proofs`) |
| `EscrowIsBacked` | `EscrowBacksOpenOrders` | the same for the sum over the orders still undecided |
| `TransitionsAreAnnounced` | `EveryTransitionAnnounced` | that an order passes through a status once, so the unique key swallows nothing |
| `OrderFollowsDecision`, `DisputeResolvesOnce`, `AnnouncedOnce`, `DecisionNeverReplaced`, with `DisputeTypeCorrect` | `DecisionGovernsOrder`, `ResolvesOnce` (`DisputeResolution` implements `Resolution`), `ResolutionAnnouncedOnce`, `DecisionIsKept` | `ClaimsAgree`: a running call carries the decision of the row, although it read it in an earlier transaction |
| `WalletTypeCorrect`, `WalletsFollowTheLedger` | `WalletTypeOK`, `WalletMatchesLedger` | `StatusKnowsKeys`: a key is posted exactly when the row's status says the balance moved |
| `Operations_proofs!TypeCorrect`, `DecidedOnce` | `TypeOK` and `EventDecidedOnce` of `Outbox` (which implements `Effects`) | `EffectsDone`: a task past an effect has left its row; `TasksAreRecorded`: a task's event was recorded, so that its effect is one of an event |
| `ShutdownIsClean` | `CleanShutdown` | how far the cleanup has come decides what may still run |
| `RealtimeIsNotLost` | `ConnectionRecovers` | `OneAttempt`: an open in flight is of the current generation and excludes a socket |
| `SessionsTypeCorrect`, `SetsListEverySession`, `NoLoginOutlivesItsVersion`, `TokenExchangedOnce`, `LogoutEndsItsFamily` | `TypeOK`, `EverySessionEnumerable`, `EpochCoversFamily`, `RedeemedOnce`, `LogoutIsFinal` | what every request in flight still holds, the one token of a family, who has it until it is delivered, the capacity of a family: a logout is final because no request under way can put a credential of the family back |
| `LogoutEndsOnlyItsSession` | `LogoutHitsItsSession` | a logout asked for after the newest login means that login's session (`StampsArePast`); who is inside the lock and what it sent; what a page has yet to be told |
| `NoCodeTwice` | `CodeAcceptedOnce` | what the account remembers of every accepted code (counter, used mark, generation), and that a secret does not come back |
| `NewestLinkRedeems` | `NewestLinkWorks` | requests ranked by the generation they committed, against the order in which they reach Redis |
| `ServedAreCounted` | `LimitsHold` | every limiter that a request has passed has counted it, in a window it bounds; which limiters a request has follows from its route, cookie, account and body |
| `TabsExclude` | `OneSessionMutation` | of two tabs with storage that hold a lease, at most one has found the other's not held: the one that marked its lease last reads the other's after that; of two with Web Locks, who holds the lock is who operates. Nothing of a pair that shares no lock |
| `OneKeyOneOrder` | `OneOrderPerKey` | the locks of uncommitted inserts and deletes, and a row for every live key |
| `SectionsPointAtTheirSchema` | `SectionPointsAtItsSchema` | the shape of calls under way |
| `ServedIsPublic` | `ServedIsPublicAndFresh` | for each reader, what its answer was read from, against the generation it will be stored under |
| `WalksAreComplete` | `WalkSeesEachRowOnce` | of the rows that match all along, those up to the cursor were seen once and those after it not; a page holds the first rows after the cursor |
| `MessagesComeOnce` | `EachMessageOnce` | what a handler, a page and a row of the panel may say of a stored message |
| `TelegramIsPrivate` | `TelegramReachesItsOwner` | a token is in the hands of its member until it is spent; what chats a job may write to |
| `RevocationIsEffective`, `DrainIsClean` | `RevocationReachesSockets`, `DrainLeavesNothing` | which of the maps list a socket at each await of its handshake |
| `BoundMediaExist`, `QuotaIsHonest` | `BoundIsKept`, `QuotaAccountsBytes` | a fresh object has no deletion; the rows of a purpose that are charged stay within the limit |
| `AlertsComeUpOnce` | `AlertsReachThePageOnce` | what a replica has shown it remembers as long as the id may come back; what is owed is on its way |
| `NoSlotIsLost` | `SlotsServeTheQueue` | those with a slot and those in the queue are counted, each once |
| `GreenGateIsRight` | `GreenGateVouches` | every step before the current one passed; every tree the guard passed keeps the frozen text; a container that is up is one the run has noted |

The release gate. Most of `GreenGateIsRight` is one lemma about the freeze, `UnchangedKeepsText`:
if `git diff` reports no hunk that meets the frozen range, of the base or of the candidate, then
the frozen text is the same in both, whichever of the possible alignments git chose. An alignment
is a set of kept lines and a set of lines they became, equal as sequences, so the kept lines pair
up with theirs by rank, and a run of kept lines goes with a run. Then, in this order: the line
that starts the symbol is paired with the one that starts it on the other side, because as many
starts are expected on both sides and the chosen one is the first or the last of them
(`StartsPair`); as many lines of context precede it (`HeadsAgree`); what follows it pairs line by
line as far as both ranges go (`SegmentsPair`); and neither range ends before the other, whether
its end is the end of the file, a number of lines, or an end anchor inside or outside the range
(`TailNoLonger`, `EndNoLater`). The audit's lemma (`ReachedIsADependency`, `PassedAuditIsCovered`)
says that the walk, stopped after as many levels as there are packages, finds dependencies only.
With both, the invariant `GateIInv` is preserved by each action.

Sums and counts. The sum over a finite set is defined by recursion, and the library's induction
theorems cannot be used here. `Ledger_proofs` reasons by the least number of elements for which a
statement fails instead (`NatLessThanWellFounded`), and obtains that a sum does not depend on the
order of its terms. `Paging` (places of rows) and `Chat` (positions that a filter keeps) count with
the cardinality theorems of the library.

Assumptions. Those of the modules; TLC evaluates them on each run. Columns have their types,
amounts are positive, the fee is at most 100 %, admins are users, limits and capacities are
positive numbers; what stands for "none" is none of the things it is the absence of
(`WorkerAssumption`, `PurchaseAssumption`, `DeliveryAssumption`, `LinksAssumption` and others); a
process serves finitely many requests and stores finitely many objects; a secret has finitely many
time steps and a set finitely many codes; ranks are integers; message ids of the two parties
differ.

What the attempts showed.

* `OneOrderPerKey` had been checked with one key. Its old wording compared answers across keys and
  is false with two; it now speaks of each key, and the run has two.
* The snapshot of a reader that Redis did not answer was a number that larger bounds reach; it is
  -1 now (`PublicCache`), and the assumptions keep `NoOwner`, `NoReplica` and the like apart
  from workers, replicas and others.
* `OneSessionMutation` had left out the requests of pages without storage, and so seemed to speak of
  every mix of tabs; they are counted now, and the property says which pairs of tabs it is about.
* `LimitsHold` had one subject per request; with the keys in the order in which the code takes them
  it says which bucket counts which request, and section 7 says what follows from that order.
* `LogoutHitsItsSession` held in small runs only because their clock could not stand still between
  a logout and a login, nor run backwards; that is an assumption now (section 3), and section 7
  says what it excludes. The theorem has no bound on logins and logouts.
* The chain of limiters of a request is read from the request, not from its progress;
  `RateLimit` said both.
* With three starts expected and the second of them frozen, the freeze guard can pass an edit that
  changes the protected text (section 7): the theorem about it assumes the first or the last of
  the starts (`OccurrenceAssumption`), which is what every symbol of `config/financial-freeze.json`
  has.
* The assumption on `SectionChoices` was written so that it allowed an empty choice of sections,
  which `parseArguments` never makes; the plan, the audit's walk and the types of a symbol's numbers
  are now written so that they can be reasoned about (`Subsequence`, a function of the level, `Nat`).
* A waiter that leaves the queue of `MediaGate` and the rows that a filter keeps in `Chat` are
  given by position: `SelectSeq` is opaque to the provers.

Only model-checked: the liveness properties `DeliveredOrderSettles`, `ResolutionCompletesForAdmin`,
`EventSettles`, `DeletionCompletes` and `RevokedSocketsClose`, because fairness and ENABLED are out
of the prover's reach.

## 7. Findings

Six runs are expected to be violated; each states what the code or its documentation says and
`PROJECT.json` quotes it: an acknowledged payment that could have been captured later
(`payments.routes.ts:72`), a resolution bound to an admin who lost the role
(`dispute-resolution.service.ts:356`), a payout both returned and paid
(`wallet.service.ts:271`), an outbox event left pending at its last attempt
(`outbox.worker.ts:143`), an edit of a draft schema written after its publication
(`catalog-schemas.service.ts:35`), and rows skipped by cursors made from a `Date`
(`pagination.ts:25`).

Met while reading, and in no run because nothing in the repository promises otherwise or because
the state involved is not modelled:

* a second payment of one order at another gateway is acknowledged and not refunded
  (`payments.routes.ts:131`);
* an email is sent again when the worker dies or the database fails after the email leg of a
  delivery job (`queue.ts:256`), and a job id may be used again once BullMQ has dropped the
  finished job (`queue.ts:105`);
* confirming a phone verifies whichever number is current (`users.routes.ts:499`);
* a seller's edit may activate a listing that a moderator has blocked;
* two edits of notification preferences may lose one of them (`preferences.service.ts:23`);
* a Telegram chat that is disconnected and linked again at once may be told "disconnected" last
  (`telegram-link.service.ts:94`);
* toasts of order events have the time of arrival in their id, so a repeated one comes up again
  (`ToastCenter.tsx:197`);
* a logout message that arrives late can end the session of a later login if the clock was set
  back in between, or if both happened in the same millisecond: `nextAuthEventTimestamp` stamps a
  logout after the last login it knows, but nothing stamps a login after the last logout
  (`api.ts:386`, `auth-store.ts:212`);
* a password login is not bound to the version read with the hash it compared: a security change
  that commits during `verifyPassword` leaves it a session of the new version, while the bridge to a
  second factor keeps the version (`auth.routes.ts:134-154`; registration at 111, the first sign-in
  by Telegram at 232 and the session after a security change, `users.routes.ts:143`, hand over no
  version either);
* a page with Web Locks and no storage and one with storage and no Web Locks share no lock, so their
  session requests may overlap (`api.ts:1250-1268`, `1337-1340`);
* rate limits count buckets: an address has one for anonymous and one for signed-in writes
  (`security.ts:268-297`), an email in the body names a credential's bucket before the token of the
  second factor or the account that is signed in (`security.ts:109-123`), tickets are counted by
  session rather than by account (`security.ts:329-341`), and queries outside public browsing and
  media are not counted;
* a join whose access query answers after its socket was closed and cleaned up lists the closed
  socket in the room for the life of the process; broadcasts skip it (`ws.service.ts:1042`);
* lists sorted by price use offsets, so rows move between pages (`marketplace-browse.routes.ts:693`);
* a frozen range that excludes its end anchor does not protect the anchor's own line
  (`check-financial-freeze.mjs:427`);
* of more than two expected starts, a frozen occurrence between the first and the last is not a
  place in the text: removing an earlier start and adding a later one, both outside the protected
  range, freezes another part of the file without a violation (`check-financial-freeze.mjs:407`; no
  configured symbol has one);
* a signal leaves the gate's containers running (`verify-all.mjs:865`);
* without Redis each process counts requests on its own.

## 8. Not modelled

Telegram sign-in data, configuration parsing and the frontend's pages have no state that another
part relies on. Of the components marked "partly" in `PROJECT.json` the notes say what is left
out; in short: signatures, cryptography and providers' HTTP, which are taken as given; independent
record keeping whose rows nothing else depends on (dispute messages, reports, tickets, profile
fields, favourites, blocks, read markers, phone codes); recipients and texts of notifications;
search ranking; reconciliation snapshots and analytics; and the running of migrations. Of modelled
parts: the stock in a cached answer and the loss of the generation key alone (`PublicCache`),
requests that a kept-alive connection brings during the drain (`Lifecycle`), the hour of a reset
link and the loss of the links in Redis (`SecurityLinks`). `SecurityLinks` models verification and
email change next to the reset link; its property is about the reset link.
