\* One small instance of each component; README.md says why each is enough.
SPECIFICATION MarketplaceSpec
CONSTANTS
  u1 = u1
  u2 = u2
  t1 = t1
  t2 = t2
  p1 = p1
  p2 = p2
  up = up
  down = down
  c1 = c1
  c2 = c2
  s1 = s1
  s2 = s2
  z1 = z1
  z2 = z2
  \* Wallet
  Users = {u1, u2}
  MaxCents = 6
  Topups = {t1, t2}
  Payouts = {p1, p2}
  Adjustments = {up, down}
  OwnerOf <- MCOwnerOf
  CentsOf <- MCCentsOf
  Clerks = {c1, c2}
  \* Purchase
  PurchaseCalls = {q1, q2, q3}
  OrderKeys = {k1, k2}
  OfferedProducts = {g1, g2}
  TTL = 1
  MaxTime = 1
  \* Chat
  OwnMessages = {m1}
  PeerMessages = {m2}
  MaxAttempts = 2
  MaxModerations = 1
  MaxChatFaults = 1
  \* Lifecycle
  Roles = {"api", "background"}
  MaxRequests = 2
  MaxRuntimeFaults = 2
  \* Catalog
  CatalogAdmins = {a1, a2}
  Lots = {l1}
  MaxVersions = 2
  MaxEdits = 1
  MaxAdminCalls = 2
  \* PublicCache
  Visitors = {v1}
  Editors = {w1}
  MaxCommits = 2
  MaxCacheFaults = 1
  \* Paging
  RowCount = 3
  Ticks = 3
  TicksPerMilli = 2
  Ranks = {0, 1}
  MaxLimit = 2
  MaxTableChanges = 1
  \* RefreshLease
  Tabs = {1, 2, 3}
  WebLockTabs = {1, 3}
  StorageTabs = {1, 2}
  MaxOperations = 3
  MaxSuspensions = 2
  \* SecurityLinks
  Addresses = {e0, e1}
  FirstAddress = e0
  Resets = {x1, x2}
  MaxSessionVersion = 2
  MaxEmailChanges = 1
  MaxLinkFaults = 1
  \* RateLimit
  MaxCalls = 2
  Ips = {i1, i2}
  WebSessions = {s1, s2}
  SessionOwner <- MCSessionOwner
  Profiles <- MCProfiles
  Subjects = {z1, z2}
  Bodies <- MCBodies
  RouteClasses = {"write", "read", "query", "login", "security", "resend", "ticket", "phone"}
  SubjectLimit = 1
  IpLimit = 1
  MaxWindows = 2
INVARIANTS WalletMatchesLedger OneOrderPerKey EachMessageOnce OneSessionMutation CleanShutdown
INVARIANTS SectionPointsAtItsSchema ServedIsPublicAndFresh WalkSeesEachRowOnce
INVARIANTS NewestLinkWorks LimitsHold
VIEW MarketplaceView
CHECK_DEADLOCK FALSE
