\* One gateway order, one dispute, one user to notify, one small instance of each guard.
SPECIFICATION OperationsSpec
CONSTANTS
  buyer = buyer
  rival = rival
  seller = seller
  admin = admin
  instant = instant
  o1 = o1
  Users <- MCUsers
  MaxCents = 1000
  Products = {instant}
  SellerOf <- InstantSeller
  InstantProducts = {instant}
  StockLevels = {0, 1}
  Orders = {o1}
  BuyerOf <- OneBuyer
  ProductOf <- InstantOrder
  QuantityOf <- OneQuantity
  AmountOf <- OneAmount
  Providers = {liqpay, monobank}
  Admins = {admin}
  FeeBps = 2500
  TestPayments = TRUE
  ModeratorSets = {"active", "paused", "blocked", "deleted"}
  Disputes = {d1}
  Executors = {x1, x2, x3}
  DisputeAdmins = {a1, a2}
  Demotable = {a1}
  MaxFaults = 3
  Members = {u1}
  Chats = {c1, c2}
  ConnectTokens = {t1, t2}
  DeliveryJobs = {j1}
  MaxJobAttempts = 2
  Replicas = {r1, r2}
  Alerts = {n1}
  OrderEvents = {v1}
  REMOTE_EVENT_DEDUP_MAX_ENTRIES = 1
  MAX_TOASTS = 1
  MaxPublishes = 2
  MaxBusFaults = 1
  Accounts = {u1, u2}
  Rooms = {room}
  MaxPanels = 2
  CookieFallback = FALSE
  MaxGenerations = 4
  MaxDrops = 1
  Readers = {q1, q2, q3}
  ImageUploads = {i1, i2, i3}
  STORAGE_MAX_CONCURRENT_READS = 1
  STORAGE_READ_QUEUE_LIMIT = 1
  STORAGE_MAX_CONCURRENT_PROCESSING = 1
  STORAGE_PROCESSING_QUEUE_LIMIT = 1
  MaxStoredBytes = 1
  \* TwoFactor
  Secrets = {k1, k2}
  BACKUP_CODES = {code1}
  MaxCounter = 3
  MaxAccepted = 3
  \* ReleaseGate
  BaseText <- MCBaseText
  SymbolRule <- MCSymbolRule
  AnchorRule <- MCAnchorRule
  BaseMigration = "absent"
  SectionChoices = {{"policy", "backend"}, {"release"}}
  EditKinds <- LineKinds
  MaxTreeEdits = 1
  AuditedPackages = {"p", "q"}
  ListedEntries <- MCListedEntries
INVARIANTS DecisionGovernsOrder TelegramReachesItsOwner
INVARIANTS AlertsReachThePageOnce ConnectionRecovers SlotsServeTheQueue
INVARIANTS CodeAcceptedOnce GreenGateVouches
PROPERTIES ResolvesOnce DeliveredOrderSettles ResolutionCompletesForAdmin
CHECK_DEADLOCK FALSE
