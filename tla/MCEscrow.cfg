\* Two orders of one listing: settlement, disputes, stock and the books.
SPECIFICATION Spec
CONSTANTS
  buyer = buyer
  rival = rival
  seller = seller
  admin = admin
  service = service
  instant = instant
  o1 = o1
  o2 = o2
  Users <- MCUsers
  MaxCents = 1000
  Products = {service}
  SellerOf <- ServiceSeller
  InstantProducts = {}
  StockLevels = {2}
  Orders = {o1, o2}
  BuyerOf <- TwoBuyers
  ProductOf <- ServiceOrders
  QuantityOf <- TwoQuantities
  AmountOf <- TwoAmounts
  Providers = {}
  Admins = {admin}
  FeeBps = 2500
  TestPayments = FALSE
  ModeratorSets = {}
INVARIANTS TypeOK MoneyFollowsStatus WalletsReconcile EscrowBacksOpenOrders EveryTransitionAnnounced
PROPERTIES DisputeFreezesFunds SettlesOnce
CHECK_DEADLOCK FALSE
