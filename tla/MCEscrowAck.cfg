\* A refused confirmation is answered with 200; the order is payable later.
SPECIFICATION Spec
CONSTANTS
  buyer = buyer
  rival = rival
  seller = seller
  admin = admin
  service = service
  instant = instant
  o1 = o1
  o2 = o2
  Users <- MCUsers
  MaxCents = 1000
  Products = {instant}
  SellerOf <- InstantSeller
  InstantProducts = {instant}
  StockLevels = {0, 1}
  Orders = {o1}
  BuyerOf <- OneBuyer
  ProductOf <- InstantOrder
  QuantityOf <- OneQuantity
  AmountOf <- OneAmount
  Providers = {liqpay, monobank}
  Admins = {admin}
  FeeBps = 2500
  TestPayments = FALSE
  ModeratorSets = {}
INVARIANT AckedPaymentNeverPayableAgain
CHECK_DEADLOCK FALSE
