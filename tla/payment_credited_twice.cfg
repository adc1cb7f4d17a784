CONSTANTS
  w1 = w1
  o1 = o1
  o2 = o2
  NoTrade = NoTrade
  NoOrder = NoOrder
  Orders = {o1}
  Wallets = {w1}
  WalletOf <- MCWalletOf
  Credits <- MCCredits
  Handlers = {h1}
  TradeIds = {t1}
  LateOrders = {o1}
  ForeignOrders = {}
  MaxCredited = 2
SPECIFICATION Spec
CHECK_DEADLOCK FALSE
INVARIANTS CreditedOnce
