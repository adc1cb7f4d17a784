CONSTANTS
  w1 = w1
  o1 = o1
  o2 = o2
  NoTrade = NoTrade
  NoOrder = NoOrder
  Orders = {o1, o2}
  Wallets = {w1}
  WalletOf <- MCWalletOf
  Credits <- MCCredits
  Handlers = {h1, h2}
  TradeIds = {t1, t2}
  LateOrders = {o2}
  ForeignOrders = {o1}
  MaxCredited = 2
SPECIFICATION FairSpec
CHECK_DEADLOCK FALSE
INVARIANTS TypeOK PunctualCreditedOnce WalletMatchesOrders PaidAtMeansCredited CreditNeedsSettlement TradeIsKept
PROPERTIES ImplementsWalletLedger SettledIsCredited
