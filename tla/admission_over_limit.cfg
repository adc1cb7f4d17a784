SPECIFICATION Spec
CONSTANTS
  w1 = w1  w2 = w2  r1 = r1  r2 = r2  r3 = r3
  c1 = c1  c2 = c2  d1 = d1  d2 = d2  d3 = d3
  x1 = x1  None = None
  Wallets = {w1}
  Requests = {r1, r2}
  Redemptions = {d1}
  Recoveries = {}
  Codes = {c1}
  Large = {}
  SDCredits = 1
  SecondService = "image-2-sd"
  EditedPrices = {}
  WalletOf <- MCWalletOf
  Tier <- MCTier
  CodeOf <- MCCodeOf
  CodeService <- MCCodeService
  CodeCredits <- MCCodeCredits
  CodeMax <- MCCodeMax
  CreditCost <- MCCreditCost
  NewPrices <- MCNewPrices
  Credits <- MCCredits
  DefaultMax = 1
CHECK_DEADLOCK FALSE
INVARIANTS ServiceConcurrency
