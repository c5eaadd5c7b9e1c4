SPECIFICATION Spec
CONSTANTS
  Advertisers = {a1}
  Holders = {h1,h2}
  Signers = {h1}
  Wallet = 14
  Power = 1
  FundSp = 7
  FundPerBlock = 5
  Interval = 2
  CashoutPeriod = 4
  BudgetLimit = 2
  Coefficients <- MCCoefficients
  Percent = 4
  DevPercent = 2
  WitnessPercent = 1
  HoldersPercent = 1
  AdjustPercent = 1
  GuaranteedBlocks = 1
  IncreaseBlocks = 2
  FullPower = 4
  UsedPower = {1,3}
  HoldersPeriod = 4
  BudgetAmounts = {7, 2}
  Delays = {1}
  Lengths = {0,5}
  MissedSlots = {0,1}
  MaxFundOps = 3
  LastTime = 10
CHECK_DEADLOCK FALSE
INVARIANT PendingIsScheduled
