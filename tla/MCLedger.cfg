SPECIFICATION Spec
CONSTANTS
  Persons = {1, 2, 3, 4}
  Founders <- MCFounders
  MembersLimit = 2
  ProposedOps <- MCProposedOps
  Lifetimes = {1}
  DevPoolScr = 3
  DevPoolSp = 1
  PoolLockedUntil = 1
  LastBlock = 2
  Voters = {"a", "b", "c", "d"}
  Candidates = {"w"}
  ProxyDepth = 2
  ProxyPairs <- MCProxyPairs
  MaxWitnessVotes = 1
  DeclinePeriod = 1
  GenesisPower = 1
  MaxPower = 1
  LastVoteBlock = 2
  MaxDeclining = 1
  Owners = {0, 1, 2}
  Founding = {0, 1}
  GenesisScr = 1
  GenesisSp = 5
  PoolSp = 1
  RegistrationPool = 2
  Bonus = 1
  FirstBonuses = {1}
  Member = 0
  LockedUntil = 1
  WithdrawIntervals = 2
  MaxRoutes = 2
  Whole = 2
  Percents = {0, 1, 2}
  LimboTime = 1
  BonusTime = 2
  CreateTime = 1
  MinPower = 0
  MinDelegation = 1
  MinUpdate = 1
  PowerAmounts = {0, 1, 5}
  LastInstalment = 4
  MaxPowerOps = 3
  RoutePairs <- MCRoutePairs
  Advertisers = {a1}
  Holders = {h1, h2}
  Signers = {h1}
  Wallet = 14
  Power = 1
  FundSp = 7
  FundPerBlock = 5
  Interval = 2
  CashoutPeriod = 4
  BudgetLimit = 2
  Coefficients <- MCCoefficients
  Percent = 4
  DevPercent = 2
  WitnessPercent = 1
  HoldersPercent = 1
  AdjustPercent = 1
  GuaranteedBlocks = 1
  IncreaseBlocks = 2
  FullPower = 4
  UsedPower = {1, 3}
  HoldersPeriod = 4
  BudgetAmounts = {7, 2}
  Delays = {1}
  Lengths = {0, 5}
  MissedSlots = {0, 1}
  MaxFundOps = 3
  LastTime = 8
  Users = {"u", "v"}
  CommentKeys = {"k1", "k2", "k3"}
  Author <- MCAuthor
  Window = 3
  Lockout = 1
  AuctionWindow = 1
  RootInterval = 1
  ReplyInterval = 0
  DecayTime = 4
  MaxDepth = 2
  MaxVoteChanges = 1
  MinPayout = 2
  FullPercent = 4
  CurationPercent = 1
  ParentPercent = 2
  Unlimited = 100
  ContentBalance = 40
  Replies <- MCReplies
  Weights <- MCWeights
  Shares = {5}
  Options <- MCOptions
  MaxCommentOps = 4
  LastCommentBlock = 5
  Names = {"g", "u"}
  GenesisNames = {"g"}
  OwnerAuths = {"o1", "o2", "m"}
  NoAuth = "no"
  OpenAuth = "open"
  KeysIn <- MCKeysIn
  AccountsIn <- MCAccountsIn
  Creations <- MCCreations
  Updates <- MCUpdates
  Recoveries = {"o1"}
  OwnerUpdateLimit = 1
  RecoveryPeriod = 2
  RequestPeriod = 1
  LastAccountTime = 5
  MaxAccountOps = 4
  Registrars = {"r"}
  Newcomers <- MCNewcomers
  Genesis <- MCGenesis
  Schedule <- MCSchedule
  MaximumBonus = 2
  RegistrationSupply = 13
  LimitPerMember = 2
  WindowBlocks = 2
  BonusExpiration = 2
  LastRegistration = 4
CHECK_DEADLOCK FALSE
INVARIANTS VotesCounted PowerSound FundsSound CommentsSound RegistrationSound
PROPERTIES ProposalsSound AccountsSound
