SPECIFICATION Spec
CONSTANTS
  Peers = {"p1", "p2"}
  Seeds = {"p1"}
  LastBlockNum = 4
  Starts <- MCStarts
  UndoDepth = 1
  IdLimit = 3
  MinIdsToPrefetch = 2
  MaxBlocksPerPeer = 2
  MaxHandled = 2
  MaxPrefetched = 1
  RecentlyAccepted = 2
  Witnesses = {1, 2, 3}
  GenesisWitnesses = {1, 2}
  MaxVoted = 1
  MaxWitnesses = 2
  VirtualSize = 32
  TotalPower = 3
  MaxChanges = 4
  MaxBlock = 5
  Parts = 2
  InitialBlocks = 0
  Producers = {p1, p2, p3}
  BlockInterval = 2
  RoundLength = 2
  MissedThreshold = 1
  VotingBlock = 4
  Irreversible = 75
  Required = 2
  SlotWindow = 3
  HardforkTimes <- MCHardforkTimes
  RequiredParticipation = 1
  MaxUndoHistory = 4
  MaxResigned = 1
  LastSecond = 10
  MaxInstalls = 2
CHECK_DEADLOCK FALSE
INVARIANTS SyncSound ScheduleSound LogSound
PROPERTIES  OnePeerSyncs EveryWitnessGetsItsTurn
