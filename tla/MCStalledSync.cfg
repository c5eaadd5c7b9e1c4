SPECIFICATION Spec
CONSTANTS
  Peers = {"p1", "p2"}
  Seeds = {"p1", "p2"}
  LastBlockNum = 3
  Starts <- MCStart
  UndoDepth = 1
  IdLimit = 2
  MinIdsToPrefetch = 1
  MaxBlocksPerPeer = 1
  MaxHandled = 1
  MaxPrefetched = 1
  RecentlyAccepted = 2
CHECK_DEADLOCK FALSE
PROPERTIES SyncCompletes
