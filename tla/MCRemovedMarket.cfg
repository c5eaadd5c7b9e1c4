CONSTANTS
  alice = alice bob = bob g1 = g1
  b1 = b1 b2 = b2 b3 = b3 b4 = b4 b5 = b5
  result = result total = total
  Accounts = {alice, bob}
  InitialBalance <- MCInitialBalance
  Amounts = {1}
  MaxTime = 4
  Games = {g1}
  Markets = {result, total}
  ThirdState = {total}
  MarketSets = {{result, total}, {total}}
  BetOperations <- MCBetOperations
  Delays = {1}
  ResolveDelays = {2}
  START_TIME_DIFF_MAX = 2
  TIME_POINT_MAX = 9
SPECIFICATION Spec
CHECK_DEADLOCK FALSE
INVARIANTS BetsInMarkets
