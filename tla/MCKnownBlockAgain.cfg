CONSTANTS
  a1 = a1 a2 = a2 a3 = a3 a4 = a4 b2 = b2 b3 = b3 b4 = b4 b5 = b5
  c3 = c3 c4 = c4 w1 = w1 w2 = w2 w3 = w3 t1 = t1 t2 = t2
  Genesis = Genesis
  Block = {a1, a2, a3, c3}
  Path <- MCPath
  Producer <- MCProducer
  Txs <- MCTxs
  Validates <- MCValidates
  Witness = {w1, w2, w3}
  Tx = {t1, t2}
  Invalid = {c3}
  InvalidLate = {}
  START_MINER_VOTING_BLOCK = 0
  MAX_WITNESSES = 2
  MAX_UNDO_HISTORY = 10
  FORK_DB_SIZE = 8
  ReplayKills = {1, 2}
SPECIFICATION Spec
INVARIANTS ForkHoldsIrreversible
