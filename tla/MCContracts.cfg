CONSTANTS
  alice = alice bob = bob carol = carol
  Accounts = {alice, bob, carol}
  InitialBalance <- MCInitialBalance
  Amounts = {1, 2}
  MaxTime = 4
  EscrowIds = {1}
  EscrowRoles <- MCEscrowRoles
  SwapRoles <- MCSwapRoles
  Fees = {1}
  Secrets = {s}
  s = s
  INITIATOR_REFUND_LOCK = 2
  PARTICIPANT_REFUND_LOCK = 1
  LIMIT_PER_OWNER = 2
  LIMIT_PER_RECIPIENT = 1
SPECIFICATION Spec
INVARIANTS LedgerSound NothingOverdue PaidOnce
PROPERTIES EscrowEndsInFull InitiatorLocked
