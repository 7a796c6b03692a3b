\* The guest: batches of payments, fees, deposits, withdrawals and forced exits.
SPECIFICATION Spec
CONSTANTS
  MAX_U64 = 3
  a = a
  m = m
  sink = sink
  zero = zero
  l = l
  NoRecipient = NoRecipient
  NoKey = NoKey
  Addresses = {a, m, sink, zero}
  FEE_SINK = sink
  ZERO_ADDRESS = zero
  L1Accounts = {l}
  SchemeOf <- SchemesOfFour
  MIN_WITHDRAWAL = 2
  DepositAmounts = {1, 3}
  Amounts = {1, 2}
  Fees = {0, 1}
  MaxInbox = 2
INVARIANTS TypeOK BlockLawHolds OneMovePerNonce
PROPERTY HistoryGrows
CHECK_DEADLOCK FALSE
