\* What the TypeScript client signs against what the guest verifies.
SPECIFICATION Spec
CONSTANTS
  MAX_U64 = 3
  a = a
  b = b
  sink = sink
  zero = zero
  here = here
  elsewhere = elsewhere
  NoRecipient = NoRecipient
  NoKey = NoKey
  Addresses = {a, b, sink, zero}
  FEE_SINK = sink
  ZERO_ADDRESS = zero
  L1Accounts = {b}
  SchemeOf <- SchemesOfFour
  MIN_WITHDRAWAL = 2
  Domain = here
  Asked <- Requests
  DepositAmounts = {3}
  Amounts = {2}
  Fees = {0, 1}
  NewKeys = {a}
  MaxInbox = 3
  MaxTxns = 2
INVARIANTS ClientSignaturesVerify
CHECK_DEADLOCK FALSE
