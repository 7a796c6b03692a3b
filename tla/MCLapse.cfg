\* The same system, asked whether a lapsed grace period is final.
SPECIFICATION WatchdogSpec
CONSTANTS
  a = a
  m = m
  u = u
  c = c
  app = app
  v0 = v0
  v1 = v1
  p0 = p0
  p1 = p1
  b0 = b0
  b1 = b1
  None = None
  NoRecipient = NoRecipient
  Addresses = {a}
  SchemeOf <- SchemesOfOne
  L1Accounts = {u, app}
  App = app
  ClosedAccounts = {}
  MAX_U64 = 11
  MIN_WITHDRAWAL = 2
  NETWORK_MIN = 2
  BASE_MBR = 1
  INBOX_MBR = 1
  EXIT_MBR = 1
  CHUNK_SIZE = 1
  ESCAPE_PROGRESS_TRANCHE = 2
  inboxTimeout = 1
  escapeGrace = 1
  updateDelay = 0
  Verifiers = {v0}
  FirstVerifier = v0
  VerifierUpdates = {}
  Programs = {p0}
  ThisProgram = p0
  ProgramUpdates = {}
  DepositAmounts = {4}
  Bytes = {b0}
  MaxRound = 5
  MaxInbox = 2
  MaxPayouts = 2
  MaxBatchLength = 1
  SUPPLY = 11
PROPERTIES LapseIsFinal
CHECK_DEADLOCK FALSE
