\* Scheduled updates against rounds, escapes and batches posted chunk by chunk.
SPECIFICATION CouncilSpec
CONSTANTS
  a = a
  m = m
  u = u
  c = c
  app = app
  v0 = v0
  v1 = v1
  p0 = p0
  p1 = p1
  b0 = b0
  b1 = b1
  None = None
  NoRecipient = NoRecipient
  Addresses = {a}
  SchemeOf <- SchemesOfOne
  L1Accounts = {u, app}
  App = app
  ClosedAccounts = {}
  MAX_U64 = 2
  MIN_WITHDRAWAL = 2
  NETWORK_MIN = 2
  BASE_MBR = 1
  INBOX_MBR = 1
  EXIT_MBR = 1
  CHUNK_SIZE = 2
  ESCAPE_PROGRESS_TRANCHE = 2
  inboxTimeout = 0
  escapeGrace = 0
  updateDelay = 2
  Verifiers = {v0, v1}
  FirstVerifier = v0
  VerifierUpdates = {v0, v1}
  Programs = {p0, p1}
  ThisProgram = p0
  ProgramUpdates = {p1}
  DepositAmounts = {}
  Bytes = {b0, b1}
  MaxRound = 4
  MaxInbox = 0
  MaxPayouts = 2
  MaxBatchLength = 5
  SUPPLY = 2
INVARIANTS KeysTogether PostedBatchIsProvable
PROPERTIES UpdatesWereAnnounced
CHECK_DEADLOCK FALSE
