\* Money: every interleaving of deposits, requests, settlements by a sequencer
\* that proves what it likes, payouts, prunes, the council's escape, refunds and
\* exits.  No rounds pass, so nobody can signal: MCWatchdog.cfg has the watchdog.
SPECIFICATION Spec
CONSTANTS
  a = a
  m = m
  u = u
  c = c
  app = app
  v0 = v0
  v1 = v1
  p0 = p0
  p1 = p1
  b0 = b0
  b1 = b1
  None = None
  NoRecipient = NoRecipient
  Addresses = {a, m}
  SchemeOf <- SchemesOfTwo
  L1Accounts = {u, c, app}
  App = app
  ClosedAccounts = {c}
  MAX_U64 = 9
  MIN_WITHDRAWAL = 2
  NETWORK_MIN = 2
  BASE_MBR = 1
  INBOX_MBR = 1
  EXIT_MBR = 1
  CHUNK_SIZE = 1
  ESCAPE_PROGRESS_TRANCHE = 2
  inboxTimeout = 0
  escapeGrace = 0
  updateDelay = 0
  Verifiers = {v0}
  FirstVerifier = v0
  VerifierUpdates = {}
  Programs = {p0}
  ThisProgram = p0
  ProgramUpdates = {}
  DepositAmounts = {1, 3}
  Bytes = {b0}
  MaxRound = 0
  MaxInbox = 2
  MaxPayouts = 2
  MaxBatchLength = 1
  SUPPLY = 9
INVARIANTS TypeOK InboxIntact Solvent PayoutNeverBlocked
CHECK_DEADLOCK FALSE
