\* The proving host: blocks on the wire, what the guest makes of the bytes, and
\* proofs that are paid for.
SPECIFICATION Spec
CONSTANTS
  BASE = 4
  WORD = 2
  U64_SIZE = 1
  DEPTH = 1
  MAX_U64 = 7
  MIN_WITHDRAWAL = 2
  domain = domain
  Domain = domain
  NoRecipient = NoRecipient
  NoKey = NoKey
  Addresses <- MCAddresses
  L1Accounts <- MCL1Accounts
  SchemeOf <- MCSchemeOf
  IdentifierOf <- MCIdentifierOf
  FEE_SINK <- MCFeeSink
  ZERO_ADDRESS <- MCZeroAddress
  Replays <- MCReplays
  AllScenarios <- MCAllScenarios
  HeavyScenarios = {"any", "probed", "wrong"}
  BlocksOf <- MCBlocksOf
  Arguments <- MCArguments
  Probed = {"probed"}
  Respelt <- MCRespelt
INVARIANTS OnlyTrueBlocksSettle ListsDriveL1 GuestAgrees EncoderIsShortest
  NoBatchWithinABatch NamespacesApart SidecarLinesUp PaidProofsKept
CHECK_DEADLOCK FALSE
