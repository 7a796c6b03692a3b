\* The sparse Merkle tree: canonical roots, proofs that work and proofs that lie.
SPECIFICATION Spec
CONSTANTS
  DEPTH = 4
  Paths <- SixPaths
  Accounts = {x, y}
  NoAccount = NoAccount
INVARIANTS RootIsContents WitnessesWork WitnessesAreTrue ExitProofsAgree
