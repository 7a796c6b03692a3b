# A verification project for the payment rollup

TLA+ models of the payment rollup in this repository, the TLC runs that check
them on small instances, and TLAPS proofs, for every value of the constants, of
the settlement contract's safety, of the state transition it relies on, of the
sequencer's ledger, of the sparse Merkle tree under both, of the wire format
between them and of the host that pays for proofs.

- `src/crates/payment-rollup` is the state transition a zkVM guest proves.
- `src/contracts/contracts/rollup-verifier.algo.ts` is the L1 contract that
  holds the money and accepts only proven transitions.
- Between them stand a sequencer (the contract's creator) that is trusted with
  nothing but availability, users who deposit, request, are paid and exit, and
  a security council that may freeze the rollup or announce updates.

## 1. Inventory

### The settlement contract

State: the settled root and inbox position; the batch being posted (five keys);
the inbox (chain, cursor, one box per entry); the payout chain still owed; exit
records; the escape flag and a pending accusation (three keys); verifier keys
and a pending rotation; a pending program update. And the account's balance,
part of which every box locks as minimum balance.

| who | methods |
| --- | --- |
| users | `deposit`, `requestWithdrawal`, `pruneDeposit`, `pruneRequest`, `reclaimDeposit`, `forceExit` |
| sequencer | `openBatch`, `accumulateChunk`, `verifyBatch`, `abandonBatch` |
| anyone | `payWithdrawal`, `signalEscape`, `executeEscape`, `executeVerifierUpdate`, `updateApplication` |
| council | `securityCouncilEscape`, `scheduleVerifierUpdate`, `scheduleApplicationUpdate` |

Correct means: the application can always pay everything it owes; the inbox is
consumed as one FIFO; an accusation is answered by work or ends in an escape;
after an escape everything comes out by permissionless calls; updates wait.

### The state transition

`verify_batch` replays payments, deposits, withdrawals and forced withdrawals
over a running root and folds an inbox chain and a payout chain. Correct means:
value is created only by deposits and destroyed only by payouts; a signature
executes once; every payout is large enough to be payable.

### The commitments they share

Inbox chain, payout chain, chunk fold, public values. Both sides compute the
same hash folds; the contract pins both ends of each.

### The sparse Merkle tree

A compressed tree over 256-bit addresses: an empty subtree, one account, or a
branch with a cached hash. `update` writes or clears a slot, `proof` hands out a
path that ends in the address's own slot or in a neighbour's leaf,
`root_from_proof` folds it up again in the guest and `forceExit` does so on L1.
Correct means: the root depends on the contents alone, one witness serves
before and after a write, and a witness that reproduces the root is true.

### The sequencer's ledger

A `HashMap` of accounts, the tree kept in step with it, and the inbox chain.
`get_block` applies submitted transactions in order, checks their signatures,
captures a witness before every write and returns batch, sidecar and claimed
words; `create_account` writes an empty account between blocks. Correct means:
the guest accepts the block and lands where the ledger says; a signature moves
only what its holder asked for; creating an account wipes none.

### The codec

No state of its own but the address dictionary, which writer and reader rebuild
in step: the first mention of an address is spelt out, later ones are references.
`Batch` and `Sidecar` each have `encode` and `decode`; the sidecar carries no
tags and is read in the shapes the decoded batch dictates. Correct means: what
the ledger builds survives the wire, no bytes are read as two batches or as a
batch and more, L1 recipients and rollup addresses stay apart, and a sidecar
that does not line up is refused.

### The proving host and the guest

A run of the host keeps the fixtures it has emitted, the proof it has just
bought and one file per proved scenario. For every scenario it encodes the
block, replays the bytes natively, compares where that lands with what the block
claims, may run the guest in the zkVM and may buy a proof of it on the network;
then it writes. The guest reads five inputs by position. Correct means: only
true blocks settle, the lists given to whoever drives L1 are the ones the proof
commits to, host and guest agree, and a proof paid for is on disk before the
next one is bought.

### The rest

The signature schemes, the TypeScript client and the benchmarks.

### What is hard here

Nothing runs in parallel inside a call, and a failed call leaves no trace. The
difficulty is the order of calls by parties with different interests: inbox
entries that arrive while a batch is open, an escape that lands mid-batch,
payouts that block the next batch, a deadline that racing calls may extend,
boxes deleted by strangers, refunds at the exact boundary of what was settled.
Off chain it is agreement between pieces of code that never meet in a test: two
layouts of the bytes to sign, an encoder and a decoder that each rebuild the
dictionary, positional inputs across two crates, a ledger and a guest that both
apply the batch; and a host that pays for proofs and may be killed at any point.
`PROJECT.json` lists each hazard at its line with the properties about it.

## 2. Modules

| module | what it is |
| --- | --- |
| `Coins` | `Sum`, adding up u64 amounts, as a cardinality |
| `PaymentRollup` | what guest and contract share: chains, leaves, `BlockLaw` |
| `Replay` | `verify_batch`, one action per transaction kind |
| `VerifyBatch` | `verify_batch` as a function of batch and sidecar; what is signed and verified |
| `Ledger` | the sequencer's ledger and `get_block`; implements `Replay` |
| `RollupVerifier` | the contract, one action per method |
| `Codec` | `Batch` and `Sidecar`, written and read byte by byte |
| `Host` | a run of the proving host, with the guest on the bytes; extends `Codec` |
| `Merkle` | the sparse Merkle tree, its proofs, and the two folds that check them |
| `Watchdog`, `Announcements` | `RollupVerifier` with history variables that only properties read: an accusation and what was discharged since; the rounds of announcements |
| `MCMerkle`, `MCReplay`, `MCLedger`, `MCRollupVerifier`, `MCWatchdog`, `MCCouncil`, `MCHost` | instances for TLC; `MCWatchdog` instantiates `Watchdog` and `MCCouncil` `Announcements` |
| `PaymentRollup_proofs` | the laws of `Sum`, the total under a root, chains one item longer |
| `VerifyBatch_proofs` | what an accepted batch does, whatever its sidecar |
| `Ledger_proofs` | the ledger's blocks verify and it implements `Replay` |
| `Replay_proofs` | what `verify_batch` guarantees over a chain of batches, `BlockLaw` above all |
| `Codec_proofs` | which bytes spell which batch; reading, writing and the shortest spelling |
| `Host_proofs` | the same for the sidecar; what settles and what the lists say; proofs that were paid for survive; the guest agrees with the host |
| `RollupVerifier_proofs` | types, keys and the inbox of the contract; a posted batch; the rounds it waits for: accusations, extensions, updates; it can pay all it owes, and the next payout |
| `Merkle_proofs` | the tree is the one its contents determine, and what its proofs prove, for addresses of any length |

### Abstractions

- SHA-256 is collision free: a chain value *is* the sequence folded into it, a
  state root *is* the map from addresses to leaves. The payout chain is folded
  back to front, so the last element of its sequence is the next payout.
  `Merkle` is where the tree under a root is modelled: there a hash is the term
  it was computed from. `RootsAreContents` proves that a root determines its
  map, and `NoWitnessLies` that a witness which reproduces it is true, for
  addresses of any length, which is what lets the other modules speak of the
  map.
- A proof the Groth16 verifier accepts carries public values of some run of the
  guest. `BlockLaw` is the part of that the contract depends on: the inbox is
  extended, balances plus payouts equal old balances plus deposits folded,
  every payout is at least `MIN_WITHDRAWAL`, accounts keep their keys. The
  `replay` run checks and `EveryBatchObeysTheLaw` proves that `verify_batch`
  obeys it, `AcceptedBatchesObeyTheLaw` that it does whatever the witnesses and
  signatures; `verifyBatch` lets the sequencer end anywhere it allows. The two
  modules meet in this one operator.
- A proof may also *start* anywhere: from the genesis root or chain as a stale
  proof does, from another inbox chain, for another batch, under old keys.
  `ProofMatches` is then what refuses it.
- In `VerifyBatch` and `Ledger` a Merkle proof is the tree it was cut from, so
  a witness is good exactly at the moment it was captured. That is `Merkle`'s
  `WitnessesWork` and `WitnessesAreTrue`, checked there and proved for every
  `DEPTH`, read as an abstraction.
- A signature is the address its key derives and the fields that were signed;
  they have fixed widths, so the bytes are the tuple. `Asked` is what holders
  have signed; anyone may present any of it with any transaction. A managed
  account needs its key's name only.
- A panic of `get_block` ends the process: the step is not taken.
- In `Codec` a byte is a number below `2 * BASE`, a varint has digits below
  `BASE` with the upper half marking that more follow, an address is `WORD`
  bytes, an account's numbers `U64_SIZE` bytes and a path at most `DEPTH`
  siblings. The code has 128, 32, 8 and 256. Reading ends at the first error: a
  reader that has failed passes through every later call unchanged.
- In `Host` the root a replay lands on is what the replay was told, so that two
  replays told different things land on different roots; what it computes from
  it is `VerifyBatch`'s subject. A commitment to bytes is the bytes. Whether
  signatures and witnesses are good is a parameter (`Replays`).
- The network, the zkVM and the file system of `Host` fail when they like, a zkVM
  may commit other words than the native replay, a file that is being written
  when the process dies is unreadable or as it was, and `Kill` comes between any
  two steps. `Hand` is not the host's: whoever sequences may publish any bytes.
  `Respelt` says which are tried; the proofs take any. Batch bytes are bounded by
  `Addressable` only: they do not hold more addresses than a u64 can refer to,
  which with 32-byte addresses no memory does.
- `IsBlock` is what the types say of a block (u64 amounts, 32-byte addresses,
  paths no deeper than the tree) and what `get_block` and `Sidecar::encode` take
  for granted: an entry for each transaction, of its kind, with a witness for
  every slot it writes, and no more transactions than a u64 can refer to the
  addresses of. That the blocks scenarios build are of this form is
  `HostAssumption`; what they say of roots and chains is left free.
- A leaf on L1 has no nonce in the model: nothing on L1 depends on it.
- A key is known by the address it derives. An address has a scheme, or `"none"`
  when no key derives it (the fee sink, the zero address, a mistyped address).
- `InnerPayment` is the ledger's rule (external): an account that does not exist
  must be brought to `NETWORK_MIN`; the sender must keep its minimum balance.
- The application account starts with its base minimum balance: `Init` has
  `balance = BASE_MBR`. `createApplication` pays nothing in; whoever deploys does,
  as `createWithVerifier` of the client does right after creating the application
  (`contracts/src/index.ts:553`). `Solvent` and `PayoutNeverBlocked`, and the
  theorems about them, rest on it.
- Transaction fees are paid by callers and are left out, as the code's
  `fee: 0` inner transactions are.
- Callers of `deposit` and `requestWithdrawal` are not the application itself.

### Correspondence

Every action is named after its method and every variable after its global
key; a deleted key holds `None`. An assertion of the method is a guard, its
assignments are the primed variables. Three global keys of the verifier are one
variable (`verifier`), since they are read and written together. `program`
stands for the approval program; once another program is installed this
specification says nothing, and `Next` is disabled.

In `Replay`, `root` holds an account or `NoAccount` per address; `NextBatch`
starts the next call of `verify_batch` from the words the last one committed,
where the contract pins it.

## 3. Runs

All bounds are constants of the configuration: `MaxRound`, `MaxInbox`,
`MaxPayouts`, `MaxBatchLength`, `SUPPLY`, `MAX_U64`.

| run | shows | bounds and why |
| --- | --- | --- |
| `replay` | conservation, one move per nonce, accounts stay | four addresses (ed25519, managed, sink, zero), amounts to 3 = `MAX_U64` so that credits overflow and nonces run out; two inbox entries give a deposit before and after a request |
| `funds` | types, inbox, solvency, payability | two addresses, an open and a closed L1 account and the app itself as recipients; two entries, two payouts, no rounds: prunes and refunds on both sides of the settled cursor, an escape by the council at any point. Nobody can signal without rounds; what the watchdog's escape does to the batch and to the signal is the subject of `watchdog` |
| `watchdog` | accusations and extensions; the keys of a batch and of a signal | two entries, two payouts, a tranche of 2 and four rounds, so that signals are answered, extended once by an entry settled and a payout made, and lapse; batches are open, posted and abandoned meanwhile, and the escape of the watchdog or of the council lands on a batch, on a signal, and on both. An extension by settlements alone needs a third entry, and a second one more work still: `ExtensionsEarned` covers them |
| `council` | delays of updates; the chunk fold; the keys of a batch and of an update | two verifiers, two programs, rescheduling, a batch in flight, an escape; chunks of 2 bytes and batches of up to 5 with two different bytes: empty, short, exact and remainder cuts |
| `progress` | nothing is stranded, and no inbox entry is ignored for ever | one address, two entries, enough rounds for timeout and grace |
| `ledger` | own blocks verify, both copies of the state agree, payouts reported are payouts queued, signatures bind, a doctored witness redirects nothing, and `Ledger` implements `Replay` | four addresses, one a managed account and one of the 32-byte values also an L1 account; blocks of two transactions, chained; three inbox entries, so that money comes back after a forced exit; requests that differ in kind, nonce and domain only; an account created before any block, between blocks or where one is already |
| `host` | blocks survive the wire, only true ones settle, the lists drive L1, host and guest agree, no other spelling misleads a decoder, paid proofs are kept | bytes below 8 and addresses of 2, so that any byte can be a tag, a count, a reference or part of an address and every number has a one-byte and a two-byte case; one L1 account is spelt like a rollup address. All batches of up to two transactions from 28, all of three from five that differ only in their references, three kinds of witness; of six blocks every spelling that differs by one byte changed, dropped, added or cut, by a padded varint, by an address spelt out, or by the other half of another block; runs that prove up to three scenarios, one of them twice, with blocks that lie among them |
| `merkle` | canonical roots, witnesses that work, none that lie | addresses of 4 bits, six of them, parting at every level; two values of an account. The candidate siblings are the hashes of the tree at that level and the empty one: no other can reproduce the root, and `NoWitnessLies` takes any |

`WitnessesWork` and `WitnessesAreTrue` speak of writes. Passing `None` for an
account that is there gives a root that is not the canonical one, since a sibling
leaf is not pulled up; `verify_batch` never does so, it leaves emptied accounts
in the tree.

Except in `merkle`, deadlock is not checked: a bounded instance stops when its
bounds are used up, an escaped rollup whose money is all out has really
finished, and so has a host that exits.

A single-byte change is where a decoder can go wrong by itself; longer changes
are sequences of them over bytes that already fail to decode, or are other
batches, which the block sets contain. `EncoderIsShortest` says that a decoder
which tolerates longer spellings (a varint with an empty last digit, an address
spelt out twice) still reads one batch from each; the commitment is to the bytes,
so two spellings are two commitments to one batch and nothing depends on their
being equal.

`PaidProofsKept` excepts the scenario in hand: a kill between the network's
answer and the file, or in the middle of writing it, loses that one proof, and an
earlier one of the same scenario with it, since the file is written in place. The
code does not promise more. `bought` holds the proofs the host accepts: one that
was paid for and then refused, because its public values are not those of the
native replay or because it is not a Groth16 proof (`prove.rs:123`), is given up
by the code and is outside the property.

`ImplementsReplay` allows a step that `Replay` does not have, `create_account`,
and pins it to adding an empty account where there was none while no block is
under way. A block built after it starts at a root that no batch led to, which
the contract would refuse; nothing in the code prevents it and no property here
rules it out. Tests and scenarios create their accounts first.

`discharged`, which `ExtensionsAreEarned` counts with, includes payouts made by
outsiders, which earn the sequencer nothing in the code: where outsiders drain
part of the chain the bound on the deadline is looser than the truth.

`PayoutNeverBlocked` restates the comment of `payWithdrawal`, "The payment
cannot fail".

### Fairness

`LiveSpec` assumes weak fairness of permissionless calls only: `signalEscape`,
`executeEscape`, `payWithdrawal` by an outsider, `reclaimDeposit` and
`forceExit`. Any holder, recipient or depositor can make them and is paid for
it. Time is fair too, but does not run past a round in which someone could
signal or execute an escape, which is what "anyone may" amounts to. Nothing is
assumed of the sequencer or of the council. The inbox fills in round 0, so that
later entries do not use up the bound on rounds.

### Disagreements between code and comments

Four runs end in a violation, each of a sentence in the repository.

- `lapse`: "Once the deadline has passed no settlement can race
  `executeEscape`". `creditEscapeProgress` does not look at the round, so the
  creator's payouts can move a deadline that has already passed, and settlement
  resumes unless `executeEscape` came first.
- `zero_address`: the zero address "never enters the tree at all". A payment or
  deposit that names it as receiver creates an account there.
- `exits`: an escape lets "every user" out. `forceExit` checks ed25519 keys
  only, so a hybrid account stays in. The contract says so openly where it lists
  the schemes ("`"f1h"` is absent because nothing on this side checks it yet",
  `rollup-verifier.algo.ts:105`); it is the sentences about every user, at line
  429 and in the repository's README, that claim too much.
- `client_signing`: the client's `paymentMessage` is "Bytes an L2 payment signs".
  It leaves out the fee that the guest's `bytes_to_sign` has, so a signature over
  it never verifies, not even for a fee of zero.

A comment on `inboxTimeout`, repeated in the client, says that there is no
`UpdateApplication` handler. There is one, behind a delay; the `council` run
models it.

## 4. Proofs

For every value of the constants, under the assumptions named in the modules;
TLC evaluates them on the runs of their modules. They say what the types of the
code say (amounts are u64, addresses finite in number, a key derives one
address), that a constant which means "absent" is no value, and that the zero
address and the fee sink have no key.

| theorem | states | module |
| --- | --- | --- |
| `TypeCorrect` | `Spec => []TypeOK` | `RollupVerifier_proofs` |
| `KeysLiveTogether` | `Spec => []KeysTogether` | |
| `InboxStaysIntact` | `Spec => []InboxIntact` | |
| `PostedIsProvable` | `Spec => []PostedBatchIsProvable` | |
| `AccusationAlwaysStands` | `Spec => []AccusationStands` | |
| `ExtensionsEarned` | `WatchdogSpec => []ExtensionsAreEarned` | |
| `UpdatesAreAnnounced` | `CouncilSpec => UpdatesWereAnnounced` | |
| `AlwaysSolvent` | `Spec => []Solvent` | |
| `PayoutsNeverBlock` | `Spec => []PayoutNeverBlocked` | |
| `ReplayTypeCorrect` | `Spec => []TypeOK` | `Replay_proofs` |
| `EveryBatchObeysTheLaw` | `Spec => []BlockLawHolds` | |
| `NoNonceMovesTwice` | `Spec => []OneMovePerNonce` | |
| `AccountsOnlyGrowOlder` | `Spec => HistoryGrows` | |
| `SidecarIsEvidence` | two sidecars accepted with one batch commit the same | `VerifyBatch_proofs` |
| `AcceptedBatchesObeyTheLaw` | an accepted batch obeys `BlockLaw`, whatever its sidecar | |
| `SignaturesExecuteOnce` | every spend is signed by its sender, and no signature executes twice | |
| `TreeFollowsAccounts` | `Spec => []TreeInStep` | `Ledger_proofs` |
| `BlocksVerify` | `Spec => []OwnBlocksVerify` | |
| `PayoutsAreReported` | `Spec => []PayoutsReported` | |
| `SpendsAreAsAsked` | `Spec => []SpendsAsAsked` | |
| `NoRedirection` | `Spec => []SidecarCannotRedirect` | |
| `LedgerImplementsReplay` | `Spec => ImplementsReplay` | |
| `TreeIsCanonical` | `Spec => [](tree = TreeOf(contents))` | `Merkle_proofs` |
| `RootsAreContents` | `Spec => []RootIsContents` | |
| `WitnessesAlwaysWork` | `Spec => []WitnessesWork` | |
| `NoWitnessLies` | a witness that reproduces the root of any contents is true of them, whatever its siblings | |
| `WitnessesAreAlwaysTrue` | `Spec => []WitnessesAreTrue` | |
| `ExitProofsAlwaysAgree` | `Spec => []ExitProofsAgree` | |
| `ProofsAreKept` | `Spec => []PaidProofsKept` | `Host_proofs` |
| `GuestAgreesWithHost` | `Spec => []GuestAgrees` | |
| `BlocksSurviveTheWire` | every block decodes as it was encoded, batch and sidecar | |
| `TrueBlocksSettle` | `Spec => []OnlyTrueBlocksSettle` | |
| `ListsAreCommitted` | `Spec => []ListsDriveL1` | |
| `EncodesShortest` | `Spec => []EncoderIsShortest` | |
| `NothingGoesOn` | `Spec => []NoBatchWithinABatch` | |
| `NamespacesStayApart` | `Spec => []NamespacesApart` | |
| `SidecarsLineUp` | `Spec => []SidecarLinesUp` | |

### The contract

None of the first three is inductive alone. `sealedInboxCursor - settledInboxCursor`
is a natural number only because the seal extends the settled prefix
(`InboxIntact`); `escapeProgress + 1` is one only because progress exists with
the deadline (`KeysTogether`); and a pruned box leaves the inbox intact only
because it lies below the settled cursor or the rollup has escaped. So the
invariant is their conjunction `Bookkeeping`, with one lemma per group of
methods (`CouncilKeepsBooks`, `InboxGrowthKeepsBooks`, `PruneKeepsBooks`,
`WatchdogKeepsBooks`, `PayoutKeepsBooks`, `ExitKeepsBooks`, `OpenKeepsBooks`,
`PostKeepsBooks`, `SettlementKeepsBooks`) and `Frame` for what a method leaves
alone.

`Posting` adds `CutSoFar` to the books: after n chunks the posted length is n
chunks or the whole batch, and every chunk is full but one that ends the batch.
The property speaks of a batch posted in full only; half way it says nothing, not
even that no short chunk has been taken in the middle. `CutIsOfBytes`
reads the byte string back from the chunks, by dividing a position by the chunk
size.

`Accusation` adds `BoxesPast` to the books: a signal gives every accused entry
the whole grace period because no box is dated later than the round of the
signal. `QuietStep` covers the steps that settle nothing, `SignalStands` and
`SettlementStands` the other two.

`Earned` counts: `WindowsBought` names the number of windows added since the
signal and says that so many tranches *and the progress towards the next* are
covered by what was discharged. The property forgets that progress, and is not
inductive without it: progress that nothing paid for would buy the next window.

`Announced` has, for both kinds of update, a pending date at least a delay after
the announcement (`Dated`), and no announcement in the future, so that a second
announcement moves the date on and never back.

`Solvency` adds three facts to the books and to `Solvent`. Before an escape
nothing has been exited (`NoExitBeforeEscape`), so that `BlockLaw`, which speaks
of all balances, speaks of all that is owed on L2. A stored chain is not empty
and each of its payouts is at least `MIN_WITHDRAWAL` (`PayoutsPayable`). The
cases are then: a box is added or removed (`OneBoxMore`), the head of the chain
is paid (`PayoutSplit`), an address leaves the sum (`SumSplit`), and a
settlement moves the deposits of the boxes between two cursors into balances and
payouts (`SettledBoxes`, which needs `InboxIntact`: none of those boxes is
missing and each agrees with its entry of the chain). `BlockLaw` itself is what
the proof assumes of the guest, and what `EveryBatchObeysTheLaw` and
`AcceptedBatchesObeyTheLaw` prove of it.

`Sum` is a cardinality so that its laws (`PaymentRollup_proofs`: disjoint union,
one element more or less, one value changed) follow from the library's theorems
on finite sets.

### The guest

`Replayed` is the invariant of the chain of batches in `Replay`. Its parts beyond
the properties: `NoncesAhead` (no value has left an account at a nonce it has not
reached; without it the next move could be the second at its nonce), `Pinned` (an
account is held by the key its address derives: the last clause of the law, and
what tells an account of amount zero from an empty slot), and `Conserved` with the
payouts in the order they were queued. Each write of the replay has a lemma on the
total, the nonces and the keys (`DebitWrites`, `CreditWrites`, `FeeWrites`,
`FundsWrite`), a transaction is a few of them in a row, also when they write one
slot twice; `QueueReversed` turns the queue into the chain, by `SumReindex`: a sum
does not depend on how its values are numbered.

`Replay` takes witnesses to be true and signatures to be known by their key.
`VerifyBatch_proofs` takes nothing of the kind: the batch and its sidecar are
arbitrary, but for the types of the batch's fields. The argument is one that
`expect_pre_state` carries: a witness that passes shows the account that is in
the running root, so after it the sidecar has no say. `verify_batch` is a loop,
and what it computes is proved by induction over the transactions. The library's
induction theorems take a predicate as a parameter, which the provers cannot
instantiate; `Induction` takes the property as a *set* of numbers instead, and
rests on `LeastNumber`. `LoopLaw` carries `Lawful` (conserved so far, payouts
payable, accounts in their own slots) over one turn, with a lemma for each thing a
turn may do (`DebitLaw`, `CreditLaw`, `FeeLaw`, `ForceLaw`, `PayoutLaw`).
`SignaturesExecuteOnce` uses that nonces never go back between two turns
(`NoncesGrowOn`) and go forward over a spend, and that the nonce is in the bytes
that are signed (`SpendIsSigned`); the root it starts from must hold accounts
under their own keys, which `AcceptedBatchesObeyTheLaw` keeps.

### The ledger

`LedgerInv` is what `get_block` maintains after each transaction: every account
sits in the slot of its own address and the tree is the image of the `HashMap`
(`InStep`), the block recorded so far is well formed (`Typed`), between two calls
the locals stand where the next call sets them (`BlockBegins`), and the
properties. `OwnBlocksVerify` is inductive with these because the replay of one
transaction more is one turn from where the ledger stands, and each witness was
captured after the writes that come before its use, the receiver's after the
debit and the fee sink's after both. The refinement needs `InStep` too: `Replay`
asks whether a slot is empty where the ledger asks its map. `NoRedirection`
is `SidecarIsEvidence` applied to the ledger's own block.

### The Merkle tree

The invariant is `Canonical`: the tree, cached hashes included, is `TreeOf` of
its contents. It is stronger than the property, which compares roots: equal
roots say nothing of the nodes the next update walks through. Everything rests
on one picture. At level n of the path to an address stands the subtree of the
accounts that share its first n bits (`PathIs`, down to the first that is no
branch, `PathEnds`), and joining the subtrees beside the path, from any level up
to any other, gives the subtree there (`BranchesRise` for nodes, `HashesRise`
for hashes, `ShrunkRise` when something was removed). A write changes only the
subtrees above it (`Untouched`, `AsideUntouched`); two leaves in one slot part
where their bits do (`TwoLeaves`, `SplitIs`, `BothIs`); a branch left with one
account or none is that account or nothing (`ShrunkIs`). So `InsertIs` and
`RemoveIs`.

`Fits` says which proofs belong to a tree: the right sibling beside every branch
of the path, and at its end the slot itself or the one neighbour in its way.
`prove` makes such a proof (`ProveFits`), it reproduces the root
(`FitsReproduces`), and it still fits after a write to its own address
(`FitsAfterWrite`). Conversely only a fitting proof reproduces a root
(`OnlyFitting`): a hash is taken apart level by level from the root, and at each
the tag and the two halves must agree with the tree's (`HashTags`,
`OneLevelDown`, `HashesFall`). Here any siblings are admitted, not only the
hashes the run tries.

Recursive functions over the levels are shown to exist by `RisesExists` and
`FallsExists`, whose parameter is one step of the loop, and the inductions are
`Upwards` and `Downwards` over a set of levels.

### The codec

A decoder is a loop over a state that records, and errs, at every byte. The proof
does without most of that: for every kind of field, `Spelt` says which bytes spell
which value while the dictionary holds what it holds, and two lemmas tie it to the
reader. `FieldReads`: what spells a value is read as that value, and what follows
is left. `FieldTaken`: whatever was read successfully was spelt so. Fields make a
transaction (`FieldsRead`, `FieldsTaken`) and transactions a batch
(`TransactionsRead`, `TransactionsTaken`), each by an induction along the recursive
function the loop is. After `BatchReads` and `BatchTaken` the decoder is no longer
mentioned:

- `NothingWithin`: if a beginning were a batch too, reading the whole would have
  found the rest to be trailing bytes, since reading does not look ahead.
- `OnlyNames`: the only field that adds to the dictionary is an address, and the
  layout of a transaction puts addresses where it names rollup accounts.
- `BatchRoundTrip`: what `Batch::encode` writes spells what it was given. The
  encoder looks an address up and the decoder counts literals; that both hold the
  same dictionary is part of the induction (`BatchWrites`).
- `BatchShort`: the decoder's dictionary may hold an address twice where somebody
  spelt it out again, the encoder's never does. `Tidy` relates the two: what the
  decoder has seen the encoder has, at a position no later. `FieldStepShort` then
  says that no field is encoded longer than it was spelt, and that as long as the
  two dictionaries are equal a field equally long is the same bytes. A reference
  gets no longer, and an address spelt out again becomes a reference, which is
  shorter because a varint is no longer than an address (`ReferenceFits`, from
  `CodecAssumption`: ten bytes to thirty-two in the code).

Numbers are the part with arithmetic (`VarintReads`, `VarintTakes`,
`NumberShortest`): what is left after n shifts is divided out (`LeftCut`), a
payload fits at its place exactly if the value stays a u64 (`OverflowsIs`), and a
number with fewer digits is spelt in fewer bytes. Powers are a recursive function,
`Powers`, of which only the two defining equations are used.

The sidecar goes the same way in `Host_proofs`, with one difference: its layout
comes from the batch beside it, so `SidecarTaken` gives as many entries as there
are transactions, each of its transaction's kind, and there is no dictionary.

### The host

`HostInv` has three parts. `KeptSoFar`: a proof is in hand exactly from the
network's answer to the file (`InHand`), a scenario in hand has a file of its own
(`NameIsFound`, from `HostAssumption`), and files change at its name only. What
encoding and replay compute plays no part in it. `InTheHand`: what has settled is
`for_block` of a block that a scenario builds, and a run ended by `for_block` had
such a block refused; the error is recorded (`why`) because the state alone does
not show it. `HandedBytes`: what somebody else handed over is bytes.

`GuestAgreesWithHost` needs only that what settles was executed on the same bytes
(`SettlementIsExecuted`). `TrueBlocksSettle` is `SettlesHonest`: `execute` sees the
block through its two encodings, and by `BlocksSurviveTheWire` it sees the block.
`ListsAreCommitted` follows the inbox items and the payouts through the loop of the
replay (`InboxInOrder`, `PayoutsInOrder`). The other four are lemmas on the codec,
applied to `HandedBytes`.

### Only model-checked

Every safety invariant and action property of the passing runs is also a theorem.
What TLC alone checks is the four progress properties, since fairness and ENABLED
are out of the proof system's reach, and the four disagreements of section 3.

## 5. Not modelled

- The cryptography (hashes, signatures, the Falcon arithmetic, Groth16) beyond
  the assumptions above.
- The blocks that `scenarios.rs` builds: they are data, and `Host` takes any
  block; the names it lists and finds are modelled. The JSON layout of fixtures,
  the cost figures of reports, the parsing of single options.
- The TypeScript client's loops. Its calls are the arguments with which the
  contract's actions are enabled, and each of them may fail to come; a process
  that stops half way and is resumed by another is therefore among the
  behaviours of `RollupVerifier`. The bytes it signs are in `VerifyBatch`.
- The signature-scheme benchmarks, which are no part of the rollup.
- Transaction fees, group limits, opcode budgets and `opUp`.
- Deposits or requests with the application itself as caller.

## 6. Plan

What is left, in this order:

1. `Escrow`: what the contract promises in a page (money in, money owed, money
   out), and `RollupVerifier` shown to implement it.
2. `Client`: the loop of opening, posting, settling and draining as a process of
   its own, with the messages of requests and exits on both sides.
