--------------------------- MODULE RollupVerifier ---------------------------
(***************************************************************************)
(* The settlement contract, contracts/contracts/rollup-verifier.algo.ts:   *)
(* one variable per global key or box map, one action per method.          *)
(*                                                                         *)
(* The sequencer (the creator) is not trusted: it may open, post, settle   *)
(* and abandon as it likes, and settle with any public values a guest      *)
(* proof can carry, which is what BlockLaw says.  Everyone else may call   *)
(* the permissionless methods in any order.  A method whose assertion      *)
(* fails has no effect, so an assertion is a guard.                        *)
(***************************************************************************)
EXTENDS PaymentRollup

CONSTANTS
  App,                     \* the application's own L1 account
  ClosedAccounts,          \* L1 accounts that do not exist when they are paid
  None,                    \* a global key that holds no value
  NETWORK_MIN,             \* the least a payment must bring a closed account
  BASE_MBR,                \* minimum balance of the bare application account
  INBOX_MBR,               \* minimum balance one inbox box locks
  EXIT_MBR,                \* minimum balance one exit record locks
  CHUNK_SIZE,
  ESCAPE_PROGRESS_TRANCHE,
  inboxTimeout, escapeGrace, updateDelay,   \* chosen by createApplication
  Verifiers,               \* <<verifierAddress, programVkeyHash, recursionVkeyRoot>>
  Programs,                \* approval programs, the first one being this code
  FirstVerifier, ThisProgram,
  VerifierUpdates,         \* the verifiers the council may schedule
  ProgramUpdates,          \* the programs the council may schedule
  DepositAmounts,          \* the amounts users deposit
  Bytes,                   \* the bytes batches are made of
  MaxRound,                \* bound: rounds
  MaxInbox,                \* bound: inbox entries
  MaxPayouts,              \* bound: payouts one batch commits
  MaxBatchLength,          \* bound: bytes of a batch
  SUPPLY                   \* bound: ALGO the application can come to hold

ChunkAccumulator == [length : Nat, chunks : Seq(Seq(Bytes))]

ASSUME ContractAssumption ==
  /\ App \in L1Accounts /\ ClosedAccounts \subseteq L1Accounts \ {App}
  /\ NETWORK_MIN \in Nat /\ NETWORK_MIN <= MIN_WITHDRAWAL
  /\ BASE_MBR \in Nat /\ INBOX_MBR \in Nat /\ EXIT_MBR \in Nat
  /\ CHUNK_SIZE \in Nat \ {0} /\ ESCAPE_PROGRESS_TRANCHE \in Nat \ {0}
  /\ inboxTimeout \in Nat /\ escapeGrace \in Nat /\ updateDelay \in Nat
  /\ MaxRound \in Nat /\ MaxInbox \in Nat
  /\ MaxPayouts \in Nat /\ MaxBatchLength \in Nat
  /\ SUPPLY \in Nat /\ BASE_MBR <= SUPPLY /\ SUPPLY <= MAX_U64
ASSUME NoneAssumption ==
  /\ None \notin Nat /\ None \notin Verifiers /\ None \notin Programs
  /\ None \notin Seq(Payout) /\ None \notin Seq(InboxEntry)
  /\ None \notin ChunkAccumulator
ASSUME InputAssumption ==
  /\ FirstVerifier \in Verifiers /\ ThisProgram \in Programs
  /\ VerifierUpdates \subseteq Verifiers /\ ProgramUpdates \subseteq Programs
  /\ DepositAmounts \subseteq U64

VARIABLES
  round,                   \* Global.round
  balance,                 \* what the application account holds
  stateRoot,
  chunkAccumulator, batchLength, postedLength,
  sealedInboxChain, sealedInboxCursor,
  inboxChain, inboxCursor, requestCursor, inbox,
  settledInboxChain, settledInboxCursor,
  pendingWithdrawals,
  exits,
  escaped, escapeDeadline, escapeInboxTarget, escapeProgress,
  verifier, pendingVerifier, verifierUpdateAfter,
  program, pendingApprovalProgramHash, applicationUpdateAfter

batchVars == <<chunkAccumulator, batchLength, postedLength,
               sealedInboxChain, sealedInboxCursor>>
inboxVars == <<inboxChain, inboxCursor, requestCursor, inbox>>
settledVars == <<stateRoot, settledInboxChain, settledInboxCursor>>
escapeVars == <<escaped, escapeDeadline, escapeInboxTarget, escapeProgress>>
updateVars == <<verifier, pendingVerifier, verifierUpdateAfter,
                program, pendingApprovalProgramHash, applicationUpdateAfter>>
vars == <<round, balance, batchVars, inboxVars, settledVars,
          pendingWithdrawals, exits, escapeVars, updateVars>>

InboxRecord == [kind : {"d", "w"}, address : Addresses,
                recipient : L1Accounts \cup {NoRecipient}, amount : U64,
                payer : L1Accounts, round : Nat, chainAfter : Seq(InboxEntry)]

-----------------------------------------------------------------------------
(* The ledger's rules for the application account. *)

appMinBalance ==
  BASE_MBR + INBOX_MBR * Cardinality(DOMAIN inbox)
           + EXIT_MBR * Cardinality(DOMAIN exits)

\* Bug: the minimum balance itself may not be left behind.
InnerPaymentStrict(receiver, amount) ==
  /\ receiver \in ClosedAccounts => amount >= NETWORK_MIN
  /\ balance' = IF receiver = App THEN balance ELSE balance - amount
  /\ balance' > appMinBalance'

(* An inner payment: it must bring a closed account to life, and may not take
   the application below the minimum balance its boxes require. *)
InnerPayment(receiver, amount) ==
  /\ receiver \in ClosedAccounts => amount >= NETWORK_MIN
  /\ balance' = IF receiver = App THEN balance ELSE balance - amount
  /\ balance' >= appMinBalance'

(* The chunk fold: what has been declared and what has been posted. *)
chunk_accumulator_seed(length) == [length |-> length, chunks |-> << >>]
accumulate_chunk(acc, chunk) == [acc EXCEPT !.chunks = Append(@, chunk)]

(* batch_commitment of the guest: the same fold over the bytes cut into full
   chunks and one remainder. *)
Least(x, y) == IF x <= y THEN x ELSE y
chunk_count(length) == (length + CHUNK_SIZE - 1) \div CHUNK_SIZE
batch_commitment(bytes) ==
  [length |-> Len(bytes),
   chunks |-> [i \in 1..chunk_count(Len(bytes)) |->
                 SubSeq(bytes, (i - 1) * CHUNK_SIZE + 1,
                        Least(i * CHUNK_SIZE, Len(bytes)))]]

ByteStrings(lengths) == UNION {[1..n -> Bytes] : n \in lengths}

(* Forget the batch being posted: five keys, always together. *)
ForgetBatch ==
  /\ chunkAccumulator' = None /\ batchLength' = None /\ postedLength' = None
  /\ sealedInboxChain' = None /\ sealedInboxCursor' = None

\* Bug: the target and the progress of a signal outlive its deadline.
ClearDeadlineOnly ==
  escapeDeadline' = None /\ UNCHANGED <<escapeInboxTarget, escapeProgress>>

(* Forget an accusation: three keys, always together. *)
ClearSignal ==
  escapeDeadline' = None /\ escapeInboxTarget' = None /\ escapeProgress' = None

-----------------------------------------------------------------------------
(* The security council. *)

\* Bug: the announced keys stay behind when their date is deleted.
ForgetVerifierDateOnly ==
  verifierUpdateAfter' = None /\ UNCHANGED pendingVerifier

ForgetVerifierUpdate == pendingVerifier' = None /\ verifierUpdateAfter' = None

\* Bug: a replaced announcement inherits the date of the one it replaces.
UpdateRoundKept(after) == IF after = None THEN round + updateDelay ELSE after

(* Every announcement starts its own delay. *)
UpdateRound(after) == round + updateDelay

securityCouncilEscape ==
  /\ ~escaped
  /\ escaped' = TRUE
  /\ ClearSignal
  /\ ForgetVerifierUpdate
  /\ pendingApprovalProgramHash' = None /\ applicationUpdateAfter' = None
  /\ ForgetBatch
  /\ UNCHANGED <<round, balance, inboxVars, settledVars, pendingWithdrawals,
                 exits, verifier, program>>

scheduleVerifierUpdate(keys) ==
  /\ ~escaped
  /\ batchLength = None
  /\ pendingVerifier' = keys
  /\ verifierUpdateAfter' = UpdateRound(verifierUpdateAfter)
  /\ UNCHANGED <<round, balance, batchVars, inboxVars, settledVars,
                 pendingWithdrawals, exits, escapeVars, verifier, program,
                 pendingApprovalProgramHash, applicationUpdateAfter>>

executeVerifierUpdate ==
  /\ ~escaped
  /\ verifierUpdateAfter # None
  /\ round >= verifierUpdateAfter
  /\ verifier' = pendingVerifier
  /\ ForgetVerifierUpdate
  /\ UNCHANGED <<round, balance, batchVars, inboxVars, settledVars,
                 pendingWithdrawals, exits, escapeVars, program,
                 pendingApprovalProgramHash, applicationUpdateAfter>>

scheduleApplicationUpdate(approvalProgram) ==
  /\ ~escaped
  /\ pendingApprovalProgramHash' = approvalProgram
  /\ applicationUpdateAfter' = UpdateRound(applicationUpdateAfter)
  /\ UNCHANGED <<round, balance, batchVars, inboxVars, settledVars,
                 pendingWithdrawals, exits, escapeVars, verifier,
                 pendingVerifier, verifierUpdateAfter, program>>

updateApplication(approvalProgram) ==
  /\ ~escaped
  /\ applicationUpdateAfter # None
  /\ round >= applicationUpdateAfter
  /\ approvalProgram = pendingApprovalProgramHash
  /\ program' = approvalProgram
  /\ pendingApprovalProgramHash' = None /\ applicationUpdateAfter' = None
  /\ UNCHANGED <<round, balance, batchVars, inboxVars, settledVars,
                 pendingWithdrawals, exits, escapeVars, verifier,
                 pendingVerifier, verifierUpdateAfter>>

-----------------------------------------------------------------------------
(* The inbox. *)

(* Store the record of the next entry and move the chain and cursor past it. *)
AppendToInbox(kind, address, recipient, amount, payer, chainAfter) ==
  /\ inboxCursor < MaxInbox
  /\ inbox' = [i \in DOMAIN inbox \cup {inboxCursor} |->
                 IF i = inboxCursor
                 THEN [kind |-> kind, address |-> address,
                       recipient |-> recipient, amount |-> amount,
                       payer |-> payer, round |-> round,
                       chainAfter |-> chainAfter]
                 ELSE inbox[i]]
  /\ inboxChain' = chainAfter
  /\ inboxCursor' = inboxCursor + 1

(* The payment is INBOX_MBR + amount; only the amount is credited. *)
deposit(payer, recipient, amount) ==
  /\ ~escaped
  /\ amount > 0
  /\ balance + INBOX_MBR + amount <= SUPPLY
  /\ balance' = balance + INBOX_MBR + amount
  /\ AppendToInbox("d", recipient, NoRecipient, amount, payer,
                   accumulate_deposit(inboxChain, recipient, amount))
  /\ UNCHANGED <<round, batchVars, requestCursor, settledVars,
                 pendingWithdrawals, exits, escapeVars, updateVars>>

(* Signed over requestCursor by the ed25519 key the address derives from. *)
requestWithdrawal(payer, address, recipient) ==
  /\ ~escaped
  /\ balance + INBOX_MBR <= SUPPLY
  /\ SchemeOf[address] = "edd"
  /\ balance' = balance + INBOX_MBR
  /\ AppendToInbox("w", address, recipient, 0, payer,
                   accumulate_request(inboxChain, address, recipient))
  /\ requestCursor' = requestCursor + 1
  /\ UNCHANGED <<round, batchVars, settledVars, pendingWithdrawals, exits,
                 escapeVars, updateVars>>

DeleteBox(index) == inbox' = [i \in DOMAIN inbox \ {index} |-> inbox[i]]

\* Bugs: the queue is cut one entry too far, not at all, and one too late.
CreditedDepositOffByOne(index) == index <= settledInboxCursor
VoidedDepositAnywhere(index) == escaped
VoidedDepositOffByOne(index) == escaped /\ index > settledInboxCursor

(* How the settled cursor and the escape cut the queue. *)
AnsweredRequest(index) == index < settledInboxCursor \/ escaped
CreditedDeposit(index) == index < settledInboxCursor
VoidedDeposit(index) == escaped /\ index >= settledInboxCursor

pruneRequest(index) ==
  /\ index \in DOMAIN inbox
  /\ inbox[index].kind = "w"
  /\ AnsweredRequest(index)
  /\ DeleteBox(index)
  /\ UNCHANGED <<round, batchVars, inboxChain, inboxCursor, requestCursor,
                 settledVars, pendingWithdrawals, exits, escapeVars, updateVars>>
  /\ InnerPayment(inbox[index].payer, INBOX_MBR)

pruneDeposit(index) ==
  /\ index \in DOMAIN inbox
  /\ inbox[index].kind = "d"
  /\ CreditedDeposit(index)
  /\ DeleteBox(index)
  /\ UNCHANGED <<round, batchVars, inboxChain, inboxCursor, requestCursor,
                 settledVars, pendingWithdrawals, exits, escapeVars, updateVars>>
  /\ InnerPayment(inbox[index].payer, INBOX_MBR)

reclaimDeposit(index) ==
  /\ VoidedDeposit(index)
  /\ index < inboxCursor
  /\ index \in DOMAIN inbox
  /\ inbox[index].kind = "d"
  /\ DeleteBox(index)
  /\ UNCHANGED <<round, batchVars, inboxChain, inboxCursor, requestCursor,
                 settledVars, pendingWithdrawals, exits, escapeVars, updateVars>>
  /\ InnerPayment(inbox[index].payer, inbox[index].amount + INBOX_MBR)

-----------------------------------------------------------------------------
(* The watchdog. *)

\* Bug: only a deposit that waits too long can be complained of.
signalForDeposits ==
  /\ ~escaped
  /\ escapeDeadline = None
  /\ settledInboxCursor < inboxCursor
  /\ settledInboxCursor \in DOMAIN inbox
  /\ inbox[settledInboxCursor].kind = "d"
  /\ round > inbox[settledInboxCursor].round + inboxTimeout
  /\ escapeInboxTarget' = inboxCursor
  /\ escapeProgress' = 0
  /\ escapeDeadline' = round + escapeGrace
  /\ UNCHANGED <<round, balance, batchVars, inboxVars, settledVars,
                 pendingWithdrawals, exits, escaped, updateVars>>

signalEscape ==
  /\ ~escaped
  /\ escapeDeadline = None
  /\ settledInboxCursor < inboxCursor
  /\ settledInboxCursor \in DOMAIN inbox
  /\ round > inbox[settledInboxCursor].round + inboxTimeout
  /\ escapeInboxTarget' = inboxCursor
  /\ escapeProgress' = 0
  /\ escapeDeadline' = round + escapeGrace
  /\ UNCHANGED <<round, balance, batchVars, inboxVars, settledVars,
                 pendingWithdrawals, exits, escaped, updateVars>>

\* Bug: the tranche is not spent by the window it buys.
creditWithoutReset(discharged) ==
  LET progress == escapeProgress + discharged
  IN IF escapeDeadline = None THEN UNCHANGED <<escapeDeadline, escapeProgress>>
     ELSE /\ escapeProgress' = progress
          /\ escapeDeadline' = IF progress >= ESCAPE_PROGRESS_TRANCHE
                               THEN escapeDeadline + escapeGrace
                               ELSE escapeDeadline

(* Obligations discharged buy one grace window per full tranche. *)
creditEscapeProgress(discharged) ==
  LET progress == escapeProgress + discharged
  IN IF escapeDeadline = None THEN UNCHANGED <<escapeDeadline, escapeProgress>>
     ELSE IF progress >= ESCAPE_PROGRESS_TRANCHE
     THEN escapeDeadline' = escapeDeadline + escapeGrace /\ escapeProgress' = 0
     ELSE escapeProgress' = progress /\ UNCHANGED escapeDeadline

DeadlinePassed == escapeDeadline # None /\ round > escapeDeadline

executeEscape ==
  /\ ~escaped
  /\ DeadlinePassed
  /\ escaped' = TRUE
  /\ ClearSignal
  /\ ForgetBatch
  /\ UNCHANGED <<round, balance, inboxVars, settledVars, pendingWithdrawals,
                 exits, updateVars>>

-----------------------------------------------------------------------------
(* Money out. *)

\* Bug: payouts stop with the rollup.
PayoutIsNextUntilEscape(recipient, amount, tail) ==
  /\ ~escaped
  /\ pendingWithdrawals # None
  /\ pendingWithdrawals = accumulate_withdrawal(tail, recipient, amount)

(* The head of the chain is the payout to make, `tail' what is left after. *)
PayoutIsNext(recipient, amount, tail) ==
  /\ pendingWithdrawals # None
  /\ pendingWithdrawals = accumulate_withdrawal(tail, recipient, amount)

\* Bug: the terminal is stored instead of being recognised.
StepToTail(tail) == tail

StepPast(tail) == IF tail = withdrawal_chain_terminal THEN None ELSE tail

payWithdrawal(recipient, amount, tail, byCreator) ==
  /\ PayoutIsNext(recipient, amount, tail)
  /\ pendingWithdrawals' = StepPast(tail)
  /\ IF byCreator THEN creditEscapeProgress(1)
                  ELSE UNCHANGED <<escapeDeadline, escapeProgress>>
  /\ UNCHANGED <<round, batchVars, inboxVars, settledVars, exits, escaped,
                 escapeInboxTarget, updateVars>>
  /\ InnerPayment(recipient, amount)

(* Whoever holds the ed25519 key the proven leaf names may exit the address. *)
Exitable(address, leaf) ==
  /\ address \notin DOMAIN exits
  /\ stateRoot[address] = leaf
  /\ SchemeOf[leaf.auth_address] = "edd"
  /\ leaf.amount > EXIT_MBR

forceExit(address, leaf, recipient) ==
  /\ escaped
  /\ Exitable(address, leaf)
  /\ exits' = [a \in DOMAIN exits \cup {address} |->
                 IF a = address THEN leaf.amount ELSE exits[a]]
  /\ UNCHANGED <<round, batchVars, inboxVars, settledVars, pendingWithdrawals,
                 escapeVars, updateVars>>
  /\ InnerPayment(recipient, leaf.amount - EXIT_MBR)

-----------------------------------------------------------------------------
(* The sequencer. *)

(* The checkpoint of the prefix that ends before targetInboxCursor. *)
InboxCheckpoint(targetInboxCursor) ==
  IF targetInboxCursor = settledInboxCursor THEN settledInboxChain
  ELSE inbox[targetInboxCursor - 1].chainAfter

openBatch(length, targetInboxCursor) ==
  /\ ~escaped
  /\ batchLength = None
  /\ pendingWithdrawals = None
  /\ targetInboxCursor >= settledInboxCursor
  /\ targetInboxCursor <= inboxCursor
  /\ \/ targetInboxCursor = settledInboxCursor
     \/ targetInboxCursor - 1 \in DOMAIN inbox
  /\ chunkAccumulator' = chunk_accumulator_seed(length)
  /\ batchLength' = length
  /\ postedLength' = 0
  /\ sealedInboxChain' = InboxCheckpoint(targetInboxCursor)
  /\ sealedInboxCursor' = targetInboxCursor
  /\ UNCHANGED <<round, balance, inboxVars, settledVars, pendingWithdrawals,
                 exits, escapeVars, updateVars>>

\* Bug: a short chunk is accepted anywhere.
ChunkMayBeShort(chunk) == Len(chunk) <= Least(CHUNK_SIZE, batchLength - postedLength)

(* Every chunk but the last is full, and the declared length pins the last. *)
ChunkFits(chunk) == Len(chunk) = Least(CHUNK_SIZE, batchLength - postedLength)

accumulateChunk(chunk) ==
  /\ batchLength # None
  /\ postedLength < batchLength
  /\ ChunkFits(chunk)
  /\ chunkAccumulator' = accumulate_chunk(chunkAccumulator, chunk)
  /\ postedLength' = postedLength + Len(chunk)
  /\ UNCHANGED <<round, balance, batchLength, sealedInboxChain,
                 sealedInboxCursor, inboxVars, settledVars, pendingWithdrawals,
                 exits, escapeVars, updateVars>>

abandonBatch ==
  /\ batchLength # None
  /\ ForgetBatch
  /\ UNCHANGED <<round, balance, inboxVars, settledVars, pendingWithdrawals,
                 exits, escapeVars, updateVars>>

(***************************************************************************)
(* The public values a proof may carry, in two parts: the words the        *)
(* contract compares and the words it takes.  A proof can start from the   *)
(* settled root and inbox or, being any valid proof, from others; genesis  *)
(* stands for the stale ones.  A batch of no bytes does not decode.  Where *)
(* it ends is anywhere BlockLaw allows; leaves and payout chains are       *)
(* listed by what they are worth so as not to try every pair.              *)
(***************************************************************************)
Commitments == {batch_commitment(b) : b \in ByteStrings(1..MaxBatchLength)}

ProofStarts ==
  [keys : Verifiers, old_root : {stateRoot, EmptyLeaves},
   batch_commitment : Commitments,
   old_inbox_chain : {settledInboxChain, INBOX_CHAIN_GENESIS},
   new_inbox_chain : {sealedInboxChain, inboxChain}]

PinnedLeaves == {[a \in Addresses |-> [amount |-> b[a], auth_address |-> a]] :
                   b \in [Addresses -> U64]}
PayoutChains == UNION {[1..n -> Payout] : n \in 0..MaxPayouts}

MaxWorth == SUPPLY * (MaxInbox + 1)
LeavesWorth == [w \in 0..MaxWorth |->
                  {leaves \in PinnedLeaves : Sum(Balances(leaves)) = w}]
ChainsWorth == [w \in 0..MaxWorth |->
                  {chain \in PayoutChains : PayoutTotal(chain) = w}]

ProofEnds(start) ==
  LET worth == Sum(Balances(start.old_root))
                 + DepositsFolded(start.old_inbox_chain, start.new_inbox_chain)
  IN {end \in UNION {[new_root : LeavesWorth[kept],
                      withdrawal_chain : ChainsWorth[worth - kept]] :
                        kept \in {k \in 0..MaxWorth : worth - k \in 0..MaxWorth}} :
        BlockLaw(start.old_root, end.new_root, start.old_inbox_chain,
                 start.new_inbox_chain, end.withdrawal_chain)}

(* Where the public values of the proof must meet what the contract holds. *)
ProofMatches(start) ==
  /\ start.keys = verifier
  /\ start.old_root = stateRoot
  /\ start.batch_commitment = chunkAccumulator
  /\ start.old_inbox_chain = settledInboxChain
  /\ start.new_inbox_chain = sealedInboxChain

\* Bug: the batch is forgotten before its seal is copied.
AdvanceToForgottenSeal == settledInboxChain' = None /\ settledInboxCursor' = None

AdvanceToSeal ==
  /\ settledInboxChain' = sealedInboxChain
  /\ settledInboxCursor' = sealedInboxCursor

\* Bug: reaching the target is not enough.
AnswerSignalLate ==
  IF escapeInboxTarget = None
  THEN UNCHANGED <<escapeDeadline, escapeInboxTarget, escapeProgress>>
  ELSE IF sealedInboxCursor > escapeInboxTarget THEN ClearSignal
  ELSE /\ creditEscapeProgress(sealedInboxCursor - settledInboxCursor)
       /\ UNCHANGED escapeInboxTarget

(* A signal is answered once settlement reaches its target; short of it the
   entries consumed count as progress. *)
AnswerSignal ==
  IF escapeInboxTarget = None
  THEN UNCHANGED <<escapeDeadline, escapeInboxTarget, escapeProgress>>
  ELSE IF sealedInboxCursor >= escapeInboxTarget THEN ClearSignal
  ELSE /\ creditEscapeProgress(sealedInboxCursor - settledInboxCursor)
       /\ UNCHANGED escapeInboxTarget

verifyBatch(start) ==
  /\ ~escaped
  /\ ~DeadlinePassed
  /\ batchLength # None
  /\ postedLength = batchLength
  /\ ProofMatches(start)
  /\ \E end \in ProofEnds(start) :
       /\ stateRoot' = end.new_root
       /\ pendingWithdrawals' =
            IF end.withdrawal_chain # withdrawal_chain_terminal
            THEN end.withdrawal_chain ELSE pendingWithdrawals
  /\ AdvanceToSeal
  /\ ForgetBatch
  /\ AnswerSignal
  /\ UNCHANGED <<round, balance, inboxVars, exits, escaped, updateVars>>

-----------------------------------------------------------------------------
Tick ==
  /\ round < MaxRound
  /\ round' = round + 1
  /\ UNCHANGED <<balance, batchVars, inboxVars, settledVars,
                 pendingWithdrawals, exits, escapeVars, updateVars>>

Init ==
  /\ round = 0
  /\ balance = BASE_MBR
  /\ stateRoot = EmptyLeaves
  /\ chunkAccumulator = None /\ batchLength = None /\ postedLength = None
  /\ sealedInboxChain = None /\ sealedInboxCursor = None
  /\ inboxChain = INBOX_CHAIN_GENESIS /\ inboxCursor = 0
  /\ requestCursor = 0 /\ inbox = << >>
  /\ settledInboxChain = INBOX_CHAIN_GENESIS /\ settledInboxCursor = 0
  /\ pendingWithdrawals = None
  /\ exits = << >>
  /\ escaped = FALSE /\ escapeDeadline = None
  /\ escapeInboxTarget = None /\ escapeProgress = None
  /\ verifier = FirstVerifier /\ pendingVerifier = None
  /\ verifierUpdateAfter = None
  /\ program = ThisProgram /\ pendingApprovalProgramHash = None
  /\ applicationUpdateAfter = None

Council ==
  \/ securityCouncilEscape
  \/ \E keys \in VerifierUpdates : scheduleVerifierUpdate(keys)
  \/ \E p \in ProgramUpdates : scheduleApplicationUpdate(p)

Sequencer ==
  \/ \E length \in 0..MaxBatchLength, target \in 0..MaxInbox :
       openBatch(length, target)
  \/ \E chunk \in ByteStrings(0..CHUNK_SIZE) : accumulateChunk(chunk)
  \/ abandonBatch
  \/ \E start \in ProofStarts : verifyBatch(start)

Anyone ==
  \/ executeVerifierUpdate
  \/ \E p \in ProgramUpdates : updateApplication(p)
  \/ \E payer \in L1Accounts \ {App}, address \in Addresses :
       \/ \E amount \in DepositAmounts : deposit(payer, address, amount)
       \/ \E recipient \in L1Accounts :
            requestWithdrawal(payer, address, recipient)
  \/ \E index \in DOMAIN inbox :
       pruneRequest(index) \/ pruneDeposit(index) \/ reclaimDeposit(index)
  \/ signalEscape
  \/ executeEscape
  \/ \E recipient \in L1Accounts, address \in Addresses :
       forceExit(address, stateRoot[address], recipient)

(* The one method both the sequencer and anyone else call.  A caller offers
   some payout of the chain with the tail that follows it. *)
Drain ==
  /\ pendingWithdrawals # None
  /\ \E k \in 1..Len(pendingWithdrawals), byCreator \in BOOLEAN :
       payWithdrawal(pendingWithdrawals[k].recipient,
                     pendingWithdrawals[k].amount,
                     Prefix(pendingWithdrawals, k - 1), byCreator)

(* An updated application is another program, and no longer this one. *)
Next == program = ThisProgram /\ (Council \/ Sequencer \/ Anyone \/ Drain \/ Tick)

Spec == Init /\ [][Next]_vars

-----------------------------------------------------------------------------
BatchType ==
  /\ chunkAccumulator \in ChunkAccumulator \cup {None}
  /\ batchLength \in Nat \cup {None} /\ postedLength \in Nat \cup {None}
  /\ sealedInboxChain \in Seq(InboxEntry) \cup {None}
  /\ sealedInboxCursor \in Nat \cup {None}

InboxType ==
  /\ inboxChain \in Seq(InboxEntry) /\ inboxCursor \in 0..MaxInbox
  /\ requestCursor \in Nat
  /\ DOMAIN inbox \subseteq 0..(MaxInbox - 1)
  /\ inbox \in [DOMAIN inbox -> InboxRecord]

SettledType ==
  /\ stateRoot \in [Addresses -> Leaf]
  /\ settledInboxChain \in Seq(InboxEntry) /\ settledInboxCursor \in Nat

MoneyType ==
  /\ balance \in Nat
  /\ pendingWithdrawals \in Seq(Payout) \cup {None}
  /\ DOMAIN exits \subseteq Addresses /\ exits \in [DOMAIN exits -> U64]

EscapeType ==
  /\ escaped \in BOOLEAN
  /\ escapeDeadline \in Nat \cup {None}
  /\ escapeInboxTarget \in Nat \cup {None}
  /\ escapeProgress \in Nat \cup {None}

UpdateType ==
  /\ verifier \in Verifiers /\ pendingVerifier \in Verifiers \cup {None}
  /\ verifierUpdateAfter \in Nat \cup {None}
  /\ program \in Programs /\ pendingApprovalProgramHash \in Programs \cup {None}
  /\ applicationUpdateAfter \in Nat \cup {None}

(* Every variable keeps its type. *)
TypeOK ==
  /\ round \in 0..MaxRound
  /\ BatchType /\ InboxType /\ SettledType
  /\ MoneyType /\ EscapeType /\ UpdateType

BatchKeys ==
  /\ (batchLength = None) <=> (postedLength = None)
  /\ (batchLength = None) <=> (chunkAccumulator = None)
  /\ (batchLength = None) <=> (sealedInboxCursor = None)
  /\ (batchLength = None) <=> (sealedInboxChain = None)
  /\ batchLength # None => pendingWithdrawals = None /\ ~escaped

SignalKeys ==
  /\ (escapeDeadline = None) <=> (escapeInboxTarget = None)
  /\ (escapeDeadline = None) <=> (escapeProgress = None)
  /\ escapeDeadline # None => ~escaped

UpdateKeys ==
  /\ (verifierUpdateAfter = None) <=> (pendingVerifier = None)
  /\ (applicationUpdateAfter = None) <=> (pendingApprovalProgramHash = None)

(* The keys that live and die together do: a half-forgotten batch or signal
   would be resumed by the next method to read it.  A batch is never open
   while payouts are outstanding, nor after an escape. *)
KeysTogether == BatchKeys /\ SignalKeys /\ UpdateKeys

CursorsAgree ==
  /\ Len(inboxChain) = inboxCursor
  /\ settledInboxCursor <= inboxCursor
  /\ settledInboxChain = Prefix(inboxChain, settledInboxCursor)
  /\ batchLength # None =>
       /\ settledInboxCursor <= sealedInboxCursor
       /\ sealedInboxCursor <= inboxCursor
       /\ sealedInboxChain = Prefix(inboxChain, sealedInboxCursor)

BoxesAgree ==
  \A i \in DOMAIN inbox :
    /\ i < inboxCursor
    /\ inbox[i].chainAfter = Prefix(inboxChain, i + 1)
    /\ inbox[i].kind = inboxChain[i + 1].kind
    /\ inbox[i].amount = inboxChain[i + 1].amount

NoBoxMissing ==
  ~escaped => \A i \in 0..(MaxInbox - 1) :
                settledInboxCursor <= i /\ i < inboxCursor => i \in DOMAIN inbox

(* The inbox is one FIFO: cursor, chain and boxes agree entry by entry; what
   was settled and what is sealed are prefixes of it; and, until an escape,
   the box of every unsettled entry is there, so that openBatch can read its
   checkpoint and signalEscape its age. *)
InboxIntact == CursorsAgree /\ BoxesAgree /\ NoBoxMissing

(* While an accusation is pending it points at entries that were there when it
   was made and are still unanswered, and each of them is given the whole
   grace period: a sequencer that answers in time is never frozen. *)
AccusationStands ==
  escapeDeadline # None =>
    /\ settledInboxCursor < escapeInboxTarget
    /\ escapeInboxTarget <= inboxCursor
    /\ \A i \in DOMAIN inbox :
         settledInboxCursor <= i /\ i < escapeInboxTarget =>
           inbox[i].round + escapeGrace <= escapeDeadline

L2Owed == Sum([a \in Addresses \ DOMAIN exits |-> stateRoot[a].amount])

PendingBoxes == {i \in DOMAIN inbox : i >= settledInboxCursor}
DepositsOwed == Sum([i \in PendingBoxes |-> inbox[i].amount])

PayoutsOwed == IF pendingWithdrawals = None THEN 0
               ELSE PayoutTotal(pendingWithdrawals)

(* Whatever the sequencer settles, and however deposits, refunds, payouts and
   exits interleave with an escape, the application can pay all it owes: the
   L2 balances not yet exited, the deposits not yet credited, the payouts not
   yet made, and the minimum balance of every box. *)
Solvent ==
  balance >= appMinBalance + L2Owed + DepositsOwed + PayoutsOwed

(* "The payment cannot fail": the next payout of the chain can be made now,
   whoever its recipient is.  One that could not would close openBatch. *)
PayoutNeverBlocked ==
  pendingWithdrawals # None =>
    LET head == pendingWithdrawals[Len(pendingWithdrawals)]
    IN /\ pendingWithdrawals # << >>
       /\ balance - head.amount >= appMinBalance
       /\ head.recipient \in ClosedAccounts => head.amount >= NETWORK_MIN

(* A batch posted in full is one the guest can commit to: the chunks on chain
   are the canonical cut of one byte string of the declared length. *)
PostedBatchIsProvable ==
  batchLength # None /\ postedLength = batchLength =>
    \E bytes \in ByteStrings({batchLength}) :
      batch_commitment(bytes) = chunkAccumulator
=============================================================================
