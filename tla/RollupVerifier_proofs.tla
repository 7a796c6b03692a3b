----------------------- MODULE RollupVerifier_proofs ------------------------
(***************************************************************************)
(* Safety of the settlement contract for every value of its constants.     *)
(*                                                                         *)
(* TypeOK is not inductive alone: a cursor is a number because the keys of *)
(* a batch come and go together, and a difference of cursors is natural    *)
(* because the sealed prefix extends the settled one.  The inductive       *)
(* invariant is the conjunction Bookkeeping.                               *)
(*                                                                         *)
(* What the contract owes, in rounds and in microalgos, for every value of *)
(* the constants: AccusationStands, ExtensionsAreEarned,                   *)
(* UpdatesWereAnnounced, Solvent and PayoutNeverBlocked.                   *)
(*                                                                         *)
(* The grace period counts from the signal, and covers every entry accused *)
(* because no box is dated later than the round it is read in.  That is    *)
(* what BoxesPast adds to make the first invariant inductive.  The second  *)
(* counts the windows bought: WindowsBought names their number, and keeps  *)
(* with it the progress towards the next one, which the property forgets.  *)
(* The third needs the date of a pending update to be a whole delay after  *)
(* it was announced, and no announcement to lie in the future.             *)
(*                                                                         *)
(* What the application owes is a sum over three sets that the methods     *)
(* move amounts between: addresses without an exit record, boxes past the  *)
(* settled cursor, payouts left in the chain.  The invariant needs three   *)
(* facts beside the books: before an escape nothing has been exited, so    *)
(* that BlockLaw speaks of all that is owed on L2; a stored chain is never *)
(* empty; and each of its payouts is at least MIN_WITHDRAWAL.              *)
(***************************************************************************)
EXTENDS RollupVerifier, Watchdog, Announcements, PaymentRollup_proofs

Bookkeeping == TypeOK /\ KeysTogether /\ InboxIntact

-----------------------------------------------------------------------------
(* A prefix of a chain is the chain as it was. *)
LEMMA PrefixType ==
  ASSUME NEW S, NEW chain \in Seq(S), NEW n \in 0..Len(chain)
  PROVE  Prefix(chain, n) \in Seq(S) /\ Len(Prefix(chain, n)) = n
<1>1. Len(chain) \in Nat /\ chain \in [1..Len(chain) -> S] /\ n \in Nat
  BY LenProperties
<1>2. Prefix(chain, n) \in [1..n -> S]
  BY <1>1 DEF Prefix
<1>3. Prefix(chain, n) \in Seq(S)
  BY <1>1, <1>2, SeqDef
<1>4. DOMAIN Prefix(chain, n) = 1..n
  BY DEF Prefix
<1> QED BY <1>1, <1>3, <1>4, LenProperties

(* A whole chain is its own longest prefix. *)
LEMMA PrefixFull ==
  ASSUME NEW S, NEW chain \in Seq(S)
  PROVE  Prefix(chain, Len(chain)) = chain
BY LenProperties DEF Prefix

(* Folding one more item in leaves every earlier prefix as it was. *)
LEMMA PrefixAppend ==
  ASSUME NEW S, NEW chain \in Seq(S), NEW e \in S, NEW n \in 0..Len(chain)
  PROVE  Prefix(Append(chain, e), n) = Prefix(chain, n)
<1>1. \A i \in 1..n : Append(chain, e)[i] = chain[i]
  BY AppendProperties, LenProperties
<1> QED BY <1>1 DEF Prefix

(* A new entry has the type of an inbox entry. *)
LEMMA EntryType ==
  /\ \A x \in Addresses, v \in U64 :
       [kind |-> "d", address |-> x, recipient |-> NoRecipient, amount |-> v]
         \in InboxEntry
  /\ \A x \in Addresses, r \in L1Accounts :
       [kind |-> "w", address |-> x, recipient |-> r, amount |-> 0]
         \in InboxEntry
BY MaxU64Assumption DEF InboxEntry, U64

(* Where a proof may end: pinned leaves, payable payouts, the block law. *)
LEMMA ProofEndsType ==
  ASSUME NEW start, NEW end \in ProofEnds(start)
  PROVE  /\ end.new_root \in [Addresses -> Leaf]
         /\ AuthPinned(end.new_root)
         /\ end.withdrawal_chain \in Seq(Payout)
         /\ BlockLaw(start.old_root, end.new_root, start.old_inbox_chain,
                     start.new_inbox_chain, end.withdrawal_chain)
<1>1. /\ BlockLaw(start.old_root, end.new_root, start.old_inbox_chain,
                  start.new_inbox_chain, end.withdrawal_chain)
      /\ end.new_root \in PinnedLeaves
      /\ end.withdrawal_chain \in PayoutChains
  BY DEF ProofEnds, LeavesWorth, ChainsWorth
<1>2. end.new_root \in [Addresses -> Leaf] /\ AuthPinned(end.new_root)
  BY <1>1 DEF PinnedLeaves, Leaf, AuthPinned
<1>3. end.withdrawal_chain \in Seq(Payout)
  BY <1>1, SeqDef, ContractAssumption DEF PayoutChains
<1> QED BY <1>1, <1>2, <1>3

-----------------------------------------------------------------------------
(* createApplication leaves the books in order. *)
LEMMA BookkeepingInit == Init => Bookkeeping
<1> SUFFICES ASSUME Init PROVE Bookkeeping
  OBVIOUS
<1>1. << >> \in Seq(InboxEntry) /\ Len(<< >>) = 0
  BY EmptySeq
<1>2. /\ DOMAIN inbox = {} /\ inbox \in [{} -> InboxRecord]
      /\ DOMAIN exits = {} /\ exits \in [{} -> U64]
  BY DEF Init
<1>3. EmptyLeaves \in [Addresses -> Leaf]
  BY MaxU64Assumption DEF EmptyLeaves, Leaf, U64
<1>4. TypeOK
  <2>1. round \in 0..MaxRound /\ BatchType /\ SettledType
    BY <1>1, <1>3, ContractAssumption
       DEF Init, BatchType, SettledType, INBOX_CHAIN_GENESIS
  <2>2. InboxType
    BY <1>1, <1>2, ContractAssumption DEF Init, InboxType, INBOX_CHAIN_GENESIS
  <2>3. MoneyType /\ EscapeType /\ UpdateType
    BY <1>2, ContractAssumption, InputAssumption
       DEF Init, MoneyType, EscapeType, UpdateType
  <2> QED BY <2>1, <2>2, <2>3 DEF TypeOK
<1>5. KeysTogether
  BY DEF Init, KeysTogether, BatchKeys, SignalKeys, UpdateKeys
<1>6. InboxIntact
  <2>1. Prefix(<< >>, 0) = << >>
    BY <1>1, PrefixFull
  <2> QED BY <1>1, <1>2, <2>1, ContractAssumption
          DEF Init, InboxIntact, CursorsAgree, BoxesAgree, NoBoxMissing,
              INBOX_CHAIN_GENESIS
<1> QED BY <1>4, <1>5, <1>6 DEF Bookkeeping

(* What the steps below read of the books, once and for all. *)
LEMMA Books ==
  ASSUME Bookkeeping
  PROVE  /\ inboxChain \in Seq(InboxEntry) /\ Len(inboxChain) = inboxCursor
         /\ inboxCursor \in Nat /\ inboxCursor \in 0..MaxInbox
         /\ MaxInbox \in Nat /\ round \in Nat
         /\ settledInboxCursor \in Nat /\ settledInboxCursor <= inboxCursor
         /\ settledInboxChain = Prefix(inboxChain, settledInboxCursor)
         /\ DOMAIN inbox \subseteq 0..(MaxInbox - 1)
         /\ inbox \in [DOMAIN inbox -> InboxRecord]
         /\ \A i \in DOMAIN inbox :
              /\ i \in Nat /\ i < inboxCursor
              /\ inbox[i].amount \in U64 /\ inbox[i].payer \in L1Accounts
              /\ inbox[i].round \in Nat
<1>1. /\ inboxChain \in Seq(InboxEntry) /\ inboxCursor \in 0..MaxInbox
      /\ MaxInbox \in Nat /\ MaxRound \in Nat /\ round \in 0..MaxRound
      /\ settledInboxCursor \in Nat
      /\ DOMAIN inbox \subseteq 0..(MaxInbox - 1)
      /\ inbox \in [DOMAIN inbox -> InboxRecord]
  BY ContractAssumption DEF Bookkeeping, TypeOK, InboxType, SettledType
<1>2. /\ Len(inboxChain) = inboxCursor
      /\ settledInboxCursor <= inboxCursor
      /\ settledInboxChain = Prefix(inboxChain, settledInboxCursor)
      /\ \A i \in DOMAIN inbox : i < inboxCursor
  BY DEF Bookkeeping, InboxIntact, CursorsAgree, BoxesAgree
<1>3. \A i \in DOMAIN inbox : inbox[i] \in InboxRecord /\ i \in Nat
  BY <1>1
<1>4. \A i \in DOMAIN inbox :
        /\ inbox[i].amount \in U64 /\ inbox[i].payer \in L1Accounts
        /\ inbox[i].round \in Nat
  BY <1>3 DEF InboxRecord
<1> QED BY <1>1, <1>2, <1>3, <1>4

(* What they read of the batch being posted. *)
LEMMA OpenBatchBooks ==
  ASSUME Bookkeeping, batchLength # None
  PROVE  /\ batchLength \in Nat /\ postedLength \in Nat
         /\ chunkAccumulator \in ChunkAccumulator
         /\ sealedInboxCursor \in Nat
         /\ settledInboxCursor <= sealedInboxCursor
         /\ sealedInboxCursor <= inboxCursor
         /\ sealedInboxChain \in Seq(InboxEntry)
         /\ sealedInboxChain = Prefix(inboxChain, sealedInboxCursor)
         /\ pendingWithdrawals = None /\ ~escaped
BY DEF Bookkeeping, TypeOK, BatchType, KeysTogether, BatchKeys, InboxIntact,
       CursorsAgree

(* A new entry extends the inbox by one box, one link and one index. *)
LEMMA AppendKeepsInbox ==
  ASSUME Bookkeeping,
         NEW kind \in {"d", "w"}, NEW address \in Addresses,
         NEW recipient \in L1Accounts \cup {NoRecipient},
         NEW amount \in U64, NEW payer \in L1Accounts,
         AppendToInbox(kind, address, recipient, amount, payer,
           Append(inboxChain, [kind |-> kind, address |-> address,
                               recipient |-> recipient, amount |-> amount])),
         requestCursor' \in Nat,
         UNCHANGED <<batchVars, settledVars, escaped>>
  PROVE  InboxType' /\ InboxIntact'
<1> DEFINE e == [kind |-> kind, address |-> address,
                 recipient |-> recipient, amount |-> amount]
           chain == Append(inboxChain, e)
<1>1. e \in InboxEntry
  BY DEF InboxEntry
<1>2. /\ inboxChain \in Seq(InboxEntry) /\ Len(inboxChain) = inboxCursor
      /\ inboxCursor \in Nat /\ MaxInbox \in Nat /\ inboxCursor < MaxInbox
      /\ round \in Nat
  BY Books DEF AppendToInbox
<1>3. /\ chain \in Seq(InboxEntry) /\ Len(chain) = inboxCursor + 1
      /\ \A i \in 1..inboxCursor : chain[i] = inboxChain[i]
      /\ chain[inboxCursor + 1] = e
  BY <1>1, <1>2, AppendProperties
<1>4. /\ inboxChain' = chain /\ inboxCursor' = inboxCursor + 1
      /\ DOMAIN inbox' = DOMAIN inbox \cup {inboxCursor}
      /\ \A i \in DOMAIN inbox : i # inboxCursor => inbox'[i] = inbox[i]
      /\ inbox'[inboxCursor] =
           [kind |-> kind, address |-> address, recipient |-> recipient,
            amount |-> amount, payer |-> payer, round |-> round,
            chainAfter |-> chain]
  BY DEF AppendToInbox
<1>5. inbox'[inboxCursor] \in InboxRecord
  BY <1>2, <1>3, <1>4 DEF InboxRecord
<1>6. /\ DOMAIN inbox \subseteq 0..(MaxInbox - 1)
      /\ \A i \in DOMAIN inbox :
           i \in Nat /\ i < inboxCursor /\ inbox[i] \in InboxRecord
  BY Books
<1>7. InboxType'
  <2>1. DOMAIN inbox' \subseteq 0..(MaxInbox - 1)
    BY <1>2, <1>4, <1>6
  <2>2. \A i \in DOMAIN inbox' : inbox'[i] \in InboxRecord
    BY <1>4, <1>5, <1>6
  <2>3. inbox' = [i \in DOMAIN inbox' |-> inbox'[i]]
    BY DEF AppendToInbox
  <2>4. inbox' \in [DOMAIN inbox' -> InboxRecord]
    BY <2>2, <2>3
  <2> QED BY <2>1, <2>4, <1>2, <1>3, <1>4 DEF InboxType
<1>8. \A n \in 0..inboxCursor : Prefix(chain, n) = Prefix(inboxChain, n)
  BY <1>1, <1>2, PrefixAppend
<1>9. Prefix(chain, inboxCursor + 1) = chain
  BY <1>3, PrefixFull
<1>10. BoxesAgree'
  <2> SUFFICES ASSUME NEW i \in DOMAIN inbox'
               PROVE  /\ i < inboxCursor'
                      /\ inbox'[i].chainAfter = Prefix(inboxChain', i + 1)
                      /\ inbox'[i].kind = inboxChain'[i + 1].kind
                      /\ inbox'[i].amount = inboxChain'[i + 1].amount
    BY DEF BoxesAgree
  <2>1. CASE i = inboxCursor
    BY <2>1, <1>2, <1>3, <1>4, <1>9
  <2>2. CASE i # inboxCursor
    <3>1. i \in DOMAIN inbox /\ inbox'[i] = inbox[i]
      BY <2>2, <1>4
    <3>2. i \in Nat /\ i < inboxCursor
      BY <3>1, <1>6
    <3>3. /\ inbox[i].chainAfter = Prefix(inboxChain, i + 1)
          /\ inbox[i].kind = inboxChain[i + 1].kind
          /\ inbox[i].amount = inboxChain[i + 1].amount
      BY <3>1 DEF Bookkeeping, InboxIntact, BoxesAgree
    <3>4. i + 1 \in 1..inboxCursor /\ i + 1 \in 0..inboxCursor
      BY <3>2, <1>2
    <3> QED BY <3>1, <3>2, <3>3, <3>4, <1>2, <1>3, <1>4, <1>8
  <2> QED BY <2>1, <2>2
<1>11. CursorsAgree'
  <2>1. /\ settledInboxCursor' = settledInboxCursor
        /\ settledInboxChain' = settledInboxChain
        /\ batchLength' = batchLength
        /\ sealedInboxCursor' = sealedInboxCursor
        /\ sealedInboxChain' = sealedInboxChain
    BY DEF settledVars, batchVars
  <2>2. settledInboxChain' = Prefix(inboxChain', settledInboxCursor')
    BY <2>1, <1>4, <1>8, Books
  <2>3. batchLength # None =>
          sealedInboxChain' = Prefix(inboxChain', sealedInboxCursor')
    BY <2>1, <1>2, <1>4, <1>8, OpenBatchBooks
  <2>4. batchLength # None =>
          /\ settledInboxCursor' <= sealedInboxCursor'
          /\ sealedInboxCursor' <= inboxCursor'
    BY <2>1, <1>2, <1>4, OpenBatchBooks
  <2>5. settledInboxCursor' <= inboxCursor'
    BY <2>1, <1>2, <1>4, Books
  <2> QED BY <2>1, <2>2, <2>3, <2>4, <2>5, <1>3, <1>4 DEF CursorsAgree
<1>12. NoBoxMissing'
  <2>1. settledInboxCursor' = settledInboxCursor /\ escaped' = escaped
    BY DEF settledVars
  <2>2. NoBoxMissing
    BY DEF Bookkeeping, InboxIntact
  <2>3. \A i \in 0..(MaxInbox - 1) :
          i < inboxCursor + 1 => i < inboxCursor \/ i = inboxCursor
    BY <1>2
  <2> QED BY <2>1, <2>2, <2>3, <1>4 DEF NoBoxMissing
<1> QED BY <1>7, <1>10, <1>11, <1>12 DEF InboxIntact

(* Deleting the box of an answered entry, or any box once the rollup has
   escaped, keeps the inbox intact. *)
LEMMA DeleteKeepsInbox ==
  ASSUME Bookkeeping, NEW index \in DOMAIN inbox,
         index < settledInboxCursor \/ escaped,
         DeleteBox(index),
         UNCHANGED <<inboxChain, inboxCursor, requestCursor, batchVars,
                     settledVars, escaped>>
  PROVE  InboxType' /\ InboxIntact'
<1>1. /\ DOMAIN inbox' = DOMAIN inbox \ {index}
      /\ \A i \in DOMAIN inbox' : inbox'[i] = inbox[i]
      /\ inbox' \in [DOMAIN inbox' -> InboxRecord]
  BY Books DEF DeleteBox
<1>2. InboxType'
  BY <1>1 DEF Bookkeeping, TypeOK, InboxType
<1>3. BoxesAgree' /\ CursorsAgree'
  BY <1>1 DEF Bookkeeping, InboxIntact, BoxesAgree, CursorsAgree, batchVars,
              settledVars
<1>4. NoBoxMissing'
  <2>1. ~escaped => index < settledInboxCursor /\ index \in Nat
    BY Books
  <2>2. ~escaped =>
          \A i \in 0..(MaxInbox - 1) : settledInboxCursor <= i => i # index
    BY <2>1, Books
  <2> QED BY <2>2, <1>1
          DEF Bookkeeping, InboxIntact, NoBoxMissing, settledVars
<1> QED BY <1>2, <1>3, <1>4 DEF InboxIntact

(* A part of the state that is left alone keeps what is known of it. *)
LEMMA Frame ==
  /\ BatchType /\ UNCHANGED batchVars => BatchType'
  /\ InboxType /\ UNCHANGED inboxVars => InboxType'
  /\ SettledType /\ UNCHANGED settledVars => SettledType'
  /\ MoneyType /\ UNCHANGED <<balance, pendingWithdrawals, exits>> => MoneyType'
  /\ EscapeType /\ UNCHANGED escapeVars => EscapeType'
  /\ UpdateType /\ UNCHANGED updateVars => UpdateType'
  /\ BatchKeys /\ UNCHANGED <<batchVars, pendingWithdrawals, escaped>>
       => BatchKeys'
  /\ SignalKeys /\ UNCHANGED escapeVars => SignalKeys'
  /\ UpdateKeys /\ UNCHANGED updateVars => UpdateKeys'
  /\ InboxIntact /\ UNCHANGED <<batchVars, inboxVars, settledVars, escaped>>
       => InboxIntact'
<1>1. /\ BatchType /\ UNCHANGED batchVars => BatchType'
      /\ InboxType /\ UNCHANGED inboxVars => InboxType'
      /\ SettledType /\ UNCHANGED settledVars => SettledType'
  BY DEF BatchType, InboxType, SettledType, batchVars, inboxVars, settledVars
<1>2. /\ MoneyType /\ UNCHANGED <<balance, pendingWithdrawals, exits>> => MoneyType'
      /\ EscapeType /\ UNCHANGED escapeVars => EscapeType'
      /\ UpdateType /\ UNCHANGED updateVars => UpdateType'
  BY DEF MoneyType, EscapeType, UpdateType, escapeVars, updateVars
<1>3. /\ BatchKeys /\ UNCHANGED <<batchVars, pendingWithdrawals, escaped>>
           => BatchKeys'
      /\ SignalKeys /\ UNCHANGED escapeVars => SignalKeys'
      /\ UpdateKeys /\ UNCHANGED updateVars => UpdateKeys'
  BY DEF BatchKeys, SignalKeys, UpdateKeys, batchVars, escapeVars, updateVars
<1>4. InboxIntact /\ UNCHANGED <<batchVars, inboxVars, settledVars, escaped>>
        => InboxIntact'
  BY DEF InboxIntact, CursorsAgree, BoxesAgree, NoBoxMissing, batchVars,
         inboxVars, settledVars
<1> QED BY <1>1, <1>2, <1>3, <1>4

(* Forgetting the batch leaves the inbox as it was, and frees the rest. *)
LEMMA ForgetKeepsBooks ==
  ASSUME Bookkeeping, ForgetBatch,
         UNCHANGED <<inboxVars, settledVars>>, escaped => escaped'
  PROVE  BatchType' /\ BatchKeys' /\ InboxIntact'
<1>1. BatchType' /\ BatchKeys'
  BY DEF ForgetBatch, BatchType, BatchKeys
<1>2. CursorsAgree' /\ BoxesAgree' /\ NoBoxMissing'
  BY DEF Bookkeeping, InboxIntact, CursorsAgree, BoxesAgree, NoBoxMissing,
         ForgetBatch, inboxVars, settledVars
<1> QED BY <1>1, <1>2 DEF InboxIntact

-----------------------------------------------------------------------------
(* The council's methods, and the one anyone may finish them with. *)
LEMMA CouncilKeepsBooks ==
  ASSUME Bookkeeping, Council \/ executeVerifierUpdate
                        \/ \E p \in ProgramUpdates : updateApplication(p)
  PROVE  Bookkeeping'
<1>0. round \in Nat /\ updateDelay \in Nat /\ round + updateDelay \in Nat
      /\ round + updateDelay # None
  <2>1. round \in Nat
    BY Books
  <2>2. updateDelay \in Nat
    BY ContractAssumption
  <2>3. round + updateDelay \in Nat
    BY <2>1, <2>2
  <2>4. None \notin Nat
    BY NoneAssumption
  <2> QED BY <2>1, <2>2, <2>3, <2>4
<1> USE DEF Bookkeeping, TypeOK, KeysTogether
<1>1. CASE securityCouncilEscape
  <2>1. EscapeType' /\ SignalKeys' /\ UpdateType' /\ UpdateKeys'
    BY <1>1 DEF securityCouncilEscape, ClearSignal, ForgetVerifierUpdate,
                EscapeType, SignalKeys, UpdateType, UpdateKeys
  <2>2. BatchType' /\ BatchKeys' /\ InboxIntact'
    BY <1>1, ForgetKeepsBooks DEF securityCouncilEscape
  <2> QED BY <1>1, <2>1, <2>2, Frame DEF securityCouncilEscape
<1>2. ASSUME NEW keys \in VerifierUpdates, scheduleVerifierUpdate(keys)
      PROVE  Bookkeeping'
  <2>1. keys \in Verifiers /\ keys # None
    BY InputAssumption, NoneAssumption
  <2>2. UpdateType' /\ UpdateKeys'
    BY <1>0, <1>2, <2>1
       DEF scheduleVerifierUpdate, UpdateRound, UpdateType, UpdateKeys
  <2> QED BY <1>2, <2>2, Frame DEF scheduleVerifierUpdate, escapeVars
<1>3. ASSUME NEW p \in ProgramUpdates, scheduleApplicationUpdate(p)
      PROVE  Bookkeeping'
  <2>1. p \in Programs /\ p # None
    BY InputAssumption, NoneAssumption
  <2>2. UpdateType' /\ UpdateKeys'
    BY <1>0, <1>3, <2>1
       DEF scheduleApplicationUpdate, UpdateRound, UpdateType, UpdateKeys
  <2> QED BY <1>3, <2>2, Frame DEF scheduleApplicationUpdate, escapeVars
<1>4. CASE executeVerifierUpdate
  <2>1. UpdateType' /\ UpdateKeys'
    BY <1>4 DEF executeVerifierUpdate, ForgetVerifierUpdate, UpdateType, UpdateKeys
  <2> QED BY <1>4, <2>1, Frame DEF executeVerifierUpdate, escapeVars
<1>5. ASSUME NEW p \in ProgramUpdates, updateApplication(p)
      PROVE  Bookkeeping'
  <2>1. UpdateType' /\ UpdateKeys'
    BY <1>5, InputAssumption DEF updateApplication, UpdateType, UpdateKeys
  <2> QED BY <1>5, <2>1, Frame DEF updateApplication, escapeVars
<1> QED BY <1>1, <1>2, <1>3, <1>4, <1>5 DEF Council

-----------------------------------------------------------------------------
(* The minimum balance is a natural number: there are finitely many boxes. *)
LEMMA MinBalanceType ==
  ASSUME NEW S, S \subseteq 0..(MaxInbox - 1), NEW T, T \subseteq Addresses
  PROVE  BASE_MBR + INBOX_MBR * Cardinality(S) + EXIT_MBR * Cardinality(T) \in Nat
<1>1. IsFiniteSet(0..(MaxInbox - 1))
  BY ContractAssumption, FS_Interval
<1>2. IsFiniteSet(S) /\ IsFiniteSet(T)
  BY <1>1, AddressAssumption, FS_Subset
<1>3. Cardinality(S) \in Nat /\ Cardinality(T) \in Nat
  BY <1>2, FS_CardinalityType
<1>4. BASE_MBR \in Nat /\ INBOX_MBR \in Nat /\ EXIT_MBR \in Nat
  BY ContractAssumption
<1>5. INBOX_MBR * Cardinality(S) \in Nat /\ EXIT_MBR * Cardinality(T) \in Nat
  BY <1>3, <1>4
<1> QED BY <1>4, <1>5

(* An inner payment leaves at least the minimum balance. *)
LEMMA InnerPaymentType ==
  ASSUME Bookkeeping, DOMAIN inbox' \subseteq 0..(MaxInbox - 1),
         DOMAIN exits' \subseteq Addresses,
         NEW receiver, NEW amount \in Nat, InnerPayment(receiver, amount)
  PROVE  balance' \in Nat
<1>1. balance \in Nat
  BY DEF Bookkeeping, TypeOK, MoneyType
<1>2. balance' \in Int
  BY <1>1 DEF InnerPayment
<1>3. appMinBalance' \in Nat
  BY MinBalanceType DEF appMinBalance
<1>4. balance' >= appMinBalance'
  BY DEF InnerPayment
<1> QED BY <1>2, <1>3, <1>4

(* Deposits and requests. *)
LEMMA InboxGrowthKeepsBooks ==
  ASSUME Bookkeeping,
         NEW payer \in L1Accounts, NEW address \in Addresses,
         NEW recipient \in L1Accounts, NEW amount \in U64,
         deposit(payer, address, amount)
           \/ requestWithdrawal(payer, address, recipient)
  PROVE  Bookkeeping'
<1>1. /\ INBOX_MBR \in Nat /\ balance \in Nat /\ requestCursor \in Nat
      /\ amount \in Nat /\ 0 \in U64
  BY ContractAssumption, MaxU64Assumption
     DEF Bookkeeping, TypeOK, MoneyType, InboxType, U64
<1>2. InboxType' /\ InboxIntact' /\ balance' \in Nat
  <2>1. CASE deposit(payer, address, amount)
    <3>1. AppendToInbox("d", address, NoRecipient, amount, payer,
            Append(inboxChain, [kind |-> "d", address |-> address,
                                recipient |-> NoRecipient, amount |-> amount]))
      BY <2>1 DEF deposit, accumulate_deposit
    <3>2. /\ requestCursor' \in Nat
          /\ UNCHANGED <<batchVars, settledVars, escaped>>
          /\ balance' \in Nat
      BY <2>1, <1>1 DEF deposit, escapeVars
    <3> QED BY <3>1, <3>2, AppendKeepsInbox
  <2>2. CASE requestWithdrawal(payer, address, recipient)
    <3>1. AppendToInbox("w", address, recipient, 0, payer,
            Append(inboxChain, [kind |-> "w", address |-> address,
                                recipient |-> recipient, amount |-> 0]))
      BY <2>2 DEF requestWithdrawal, accumulate_request
    <3>2. /\ requestCursor' \in Nat
          /\ UNCHANGED <<batchVars, settledVars, escaped>>
          /\ balance' \in Nat
      BY <2>2, <1>1 DEF requestWithdrawal, escapeVars
    <3> QED BY <3>1, <3>2, <1>1, AppendKeepsInbox
  <2> QED BY <2>1, <2>2
<1>3. UNCHANGED <<round, batchVars, settledVars, pendingWithdrawals, exits,
                  escapeVars, updateVars>>
  BY DEF deposit, requestWithdrawal
<1>4. MoneyType'
  BY <1>2, <1>3 DEF Bookkeeping, TypeOK, MoneyType
<1>5. escaped' = escaped
  BY <1>3 DEF escapeVars
<1> QED BY <1>2, <1>3, <1>4, <1>5, Frame DEF Bookkeeping, TypeOK, KeysTogether

(* Prunes and refunds. *)
LEMMA PruneKeepsBooks ==
  ASSUME Bookkeeping, NEW index \in DOMAIN inbox,
         pruneRequest(index) \/ pruneDeposit(index) \/ reclaimDeposit(index)
  PROVE  Bookkeeping'
<1>1. /\ DeleteBox(index)
      /\ UNCHANGED <<round, batchVars, inboxChain, inboxCursor, requestCursor,
                     settledVars, pendingWithdrawals, exits, escapeVars,
                     updateVars>>
      /\ index < settledInboxCursor \/ escaped
  BY DEF pruneRequest, pruneDeposit, reclaimDeposit, AnsweredRequest,
         CreditedDeposit, VoidedDeposit
<1>2. escaped' = escaped
  BY <1>1 DEF escapeVars
<1>3. InboxType' /\ InboxIntact'
  BY <1>1, <1>2, DeleteKeepsInbox
<1>4. balance' \in Nat
  <2>0. inbox[index].amount \in U64
    BY Books
  <2>1. INBOX_MBR \in Nat /\ inbox[index].amount + INBOX_MBR \in Nat
    BY <2>0, ContractAssumption, MaxU64Assumption DEF U64
  <2>2. DOMAIN inbox' \subseteq 0..(MaxInbox - 1) /\ DOMAIN exits' \subseteq Addresses
    BY <1>1, <1>3 DEF InboxType, Bookkeeping, TypeOK, MoneyType
  <2>3. \/ InnerPayment(inbox[index].payer, INBOX_MBR)
        \/ InnerPayment(inbox[index].payer, inbox[index].amount + INBOX_MBR)
    BY DEF pruneRequest, pruneDeposit, reclaimDeposit
  <2> QED BY <2>1, <2>2, <2>3, InnerPaymentType
<1>5. MoneyType'
  BY <1>1, <1>4 DEF Bookkeeping, TypeOK, MoneyType
<1> QED BY <1>1, <1>2, <1>3, <1>5, Frame DEF Bookkeeping, TypeOK, KeysTogether

-----------------------------------------------------------------------------
(* Progress is credited to a pending signal, and to nothing else. *)
LEMMA CreditKeepsSignal ==
  ASSUME Bookkeeping, NEW answered \in Nat, creditEscapeProgress(answered),
         UNCHANGED <<escaped, escapeInboxTarget>>
  PROVE  EscapeType' /\ SignalKeys'
<1>1. CASE escapeDeadline = None
  BY <1>1 DEF creditEscapeProgress, Bookkeeping, TypeOK, KeysTogether,
              EscapeType, SignalKeys
<1>2. CASE escapeDeadline # None
  <2>1. /\ escapeDeadline \in Nat /\ escapeProgress \in Nat
        /\ escapeInboxTarget \in Nat /\ ~escaped
    BY <1>2 DEF Bookkeeping, TypeOK, KeysTogether, EscapeType, SignalKeys
  <2>2. escapeGrace \in Nat /\ None \notin Nat
    BY ContractAssumption, NoneAssumption
  <2>3. escapeDeadline' \in Nat /\ escapeProgress' \in Nat
    BY <1>2, <2>1, <2>2 DEF creditEscapeProgress
  <2>4. escaped' = FALSE
    BY <2>1
  <2> QED BY <2>1, <2>2, <2>3, <2>4 DEF EscapeType, SignalKeys
<1> QED BY <1>1, <1>2

(* The watchdog's two permissionless methods. *)
LEMMA WatchdogKeepsBooks ==
  ASSUME Bookkeeping, signalEscape \/ executeEscape
  PROVE  Bookkeeping'
<1>1. CASE signalEscape
  <2>1. inboxCursor \in Nat /\ round + escapeGrace \in Nat /\ None \notin Nat
    <3>1. inboxCursor \in Nat /\ round \in Nat
      BY Books
    <3>2. escapeGrace \in Nat
      BY ContractAssumption
    <3>3. None \notin Nat
      BY NoneAssumption
    <3> QED BY <3>1, <3>2, <3>3
  <2>2. ~escaped /\ escaped' = escaped
    BY <1>1 DEF signalEscape
  <2>3. /\ escapeDeadline' \in Nat /\ escapeInboxTarget' \in Nat
        /\ escapeProgress' \in Nat
    BY <1>1, <2>1 DEF signalEscape
  <2>4. EscapeType' /\ SignalKeys'
    BY <2>1, <2>2, <2>3 DEF EscapeType, SignalKeys, Bookkeeping, TypeOK
  <2> QED BY <1>1, <2>2, <2>4, Frame
          DEF signalEscape, Bookkeeping, TypeOK, KeysTogether
<1>2. CASE executeEscape
  <2>1. EscapeType' /\ SignalKeys'
    BY <1>2 DEF executeEscape, ClearSignal, EscapeType, SignalKeys
  <2>2. BatchType' /\ BatchKeys' /\ InboxIntact'
    BY <1>2, ForgetKeepsBooks DEF executeEscape
  <2> QED BY <1>2, <2>1, <2>2, Frame
          DEF executeEscape, Bookkeeping, TypeOK, KeysTogether
<1> QED BY <1>1, <1>2

(* The tail of a payout chain is a payout chain. *)
LEMMA PayoutTail ==
  ASSUME Bookkeeping, pendingWithdrawals # None,
         NEW k \in 1..Len(pendingWithdrawals)
  PROVE  /\ pendingWithdrawals \in Seq(Payout)
         /\ Len(pendingWithdrawals) \in Nat /\ k \in Nat
         /\ Prefix(pendingWithdrawals, k - 1) \in Seq(Payout)
         /\ pendingWithdrawals[k] \in Payout
         /\ pendingWithdrawals[k].recipient \in L1Accounts
         /\ pendingWithdrawals[k].amount \in U64
         /\ pendingWithdrawals[k].amount \in Nat
<1>1. pendingWithdrawals \in Seq(Payout)
  BY DEF Bookkeeping, TypeOK, MoneyType
<1>2. Len(pendingWithdrawals) \in Nat
  BY <1>1, LenProperties
<1>3. k \in Nat /\ k - 1 \in 0..Len(pendingWithdrawals)
  BY <1>2
<1>4. Prefix(pendingWithdrawals, k - 1) \in Seq(Payout)
  BY <1>1, <1>3, PrefixType
<1>5. pendingWithdrawals[k] \in Payout
  BY <1>1, ElementOfSeq
<1>6. /\ pendingWithdrawals[k].recipient \in L1Accounts
      /\ pendingWithdrawals[k].amount \in U64
  BY <1>5 DEF Payout
<1>7. pendingWithdrawals[k].amount \in Nat
  BY <1>6, MaxU64Assumption DEF U64
<1> QED BY <1>1, <1>2, <1>3, <1>4, <1>5, <1>6, <1>7

(* A payout, by the sequencer or by anyone. *)
LEMMA PayoutKeepsBooks ==
  ASSUME Bookkeeping, Drain
  PROVE  Bookkeeping'
<1>1. PICK k \in 1..Len(pendingWithdrawals), byCreator \in BOOLEAN :
        payWithdrawal(pendingWithdrawals[k].recipient,
                      pendingWithdrawals[k].amount,
                      Prefix(pendingWithdrawals, k - 1), byCreator)
  BY DEF Drain
<1>2. pendingWithdrawals # None
  BY DEF Drain
<1>3. /\ UNCHANGED <<round, batchVars, inboxVars, settledVars, exits, escaped,
                     escapeInboxTarget, updateVars>>
      /\ pendingWithdrawals' = StepPast(Prefix(pendingWithdrawals, k - 1))
      /\ InnerPayment(pendingWithdrawals[k].recipient,
                      pendingWithdrawals[k].amount)
      /\ \/ creditEscapeProgress(1)
         \/ UNCHANGED <<escapeDeadline, escapeProgress>>
  BY <1>1 DEF payWithdrawal
<1>4. balance' \in Nat
  <2>1. DOMAIN inbox' \subseteq 0..(MaxInbox - 1) /\ DOMAIN exits' \subseteq Addresses
    BY <1>3 DEF inboxVars, Bookkeeping, TypeOK, InboxType, MoneyType
  <2> QED BY <1>2, <1>3, <2>1, PayoutTail, InnerPaymentType
<1>5. MoneyType'
  <2>1. pendingWithdrawals' \in Seq(Payout) \cup {None}
    BY <1>2, <1>3, PayoutTail DEF StepPast
  <2> QED BY <1>3, <1>4, <2>1 DEF Bookkeeping, TypeOK, MoneyType
<1>6. EscapeType' /\ SignalKeys'
  <2>1. CASE creditEscapeProgress(1)
    BY <2>1, <1>3, CreditKeepsSignal
  <2>2. CASE UNCHANGED <<escapeDeadline, escapeProgress>>
    BY <2>2, <1>3, Frame DEF escapeVars, Bookkeeping, TypeOK, KeysTogether
  <2> QED BY <1>3, <2>1, <2>2
<1>7. BatchKeys'
  <2>1. batchLength = None
    BY <1>2 DEF Bookkeeping, KeysTogether, BatchKeys
  <2> QED BY <1>3, <2>1 DEF batchVars, Bookkeeping, KeysTogether, BatchKeys
<1> QED BY <1>3, <1>5, <1>6, <1>7, Frame DEF Bookkeeping, TypeOK, KeysTogether

(* An exit. *)
LEMMA ExitKeepsBooks ==
  ASSUME Bookkeeping, NEW address \in Addresses, NEW recipient \in L1Accounts,
         forceExit(address, stateRoot[address], recipient)
  PROVE  Bookkeeping'
<1> DEFINE leaf == stateRoot[address]
<1>1. leaf.amount \in U64 /\ leaf.amount \in Nat
  <2>1. leaf \in Leaf
    BY DEF Bookkeeping, TypeOK, SettledType
  <2> QED BY <2>1, MaxU64Assumption DEF Leaf, U64
<1>2. leaf.amount - EXIT_MBR \in Nat
  BY <1>1, ContractAssumption DEF forceExit, Exitable
<1>3. DOMAIN exits' \subseteq Addresses /\ exits' \in [DOMAIN exits' -> U64]
  BY <1>1 DEF forceExit, Bookkeeping, TypeOK, MoneyType
<1>4. UNCHANGED <<round, batchVars, inboxVars, settledVars, pendingWithdrawals,
                  escapeVars, updateVars>>
  BY DEF forceExit
<1>5. balance' \in Nat
  <2>1. DOMAIN inbox' \subseteq 0..(MaxInbox - 1)
    BY <1>4 DEF inboxVars, Bookkeeping, TypeOK, InboxType
  <2>2. InnerPayment(recipient, leaf.amount - EXIT_MBR)
    BY DEF forceExit
  <2> QED BY <1>2, <1>3, <2>1, <2>2, InnerPaymentType
<1>6. MoneyType' /\ escaped' = escaped
  BY <1>3, <1>4, <1>5 DEF escapeVars, Bookkeeping, TypeOK, MoneyType
<1> QED BY <1>4, <1>6, Frame DEF Bookkeeping, TypeOK, KeysTogether

-----------------------------------------------------------------------------
(* A batch is opened over a prefix of the inbox. *)
LEMMA OpenKeepsBooks ==
  ASSUME Bookkeeping, NEW length \in Nat, NEW target \in Nat,
         openBatch(length, target)
  PROVE  Bookkeeping'
<1>1. UNCHANGED <<round, balance, inboxVars, settledVars, pendingWithdrawals,
                  exits, escapeVars, updateVars>>
  BY DEF openBatch
<1>2. sealedInboxChain' = Prefix(inboxChain, target)
  <2>1. CASE target = settledInboxCursor
    BY <2>1, Books DEF openBatch, InboxCheckpoint
  <2>2. CASE target # settledInboxCursor
    <3>1. target - 1 \in DOMAIN inbox
      BY <2>2 DEF openBatch
    <3>2. inbox[target - 1].chainAfter = Prefix(inboxChain, target - 1 + 1)
      BY <3>1 DEF Bookkeeping, InboxIntact, BoxesAgree
    <3>3. target - 1 + 1 = target
      OBVIOUS
    <3> QED BY <2>2, <3>2, <3>3 DEF openBatch, InboxCheckpoint
  <2> QED BY <2>1, <2>2
<1>3. settledInboxCursor <= target /\ target <= inboxCursor
  BY Books DEF openBatch
<1>4. sealedInboxChain' \in Seq(InboxEntry)
  BY <1>2, <1>3, Books, PrefixType
<1>5. chunkAccumulator' \in ChunkAccumulator
  <2>1. << >> \in Seq(Seq(Bytes))
    BY EmptySeq
  <2> QED BY <2>1 DEF openBatch, chunk_accumulator_seed, ChunkAccumulator
<1>6. BatchType' /\ BatchKeys'
  <2>1. /\ batchLength' \in Nat /\ postedLength' \in Nat
        /\ sealedInboxCursor' \in Nat
        /\ pendingWithdrawals' = None /\ ~escaped'
    BY <1>1 DEF openBatch, escapeVars
  <2> QED BY <2>1, <1>4, <1>5, NoneAssumption DEF BatchType, BatchKeys
<1>7. CursorsAgree' /\ BoxesAgree' /\ NoBoxMissing'
  BY <1>1, <1>2, <1>3
     DEF openBatch, inboxVars, settledVars, escapeVars, Bookkeeping,
         InboxIntact, CursorsAgree, BoxesAgree, NoBoxMissing
<1> QED BY <1>1, <1>6, <1>7, Frame
        DEF Bookkeeping, TypeOK, KeysTogether, InboxIntact

(* Chunks are folded in, and a batch may be abandoned. *)
LEMMA PostKeepsBooks ==
  ASSUME Bookkeeping,
         abandonBatch \/ \E chunk \in ByteStrings(0..CHUNK_SIZE) :
                           accumulateChunk(chunk)
  PROVE  Bookkeeping'
<1>1. CASE abandonBatch
  <2>1. escaped' = escaped
    BY <1>1 DEF abandonBatch, escapeVars
  <2>2. BatchType' /\ BatchKeys' /\ InboxIntact'
    BY <1>1, <2>1, ForgetKeepsBooks DEF abandonBatch
  <2> QED BY <1>1, <2>2, Frame DEF abandonBatch, Bookkeeping, TypeOK, KeysTogether
<1>2. ASSUME NEW chunk \in ByteStrings(0..CHUNK_SIZE), accumulateChunk(chunk)
      PROVE  Bookkeeping'
  <2>1. chunk \in Seq(Bytes)
    <3>1. PICK n \in 0..CHUNK_SIZE : chunk \in [1..n -> Bytes]
      BY DEF ByteStrings
    <3>2. n \in Nat
      <4>1. CHUNK_SIZE \in Nat
        BY ContractAssumption
      <4> QED BY <4>1
    <3> QED BY <3>1, <3>2, SeqDef
  <2>2. Len(chunk) \in Nat
    BY <2>1, LenProperties
  <2>3. batchLength # None
    BY <1>2 DEF accumulateChunk
  <2>4. chunkAccumulator' \in ChunkAccumulator
    <3>1. chunkAccumulator \in ChunkAccumulator
      BY <2>3, OpenBatchBooks
    <3>2. chunkAccumulator.chunks \in Seq(Seq(Bytes))
      BY <3>1 DEF ChunkAccumulator
    <3>3. Append(chunkAccumulator.chunks, chunk) \in Seq(Seq(Bytes))
      BY <2>1, <3>2, AppendProperties
    <3> QED BY <1>2, <3>1, <3>3
            DEF accumulateChunk, accumulate_chunk, ChunkAccumulator
  <2>5. postedLength' \in Nat
    BY <1>2, <2>2, <2>3, OpenBatchBooks DEF accumulateChunk
  <2>6. /\ UNCHANGED <<batchLength, sealedInboxChain, sealedInboxCursor>>
        /\ UNCHANGED <<round, balance, inboxVars, settledVars,
                       pendingWithdrawals, exits, escapeVars, updateVars>>
        /\ escaped' = escaped
    BY <1>2 DEF accumulateChunk, escapeVars
  <2>7. BatchType' /\ BatchKeys'
    BY <2>3, <2>4, <2>5, <2>6, NoneAssumption
       DEF BatchType, BatchKeys, Bookkeeping, TypeOK, KeysTogether
  <2>8. InboxIntact'
    BY <2>6 DEF inboxVars, settledVars, Bookkeeping, InboxIntact, CursorsAgree,
                BoxesAgree, NoBoxMissing
  <2> QED BY <2>6, <2>7, <2>8, Frame DEF Bookkeeping, TypeOK, KeysTogether
<1> QED BY <1>1, <1>2

(* A settlement moves the settled prefix up to the sealed one. *)
LEMMA SettlementKeepsBooks ==
  ASSUME Bookkeeping, NEW start \in ProofStarts, verifyBatch(start)
  PROVE  Bookkeeping'
<1>1. PICK end \in ProofEnds(start) :
        /\ stateRoot' = end.new_root
        /\ pendingWithdrawals' =
             IF end.withdrawal_chain # withdrawal_chain_terminal
             THEN end.withdrawal_chain ELSE pendingWithdrawals
  BY DEF verifyBatch
<1>2. /\ batchLength # None /\ ~escaped
      /\ settledInboxChain' = sealedInboxChain
      /\ settledInboxCursor' = sealedInboxCursor
      /\ ForgetBatch /\ AnswerSignal
      /\ UNCHANGED <<round, balance, inboxVars, exits, escaped, updateVars>>
  BY DEF verifyBatch, AdvanceToSeal
<1>3. SettledType' /\ MoneyType'
  <2>1. /\ stateRoot' \in [Addresses -> Leaf]
        /\ pendingWithdrawals' \in Seq(Payout) \cup {None}
    BY <1>1, ProofEndsType DEF Bookkeeping, TypeOK, MoneyType
  <2>2. settledInboxChain' \in Seq(InboxEntry) /\ settledInboxCursor' \in Nat
    BY <1>2, OpenBatchBooks
  <2> QED BY <1>2, <2>1, <2>2 DEF SettledType, Bookkeeping, TypeOK, MoneyType
<1>4. BatchType' /\ BatchKeys'
  BY <1>2 DEF ForgetBatch, BatchType, BatchKeys
<1>5. CursorsAgree' /\ BoxesAgree' /\ NoBoxMissing'
  <2>1. /\ settledInboxCursor \in Nat /\ sealedInboxCursor \in Nat
        /\ settledInboxCursor <= sealedInboxCursor
        /\ sealedInboxCursor <= inboxCursor
        /\ sealedInboxChain = Prefix(inboxChain, sealedInboxCursor)
    BY <1>2, Books, OpenBatchBooks
  <2>2. CursorsAgree' /\ BoxesAgree'
    BY <1>2, <2>1 DEF ForgetBatch, inboxVars, Bookkeeping, InboxIntact,
                      CursorsAgree, BoxesAgree
  <2>3. MaxInbox \in Nat
    BY Books
  <2>4. NoBoxMissing'
    BY <1>2, <2>1, <2>3 DEF inboxVars, Bookkeeping, InboxIntact, NoBoxMissing
  <2> QED BY <2>2, <2>4
<1>6. EscapeType' /\ SignalKeys'
  <2>1. CASE escapeInboxTarget = None
    BY <1>2, <2>1, Frame
       DEF AnswerSignal, escapeVars, Bookkeeping, TypeOK, KeysTogether
  <2>2. CASE ClearSignal
    BY <1>2, <2>2 DEF ClearSignal, EscapeType, SignalKeys, Bookkeeping, TypeOK
  <2>3. CASE /\ creditEscapeProgress(sealedInboxCursor - settledInboxCursor)
             /\ UNCHANGED escapeInboxTarget
    <3>1. sealedInboxCursor - settledInboxCursor \in Nat
      BY <1>2, Books, OpenBatchBooks
    <3> QED BY <1>2, <2>3, <3>1, CreditKeepsSignal
  <2> QED BY <1>2, <2>1, <2>2, <2>3 DEF AnswerSignal
<1> QED BY <1>2, <1>3, <1>4, <1>5, <1>6, Frame
        DEF Bookkeeping, TypeOK, KeysTogether, InboxIntact

-----------------------------------------------------------------------------
(* Every method keeps the books. *)
LEMMA BookkeepingStep == Bookkeeping /\ [Next]_vars => Bookkeeping'
<1> SUFFICES ASSUME Bookkeeping, [Next]_vars PROVE Bookkeeping'
  OBVIOUS
<1>1. CASE Council
  BY <1>1, CouncilKeepsBooks
<1>2. CASE Sequencer
  <2>1. ASSUME NEW length \in 0..MaxBatchLength, NEW target \in 0..MaxInbox,
               openBatch(length, target)
        PROVE  Bookkeeping'
    BY <2>1, OpenKeepsBooks, ContractAssumption
  <2>2. ASSUME NEW start \in ProofStarts, verifyBatch(start)
        PROVE  Bookkeeping'
    BY <2>2, SettlementKeepsBooks
  <2> QED BY <1>2, <2>1, <2>2, PostKeepsBooks DEF Sequencer
<1>3. CASE Anyone
  <2>1. ASSUME NEW payer \in L1Accounts \ {App}, NEW address \in Addresses,
               NEW amount \in DepositAmounts, deposit(payer, address, amount)
        PROVE  Bookkeeping'
    <3>1. App \in L1Accounts /\ amount \in U64
      BY ContractAssumption, InputAssumption
    <3> QED BY <2>1, <3>1, InboxGrowthKeepsBooks
  <2>2. ASSUME NEW payer \in L1Accounts \ {App}, NEW address \in Addresses,
               NEW recipient \in L1Accounts,
               requestWithdrawal(payer, address, recipient)
        PROVE  Bookkeeping'
    <3>1. 0 \in U64
      BY MaxU64Assumption DEF U64
    <3> QED BY <2>2, <3>1, InboxGrowthKeepsBooks
  <2>3. ASSUME NEW index \in DOMAIN inbox,
               pruneRequest(index) \/ pruneDeposit(index) \/ reclaimDeposit(index)
        PROVE  Bookkeeping'
    BY <2>3, PruneKeepsBooks
  <2>4. ASSUME NEW recipient \in L1Accounts, NEW address \in Addresses,
               forceExit(address, stateRoot[address], recipient)
        PROVE  Bookkeeping'
    BY <2>4, ExitKeepsBooks
  <2> QED BY <1>3, <2>1, <2>2, <2>3, <2>4, CouncilKeepsBooks, WatchdogKeepsBooks
          DEF Anyone
<1>4. CASE Drain
  BY <1>4, PayoutKeepsBooks
<1>5. CASE Tick
  <2>1. round' \in 0..MaxRound
    BY <1>5, ContractAssumption DEF Tick, Bookkeeping, TypeOK
  <2> QED BY <1>5, <2>1, Frame
          DEF Tick, Bookkeeping, TypeOK, KeysTogether, escapeVars
<1>6. CASE UNCHANGED vars
  BY <1>6, Frame DEF vars, Bookkeeping, TypeOK, KeysTogether, escapeVars
<1> QED BY <1>1, <1>2, <1>3, <1>4, <1>5, <1>6 DEF Next

(* The contract's books are in order in every reachable state. *)
THEOREM BooksInOrder == Spec => []Bookkeeping
BY BookkeepingInit, BookkeepingStep, PTL DEF Spec

(* No method, in any order and with any arguments, leaves a key or a box with
   a value of the wrong type: a cursor is never compared while it is absent. *)
THEOREM TypeCorrect == Spec => []TypeOK
BY BooksInOrder, PTL DEF Bookkeeping

(* The five keys of a batch, the three of a signal and the two of each update
   are deleted together by every method that deletes one of them. *)
THEOREM KeysLiveTogether == Spec => []KeysTogether
BY BooksInOrder, PTL DEF Bookkeeping

(* Whatever prunes, refunds and settlements interleave, the inbox stays one
   FIFO whose unsettled boxes are all there until an escape. *)
THEOREM InboxStaysIntact == Spec => []InboxIntact
BY BooksInOrder, PTL DEF Bookkeeping

-----------------------------------------------------------------------------
(***************************************************************************)
(* The batch as it is posted.  The chunks so far are full but for the last *)
(* one, and it is short only when it ends the batch: enough to read back   *)
(* from them the one byte string they are the cut of.                      *)
(***************************************************************************)

(* The cut of a batch of some length, after n chunks. *)
CutSoFar(length, posted, chunks) ==
  /\ posted = Least(Len(chunks) * CHUNK_SIZE, length)
  /\ \A i \in 1..Len(chunks) :
       /\ (i - 1) * CHUNK_SIZE < length
       /\ Len(chunks[i]) = Least(i * CHUNK_SIZE, length) - (i - 1) * CHUNK_SIZE

ChunksCut ==
  batchLength # None =>
    /\ chunkAccumulator.length = batchLength
    /\ CutSoFar(batchLength, postedLength, chunkAccumulator.chunks)

Posting == Bookkeeping /\ ChunksCut

LEMMA Products ==
  ASSUME NEW c \in Nat, NEW k \in Nat
  PROVE  k * c \in Nat /\ (k + 1) * c = k * c + c /\ 0 * c = 0
OBVIOUS

LEMMA ProductOrder ==
  ASSUME NEW c \in Nat, NEW k \in Nat, NEW n \in Nat, k * c < n * c
  PROVE  k < n
OBVIOUS

(* A number lies in one chunk, and in no other. *)
LEMMA ChunkOf ==
  ASSUME NEW c \in Nat \ {0}, NEW a \in Nat
  PROVE  /\ a \div c \in Nat /\ (a \div c) * c <= a
         /\ a < (a \div c) * c + c
OBVIOUS

LEMMA OnlyChunkOf ==
  ASSUME NEW c \in Nat \ {0}, NEW k \in Nat, NEW a \in Nat,
         k * c <= a, a < k * c + c
  PROVE  a \div c = k
<1> DEFINE r == a - k * c
<1>1. r \in 0..(c - 1) /\ a = k * c + r
  OBVIOUS
<1>2. (k * c + r) \div c = k
  BY <1>1
<1> QED BY <1>1, <1>2

(* Enough chunks for the length, and the last one needed, is chunk_count. *)
LEMMA ChunksCounted ==
  ASSUME NEW length \in Nat, NEW n \in Nat, length <= n * CHUNK_SIZE,
         n > 0 => (n - 1) * CHUNK_SIZE < length
  PROVE  chunk_count(length) = n
<1>1. CHUNK_SIZE \in Nat \ {0}
  BY ContractAssumption
<1> DEFINE a == length + CHUNK_SIZE - 1
<1>2. a \in Nat /\ n * CHUNK_SIZE \in Nat
  BY <1>1, Products
<1>3. a < n * CHUNK_SIZE + CHUNK_SIZE
  BY <1>1, <1>2
<1>4. n * CHUNK_SIZE <= a
  <2>1. CASE n = 0
    BY <1>1, <1>2, <2>1, Products
  <2>2. CASE n > 0
    <3>1. n - 1 \in Nat /\ (n - 1) + 1 = n
      BY <2>2
    <3>2. /\ (n - 1) * CHUNK_SIZE \in Nat
          /\ n * CHUNK_SIZE = (n - 1) * CHUNK_SIZE + CHUNK_SIZE
      BY <1>1, <3>1, Products
    <3> QED BY <1>1, <1>2, <2>2, <3>2
  <2> QED BY <2>1, <2>2
<1> HIDE DEF a
<1>5. a \div CHUNK_SIZE = n
  BY <1>1, <1>2, <1>3, <1>4, OnlyChunkOf
<1> QED BY <1>5 DEF a, chunk_count

(* A cut that has come to the end is the cut of a byte string. *)
LEMMA CutIsOfBytes ==
  ASSUME NEW length \in Nat, NEW chunks \in Seq(Seq(Bytes)),
         CutSoFar(length, length, chunks)
  PROVE  \E bytes \in ByteStrings({length}) :
           batch_commitment(bytes) = [length |-> length, chunks |-> chunks]
<1> DEFINE n == Len(chunks)
           at(j) == (j - 1) \div CHUNK_SIZE
           bytes == [j \in 1..length |-> chunks[at(j) + 1][j - at(j) * CHUNK_SIZE]]
<1>1. CHUNK_SIZE \in Nat \ {0} /\ n \in Nat /\ n * CHUNK_SIZE \in Nat
  BY ContractAssumption, LenProperties, Products
<1>2. length <= n * CHUNK_SIZE
  BY <1>1 DEF CutSoFar, Least
<1>3. \A i \in 1..n :
        /\ i \in Nat /\ i - 1 \in Nat /\ (i - 1) * CHUNK_SIZE \in Nat
        /\ i * CHUNK_SIZE = (i - 1) * CHUNK_SIZE + CHUNK_SIZE
        /\ (i - 1) * CHUNK_SIZE < length
        /\ chunks[i] \in Seq(Bytes)
        /\ Len(chunks[i]) = Least(i * CHUNK_SIZE, length) - (i - 1) * CHUNK_SIZE
  <2> SUFFICES ASSUME NEW i \in 1..n
               PROVE  /\ i \in Nat /\ i - 1 \in Nat /\ (i - 1) * CHUNK_SIZE \in Nat
                      /\ i * CHUNK_SIZE = (i - 1) * CHUNK_SIZE + CHUNK_SIZE
                      /\ (i - 1) * CHUNK_SIZE < length
                      /\ chunks[i] \in Seq(Bytes)
                      /\ Len(chunks[i]) = Least(i * CHUNK_SIZE, length)
                                            - (i - 1) * CHUNK_SIZE
    OBVIOUS
  <2>1. i \in Nat /\ i - 1 \in Nat /\ (i - 1) + 1 = i
    BY <1>1
  <2>2. /\ (i - 1) * CHUNK_SIZE \in Nat
        /\ i * CHUNK_SIZE = (i - 1) * CHUNK_SIZE + CHUNK_SIZE
    BY <1>1, <2>1, Products
  <2>3. chunks[i] \in Seq(Bytes)
    BY ElementOfSeq
  <2> QED BY <2>1, <2>2, <2>3 DEF CutSoFar
<1>4. ASSUME NEW j \in 1..length
      PROVE  bytes[j] \in Bytes
  <2> DEFINE k == at(j)
  <2>1. j - 1 \in Nat /\ j \in Nat /\ j <= length
    OBVIOUS
  <2>2. k \in Nat /\ k * CHUNK_SIZE <= j - 1 /\ j - 1 < k * CHUNK_SIZE + CHUNK_SIZE
    BY <1>1, <2>1, ChunkOf
  <2>3. bytes[j] = chunks[k + 1][j - k * CHUNK_SIZE]
    OBVIOUS
  <2> HIDE DEF at, bytes
  <2> HIDE DEF k
  <2>4. /\ k * CHUNK_SIZE \in Nat
        /\ (k + 1) * CHUNK_SIZE = k * CHUNK_SIZE + CHUNK_SIZE
    BY <1>1, <2>2, Products
  <2>5. k * CHUNK_SIZE < n * CHUNK_SIZE
    BY <1>1, <1>2, <2>1, <2>2, <2>4
  <2>6. k + 1 \in 1..n
    BY <1>1, <2>2, <2>5, ProductOrder
  <2>7. /\ chunks[k + 1] \in Seq(Bytes)
        /\ Len(chunks[k + 1])
             = Least(k * CHUNK_SIZE + CHUNK_SIZE, length) - k * CHUNK_SIZE
    <3>1. (k + 1) - 1 = k
      BY <2>2
    <3> QED BY <1>3, <2>4, <2>6, <3>1
  <2>8. j - k * CHUNK_SIZE \in 1..Len(chunks[k + 1])
    BY <1>1, <2>1, <2>2, <2>4, <2>7 DEF Least
  <2> DEFINE c == chunks[k + 1]
             m == j - k * CHUNK_SIZE
  <2>9. c \in Seq(Bytes) /\ m \in 1..Len(c) /\ bytes[j] = c[m]
    BY <2>3, <2>7, <2>8
  <2> HIDE DEF c, m
  <2>10. c[m] \in Bytes
    BY <2>9, ElementOfSeq
  <2> QED BY <2>9, <2>10
<1>5. bytes \in [1..length -> Bytes] /\ bytes \in ByteStrings({length})
  BY <1>4 DEF ByteStrings
<1>6. bytes \in Seq(Bytes) /\ Len(bytes) = length
  <2>1. DOMAIN bytes = 1..length
    OBVIOUS
  <2> HIDE DEF bytes
  <2>2. bytes \in Seq(Bytes)
    <3>1. length \in Nat /\ bytes \in [1..length -> Bytes]
      BY <1>1, <1>5
    <3> QED BY <3>1
  <2> QED BY <2>1, <2>2, LenProperties
<1>7. chunk_count(length) = n
  <2>1. n > 0 => (n - 1) * CHUNK_SIZE < length
    BY <1>1, <1>3
  <2> QED BY <1>1, <1>2, <2>1, ChunksCounted
<1>8. ASSUME NEW i \in 1..n
      PROVE  SubSeq(bytes, (i - 1) * CHUNK_SIZE + 1, Least(i * CHUNK_SIZE, length))
               = chunks[i]
  <2> DEFINE first == (i - 1) * CHUNK_SIZE
             last == Least(i * CHUNK_SIZE, length)
             cut == SubSeq(bytes, first + 1, last)
  <2>1. /\ first \in Nat /\ last \in Nat /\ first < last /\ last <= length
        /\ last <= first + CHUNK_SIZE
        /\ chunks[i] \in Seq(Bytes) /\ Len(chunks[i]) = last - first
        /\ i \in Nat /\ i - 1 \in Nat
    <3> HIDE DEF bytes, at
    <3>1. /\ i * CHUNK_SIZE \in Nat /\ first \in Nat /\ first < length
          /\ i * CHUNK_SIZE = first + CHUNK_SIZE
          /\ chunks[i] \in Seq(Bytes) /\ Len(chunks[i]) = last - first
          /\ i \in Nat /\ i - 1 \in Nat
      BY <1>1, <1>3
    <3> HIDE DEF first
    <3> QED BY <1>1, <3>1 DEF Least
  <2>2. \A j \in 1..length :
          bytes[j] = chunks[at(j) + 1][j - at(j) * CHUNK_SIZE]
    OBVIOUS
  <2> HIDE DEF bytes
  <2>3. \A j \in (first + 1)..last : bytes[j] \in Bytes
    BY <1>5, <2>1
  <2>4. /\ cut \in Seq(Bytes) /\ Len(cut) = last - first
        /\ \A j \in 1..(last - first) : cut[j] = bytes[first + j]
    <3> HIDE DEF first, last
    <3>1. /\ first + 1 \in Int /\ last \in Int /\ first + 1 <= last
          /\ last - (first + 1) + 1 = last - first
      BY <2>1
    <3>2. /\ cut \in Seq(Bytes) /\ Len(cut) = last - (first + 1) + 1
          /\ \A j \in 1..(last - (first + 1) + 1) : cut[j] = bytes[first + 1 + j - 1]
      BY <2>3, <3>1, SubSeqProperties
    <3>3. \A j \in 1..(last - first) : first + 1 + j - 1 = first + j
      BY <2>1
    <3> QED BY <3>1, <3>2, <3>3
  <2>5. ASSUME NEW j \in 1..(last - first)
        PROVE  cut[j] = chunks[i][j]
    <3> DEFINE m == first + j
    <3>1. /\ j \in Nat /\ m \in 1..length /\ m - 1 \in Nat /\ m - first = j
          /\ first <= m - 1 /\ m - 1 < first + CHUNK_SIZE
      BY <1>1, <2>1
    <3>2. cut[j] = bytes[m]
      BY <2>4
    <3> HIDE DEF m, cut
    <3>3. (m - 1) \div CHUNK_SIZE = i - 1
      BY <1>1, <2>1, <3>1, OnlyChunkOf
    <3>4. bytes[m] = chunks[at(m) + 1][m - at(m) * CHUNK_SIZE]
      BY <2>2, <3>1
    <3>5. at(m) = i - 1 /\ (i - 1) + 1 = i
      BY <2>1, <3>3
    <3> HIDE DEF at
    <3>6. bytes[m] = chunks[i][m - first]
      BY <3>4, <3>5
    <3> QED BY <3>1, <3>2, <3>6
  <2> HIDE DEF first, last, cut
  <2>6. cut = chunks[i]
    BY <2>1, <2>4, <2>5, SeqEqual
  <2> QED BY <2>6 DEF first, last, cut
<1>9. chunks = [i \in 1..n |-> chunks[i]]
  BY LenProperties
<1> HIDE DEF bytes
<1>10. batch_commitment(bytes) = [length |-> length, chunks |-> chunks]
  <2>1. [i \in 1..n |-> SubSeq(bytes, (i - 1) * CHUNK_SIZE + 1,
                               Least(i * CHUNK_SIZE, length))]
          = [i \in 1..n |-> chunks[i]]
    BY <1>8
  <2> QED BY <1>6, <1>7, <1>9, <2>1 DEF batch_commitment
<1> QED BY <1>5, <1>10

LEMMA PostingInit == Init => Posting
BY BookkeepingInit DEF Init, Posting, ChunksCut

LEMMA LeastCut ==
  ASSUME NEW p \in Nat, NEW c \in Nat, NEW length \in Nat, p < length
  PROVE  /\ p + Least(c, length - p) = Least(p + c, length)
         /\ Least(c, length - p) = Least(p + c, length) - p
BY DEF Least

(* A chunk that ChunkFits accepts carries the cut on. *)
LEMMA ChunkCarriesOn ==
  ASSUME NEW length \in Nat, NEW posted \in Nat, NEW chunks \in Seq(Seq(Bytes)),
         NEW chunk \in Seq(Bytes), CutSoFar(length, posted, chunks),
         posted < length, Len(chunk) = Least(CHUNK_SIZE, length - posted)
  PROVE  CutSoFar(length, posted + Len(chunk), Append(chunks, chunk))
<1> DEFINE n == Len(chunks)
           more == Append(chunks, chunk)
<1>1. /\ CHUNK_SIZE \in Nat \ {0} /\ n \in Nat /\ n * CHUNK_SIZE \in Nat
      /\ (n + 1) * CHUNK_SIZE = n * CHUNK_SIZE + CHUNK_SIZE
  BY ContractAssumption, LenProperties, Products
<1>2. posted = n * CHUNK_SIZE
  BY <1>1 DEF CutSoFar, Least
<1>3. /\ Len(more) = n + 1 /\ more[n + 1] = chunk
      /\ \A i \in 1..n : more[i] = chunks[i]
  BY AppendProperties
<1> HIDE DEF more
<1>4. posted + Len(chunk) = Least((n + 1) * CHUNK_SIZE, length)
  BY <1>1, <1>2, LeastCut
<1>5. ASSUME NEW i \in 1..Len(more)
      PROVE  /\ (i - 1) * CHUNK_SIZE < length
             /\ Len(more[i]) = Least(i * CHUNK_SIZE, length) - (i - 1) * CHUNK_SIZE
  <2>1. CASE i \in 1..n
    BY <1>3, <2>1 DEF CutSoFar
  <2>2. CASE i = n + 1
    <3>1. i - 1 = n /\ more[i] = chunk
      BY <1>1, <1>3, <2>2
    <3>2. Len(chunk) = Least((n + 1) * CHUNK_SIZE, length) - n * CHUNK_SIZE
      BY <1>1, <1>2, LeastCut
    <3> QED BY <1>2, <2>2, <3>1, <3>2
  <2>3. i \in 1..n \/ i = n + 1
    BY <1>1, <1>3
  <2> QED BY <2>1, <2>2, <2>3
<1> QED BY <1>3, <1>4, <1>5 DEF CutSoFar, more

(* openBatch starts a cut, accumulateChunk carries it on, and every other
   method leaves the batch alone or forgets it whole. *)
LEMMA PostingStep == Posting /\ [Next]_vars => Posting'
<1> SUFFICES ASSUME Posting, [Next]_vars PROVE Posting'
  OBVIOUS
<1>1. Bookkeeping /\ Bookkeeping' /\ ChunksCut
  BY BookkeepingStep DEF Posting
<1>2. ASSUME UNCHANGED batchVars PROVE Posting'
  BY <1>1, <1>2 DEF Posting, ChunksCut, batchVars
<1>3. ASSUME ForgetBatch PROVE Posting'
  BY <1>1, <1>3 DEF Posting, ChunksCut, ForgetBatch
<1>4. CASE Council
  BY <1>2, <1>3, <1>4
     DEF Council, securityCouncilEscape, scheduleVerifierUpdate,
         scheduleApplicationUpdate
<1>5. CASE Sequencer
  <2>1. ASSUME NEW length \in 0..MaxBatchLength, NEW target,
               openBatch(length, target)
        PROVE  Posting'
    <3>1. /\ batchLength' = length /\ postedLength' = 0
          /\ chunkAccumulator' = [length |-> length, chunks |-> << >>]
      BY <2>1 DEF openBatch, chunk_accumulator_seed
    <3>2. length \in Nat /\ CHUNK_SIZE \in Nat /\ Len(<< >>) = 0
      BY ContractAssumption, EmptySeq
    <3>3. CutSoFar(length, 0, << >>)
      BY <3>2, Products DEF CutSoFar, Least
    <3> QED BY <1>1, <3>1, <3>3 DEF Posting, ChunksCut
  <2>2. ASSUME NEW chunk \in ByteStrings(0..CHUNK_SIZE), accumulateChunk(chunk)
        PROVE  Posting'
    <3>1. /\ batchLength # None /\ postedLength < batchLength
          /\ Len(chunk) = Least(CHUNK_SIZE, batchLength - postedLength)
          /\ batchLength' = batchLength
          /\ postedLength' = postedLength + Len(chunk)
          /\ chunkAccumulator' = accumulate_chunk(chunkAccumulator, chunk)
      BY <2>2 DEF accumulateChunk, ChunkFits
    <3>2. /\ batchLength \in Nat /\ postedLength \in Nat
          /\ chunkAccumulator \in ChunkAccumulator
          /\ chunkAccumulator.chunks \in Seq(Seq(Bytes))
      BY <1>1, <3>1, OpenBatchBooks DEF ChunkAccumulator
    <3>3. chunk \in Seq(Bytes)
      <4>1. PICK n \in 0..CHUNK_SIZE : chunk \in [1..n -> Bytes]
        BY DEF ByteStrings
      <4>2. n \in Nat
        BY ContractAssumption
      <4> QED BY <4>1, <4>2, SeqDef
    <3>4. /\ chunkAccumulator'.length = chunkAccumulator.length
          /\ chunkAccumulator'.chunks = Append(chunkAccumulator.chunks, chunk)
      BY <3>1, <3>2 DEF accumulate_chunk, ChunkAccumulator
    <3>5. /\ chunkAccumulator.length = batchLength
          /\ CutSoFar(batchLength, postedLength, chunkAccumulator.chunks)
      BY <1>1, <3>1 DEF ChunksCut
    <3>6. CutSoFar(batchLength, postedLength + Len(chunk),
                   Append(chunkAccumulator.chunks, chunk))
      BY <3>1, <3>2, <3>3, <3>5, ChunkCarriesOn
    <3>7. CutSoFar(batchLength', postedLength', chunkAccumulator'.chunks)
      BY <3>1, <3>4, <3>6
    <3> QED BY <1>1, <3>1, <3>4, <3>5, <3>7 DEF Posting, ChunksCut
  <2>3. CASE abandonBatch
    BY <1>3, <2>3 DEF abandonBatch
  <2>4. ASSUME NEW start, verifyBatch(start) PROVE Posting'
    BY <1>3, <2>4 DEF verifyBatch
  <2> QED BY <1>5, <2>1, <2>2, <2>3, <2>4 DEF Sequencer
<1>6. CASE Anyone
  <2>1. ASSUME NEW p, executeVerifierUpdate \/ updateApplication(p) PROVE Posting'
    BY <1>2, <2>1 DEF executeVerifierUpdate, updateApplication
  <2>2. ASSUME NEW payer, NEW address, NEW amount, deposit(payer, address, amount)
        PROVE  Posting'
    BY <1>2, <2>2 DEF deposit
  <2>3. ASSUME NEW payer, NEW address, NEW recipient,
               requestWithdrawal(payer, address, recipient)
        PROVE  Posting'
    BY <1>2, <2>3 DEF requestWithdrawal
  <2>4. ASSUME NEW index,
               pruneRequest(index) \/ pruneDeposit(index) \/ reclaimDeposit(index)
        PROVE  Posting'
    BY <1>2, <2>4 DEF pruneRequest, pruneDeposit, reclaimDeposit
  <2>5. CASE signalEscape \/ executeEscape
    BY <1>2, <1>3, <2>5 DEF signalEscape, executeEscape
  <2>6. ASSUME NEW recipient, NEW address, NEW leaf,
               forceExit(address, leaf, recipient)
        PROVE  Posting'
    BY <1>2, <2>6 DEF forceExit
  <2> QED BY <1>6, <2>1, <2>2, <2>3, <2>4, <2>5, <2>6 DEF Anyone
<1>7. CASE Drain
  BY <1>2, <1>7 DEF Drain, payWithdrawal
<1>8. CASE Tick \/ UNCHANGED vars
  BY <1>2, <1>8 DEF Tick, vars
<1> QED BY <1>4, <1>5, <1>6, <1>7, <1>8 DEF Next

(* A batch posted in full, for any chunk size, length and bytes, in any
   interleaving with the other methods, is one batch_commitment can equal:
   accumulateChunk never lets the sequencer post what no proof could match. *)
THEOREM PostedIsProvable == Spec => []PostedBatchIsProvable
<1>1. Spec => []Posting
  BY PostingInit, PostingStep, PTL DEF Spec
<1>2. ASSUME Posting, batchLength # None, postedLength = batchLength
      PROVE  \E bytes \in ByteStrings({batchLength}) :
               batch_commitment(bytes) = chunkAccumulator
  <2>1. /\ batchLength \in Nat /\ chunkAccumulator \in ChunkAccumulator
        /\ chunkAccumulator.chunks \in Seq(Seq(Bytes))
    BY <1>2, OpenBatchBooks DEF Posting, ChunkAccumulator
  <2>2. /\ chunkAccumulator.length = batchLength
        /\ CutSoFar(batchLength, batchLength, chunkAccumulator.chunks)
    BY <1>2 DEF Posting, ChunksCut
  <2>3. chunkAccumulator = [length |-> batchLength, chunks |-> chunkAccumulator.chunks]
    BY <2>1, <2>2 DEF ChunkAccumulator
  <2>4. \E bytes \in ByteStrings({batchLength}) :
          batch_commitment(bytes)
            = [length |-> batchLength, chunks |-> chunkAccumulator.chunks]
    BY <2>1, <2>2, CutIsOfBytes
  <2> QED BY <2>3, <2>4
<1>3. Posting => PostedBatchIsProvable
  BY <1>2 DEF PostedBatchIsProvable
<1> QED BY <1>1, <1>3, PTL

-----------------------------------------------------------------------------
(* What the contract owes. *)
BoxesPast == \A i \in DOMAIN inbox : inbox[i].round <= round

Accusation == Bookkeeping /\ BoxesPast /\ AccusationStands

LEMMA AccusationInit == Init => Accusation
<1>1. Init => DOMAIN inbox = {}
  BY DEF Init
<1> QED BY <1>1, BookkeepingInit
        DEF Init, Accusation, BoxesPast, AccusationStands

(* What an accusation is made of, in numbers. *)
LEMMA AccusationTypes ==
  ASSUME Bookkeeping
  PROVE  /\ escapeDeadline # None =>
              /\ escapeDeadline \in Nat /\ escapeInboxTarget \in Nat
              /\ escapeInboxTarget # None
         /\ escapeDeadline = None => escapeInboxTarget = None
         /\ escapeGrace \in Nat /\ None \notin Nat
BY ContractAssumption, NoneAssumption
   DEF Bookkeeping, TypeOK, EscapeType, KeysTogether, SignalKeys

(* Credit only ever moves a deadline away. *)
LEMMA CreditMovesAway ==
  ASSUME Bookkeeping, NEW n, creditEscapeProgress(n)
  PROVE  /\ escapeDeadline = None => escapeDeadline' = None
         /\ escapeDeadline # None =>
              escapeDeadline' \in Nat /\ escapeDeadline <= escapeDeadline'
BY AccusationTypes DEF creditEscapeProgress

(* Steps that leave the boxes and the settled cursor alone, add a box past the
   target or delete one, move no deadline closer and start no accusation. *)
LEMMA AccusationKept ==
  ASSUME Bookkeeping, AccusationStands,
         escapeDeadline = None => escapeDeadline' = None,
         escapeDeadline # None /\ escapeDeadline' # None =>
           /\ escapeDeadline' \in Nat /\ escapeDeadline <= escapeDeadline'
           /\ escapeInboxTarget' = escapeInboxTarget
           /\ settledInboxCursor' \in Nat
           /\ settledInboxCursor <= settledInboxCursor'
           /\ settledInboxCursor' < escapeInboxTarget
           /\ inboxCursor' \in Nat /\ inboxCursor <= inboxCursor',
         \A i \in DOMAIN inbox' :
           \/ i \in DOMAIN inbox /\ inbox'[i] = inbox[i]
           \/ i = inboxCursor
  PROVE  AccusationStands'
<1> SUFFICES ASSUME escapeDeadline' # None
             PROVE  /\ settledInboxCursor' < escapeInboxTarget'
                    /\ escapeInboxTarget' <= inboxCursor'
                    /\ \A i \in DOMAIN inbox' :
                         settledInboxCursor' <= i /\ i < escapeInboxTarget' =>
                           inbox'[i].round + escapeGrace <= escapeDeadline'
  BY DEF AccusationStands
<1>1. /\ escapeDeadline # None
      /\ escapeDeadline \in Nat /\ escapeInboxTarget \in Nat
      /\ escapeGrace \in Nat
      /\ settledInboxCursor \in Nat /\ inboxCursor \in Nat
      /\ escapeInboxTarget <= inboxCursor
  BY AccusationTypes, Books DEF AccusationStands
<1>2. ASSUME NEW i \in DOMAIN inbox',
             settledInboxCursor' <= i, i < escapeInboxTarget'
      PROVE  inbox'[i].round + escapeGrace <= escapeDeadline'
  <2>1. i # inboxCursor
    BY <1>1, <1>2
  <2>2. i \in DOMAIN inbox /\ inbox'[i] = inbox[i]
    BY <1>2, <2>1
  <2>3. i \in Nat /\ inbox[i].round \in Nat
    BY <2>2, Books
  <2>4. settledInboxCursor <= i /\ i < escapeInboxTarget
    BY <1>1, <1>2, <2>3
  <2>5. inbox[i].round + escapeGrace <= escapeDeadline
    BY <1>1, <2>2, <2>4 DEF AccusationStands
  <2> QED BY <1>1, <2>2, <2>3, <2>5
<1> QED BY <1>1, <1>2

(* A step keeps the dates of the boxes in the past. *)
LEMMA BoxesPastStep ==
  ASSUME Bookkeeping, BoxesPast,
         round' = round \/ round' = round + 1,
         \A i \in DOMAIN inbox' :
           \/ i \in DOMAIN inbox /\ inbox'[i] = inbox[i]
           \/ inbox'[i].round = round
  PROVE  BoxesPast'
<1>1. round \in Nat
  BY Books
<1>2. ASSUME NEW i \in DOMAIN inbox' PROVE inbox'[i].round <= round'
  <2>1. CASE i \in DOMAIN inbox /\ inbox'[i] = inbox[i]
    BY <1>1, <2>1, Books DEF BoxesPast
  <2>2. CASE inbox'[i].round = round
    BY <1>1, <2>2
  <2> QED BY <2>1, <2>2
<1> QED BY <1>2 DEF BoxesPast

(* The two together, for a step that settles nothing and signals nothing. *)
LEMMA QuietStep ==
  ASSUME Accusation, Bookkeeping',
         round' = round \/ round' = round + 1,
         UNCHANGED settledInboxCursor,
         inboxCursor <= inboxCursor',
         escapeDeadline = None => escapeDeadline' = None,
         escapeDeadline # None /\ escapeDeadline' # None =>
           /\ escapeDeadline <= escapeDeadline'
           /\ UNCHANGED escapeInboxTarget,
         \A i \in DOMAIN inbox' :
           \/ i \in DOMAIN inbox /\ inbox'[i] = inbox[i]
           \/ i = inboxCursor /\ inbox'[i].round = round
  PROVE  Accusation'
<1>1. /\ Bookkeeping /\ BoxesPast /\ AccusationStands
      /\ settledInboxCursor \in Nat
  BY Books DEF Accusation
<1>2. /\ escapeDeadline' # None => escapeDeadline' \in Nat
      /\ inboxCursor' \in Nat
  BY DEF Bookkeeping, TypeOK, EscapeType, InboxType
<1>3. escapeDeadline # None => settledInboxCursor < escapeInboxTarget
  BY <1>1 DEF AccusationStands
<1>4. BoxesPast'
  BY <1>1, BoxesPastStep
<1>5. AccusationStands'
  BY <1>1, <1>2, <1>3, AccusationKept
<1> QED BY <1>4, <1>5 DEF Accusation

(* An accusation is born with every accused box given the grace period. *)
LEMMA SignalStands ==
  ASSUME Accusation, Bookkeeping', signalEscape
  PROVE  Accusation'
<1>1. /\ Bookkeeping /\ BoxesPast
      /\ settledInboxCursor < inboxCursor
      /\ escapeInboxTarget' = inboxCursor
      /\ escapeDeadline' = round + escapeGrace
      /\ UNCHANGED <<round, inbox, inboxCursor, settledInboxCursor>>
  BY DEF Accusation, signalEscape, inboxVars, settledVars
<1>2. round \in Nat /\ escapeGrace \in Nat /\ inboxCursor \in Nat
  BY <1>1, Books, ContractAssumption
<1>3. \A i \in DOMAIN inbox : inbox[i].round \in Nat /\ inbox[i].round <= round
  BY <1>1, Books DEF BoxesPast
<1>4. \A i \in DOMAIN inbox : inbox[i].round + escapeGrace <= escapeDeadline'
  BY <1>1, <1>2, <1>3
<1>5. BoxesPast' /\ AccusationStands'
  BY <1>1, <1>2, <1>4 DEF BoxesPast, AccusationStands
<1> QED BY <1>5 DEF Accusation

(* Settlement clears a signal whose target it reaches and otherwise moves
   towards the target without reaching it. *)
LEMMA SettlementStands ==
  ASSUME Accusation, Bookkeeping', NEW start \in ProofStarts, verifyBatch(start)
  PROVE  Accusation'
<1>1. /\ Bookkeeping /\ BoxesPast /\ AccusationStands
      /\ batchLength # None
      /\ settledInboxCursor' = sealedInboxCursor
      /\ AnswerSignal
      /\ UNCHANGED <<round, inbox, inboxCursor>>
  BY DEF Accusation, verifyBatch, AdvanceToSeal, inboxVars
<1>2. /\ settledInboxCursor \in Nat /\ sealedInboxCursor \in Nat
      /\ settledInboxCursor <= sealedInboxCursor /\ inboxCursor \in Nat
  BY <1>1, Books, OpenBatchBooks
<1>3. BoxesPast'
  BY <1>1 DEF BoxesPast
<1>4. CASE escapeDeadline' = None
  BY <1>4, <1>3 DEF Accusation, AccusationStands
<1>5. CASE escapeDeadline' # None
  <2>1. escapeInboxTarget # None /\ escapeDeadline # None
    BY <1>1, <1>5, AccusationTypes DEF AnswerSignal, ClearSignal
  <2>2. /\ ~(sealedInboxCursor >= escapeInboxTarget)
        /\ creditEscapeProgress(sealedInboxCursor - settledInboxCursor)
        /\ UNCHANGED escapeInboxTarget
    BY <1>1, <1>5, <2>1 DEF AnswerSignal, ClearSignal
  <2>3. escapeDeadline' \in Nat /\ escapeDeadline <= escapeDeadline'
    BY <1>1, <2>1, <2>2, CreditMovesAway
  <2>4. escapeInboxTarget \in Nat /\ sealedInboxCursor < escapeInboxTarget
    BY <1>1, <1>2, <2>1, <2>2, AccusationTypes
  <2>5. \A i \in DOMAIN inbox' : i \in DOMAIN inbox /\ inbox'[i] = inbox[i]
    BY <1>1
  <2>6. AccusationStands'
    BY <1>1, <1>2, <2>1, <2>2, <2>3, <2>4, <2>5, AccusationKept
  <2> QED BY <1>3, <2>6 DEF Accusation
<1> QED BY <1>4, <1>5

LEMMA AccusationStep == Accusation /\ [Next]_vars => Accusation'
<1> SUFFICES ASSUME Accusation, [Next]_vars PROVE Accusation'
  OBVIOUS
<1>1. Bookkeeping /\ Bookkeeping'
  BY BookkeepingStep DEF Accusation
<1>2. round \in Nat /\ inboxCursor \in Nat
  BY <1>1, Books
<1>3. /\ escapeDeadline # None => escapeDeadline \in Nat
      /\ escapeDeadline = None => escapeInboxTarget = None
  BY <1>1, AccusationTypes
\* The frame of every step but an append, a delete and a settlement.
<1>4. ASSUME UNCHANGED <<inboxVars, settledVars>>,
             round' = round \/ round' = round + 1,
             escapeDeadline' = None \/ UNCHANGED <<escapeDeadline, escapeInboxTarget>>
      PROVE  Accusation'
  <2>1. UNCHANGED <<inbox, inboxCursor, settledInboxCursor>>
    BY <1>4 DEF inboxVars, settledVars
  <2> QED BY <1>1, <1>2, <1>3, <1>4, <2>1, QuietStep
<1>5. CASE Council
  BY <1>4, <1>5
     DEF Council, securityCouncilEscape, scheduleVerifierUpdate,
         scheduleApplicationUpdate, ClearSignal, escapeVars
<1>6. CASE Sequencer
  <2>1. ASSUME NEW length, NEW target, openBatch(length, target)
        PROVE  Accusation'
    BY <1>4, <2>1 DEF openBatch, escapeVars
  <2>2. ASSUME NEW chunk, accumulateChunk(chunk)
        PROVE  Accusation'
    BY <1>4, <2>2 DEF accumulateChunk, escapeVars
  <2>3. CASE abandonBatch
    BY <1>4, <2>3 DEF abandonBatch, escapeVars
  <2>4. ASSUME NEW start \in ProofStarts, verifyBatch(start)
        PROVE  Accusation'
    BY <1>1, <2>4, SettlementStands
  <2> QED BY <1>6, <2>1, <2>2, <2>3, <2>4 DEF Sequencer
<1>7. CASE Anyone
  <2>1. CASE executeVerifierUpdate \/ executeEscape
    BY <1>4, <2>1 DEF executeVerifierUpdate, executeEscape, ClearSignal, escapeVars
  <2>2. ASSUME NEW p, updateApplication(p) PROVE Accusation'
    BY <1>4, <2>2 DEF updateApplication, escapeVars
  <2>3. ASSUME NEW kind, NEW address, NEW recipient, NEW amount, NEW payer,
               NEW chainAfter,
               AppendToInbox(kind, address, recipient, amount, payer, chainAfter),
               UNCHANGED <<round, settledVars, escapeVars>>
        PROVE  Accusation'
    <3>1. /\ inboxCursor <= inboxCursor'
          /\ UNCHANGED <<round, settledInboxCursor, escapeDeadline, escapeInboxTarget>>
      BY <1>2, <2>3 DEF AppendToInbox, settledVars, escapeVars
    <3>2. \A i \in DOMAIN inbox' :
            \/ i \in DOMAIN inbox /\ inbox'[i] = inbox[i]
            \/ i = inboxCursor /\ inbox'[i].round = round
      BY <2>3 DEF AppendToInbox
    <3> QED BY <1>1, <1>3, <3>1, <3>2, QuietStep
  <2>4. ASSUME NEW payer, NEW address, NEW amount, deposit(payer, address, amount)
        PROVE  Accusation'
    BY <2>3, <2>4 DEF deposit
  <2>5. ASSUME NEW payer, NEW address, NEW recipient,
               requestWithdrawal(payer, address, recipient)
        PROVE  Accusation'
    BY <2>3, <2>5 DEF requestWithdrawal
  <2>6. ASSUME NEW index,
               pruneRequest(index) \/ pruneDeposit(index) \/ reclaimDeposit(index)
        PROVE  Accusation'
    <3>1. DeleteBox(index) /\ UNCHANGED <<round, inboxCursor, settledVars, escapeVars>>
      BY <2>6 DEF pruneRequest, pruneDeposit, reclaimDeposit
    <3>2. /\ inboxCursor <= inboxCursor'
          /\ UNCHANGED <<round, settledInboxCursor, escapeDeadline, escapeInboxTarget>>
      BY <1>2, <3>1 DEF settledVars, escapeVars
    <3>3. \A i \in DOMAIN inbox' : i \in DOMAIN inbox /\ inbox'[i] = inbox[i]
      BY <3>1 DEF DeleteBox
    <3> QED BY <1>1, <1>3, <3>2, <3>3, QuietStep
  <2>7. CASE signalEscape
    BY <1>1, <2>7, SignalStands
  <2>8. ASSUME NEW recipient, NEW address, NEW leaf,
               forceExit(address, leaf, recipient)
        PROVE  Accusation'
    BY <1>4, <2>8 DEF forceExit, escapeVars
  <2> QED BY <1>7, <2>1, <2>2, <2>4, <2>5, <2>6, <2>7, <2>8 DEF Anyone
<1>8. CASE Drain
  <2>1. PICK recipient, amount, tail, byCreator :
          payWithdrawal(recipient, amount, tail, byCreator)
    BY <1>8 DEF Drain
  <2>2. UNCHANGED <<round, inboxVars, settledVars, escapeInboxTarget>>
    BY <2>1 DEF payWithdrawal
  <2>3. CASE UNCHANGED escapeDeadline
    BY <1>4, <2>2, <2>3
  <2>4. CASE creditEscapeProgress(1)
    <3>1. /\ escapeDeadline = None => escapeDeadline' = None
          /\ escapeDeadline # None => escapeDeadline <= escapeDeadline'
      BY <1>1, <2>4, CreditMovesAway
    <3>2. UNCHANGED <<round, inbox, inboxCursor, settledInboxCursor, escapeInboxTarget>>
      BY <2>2 DEF inboxVars, settledVars
    <3> QED BY <1>1, <1>2, <3>1, <3>2, QuietStep
  <2> QED BY <2>1, <2>3, <2>4 DEF payWithdrawal
<1>9. CASE Tick
  BY <1>4, <1>9 DEF Tick, escapeVars
<1>10. CASE UNCHANGED vars
  BY <1>4, <1>10 DEF vars, escapeVars
<1> QED BY <1>5, <1>6, <1>7, <1>8, <1>9, <1>10 DEF Next

(* While an accusation is pending, every entry it names is still unsettled,
   was in the inbox when it was made, and has the whole grace period: the
   deadline verifyBatch and executeEscape compare with never runs early,
   however appends, prunes, partial settlements and credits interleave. *)
THEOREM AccusationAlwaysStands == Spec => []AccusationStands
<1>1. Spec => []Accusation
  BY AccusationInit, AccusationStep, PTL DEF Spec
<1> QED BY <1>1, PTL DEF Accusation

-----------------------------------------------------------------------------
(* How many windows the deadline stands for, and what paid for them. *)
Windows(k) ==
  /\ escapeDeadline = signalledAt + escapeGrace * (1 + k)
  /\ k * ESCAPE_PROGRESS_TRANCHE + escapeProgress <= discharged

WindowsBought == escapeDeadline # None => \E k \in Nat : Windows(k)

Earned == /\ Bookkeeping /\ signalledAt \in Nat /\ discharged \in Nat
          /\ WindowsBought

LEMMA EarnedInit == Init /\ signalledAt = 0 /\ discharged = 0 => Earned
BY BookkeepingInit DEF Init, Earned, WindowsBought

(* One more is one more: the products a window adds to. *)
LEMMA OneMoreWindow ==
  ASSUME NEW g \in Nat, NEW t \in Nat, NEW k \in Nat
  PROVE  /\ g * (1 + k) \in Nat /\ k * t \in Nat
         /\ g * (1 + (k + 1)) = g * (1 + k) + g
         /\ (k + 1) * t = k * t + t
OBVIOUS

(* A quotient bounds what it counts. *)
LEMMA QuotientBounds ==
  ASSUME NEW d \in Nat, NEW t \in Nat \ {0}, NEW k \in Nat, k * t <= d
  PROVE  d \div t \in Nat /\ k <= d \div t
OBVIOUS

LEMMA ProductGrows ==
  ASSUME NEW g \in Nat, NEW k \in Nat, NEW q \in Nat, k <= q
  PROVE  g * (1 + k) \in Nat /\ g * (1 + q) \in Nat /\ g * (1 + k) <= g * (1 + q)
OBVIOUS

(* What a payout chain has left to pay is a number. *)
LEMMA PayoutsLeftType ==
  ASSUME NEW chain \in Seq(Payout) \cup {None}
  PROVE  PayoutsLeft(chain) \in Nat
BY LenProperties DEF PayoutsLeft

(* A call that leaves the accusation as it was leaves it paid for. *)
LEMMA EarnedQuietly ==
  ASSUME Earned, Bookkeeping', Remember,
         escapeDeadline' = None
           \/ UNCHANGED <<escapeDeadline, escapeProgress, settledInboxCursor>>
  PROVE  Earned'
<1>1. CASE escapeDeadline' = None
  BY <1>1 DEF Earned, Remember, WindowsBought
<1>2. CASE /\ escapeDeadline' # None
           /\ UNCHANGED <<escapeDeadline, escapeProgress, settledInboxCursor>>
  <2>1. /\ escapeDeadline # None /\ signalledAt \in Nat /\ discharged \in Nat
        /\ settledInboxCursor \in Nat /\ escapeGrace \in Nat
        /\ ESCAPE_PROGRESS_TRANCHE \in Nat /\ escapeProgress \in Nat
    BY <1>2, Books, ContractAssumption
       DEF Earned, Bookkeeping, TypeOK, EscapeType, KeysTogether, SignalKeys
  <2>2. /\ signalledAt' = signalledAt
        /\ discharged' \in Nat /\ discharged <= discharged'
    BY <1>2, <2>1 DEF Remember
  <2>3. PICK k \in Nat : Windows(k)
    BY <2>1 DEF Earned, WindowsBought
  <2>4. k * ESCAPE_PROGRESS_TRANCHE \in Nat
    BY <2>1
  <2>5. Windows(k)'
    BY <1>2, <2>1, <2>2, <2>3, <2>4 DEF Windows
  <2> QED BY <2>1, <2>2, <2>5 DEF Earned, WindowsBought
<1> QED BY <1>1, <1>2

(* A signal starts with one window and nothing bought. *)
LEMMA EarnedBySignal ==
  ASSUME Earned, Bookkeeping', Remember, signalEscape
  PROVE  Earned'
<1>1. /\ round \in Nat /\ escapeGrace \in Nat /\ ESCAPE_PROGRESS_TRANCHE \in Nat
      /\ escapeDeadline = None /\ escapeProgress' = 0
      /\ escapeDeadline' = round + escapeGrace /\ None \notin Nat
  BY Books, ContractAssumption, NoneAssumption DEF Earned, signalEscape
<1>2. escapeDeadline' # None
  BY <1>1
<1>3. signalledAt' = round /\ discharged' = 0
  BY <1>1, <1>2 DEF Remember
<1>4. Windows(0)'
  BY <1>1, <1>3 DEF Windows
<1> QED BY <1>1, <1>3, <1>4 DEF Earned, WindowsBought

(* Credit buys a window with a full tranche, and otherwise saves for one. *)
LEMMA EarnedByCredit ==
  ASSUME Earned, Bookkeeping', Remember, NEW n \in Nat, creditEscapeProgress(n),
         escapeDeadline # None => discharged' \in Nat /\ discharged + n <= discharged'
  PROVE  Earned'
<1>1. CASE escapeDeadline = None
  BY <1>1 DEF Earned, Remember, WindowsBought, creditEscapeProgress
<1>2. CASE escapeDeadline # None
  <2>1. /\ signalledAt \in Nat /\ discharged \in Nat /\ escapeDeadline \in Nat
        /\ escapeGrace \in Nat /\ None \notin Nat
        /\ ESCAPE_PROGRESS_TRANCHE \in Nat /\ escapeProgress \in Nat
        /\ discharged' \in Nat /\ discharged + n <= discharged'
    BY <1>2, ContractAssumption, NoneAssumption
       DEF Earned, Bookkeeping, TypeOK, EscapeType, KeysTogether, SignalKeys
  <2>2. escapeDeadline' \in Nat
    BY <1>2, <2>1 DEF creditEscapeProgress
  <2>3. signalledAt' = signalledAt
    BY <1>2, <2>1, <2>2 DEF Remember
  <2>4. PICK k \in Nat : Windows(k)
    BY <1>2 DEF Earned, WindowsBought
  <2>5. /\ escapeGrace * (1 + k) \in Nat /\ k * ESCAPE_PROGRESS_TRANCHE \in Nat
        /\ escapeGrace * (1 + (k + 1)) = escapeGrace * (1 + k) + escapeGrace
        /\ (k + 1) * ESCAPE_PROGRESS_TRANCHE
             = k * ESCAPE_PROGRESS_TRANCHE + ESCAPE_PROGRESS_TRANCHE
    BY <2>1, OneMoreWindow
  <2>6. CASE escapeProgress + n >= ESCAPE_PROGRESS_TRANCHE
    <3>1. escapeDeadline' = escapeDeadline + escapeGrace /\ escapeProgress' = 0
      BY <1>2, <2>6 DEF creditEscapeProgress
    <3>2. Windows(k + 1)'
      BY <2>1, <2>3, <2>4, <2>5, <2>6, <3>1 DEF Windows
    <3>3. k + 1 \in Nat
      OBVIOUS
    <3> QED BY <2>1, <2>3, <3>2, <3>3 DEF Earned, WindowsBought
  <2>7. CASE ~(escapeProgress + n >= ESCAPE_PROGRESS_TRANCHE)
    <3>1. escapeDeadline' = escapeDeadline /\ escapeProgress' = escapeProgress + n
      BY <1>2, <2>7 DEF creditEscapeProgress
    <3>2. Windows(k)'
      BY <2>1, <2>3, <2>4, <2>5, <3>1 DEF Windows
    <3> QED BY <2>1, <2>3, <3>2 DEF Earned, WindowsBought
  <2> QED BY <2>6, <2>7
<1> QED BY <1>1, <1>2

(* Settlement is paid for by the entries it consumes.  No payout is pending
   while a batch is open, so none can be mistaken for one made. *)
LEMMA EarnedBySettlement ==
  ASSUME Earned, Bookkeeping', Remember, NEW start \in ProofStarts, verifyBatch(start)
  PROVE  Earned'
<1>1. /\ Bookkeeping /\ batchLength # None
      /\ settledInboxCursor' = sealedInboxCursor /\ AnswerSignal
  BY DEF Earned, verifyBatch, AdvanceToSeal
<1>2. CASE escapeDeadline' = None
  BY <1>2, EarnedQuietly
<1>3. CASE escapeDeadline' # None
  <2> DEFINE n == sealedInboxCursor - settledInboxCursor
  <2>1. /\ settledInboxCursor \in Nat /\ sealedInboxCursor \in Nat /\ n \in Nat
        /\ discharged \in Nat
    BY <1>1, Books, OpenBatchBooks DEF Earned
  <2>2. escapeInboxTarget # None /\ escapeDeadline # None
    BY <1>1, <1>3, AccusationTypes DEF AnswerSignal
  <2>3. creditEscapeProgress(n)
    BY <1>1, <1>3, <2>2 DEF AnswerSignal, ClearSignal
  <2>4. ~(PayoutsLeft(pendingWithdrawals') < PayoutsLeft(pendingWithdrawals))
    <3>1. pendingWithdrawals = None
      BY <1>1, OpenBatchBooks
    <3>2. PayoutsLeft(pendingWithdrawals) = 0
      BY <3>1 DEF PayoutsLeft
    <3>3. PayoutsLeft(pendingWithdrawals') \in Nat
      BY PayoutsLeftType DEF Bookkeeping, TypeOK, MoneyType
    <3> QED BY <3>2, <3>3
  <2>5. discharged' = discharged + n + 0
    BY <1>1, <1>3, <2>2, <2>4 DEF Remember
  <2> HIDE DEF n
  <2>6. discharged' \in Nat /\ discharged + n <= discharged'
    BY <2>1, <2>5
  <2> QED BY <2>1, <2>3, <2>6, EarnedByCredit
<1> QED BY <1>2, <1>3

(* A payout the creator makes is one payout fewer. *)
LEMMA EarnedByPayout ==
  ASSUME Earned, Bookkeeping', Remember, Drain
  PROVE  Earned'
<1>1. Bookkeeping /\ pendingWithdrawals # None /\ discharged \in Nat
  BY DEF Earned, Drain
<1>2. PICK k \in 1..Len(pendingWithdrawals), byCreator \in BOOLEAN :
        payWithdrawal(pendingWithdrawals[k].recipient,
                      pendingWithdrawals[k].amount,
                      Prefix(pendingWithdrawals, k - 1), byCreator)
  BY DEF Drain
<1> DEFINE tail == Prefix(pendingWithdrawals, k - 1)
<1>3. /\ UNCHANGED settledInboxCursor
      /\ pendingWithdrawals' = StepPast(tail)
      /\ \/ UNCHANGED <<escapeDeadline, escapeProgress>>
         \/ creditEscapeProgress(1)
  BY <1>2 DEF payWithdrawal, settledVars
<1>4. CASE UNCHANGED <<escapeDeadline, escapeProgress>>
  BY <1>3, <1>4, EarnedQuietly
<1>5. CASE creditEscapeProgress(1)
  <2>1. /\ pendingWithdrawals \in Seq(Payout) /\ Len(pendingWithdrawals) \in Nat
        /\ k \in Nat
    BY <1>1, PayoutTail
  <2>2. k - 1 \in 0..Len(pendingWithdrawals)
    BY <2>1
  <2>3. Len(tail) = k - 1
    BY <2>1, <2>2, PrefixType
  <2>4. PayoutsLeft(pendingWithdrawals) = Len(pendingWithdrawals)
    BY <1>1 DEF PayoutsLeft
  <2>5. PayoutsLeft(pendingWithdrawals') \in {0, k - 1}
    BY <1>3, <2>3 DEF PayoutsLeft, StepPast
  <2>6. PayoutsLeft(pendingWithdrawals') < PayoutsLeft(pendingWithdrawals)
    BY <2>1, <2>4, <2>5
  <2>7. settledInboxCursor \in Nat
    BY <1>1, Books
  <2>8. escapeDeadline # None => escapeDeadline' # None
    BY <1>1, <1>5, CreditMovesAway, NoneAssumption
  <2>9. escapeDeadline # None =>
          discharged' = discharged + (settledInboxCursor - settledInboxCursor) + 1
    BY <1>3, <2>6, <2>8 DEF Remember
  <2>10. escapeDeadline # None =>
           discharged' \in Nat /\ discharged + 1 <= discharged'
    BY <1>1, <2>7, <2>9
  <2> QED BY <1>5, <2>10, EarnedByCredit
<1> QED BY <1>3, <1>4, <1>5

LEMMA EarnedStep == Earned /\ [Next /\ Remember]_<<vars, history>> => Earned'
<1> SUFFICES ASSUME Earned, [Next /\ Remember]_<<vars, history>> PROVE Earned'
  OBVIOUS
<1>1. Bookkeeping /\ Bookkeeping'
  BY BookkeepingStep DEF Earned
<1>2. CASE UNCHANGED <<vars, history>>
  BY <1>1, <1>2 DEF Earned, WindowsBought, Windows, vars, history, escapeVars
<1>3. CASE Next /\ Remember
  <2>1. ASSUME UNCHANGED <<escapeVars, settledVars>> PROVE Earned'
    BY <1>1, <1>3, <2>1, EarnedQuietly DEF escapeVars, settledVars
  <2>2. ASSUME ClearSignal PROVE Earned'
    BY <1>1, <1>3, <2>2, EarnedQuietly DEF ClearSignal
  <2>3. CASE Council
    BY <2>1, <2>2, <2>3
       DEF Council, securityCouncilEscape, scheduleVerifierUpdate,
           scheduleApplicationUpdate
  <2>4. CASE Sequencer
    <3>1. ASSUME NEW start \in ProofStarts, verifyBatch(start) PROVE Earned'
      BY <1>1, <1>3, <3>1, EarnedBySettlement
    <3>2. ASSUME NEW length, NEW target, openBatch(length, target) PROVE Earned'
      BY <2>1, <3>2 DEF openBatch
    <3>3. ASSUME NEW chunk, accumulateChunk(chunk) PROVE Earned'
      BY <2>1, <3>3 DEF accumulateChunk
    <3>4. CASE abandonBatch
      BY <2>1, <3>4 DEF abandonBatch
    <3> QED BY <2>4, <3>1, <3>2, <3>3, <3>4 DEF Sequencer
  <2>5. CASE Anyone
    <3>1. CASE executeVerifierUpdate \/ executeEscape
      BY <2>1, <2>2, <3>1 DEF executeVerifierUpdate, executeEscape
    <3>2. ASSUME NEW p, updateApplication(p) PROVE Earned'
      BY <2>1, <3>2 DEF updateApplication
    <3>3. ASSUME NEW payer, NEW address, NEW amount, deposit(payer, address, amount)
          PROVE  Earned'
      BY <2>1, <3>3 DEF deposit
    <3>4. ASSUME NEW payer, NEW address, NEW recipient,
                 requestWithdrawal(payer, address, recipient)
          PROVE  Earned'
      BY <2>1, <3>4 DEF requestWithdrawal
    <3>5. ASSUME NEW index,
                 pruneRequest(index) \/ pruneDeposit(index) \/ reclaimDeposit(index)
          PROVE  Earned'
      BY <2>1, <3>5 DEF pruneRequest, pruneDeposit, reclaimDeposit
    <3>6. CASE signalEscape
      BY <1>1, <1>3, <3>6, EarnedBySignal
    <3>7. ASSUME NEW recipient, NEW address, NEW leaf,
                 forceExit(address, leaf, recipient)
          PROVE  Earned'
      BY <2>1, <3>7 DEF forceExit
    <3> QED BY <2>5, <3>1, <3>2, <3>3, <3>4, <3>5, <3>6, <3>7 DEF Anyone
  <2>6. CASE Drain
    BY <1>1, <1>3, <2>6, EarnedByPayout
  <2>7. CASE Tick
    BY <2>1, <2>7 DEF Tick
  <2> QED BY <1>3, <2>3, <2>4, <2>5, <2>6, <2>7 DEF Next
<1> QED BY <1>2, <1>3

(* What was bought is no more than what the work done since the signal buys. *)
LEMMA EarnedIsEnough == Earned => ExtensionsAreEarned
<1> SUFFICES ASSUME Earned, escapeDeadline # None
             PROVE  escapeDeadline <= signalledAt
                      + escapeGrace * (1 + discharged \div ESCAPE_PROGRESS_TRANCHE)
  BY DEF ExtensionsAreEarned
<1>1. /\ signalledAt \in Nat /\ discharged \in Nat /\ escapeGrace \in Nat
      /\ ESCAPE_PROGRESS_TRANCHE \in Nat \ {0} /\ escapeProgress \in Nat
  BY ContractAssumption
     DEF Earned, Bookkeeping, TypeOK, EscapeType, KeysTogether, SignalKeys
<1>2. PICK k \in Nat : Windows(k)
  BY DEF Earned, WindowsBought
<1>3. k * ESCAPE_PROGRESS_TRANCHE \in Nat
  BY <1>1
<1>4. k * ESCAPE_PROGRESS_TRANCHE <= discharged
  BY <1>1, <1>2, <1>3 DEF Windows
<1> DEFINE q == discharged \div ESCAPE_PROGRESS_TRANCHE
<1>5. q \in Nat /\ k <= q
  BY <1>1, <1>4, QuotientBounds
<1> HIDE DEF q
<1>6. /\ escapeGrace * (1 + k) \in Nat /\ escapeGrace * (1 + q) \in Nat
      /\ escapeGrace * (1 + k) <= escapeGrace * (1 + q)
  BY <1>1, <1>5, ProductGrows
<1>7. escapeDeadline <= signalledAt + escapeGrace * (1 + q)
  BY <1>1, <1>2, <1>6 DEF Windows
<1> QED BY <1>7 DEF q

(* However a sequencer under accusation interleaves settlements, payouts and
   signals that lapse or are answered, every window creditEscapeProgress adds
   to the deadline was paid for by a tranche of entries settled and payouts
   made since that signal. *)
THEOREM ExtensionsEarned == WatchdogSpec => []ExtensionsAreEarned
<1>1. WatchdogSpec => []Earned
  BY EarnedInit, EarnedStep, PTL DEF WatchdogSpec
<1> QED BY <1>1, EarnedIsEnough, PTL

-----------------------------------------------------------------------------
(* An update takes force no sooner than a whole delay after it was announced. *)
Dated(announced, after) ==
  /\ announced \in Nat /\ announced <= round
  /\ after # None => announced + updateDelay <= after

Announced ==
  /\ Bookkeeping
  /\ Dated(verifierAnnounced, verifierUpdateAfter)
  /\ Dated(programAnnounced, applicationUpdateAfter)

LEMMA AnnouncedInit ==
  Init /\ verifierAnnounced = 0 /\ programAnnounced = 0 => Announced
BY BookkeepingInit DEF Init, Announced, Dated

(* What scheduling writes is a delay away from now. *)
LEMMA ScheduledIsDated ==
  ASSUME Bookkeeping, NEW announced, Dated(announced, None), NEW later,
         later = announced \/ later = round, UNCHANGED round
  PROVE  /\ later \in Nat /\ later <= round'
         /\ later + updateDelay <= round + updateDelay
<1>1. round \in Nat /\ updateDelay \in Nat /\ announced \in Nat /\ announced <= round
  BY Books, ContractAssumption DEF Dated
<1> QED BY <1>1

(* Nothing but a new announcement moves a date, and time only moves on. *)
LEMMA AnnouncedKept ==
  ASSUME Announced, Bookkeeping', RememberAnnouncements,
         round' = round \/ round' = round + 1,
         pendingVerifier' \in {pendingVerifier, None},
         verifierUpdateAfter' \in {verifierUpdateAfter, None},
         pendingApprovalProgramHash' \in {pendingApprovalProgramHash, None},
         applicationUpdateAfter' \in {applicationUpdateAfter, None}
  PROVE  Announced'
<1>1. /\ verifierAnnounced' = verifierAnnounced
      /\ programAnnounced' = programAnnounced
  BY DEF RememberAnnouncements
<1>2. /\ verifierAnnounced \in Nat /\ programAnnounced \in Nat /\ round \in Nat
      /\ verifierAnnounced <= round /\ programAnnounced <= round
  BY Books DEF Announced, Dated
<1>3. verifierAnnounced <= round' /\ programAnnounced <= round'
  BY <1>2
<1> QED BY <1>1, <1>2, <1>3 DEF Announced, Dated

(* Two announcements never share a delay: the second starts its own. *)
LEMMA ScheduleAnnounces ==
  ASSUME Announced, Bookkeeping', RememberAnnouncements, NEW keys,
         scheduleVerifierUpdate(keys) \/ scheduleApplicationUpdate(keys)
  PROVE  Announced'
<1>1. /\ Bookkeeping
      /\ Dated(verifierAnnounced, None) /\ Dated(programAnnounced, None)
      /\ verifierAnnounced' \in {verifierAnnounced, round}
      /\ programAnnounced' \in {programAnnounced, round}
  BY DEF Announced, Dated, RememberAnnouncements
<1>2. CASE scheduleVerifierUpdate(keys)
  <2>1. /\ UNCHANGED <<round, programAnnounced, applicationUpdateAfter>>
        /\ verifierUpdateAfter' = round + updateDelay
    BY <1>2 DEF scheduleVerifierUpdate, UpdateRound, RememberAnnouncements
  <2>2. Dated(verifierAnnounced, verifierUpdateAfter)'
    BY <1>1, <2>1, ScheduledIsDated DEF Dated
  <2> QED BY <2>1, <2>2 DEF Announced, Dated
<1>3. CASE scheduleApplicationUpdate(keys)
  <2>1. /\ UNCHANGED <<round, verifierAnnounced, verifierUpdateAfter>>
        /\ applicationUpdateAfter' = round + updateDelay
    BY <1>3 DEF scheduleApplicationUpdate, UpdateRound, RememberAnnouncements
  <2>2. Dated(programAnnounced, applicationUpdateAfter)'
    BY <1>1, <2>1, ScheduledIsDated DEF Dated
  <2> QED BY <2>1, <2>2 DEF Announced, Dated
<1> QED BY <1>2, <1>3

(* What a step may change of the updates: nothing, or through the council's
   methods and the two that carry out what they announced. *)
LEMMA UpdateSteps ==
  ASSUME [Next]_vars
  PROVE  \/ UNCHANGED updateVars /\ (round' = round \/ round' = round + 1)
         \/ securityCouncilEscape
         \/ \E keys : scheduleVerifierUpdate(keys) \/ scheduleApplicationUpdate(keys)
         \/ executeVerifierUpdate
         \/ \E p : updateApplication(p)
<1> DEFINE Quiet == UNCHANGED updateVars /\ (round' = round \/ round' = round + 1)
<1>1. CASE Sequencer
  <2>1. ASSUME NEW length, NEW target, openBatch(length, target) PROVE Quiet
    BY <2>1 DEF openBatch
  <2>2. ASSUME NEW chunk, accumulateChunk(chunk) PROVE Quiet
    BY <2>2 DEF accumulateChunk
  <2>3. ASSUME NEW start, verifyBatch(start) PROVE Quiet
    BY <2>3 DEF verifyBatch
  <2>4. CASE abandonBatch
    BY <2>4 DEF abandonBatch
  <2> QED BY <1>1, <2>1, <2>2, <2>3, <2>4 DEF Sequencer
<1>2. CASE Anyone
  <2>1. ASSUME NEW payer, NEW address, NEW amount, deposit(payer, address, amount)
        PROVE  Quiet
    BY <2>1 DEF deposit
  <2>2. ASSUME NEW payer, NEW address, NEW recipient,
               requestWithdrawal(payer, address, recipient)
        PROVE  Quiet
    BY <2>2 DEF requestWithdrawal
  <2>3. ASSUME NEW index,
               pruneRequest(index) \/ pruneDeposit(index) \/ reclaimDeposit(index)
        PROVE  Quiet
    BY <2>3 DEF pruneRequest, pruneDeposit, reclaimDeposit
  <2>4. ASSUME NEW recipient, NEW address, NEW leaf,
               forceExit(address, leaf, recipient)
        PROVE  Quiet
    BY <2>4 DEF forceExit
  <2>5. CASE signalEscape \/ executeEscape
    BY <2>5 DEF signalEscape, executeEscape
  <2> QED BY <1>2, <2>1, <2>2, <2>3, <2>4, <2>5 DEF Anyone
<1>3. CASE Drain
  BY <1>3 DEF Drain, payWithdrawal
<1>4. CASE Tick \/ UNCHANGED vars
  BY <1>4 DEF Tick, vars
<1> QED BY <1>1, <1>2, <1>3, <1>4 DEF Next, Council

LEMMA AnnouncedStep ==
  Announced /\ [Next /\ RememberAnnouncements]_<<vars, announcements>> => Announced'
<1> SUFFICES ASSUME Announced,
                    [Next /\ RememberAnnouncements]_<<vars, announcements>>
             PROVE  Announced'
  OBVIOUS
<1>1. Bookkeeping /\ Bookkeeping'
  BY BookkeepingStep DEF Announced
<1>2. CASE UNCHANGED <<vars, announcements>>
  BY <1>1, <1>2 DEF Announced, Dated, vars, announcements, updateVars
<1>3. CASE Next /\ RememberAnnouncements
  <2>1. ASSUME UNCHANGED updateVars, round' = round \/ round' = round + 1
        PROVE  Announced'
    BY <1>1, <1>3, <2>1, AnnouncedKept DEF updateVars
  <2>2. CASE securityCouncilEscape
    BY <1>1, <1>3, <2>2, AnnouncedKept DEF securityCouncilEscape, ForgetVerifierUpdate
  <2>3. ASSUME NEW keys,
               scheduleVerifierUpdate(keys) \/ scheduleApplicationUpdate(keys)
        PROVE  Announced'
    BY <1>1, <1>3, <2>3, ScheduleAnnounces
  <2>4. CASE executeVerifierUpdate
    BY <1>1, <1>3, <2>4, AnnouncedKept DEF executeVerifierUpdate, ForgetVerifierUpdate
  <2>5. ASSUME NEW p, updateApplication(p) PROVE Announced'
    BY <1>1, <1>3, <2>5, AnnouncedKept DEF updateApplication
  <2> QED BY <1>3, <2>1, <2>2, <2>3, <2>4, <2>5, UpdateSteps
<1> QED BY <1>2, <1>3

(* What comes into force was announced a whole delay before. *)
LEMMA UpdateWasAnnounced ==
  ASSUME Announced, [Next /\ RememberAnnouncements]_<<vars, announcements>>
  PROVE  /\ verifier' # verifier =>
              round >= verifierAnnounced + updateDelay /\ ~escaped
         /\ program' # program =>
              round >= programAnnounced + updateDelay /\ ~escaped
<1>1. /\ round \in Nat /\ updateDelay \in Nat
      /\ verifierAnnounced \in Nat /\ programAnnounced \in Nat
      /\ verifierUpdateAfter \in Nat \cup {None}
      /\ applicationUpdateAfter \in Nat \cup {None}
  BY Books, ContractAssumption DEF Announced, Dated, Bookkeeping, TypeOK, UpdateType
<1>2. [Next]_vars
  OBVIOUS
<1>3. CASE UNCHANGED updateVars
  BY <1>3 DEF updateVars
<1>4. CASE securityCouncilEscape
  BY <1>4 DEF securityCouncilEscape
<1>5. CASE \E keys : scheduleVerifierUpdate(keys) \/ scheduleApplicationUpdate(keys)
  BY <1>5 DEF scheduleVerifierUpdate, scheduleApplicationUpdate
<1>6. CASE executeVerifierUpdate
  BY <1>1, <1>6 DEF executeVerifierUpdate, Announced, Dated
<1>7. CASE \E p : updateApplication(p)
  BY <1>1, <1>7 DEF updateApplication, Announced, Dated
<1> QED BY <1>2, <1>3, <1>4, <1>5, <1>6, <1>7, UpdateSteps

(* A verifier or a program takes force only once it has been public for the
   whole delay: replacing an announcement, escaping or executing late never
   shortens it for executeVerifierUpdate or updateApplication. *)
THEOREM UpdatesAreAnnounced == CouncilSpec => UpdatesWereAnnounced
<1>1. CouncilSpec => []Announced
  BY AnnouncedInit, AnnouncedStep, PTL DEF CouncilSpec
<1>2. Announced /\ [Next /\ RememberAnnouncements]_<<vars, announcements>> =>
        [/\ verifier' # verifier =>
              round >= verifierAnnounced + updateDelay /\ ~escaped
         /\ program' # program =>
              round >= programAnnounced + updateDelay /\ ~escaped
        ]_<<vars, announcements>>
  BY UpdateWasAnnounced
<1> QED BY <1>1, <1>2, PTL DEF CouncilSpec, UpdatesWereAnnounced

-----------------------------------------------------------------------------
(* What is owed in microalgos. *)

NoExitBeforeEscape == ~escaped => DOMAIN exits = {}

PayoutsPayable ==
  pendingWithdrawals # None =>
    /\ pendingWithdrawals # << >>
    /\ \A i \in 1..Len(pendingWithdrawals) :
         pendingWithdrawals[i].amount >= MIN_WITHDRAWAL

Solvency == Bookkeeping /\ NoExitBeforeEscape /\ PayoutsPayable /\ Solvent

(* The minimum balance of n boxes and m exit records. *)
Locked(n, m) == BASE_MBR + INBOX_MBR * n + EXIT_MBR * m

LEMMA LockedType ==
  ASSUME NEW n \in Nat, NEW m \in Nat
  PROVE  /\ Locked(n, m) \in Nat
         /\ INBOX_MBR \in Nat /\ EXIT_MBR \in Nat
<1>1. BASE_MBR \in Nat /\ INBOX_MBR \in Nat /\ EXIT_MBR \in Nat
  BY ContractAssumption
<1>2. INBOX_MBR * n \in Nat /\ EXIT_MBR * m \in Nat
  BY <1>1
<1> QED BY <1>1, <1>2 DEF Locked

(* One more box, one more exit record. *)
LEMMA LockedMore ==
  ASSUME NEW n \in Nat, NEW m \in Nat
  PROVE  /\ Locked(n + 1, m) = Locked(n, m) + INBOX_MBR
         /\ Locked(n, m + 1) = Locked(n, m) + EXIT_MBR
<1>1. BASE_MBR \in Nat /\ INBOX_MBR \in Nat /\ EXIT_MBR \in Nat
  BY ContractAssumption
<1>2. /\ INBOX_MBR * (n + 1) = INBOX_MBR * n + INBOX_MBR
      /\ EXIT_MBR * (m + 1) = EXIT_MBR * m + EXIT_MBR
  BY <1>1
<1>3. INBOX_MBR * n \in Nat /\ EXIT_MBR * m \in Nat
  BY <1>1
<1> QED BY <1>1, <1>2, <1>3 DEF Locked

(* What was owed and is paid, and what moves from one account to another,
   leaves the rest covered. *)
LEMMA PaidWasOwed ==
  ASSUME NEW b \in Nat, NEW c \in Nat, NEW m \in Nat, NEW l \in Nat,
         NEW d \in Nat, NEW p \in Nat, NEW v \in Nat,
         b >= m + l + d + (p + v), c >= b - v
  PROVE  c >= m + l + d + p
OBVIOUS

LEMMA RefundWasOwed ==
  ASSUME NEW b \in Nat, NEW c \in Nat, NEW m \in Nat, NEW x \in Nat,
         NEW l \in Nat, NEW d \in Nat, NEW v \in Nat, NEW p \in Nat,
         b >= (m + x) + l + (d + v) + p, c >= b - (v + x)
  PROVE  c >= m + l + d + p
OBVIOUS

LEMMA ExitWasOwed ==
  ASSUME NEW b \in Nat, NEW c \in Nat, NEW m \in Nat, NEW x \in Nat,
         NEW l \in Nat, NEW d \in Nat, NEW v \in Nat, NEW p \in Nat,
         b >= m + (l + v) + d + p, v > x, c = b \/ c = b - (v - x)
  PROVE  c >= (m + x) + l + d + p
OBVIOUS

LEMMA MovedIsOwed ==
  ASSUME NEW b \in Nat, NEW m \in Nat, NEW l \in Nat, NEW d \in Nat,
         NEW v \in Nat, NEW k \in Nat, NEW p \in Nat,
         b >= m + l + (v + d), k + p = l + v
  PROVE  b >= m + k + d + p
OBVIOUS

(* The deposits of some boxes at or past a cursor. *)
Pending(boxes, cursor) ==
  Sum([i \in {j \in DOMAIN boxes : j >= cursor} |-> boxes[i].amount])

Boxes(boxes) ==
  /\ DOMAIN boxes \subseteq 0..(MaxInbox - 1)
  /\ \A i \in DOMAIN boxes : boxes[i].amount \in U64

OneBoxLess(fewer, boxes, index) ==
  /\ index \in DOMAIN boxes
  /\ DOMAIN fewer = DOMAIN boxes \ {index}
  /\ \A i \in DOMAIN fewer : fewer[i] = boxes[i]

(* What one box adds to what is counted and to what is owed. *)
LEMMA OneBoxMore ==
  ASSUME NEW boxes, NEW fewer, NEW index, NEW cursor \in Nat,
         Boxes(boxes), OneBoxLess(fewer, boxes, index)
  PROVE  /\ Cardinality(DOMAIN boxes) = Cardinality(DOMAIN fewer) + 1
         /\ Pending(boxes, cursor) \in Nat /\ Pending(fewer, cursor) \in Nat
         /\ boxes[index].amount \in Nat
         /\ index >= cursor =>
              Pending(boxes, cursor) = Pending(fewer, cursor) + boxes[index].amount
         /\ index < cursor => Pending(boxes, cursor) = Pending(fewer, cursor)
<1> DEFINE S == DOMAIN boxes
           f == [i \in S |-> boxes[i].amount]
<1> DEFINE P == {j \in S : j >= cursor}
           pf == [i \in P |-> f[i]]
<1>0. IsFiniteSet(0..(MaxInbox - 1)) /\ MaxInbox \in Nat
  BY ContractAssumption, FS_Interval
<1>1. IsFiniteSet(S) /\ index \in Nat /\ index \in S
  <2>1. IsFiniteSet(S)
    BY <1>0, FS_Subset DEF Boxes
  <2>2. index \in Nat /\ index \in S
    BY <1>0 DEF Boxes, OneBoxLess
  <2> QED BY <2>1, <2>2
<1>2. IsFiniteSet(S \ {index}) /\ IsFiniteSet(P) /\ IsFiniteSet(P \ {index})
  BY <1>1, FS_Subset
<1>3. /\ Cardinality(S) = Cardinality(DOMAIN fewer) + 1
  <2>1. /\ Cardinality(S \ {index}) = Cardinality(S) - 1
        /\ Cardinality(S) \in Nat /\ Cardinality(S \ {index}) \in Nat
    BY <1>1, <1>2, FS_RemoveElement, FS_CardinalityType
  <2> QED BY <2>1 DEF OneBoxLess
<1>4. pf \in [P -> U64] /\ [i \in P \ {index} |-> f[i]] \in [P \ {index} -> U64]
  BY DEF Boxes
<1>5. Sum(pf) \in Nat /\ Sum([i \in P \ {index} |-> f[i]]) \in Nat
  <2> HIDE DEF P, pf, f
  <2> QED BY <1>2, <1>4, SumType
<1>6. Pending(boxes, cursor) = Sum(pf)
  <2>1. pf = [i \in P |-> boxes[i].amount]
    OBVIOUS
  <2> QED BY <2>1 DEF Pending
<1>7. Pending(fewer, cursor) = Sum([i \in P \ {index} |-> f[i]])
  <2>1. {j \in DOMAIN fewer : j >= cursor} = P \ {index}
    BY DEF OneBoxLess
  <2>2. [i \in P \ {index} |-> fewer[i].amount] = [i \in P \ {index} |-> f[i]]
    BY DEF OneBoxLess
  <2> QED BY <2>1, <2>2 DEF Pending
<1>8. boxes[index].amount \in Nat /\ boxes[index].amount = f[index]
  BY <1>1, MaxU64Assumption DEF U64, Boxes
<1>9. CASE index >= cursor
  <2>1. index \in P
    BY <1>1, <1>9
  <2>2. Sum(pf) = Sum([i \in P \ {index} |-> pf[i]]) + pf[index]
    <3> HIDE DEF P, pf
    <3> QED BY <1>2, <1>4, <2>1, SumSplit
  <2>3. [i \in P \ {index} |-> pf[i]] = [i \in P \ {index} |-> f[i]]
    OBVIOUS
  <2>4. pf[index] = f[index]
    BY <2>1
  <2>5. Pending(boxes, cursor) = Pending(fewer, cursor) + boxes[index].amount
    BY <1>6, <1>7, <1>8, <2>2, <2>3, <2>4
  <2>6. ~(index < cursor)
    BY <1>1, <1>9
  <2> QED BY <1>3, <1>5, <1>6, <1>7, <1>8, <2>5, <2>6
<1>10. CASE ~(index >= cursor)
  <2>1. P \ {index} = P
    BY <1>10
  <2>2. Pending(boxes, cursor) = Pending(fewer, cursor)
    BY <1>6, <1>7, <2>1
  <2> QED BY <1>3, <1>5, <1>6, <1>7, <1>8, <1>10, <2>2
<1> QED BY <1>9, <1>10

-----------------------------------------------------------------------------
(* What is owed, in numbers, now and after a step. *)
InNumbers ==
  /\ balance \in Nat
  /\ L2Owed \in Nat /\ DepositsOwed \in Nat /\ PayoutsOwed \in Nat
  /\ Cardinality(DOMAIN inbox) \in Nat
  /\ Cardinality(DOMAIN exits) \in Nat
  /\ appMinBalance = Locked(Cardinality(DOMAIN inbox), Cardinality(DOMAIN exits))
  /\ appMinBalance \in Nat
  /\ Boxes(inbox)
  /\ DepositsOwed = Pending(inbox, settledInboxCursor)

LEMMA Owed == Bookkeeping => InNumbers
<1> SUFFICES ASSUME Bookkeeping PROVE InNumbers
  OBVIOUS
<1>1. /\ balance \in Nat /\ DOMAIN exits \subseteq Addresses
      /\ stateRoot \in [Addresses -> Leaf]
      /\ pendingWithdrawals \in Seq(Payout) \cup {None}
      /\ DOMAIN inbox \subseteq 0..(MaxInbox - 1)
  BY DEF Bookkeeping, TypeOK, MoneyType, SettledType, InboxType
<1>2. /\ IsFiniteSet(DOMAIN inbox) /\ IsFiniteSet(DOMAIN exits)
      /\ IsFiniteSet(Addresses \ DOMAIN exits) /\ IsFiniteSet(PendingBoxes)
  <2>1. IsFiniteSet(0..(MaxInbox - 1))
    BY ContractAssumption, FS_Interval
  <2>2. IsFiniteSet(DOMAIN inbox) /\ IsFiniteSet(DOMAIN exits)
    BY <1>1, <2>1, AddressAssumption, FS_Subset
  <2>3. PendingBoxes \subseteq DOMAIN inbox
    BY DEF PendingBoxes
  <2> QED BY <2>2, <2>3, AddressAssumption, FS_Subset
<1>3. /\ Cardinality(DOMAIN inbox) \in Nat /\ Cardinality(DOMAIN exits) \in Nat
  BY <1>2, FS_CardinalityType
<1>4. /\ appMinBalance = Locked(Cardinality(DOMAIN inbox), Cardinality(DOMAIN exits))
      /\ appMinBalance \in Nat
  BY <1>3, LockedType DEF appMinBalance, Locked
<1>5. L2Owed \in Nat
  <2>1. [a \in Addresses \ DOMAIN exits |-> stateRoot[a].amount]
          \in [Addresses \ DOMAIN exits -> U64]
    BY <1>1 DEF Leaf
  <2> QED BY <1>2, <2>1, SumType DEF L2Owed
<1>6. Boxes(inbox)
  BY <1>1, Books DEF Boxes
<1>7. DepositsOwed \in Nat
  <2>1. [i \in PendingBoxes |-> inbox[i].amount] \in [PendingBoxes -> U64]
    BY Books DEF PendingBoxes
  <2> QED BY <1>2, <2>1, SumType DEF DepositsOwed
<1>8. DepositsOwed = Pending(inbox, settledInboxCursor)
  BY DEF Pending, DepositsOwed, PendingBoxes
<1>9. PayoutsOwed \in Nat
  <2>1. ASSUME pendingWithdrawals # None
        PROVE  PayoutTotal(pendingWithdrawals) \in Nat
    <3>1. /\ pendingWithdrawals \in Seq(Payout)
          /\ Len(pendingWithdrawals) \in Nat
      BY <1>1, <2>1, LenProperties
    <3>2. \A i \in 1..Len(pendingWithdrawals) : pendingWithdrawals[i] \in Payout
      BY <3>1, ElementOfSeq
    <3>3. [i \in 1..Len(pendingWithdrawals) |-> pendingWithdrawals[i].amount]
            \in [1..Len(pendingWithdrawals) -> U64]
      BY <3>2 DEF Payout
    <3>4. IsFiniteSet(1..Len(pendingWithdrawals))
      BY <3>1, FS_Interval
    <3> QED BY <3>3, <3>4, SumType DEF PayoutTotal
  <2> QED BY <2>1 DEF PayoutsOwed
<1> QED BY <1>1, <1>3, <1>4, <1>5, <1>6, <1>7, <1>8, <1>9 DEF InNumbers

LEMMA OwedNext == Bookkeeping' => InNumbers'
BY Owed, PTL

-----------------------------------------------------------------------------
(* createApplication owes nothing. *)
LEMMA SolvencyInit == Init => Solvency
<1> SUFFICES ASSUME Init PROVE Solvency
  OBVIOUS
<1>1. Bookkeeping
  BY BookkeepingInit
<1>2. DOMAIN inbox = {} /\ DOMAIN exits = {} /\ pendingWithdrawals = None
  BY DEF Init
<1>3. appMinBalance = BASE_MBR
  <2>1. Cardinality({}) = 0
    BY FS_EmptySet
  <2> QED BY <1>2, <2>1, ContractAssumption DEF appMinBalance
<1>4. L2Owed = 0
  <2>1. 0 \in U64
    BY MaxU64Assumption DEF U64
  <2>2. \A a \in Addresses : stateRoot[a].amount = 0
    BY DEF Init, EmptyLeaves
  <2>3. CoinsOf([a \in Addresses \ DOMAIN exits |-> stateRoot[a].amount]) = {}
    BY <2>2 DEF CoinsOf
  <2> QED BY <2>3, FS_EmptySet DEF L2Owed, Sum
<1>5. DepositsOwed = 0
  <2>1. PendingBoxes = {}
    BY <1>2 DEF PendingBoxes
  <2>2. [i \in PendingBoxes |-> inbox[i].amount] \in [{} -> U64]
    BY <2>1
  <2> QED BY <2>2, SumEmpty DEF DepositsOwed
<1>6. balance = BASE_MBR /\ BASE_MBR \in Nat
  BY ContractAssumption DEF Init
<1>7. PayoutsOwed = 0
  BY <1>2 DEF PayoutsOwed
<1>8. Solvent
  BY <1>3, <1>4, <1>5, <1>6, <1>7 DEF Solvent
<1> QED BY <1>1, <1>2, <1>8 DEF Solvency, NoExitBeforeEscape, PayoutsPayable

(* Steps that move no money. *)
LEMMA IdleKeepsSolvency ==
  ASSUME Solvency, Bookkeeping',
         UNCHANGED <<balance, inboxVars, settledVars, pendingWithdrawals, exits>>,
         escaped => escaped'
  PROVE  Solvency'
BY DEF Solvency, Solvent, NoExitBeforeEscape, PayoutsPayable, appMinBalance,
       L2Owed, DepositsOwed, PendingBoxes, PayoutsOwed, inboxVars, settledVars

(* A deposit or a request pays for its box and for what it makes owed. *)
LEMMA AppendKeepsSolvency ==
  ASSUME Solvency, Bookkeeping', NEW kind, NEW address, NEW recipient,
         NEW amount \in U64, NEW payer, NEW chainAfter,
         AppendToInbox(kind, address, recipient, amount, payer, chainAfter),
         balance' = balance + INBOX_MBR + amount,
         UNCHANGED <<settledVars, pendingWithdrawals, exits, escaped>>
  PROVE  Solvency'
<1>1. Bookkeeping /\ Solvent
  BY DEF Solvency
<1>2. inboxCursor \in Nat /\ inboxCursor \notin DOMAIN inbox
  BY <1>1, Books
<1>3. /\ OneBoxLess(inbox, inbox', inboxCursor)
      /\ inbox'[inboxCursor].amount = amount
  BY <1>2 DEF AppendToInbox, OneBoxLess
<1>4. /\ Boxes(inbox') /\ settledInboxCursor' = settledInboxCursor
      /\ settledInboxCursor \in Nat /\ inboxCursor >= settledInboxCursor
  <2>1. Boxes(inbox')
    BY OwedNext DEF InNumbers
  <2>2. settledInboxCursor \in Nat /\ inboxCursor >= settledInboxCursor
    BY <1>1, Books
  <2> QED BY <2>1, <2>2 DEF settledVars
<1>6. /\ Cardinality(DOMAIN inbox') = Cardinality(DOMAIN inbox) + 1
      /\ Pending(inbox', settledInboxCursor)
           = Pending(inbox, settledInboxCursor) + amount
  BY <1>3, <1>4, OneBoxMore
<1>7. DepositsOwed' = DepositsOwed + amount
  <2>1. DepositsOwed = Pending(inbox, settledInboxCursor)
    BY <1>1, Owed DEF InNumbers
  <2>2. DepositsOwed' = Pending(inbox', settledInboxCursor)
    BY <1>4, OwedNext DEF InNumbers
  <2> QED BY <1>6, <2>1, <2>2
<1>8. appMinBalance' = appMinBalance + INBOX_MBR
  <2>1. /\ appMinBalance = Locked(Cardinality(DOMAIN inbox), Cardinality(DOMAIN exits))
        /\ Cardinality(DOMAIN inbox) \in Nat /\ Cardinality(DOMAIN exits) \in Nat
    BY <1>1, Owed DEF InNumbers
  <2>2. appMinBalance' = Locked(Cardinality(DOMAIN inbox'), Cardinality(DOMAIN exits))
    BY DEF appMinBalance, Locked
  <2> QED BY <1>6, <2>1, <2>2, LockedMore
<1>9. UNCHANGED <<L2Owed, PayoutsOwed>>
  BY DEF L2Owed, PayoutsOwed, settledVars
<1>10. Solvent'
  <2>1. /\ balance \in Nat /\ appMinBalance \in Nat /\ L2Owed \in Nat
        /\ DepositsOwed \in Nat /\ PayoutsOwed \in Nat
    BY <1>1, Owed DEF InNumbers
  <2>2. INBOX_MBR \in Nat /\ amount \in Nat
    BY ContractAssumption, MaxU64Assumption DEF U64
  <2>3. balance >= appMinBalance + L2Owed + DepositsOwed + PayoutsOwed
    BY <1>1 DEF Solvent
  <2> QED BY <1>7, <1>8, <1>9, <2>1, <2>2, <2>3 DEF Solvent
<1> QED BY <1>10 DEF Solvency, NoExitBeforeEscape, PayoutsPayable

(* A prune returns what a box locked, a refund what it locked and held. *)
LEMMA DeleteKeepsSolvency ==
  ASSUME Solvency, Bookkeeping', NEW index,
         pruneRequest(index) \/ pruneDeposit(index) \/ reclaimDeposit(index)
  PROVE  Solvency'
<1>1. Bookkeeping /\ Solvent
  BY DEF Solvency
<1>2. /\ index \in DOMAIN inbox /\ DeleteBox(index)
      /\ UNCHANGED <<settledVars, pendingWithdrawals, exits, escapeVars>>
  BY DEF pruneRequest, pruneDeposit, reclaimDeposit
<1>3. OneBoxLess(inbox', inbox, index)
  BY <1>2 DEF DeleteBox, OneBoxLess
<1>4. /\ Boxes(inbox) /\ settledInboxCursor \in Nat /\ index \in Nat
      /\ UNCHANGED <<settledInboxCursor, escaped>>
  <2>1. Boxes(inbox)
    BY <1>1, Owed DEF InNumbers
  <2> QED BY <1>1, <1>2, <2>1, Books DEF settledVars, escapeVars
<1>5. /\ Cardinality(DOMAIN inbox) = Cardinality(DOMAIN inbox') + 1
      /\ Pending(inbox, settledInboxCursor) \in Nat
      /\ Pending(inbox', settledInboxCursor) \in Nat
      /\ inbox[index].amount \in Nat
      /\ index >= settledInboxCursor =>
           Pending(inbox, settledInboxCursor)
             = Pending(inbox', settledInboxCursor) + inbox[index].amount
      /\ index < settledInboxCursor =>
           Pending(inbox, settledInboxCursor) = Pending(inbox', settledInboxCursor)
  <2>1. Boxes(inbox) /\ settledInboxCursor \in Nat
    BY <1>4
  <2> QED BY <1>3, <2>1, OneBoxMore
<1>6. PICK paid \in Nat :
        /\ DepositsOwed' \in Nat /\ DepositsOwed' + paid = DepositsOwed
        /\ index >= settledInboxCursor => paid = inbox[index].amount
  <2>1. DepositsOwed = Pending(inbox, settledInboxCursor)
    BY <1>1, Owed DEF InNumbers
  <2>2. DepositsOwed' = Pending(inbox', settledInboxCursor)
    BY <1>4, OwedNext DEF InNumbers
  <2>3. CASE index >= settledInboxCursor
    BY <1>5, <2>1, <2>2, <2>3
  <2>4. CASE index < settledInboxCursor
    BY <1>4, <1>5, <2>1, <2>2, <2>4
  <2> QED BY <1>4, <2>3, <2>4
<1>7. appMinBalance = appMinBalance' + INBOX_MBR
  <2>1. /\ appMinBalance' = Locked(Cardinality(DOMAIN inbox'), Cardinality(DOMAIN exits)')
        /\ Cardinality(DOMAIN inbox') \in Nat /\ Cardinality(DOMAIN exits)' \in Nat
    BY OwedNext DEF InNumbers
  <2>2. appMinBalance = Locked(Cardinality(DOMAIN inbox), Cardinality(DOMAIN exits)')
    BY <1>2 DEF appMinBalance, Locked
  <2> QED BY <1>5, <2>1, <2>2, LockedMore
<1>8. UNCHANGED <<L2Owed, PayoutsOwed>>
  BY <1>2 DEF L2Owed, PayoutsOwed, settledVars
<1>9. balance' >= balance - (paid + INBOX_MBR)
  <2>1. balance \in Nat /\ INBOX_MBR \in Nat
    BY <1>1, Owed, ContractAssumption DEF InNumbers
  <2>2. CASE pruneRequest(index) \/ pruneDeposit(index)
    <3>1. balance' = balance \/ balance' = balance - INBOX_MBR
      BY <2>2 DEF pruneRequest, pruneDeposit, InnerPayment
    <3> QED BY <1>6, <2>1, <3>1
  <2>3. CASE reclaimDeposit(index)
    <3>1. index >= settledInboxCursor
      BY <2>3 DEF reclaimDeposit, VoidedDeposit
    <3>2. balance' = balance \/ balance' = balance - (inbox[index].amount + INBOX_MBR)
      BY <2>3 DEF reclaimDeposit, InnerPayment
    <3>3. paid = inbox[index].amount
      BY <1>6, <3>1
    <3> QED BY <1>6, <2>1, <3>2, <3>3
  <2> QED BY <2>2, <2>3
<1>10. Solvent'
  <2>1. /\ balance \in Nat /\ L2Owed \in Nat /\ PayoutsOwed \in Nat
        /\ INBOX_MBR \in Nat
    BY <1>1, Owed, ContractAssumption DEF InNumbers
  <2>2. balance' \in Nat /\ appMinBalance' \in Nat
    BY OwedNext DEF InNumbers
  <2>3. balance >= appMinBalance + L2Owed + DepositsOwed + PayoutsOwed
    BY <1>1 DEF Solvent
  <2>4. balance' >= appMinBalance' + L2Owed + DepositsOwed' + PayoutsOwed
    <3>1. /\ balance >= (appMinBalance' + INBOX_MBR) + L2Owed
                          + (DepositsOwed' + paid) + PayoutsOwed
          /\ DepositsOwed' \in Nat
      BY <1>6, <1>7, <2>3
    <3> QED BY <1>9, <2>1, <2>2, <3>1, RefundWasOwed
  <2> QED BY <1>8, <2>4 DEF Solvent
<1> QED BY <1>2, <1>4, <1>10 DEF Solvency, NoExitBeforeEscape, PayoutsPayable

(* A chain of payouts is worth its tail and its head. *)
LEMMA PayoutSplit ==
  ASSUME NEW chain \in Seq(Payout), Len(chain) > 0
  PROVE  /\ PayoutTotal(Prefix(chain, Len(chain) - 1)) \in Nat
         /\ chain[Len(chain)].amount \in Nat
         /\ PayoutTotal(chain) = PayoutTotal(Prefix(chain, Len(chain) - 1))
                                   + chain[Len(chain)].amount
<1> DEFINE n == Len(chain)
           S == 1..n
           f == [i \in S |-> chain[i].amount]
           tail == Prefix(chain, n - 1)
<1>1. n \in Nat /\ n \in S /\ n - 1 \in 0..n
  BY LenProperties
<1>2. IsFiniteSet(S)
  BY <1>1, FS_Interval
<1>3. f \in [S -> U64]
  <2>1. \A i \in S : chain[i] \in Payout
    BY ElementOfSeq
  <2> QED BY <2>1 DEF Payout
<1>4. /\ Sum(f) = Sum([i \in S \ {n} |-> f[i]]) + f[n]
      /\ Sum([i \in S \ {n} |-> f[i]]) \in Nat /\ f[n] \in Nat
  <2> HIDE DEF S, f, n
  <2> QED BY <1>1, <1>2, <1>3, SumSplit
<1>5. PayoutTotal(chain) = Sum(f)
  BY DEF PayoutTotal
<1>6. PayoutTotal(tail) = Sum([i \in S \ {n} |-> f[i]])
  <2>1. Len(tail) = n - 1
    BY <1>1, PrefixType
  <2>2. 1..Len(tail) = S \ {n}
    BY <1>1, <2>1
  <2>3. \A i \in S \ {n} : tail[i].amount = f[i]
    BY <1>1 DEF Prefix
  <2>4. [i \in S \ {n} |-> tail[i].amount] = [i \in S \ {n} |-> f[i]]
    BY <2>3
  <2> QED BY <2>2, <2>4 DEF PayoutTotal
<1>7. f[n] = chain[n].amount
  BY <1>1
<1> QED BY <1>4, <1>5, <1>6, <1>7

(* The payout made is the head of the chain, and what it costs was owed. *)
LEMMA PayoutKeepsSolvency ==
  ASSUME Solvency, Bookkeeping', Drain
  PROVE  Solvency'
<1> DEFINE n == Len(pendingWithdrawals)
           tail == Prefix(pendingWithdrawals, n - 1)
           head == pendingWithdrawals[n]
<1>1. Bookkeeping /\ Solvent /\ pendingWithdrawals # None
  BY DEF Solvency, Drain
<1>2. PICK k \in 1..n, byCreator \in BOOLEAN :
        payWithdrawal(pendingWithdrawals[k].recipient,
                      pendingWithdrawals[k].amount,
                      Prefix(pendingWithdrawals, k - 1), byCreator)
  BY DEF Drain
<1>3. /\ pendingWithdrawals
           = Append(Prefix(pendingWithdrawals, k - 1),
                    [recipient |-> pendingWithdrawals[k].recipient,
                     amount |-> pendingWithdrawals[k].amount])
      /\ pendingWithdrawals' = StepPast(Prefix(pendingWithdrawals, k - 1))
      /\ InnerPayment(pendingWithdrawals[k].recipient, pendingWithdrawals[k].amount)
      /\ UNCHANGED <<inboxVars, settledVars, exits, escaped>>
  BY <1>2 DEF payWithdrawal, PayoutIsNext, accumulate_withdrawal
<1>4. /\ pendingWithdrawals \in Seq(Payout) /\ n \in Nat /\ k \in Nat
      /\ n > 0 /\ n - 1 \in 0..n
  BY <1>1, <1>2, PayoutTail
<1>5. k = n
  <2>1. /\ Prefix(pendingWithdrawals, k - 1) \in Seq(Payout)
        /\ Len(Prefix(pendingWithdrawals, k - 1)) = k - 1
    BY <1>2, <1>4, PrefixType
  <2>2. [recipient |-> pendingWithdrawals[k].recipient,
         amount |-> pendingWithdrawals[k].amount] \in Payout
    BY <1>1, <1>2, PayoutTail DEF Payout
  <2>3. Len(pendingWithdrawals) = k - 1 + 1
    BY <1>3, <2>1, <2>2, AppendProperties
  <2> QED BY <1>4, <2>3
<1>6. /\ pendingWithdrawals' = IF tail = << >> THEN None ELSE tail
      /\ balance' = balance \/ balance' = balance - head.amount
  BY <1>3, <1>5 DEF StepPast, withdrawal_chain_terminal, InnerPayment
<1>7. tail \in Seq(Payout) /\ Len(tail) = n - 1
  BY <1>4, PrefixType
<1>8. PayoutsPayable'
  <2>1. ASSUME pendingWithdrawals' # None
        PROVE  /\ pendingWithdrawals' = tail /\ tail # << >>
               /\ \A i \in 1..Len(tail) : tail[i].amount >= MIN_WITHDRAWAL
    <3>1. \A i \in 1..Len(tail) : tail[i] = pendingWithdrawals[i] /\ i \in 1..n
      BY <1>4, <1>7 DEF Prefix
    <3>2. \A i \in 1..n : pendingWithdrawals[i].amount >= MIN_WITHDRAWAL
      BY <1>1 DEF Solvency, PayoutsPayable
    <3> QED BY <1>6, <2>1, <3>1, <3>2
  <2> QED BY <2>1 DEF PayoutsPayable
<1>9. /\ PayoutsOwed = PayoutsOwed' + head.amount
      /\ head.amount \in Nat
  <2>1. /\ PayoutTotal(tail) \in Nat /\ head.amount \in Nat
        /\ PayoutTotal(pendingWithdrawals) = PayoutTotal(tail) + head.amount
    BY <1>4, PayoutSplit
  <2>2. PayoutsOwed = PayoutTotal(pendingWithdrawals)
    BY <1>1 DEF PayoutsOwed
  <2>3. PayoutsOwed' = PayoutTotal(tail)
    <3>1. CASE tail = << >>
      <4>1. [i \in 1..Len(tail) |-> tail[i].amount] \in [{} -> U64]
        BY <3>1
      <4>2. PayoutTotal(tail) = 0
        BY <4>1, SumEmpty DEF PayoutTotal
      <4> QED BY <1>6, <3>1, <4>2 DEF PayoutsOwed
    <3>2. CASE tail # << >>
      BY <1>6, <1>7, <3>2, NoneAssumption DEF PayoutsOwed
    <3> QED BY <3>1, <3>2
  <2> QED BY <2>1, <2>2, <2>3
<1>10. UNCHANGED <<appMinBalance, L2Owed, DepositsOwed>>
  BY <1>3 DEF appMinBalance, L2Owed, DepositsOwed, PendingBoxes, inboxVars, settledVars
<1>11. Solvent'
  <2>1. /\ balance \in Nat /\ appMinBalance \in Nat /\ L2Owed \in Nat
        /\ DepositsOwed \in Nat
    BY <1>1, Owed DEF InNumbers
  <2>2. PayoutsOwed' \in Nat
    BY OwedNext DEF InNumbers
  <2>3. balance >= appMinBalance + L2Owed + DepositsOwed + PayoutsOwed
    BY <1>1 DEF Solvent
  <2>4. balance' >= balance - head.amount
    <3>1. balance' = balance \/ balance' = balance - head.amount
      BY <1>6
    <3> QED BY <1>9, <2>1, <3>1
  <2>5. balance' \in Nat
    BY OwedNext DEF InNumbers
  <2>6. balance' >= appMinBalance + L2Owed + DepositsOwed + PayoutsOwed'
    <3>1. /\ head.amount \in Nat
          /\ balance >= appMinBalance + L2Owed + DepositsOwed
                          + (PayoutsOwed' + head.amount)
      BY <1>9, <2>3
    <3> HIDE DEF head
    <3> QED BY <2>1, <2>2, <2>4, <2>5, <3>1, PaidWasOwed
  <2> QED BY <1>10, <2>6 DEF Solvent
<1> QED BY <1>3, <1>8, <1>11 DEF Solvency, NoExitBeforeEscape

(* An exit pays what the leaf held, less what its record locks. *)
LEMMA ExitKeepsSolvency ==
  ASSUME Solvency, Bookkeeping', NEW address \in Addresses, NEW recipient,
         forceExit(address, stateRoot[address], recipient)
  PROVE  Solvency'
<1> DEFINE S == Addresses \ DOMAIN exits
           f == [a \in S |-> stateRoot[a].amount]
           amount == stateRoot[address].amount
<1>1. Bookkeeping /\ Solvent
  BY DEF Solvency
<1>2. /\ address \in S /\ escaped
      /\ DOMAIN exits' = DOMAIN exits \cup {address}
      /\ amount > EXIT_MBR
      /\ balance' = balance \/ balance' = balance - (amount - EXIT_MBR)
      /\ UNCHANGED <<inboxVars, settledVars, pendingWithdrawals, escapeVars>>
  BY DEF forceExit, Exitable, InnerPayment
<1>3. f \in [S -> U64] /\ IsFiniteSet(S)
  <2>1. stateRoot \in [Addresses -> Leaf]
    BY <1>1 DEF Bookkeeping, TypeOK, SettledType
  <2> QED BY <2>1, AddressAssumption, FS_Subset DEF Leaf
<1>4. /\ Sum(f) = Sum([a \in S \ {address} |-> f[a]]) + f[address]
      /\ f[address] \in Nat
  <2> HIDE DEF S, f
  <2> QED BY <1>2, <1>3, SumSplit
<1>5. L2Owed = L2Owed' + amount /\ amount \in Nat
  <2>1. L2Owed = Sum(f)
    BY DEF L2Owed
  <2>2. Addresses \ DOMAIN exits' = S \ {address}
    BY <1>2
  <2>3. [a \in S \ {address} |-> f[a]] = [a \in S \ {address} |-> stateRoot[a].amount]
    OBVIOUS
  <2>4. L2Owed' = Sum([a \in S \ {address} |-> f[a]])
    BY <1>2, <2>2, <2>3 DEF L2Owed, settledVars
  <2>5. f[address] = amount
    BY <1>2
  <2> QED BY <1>4, <2>1, <2>4, <2>5
<1>6. appMinBalance' = appMinBalance + EXIT_MBR
  <2>1. IsFiniteSet(DOMAIN exits)
    <3>1. DOMAIN exits \subseteq Addresses
      BY <1>1 DEF Bookkeeping, TypeOK, MoneyType
    <3> QED BY <3>1, AddressAssumption, FS_Subset
  <2>2. Cardinality(DOMAIN exits') = Cardinality(DOMAIN exits) + 1
    BY <1>2, <2>1, FS_AddElement
  <2>3. /\ appMinBalance = Locked(Cardinality(DOMAIN inbox), Cardinality(DOMAIN exits))
        /\ Cardinality(DOMAIN inbox) \in Nat /\ Cardinality(DOMAIN exits) \in Nat
    BY <1>1, Owed DEF InNumbers
  <2>4. appMinBalance' = Locked(Cardinality(DOMAIN inbox), Cardinality(DOMAIN exits'))
    BY <1>2 DEF appMinBalance, Locked, inboxVars
  <2> QED BY <2>2, <2>3, <2>4, LockedMore
<1>7. UNCHANGED <<DepositsOwed, PayoutsOwed, escaped>>
  BY <1>2 DEF DepositsOwed, PendingBoxes, PayoutsOwed, inboxVars, settledVars, escapeVars
<1>8. Solvent'
  <2>1. /\ balance \in Nat /\ appMinBalance \in Nat
        /\ DepositsOwed \in Nat /\ PayoutsOwed \in Nat /\ EXIT_MBR \in Nat
    BY <1>1, Owed, ContractAssumption DEF InNumbers
  <2>2. L2Owed' \in Nat
    BY OwedNext DEF InNumbers
  <2>3. balance >= appMinBalance + L2Owed + DepositsOwed + PayoutsOwed
    BY <1>1 DEF Solvent
  <2>4. balance' >= appMinBalance' + L2Owed' + DepositsOwed + PayoutsOwed
    <3>1. balance >= appMinBalance + (L2Owed' + amount) + DepositsOwed + PayoutsOwed
      BY <1>5, <2>3
    <3>2. balance' \in Nat /\ amount \in Nat
      BY <1>5, OwedNext DEF InNumbers
    <3>3. /\ amount > EXIT_MBR
          /\ balance' = balance \/ balance' = balance - (amount - EXIT_MBR)
      BY <1>2
    <3> HIDE DEF amount
    <3>4. balance' >= (appMinBalance + EXIT_MBR) + L2Owed' + DepositsOwed + PayoutsOwed
      BY <2>1, <2>2, <3>1, <3>2, <3>3, ExitWasOwed
    <3> QED BY <1>6, <3>4
  <2> QED BY <1>7, <2>4 DEF Solvent
<1> QED BY <1>2, <1>7, <1>8 DEF Solvency, NoExitBeforeEscape, PayoutsPayable

-----------------------------------------------------------------------------
(* The boxes a settlement consumes are worth the deposits the proof folded. *)
LEMMA SettledBoxes ==
  ASSUME Bookkeeping, batchLength # None, ~escaped
  PROVE  /\ DepositsFolded(settledInboxChain, sealedInboxChain) \in Nat
         /\ Pending(inbox, settledInboxCursor)
              = DepositsFolded(settledInboxChain, sealedInboxChain)
                  + Pending(inbox, sealedInboxCursor)
<1> DEFINE s == settledInboxCursor
           t == sealedInboxCursor
           P == {j \in DOMAIN inbox : j >= s}
           Q == {j \in DOMAIN inbox : j >= t}
           C == s..(t - 1)
           f == [i \in P |-> inbox[i].amount]
<1>1. /\ s \in Nat /\ t \in Nat /\ s <= t /\ t <= inboxCursor
      /\ inboxChain \in Seq(InboxEntry) /\ Len(inboxChain) = inboxCursor
      /\ inboxCursor \in 0..MaxInbox /\ MaxInbox \in Nat
      /\ settledInboxChain = Prefix(inboxChain, s)
      /\ sealedInboxChain = Prefix(inboxChain, t)
  BY Books, OpenBatchBooks
<1>2. /\ Len(settledInboxChain) = s /\ Len(sealedInboxChain) = t
  BY <1>1, PrefixType
<1>3. C \subseteq DOMAIN inbox
  BY <1>1 DEF Bookkeeping, InboxIntact, NoBoxMissing
<1>4. DOMAIN inbox \subseteq Nat /\ IsFiniteSet(DOMAIN inbox)
  <2>1. DOMAIN inbox \subseteq 0..(MaxInbox - 1)
    BY Books
  <2>2. IsFiniteSet(0..(MaxInbox - 1))
    BY <1>1, FS_Interval
  <2>3. IsFiniteSet(DOMAIN inbox)
    BY <2>1, <2>2, FS_Subset
  <2> QED BY <2>1, <2>3
<1>5. P = C \cup Q /\ C \cap Q = {}
  BY <1>1, <1>3, <1>4
<1>6. IsFiniteSet(C) /\ IsFiniteSet(Q)
  BY <1>3, <1>4, FS_Subset
<1>7. f \in [C \cup Q -> U64]
  <2>1. \A i \in DOMAIN inbox : inbox[i].amount \in U64
    BY Books
  <2>2. f \in [P -> U64]
    BY <2>1
  <2> QED BY <1>5, <2>2
<1>8. [i \in C |-> f[i]] \in [C -> U64]
  BY <1>7
<1>9. /\ Sum(f) = Sum([i \in C |-> f[i]]) + Sum([i \in Q |-> f[i]])
      /\ Sum([i \in C |-> f[i]]) \in Nat
  <2> HIDE DEF f, C, Q, P
  <2>1. C \cap Q = {}
    BY <1>5
  <2>2. Sum(f) = Sum([i \in C |-> f[i]]) + Sum([i \in Q |-> f[i]])
    BY <1>6, <1>7, <2>1, SumDisjoint
  <2>3. Sum([i \in C |-> f[i]]) \in Nat
    BY <1>6, <1>8, SumType
  <2> QED BY <2>2, <2>3
<1>10. Pending(inbox, s) = Sum(f)
  BY DEF Pending
<1>11. Pending(inbox, t) = Sum([i \in Q |-> f[i]])
  <2>1. [i \in Q |-> f[i]] = [i \in Q |-> inbox[i].amount]
    BY <1>5
  <2> QED BY <2>1 DEF Pending
<1>12. DepositsFolded(settledInboxChain, sealedInboxChain) = Sum([i \in C |-> f[i]])
  <2>1. \A i \in C : sealedInboxChain[i + 1] = inboxChain[i + 1]
    BY <1>1 DEF Prefix
  <2>2. \A i \in C : inbox[i].amount = inboxChain[i + 1].amount
    BY <1>3 DEF Bookkeeping, InboxIntact, BoxesAgree
  <2>3. \A i \in C : f[i] = sealedInboxChain[i + 1].amount
    BY <1>5, <2>1, <2>2
  <2>4. [i \in C |-> sealedInboxChain[i + 1].amount] = [i \in C |-> f[i]]
    BY <2>3
  <2> QED BY <1>2, <2>4 DEF DepositsFolded
<1> QED BY <1>9, <1>10, <1>11, <1>12

(* A settlement moves value between leaves, boxes and payouts, and the block
   law says that it makes none. *)
LEMMA SettlementKeepsSolvency ==
  ASSUME Solvency, Bookkeeping', NEW start \in ProofStarts, verifyBatch(start)
  PROVE  Solvency'
<1>1. Bookkeeping /\ Solvent /\ NoExitBeforeEscape
  BY DEF Solvency
<1>2. PICK end \in ProofEnds(start) :
        /\ stateRoot' = end.new_root
        /\ pendingWithdrawals' =
             IF end.withdrawal_chain # withdrawal_chain_terminal
             THEN end.withdrawal_chain ELSE pendingWithdrawals
  BY DEF verifyBatch
<1> DEFINE chain == end.withdrawal_chain
           folded == DepositsFolded(settledInboxChain, sealedInboxChain)
<1>3. /\ batchLength # None /\ ~escaped
      /\ start.old_root = stateRoot
      /\ start.old_inbox_chain = settledInboxChain
      /\ start.new_inbox_chain = sealedInboxChain
      /\ settledInboxCursor' = sealedInboxCursor
      /\ UNCHANGED <<balance, inboxVars, exits, escaped>>
  BY DEF verifyBatch, ProofMatches, AdvanceToSeal
<1>4. chain \in Seq(Payout)
  BY ProofEndsType
<1>5. /\ Sum(Balances(stateRoot')) + PayoutTotal(chain)
           = Sum(Balances(stateRoot)) + folded
      /\ \A i \in 1..Len(chain) : chain[i].amount >= MIN_WITHDRAWAL
  <2>1. BlockLaw(start.old_root, end.new_root, start.old_inbox_chain,
                 start.new_inbox_chain, chain)
    BY ProofEndsType
  <2>2. BlockLaw(stateRoot, stateRoot', settledInboxChain, sealedInboxChain, chain)
    BY <1>2, <1>3, <2>1
  <2> QED BY <2>2 DEF BlockLaw
<1>6. /\ pendingWithdrawals = None
      /\ pendingWithdrawals' = IF chain = << >> THEN None ELSE chain
  <2>1. pendingWithdrawals = None
    BY <1>1, <1>3 DEF Bookkeeping, KeysTogether, BatchKeys
  <2> QED BY <1>2, <2>1 DEF withdrawal_chain_terminal
<1>7. PayoutsPayable'
  BY <1>5, <1>6 DEF PayoutsPayable
<1>8. PayoutsOwed = 0 /\ PayoutsOwed' = PayoutTotal(chain)
  <2>1. PayoutsOwed = 0
    BY <1>6 DEF PayoutsOwed
  <2>2. CASE chain = << >>
    <3>1. [i \in 1..Len(chain) |-> chain[i].amount] \in [{} -> U64]
      BY <2>2
    <3>2. PayoutTotal(chain) = 0
      BY <3>1, SumEmpty DEF PayoutTotal
    <3> QED BY <1>6, <2>1, <2>2, <3>2 DEF PayoutsOwed
  <2>3. CASE chain # << >>
    BY <1>4, <1>6, <2>1, <2>3, NoneAssumption DEF PayoutsOwed
  <2> QED BY <2>2, <2>3
<1>9. L2Owed = Sum(Balances(stateRoot)) /\ L2Owed' = Sum(Balances(stateRoot'))
  <2>1. DOMAIN exits = {} /\ exits' = exits
    BY <1>1, <1>3 DEF NoExitBeforeEscape
  <2>2. Addresses \ DOMAIN exits = Addresses /\ Addresses \ DOMAIN exits' = Addresses
    BY <2>1
  <2> QED BY <2>2 DEF L2Owed, Balances
<1>10. DepositsOwed = folded + DepositsOwed' /\ folded \in Nat
  <2>1. /\ folded \in Nat
        /\ Pending(inbox, settledInboxCursor)
             = folded + Pending(inbox, sealedInboxCursor)
    BY <1>1, <1>3, SettledBoxes
  <2>2. DepositsOwed = Pending(inbox, settledInboxCursor)
    BY <1>1, Owed DEF InNumbers
  <2>3. DepositsOwed' = Pending(inbox', settledInboxCursor')
    BY OwedNext DEF InNumbers
  <2>4. inbox' = inbox
    BY <1>3 DEF inboxVars
  <2> QED BY <1>3, <2>1, <2>2, <2>3, <2>4
<1>11. UNCHANGED appMinBalance
  BY <1>3 DEF appMinBalance, inboxVars
<1>12. Solvent'
  <2> HIDE DEF folded, chain
  <2>1. /\ balance \in Nat /\ appMinBalance \in Nat
        /\ L2Owed \in Nat /\ DepositsOwed \in Nat
    BY <1>1, Owed DEF InNumbers
  <2>2. L2Owed' \in Nat /\ DepositsOwed' \in Nat /\ PayoutsOwed' \in Nat
    BY OwedNext DEF InNumbers
  <2>3. L2Owed' + PayoutsOwed' = L2Owed + folded
    BY <1>5, <1>8, <1>9
  <2>4. balance >= appMinBalance + L2Owed + DepositsOwed
    <3>1. balance >= appMinBalance + L2Owed + DepositsOwed + PayoutsOwed
      BY <1>1 DEF Solvent
    <3> QED BY <1>8, <2>1, <3>1
  <2>5. balance >= appMinBalance + L2Owed' + DepositsOwed' + PayoutsOwed'
    <3>1. folded \in Nat /\ balance >= appMinBalance + L2Owed + (folded + DepositsOwed')
      BY <1>10, <2>4
    <3> QED BY <2>1, <2>2, <2>3, <3>1, MovedIsOwed
  <2> QED BY <1>3, <1>11, <2>5 DEF Solvent
<1> QED BY <1>1, <1>3, <1>7, <1>12 DEF Solvency, NoExitBeforeEscape

-----------------------------------------------------------------------------
(* Every method keeps the application solvent. *)
LEMMA SolvencyStep == Solvency /\ [Next]_vars => Solvency'
<1> SUFFICES ASSUME Solvency, [Next]_vars PROVE Solvency'
  OBVIOUS
<1>1. Bookkeeping /\ Bookkeeping'
  BY BookkeepingStep DEF Solvency
<1>2. CASE Council
  BY <1>1, <1>2, IdleKeepsSolvency
     DEF Council, securityCouncilEscape, scheduleVerifierUpdate,
         scheduleApplicationUpdate, escapeVars
<1>3. CASE Sequencer
  <2>1. ASSUME NEW length, NEW target, openBatch(length, target)
        PROVE  Solvency'
    BY <1>1, <2>1, IdleKeepsSolvency DEF openBatch, escapeVars
  <2>2. ASSUME NEW chunk, accumulateChunk(chunk)
        PROVE  Solvency'
    BY <1>1, <2>2, IdleKeepsSolvency DEF accumulateChunk, escapeVars
  <2>3. CASE abandonBatch
    BY <1>1, <2>3, IdleKeepsSolvency DEF abandonBatch, escapeVars
  <2>4. ASSUME NEW start \in ProofStarts, verifyBatch(start)
        PROVE  Solvency'
    BY <1>1, <2>4, SettlementKeepsSolvency
  <2> QED BY <1>3, <2>1, <2>2, <2>3, <2>4 DEF Sequencer
<1>4. CASE Anyone
  <2>1. CASE executeVerifierUpdate \/ executeEscape \/ signalEscape
    BY <1>1, <2>1, IdleKeepsSolvency
       DEF executeVerifierUpdate, executeEscape, signalEscape, escapeVars
  <2>2. ASSUME NEW p, updateApplication(p) PROVE Solvency'
    BY <1>1, <2>2, IdleKeepsSolvency DEF updateApplication, escapeVars
  <2>3. ASSUME NEW payer, NEW address, NEW amount \in DepositAmounts,
               deposit(payer, address, amount)
        PROVE  Solvency'
    <3>1. amount \in U64
      BY InputAssumption
    <3>2. /\ AppendToInbox("d", address, NoRecipient, amount, payer,
                           accumulate_deposit(inboxChain, address, amount))
          /\ balance' = balance + INBOX_MBR + amount
          /\ UNCHANGED <<settledVars, pendingWithdrawals, exits, escaped>>
      BY <2>3 DEF deposit, escapeVars
    <3> QED BY <1>1, <3>1, <3>2, AppendKeepsSolvency
  <2>4. ASSUME NEW payer, NEW address, NEW recipient,
               requestWithdrawal(payer, address, recipient)
        PROVE  Solvency'
    <3>1. 0 \in U64
      BY MaxU64Assumption DEF U64
    <3>2. /\ AppendToInbox("w", address, recipient, 0, payer,
                           accumulate_request(inboxChain, address, recipient))
          /\ balance' = balance + INBOX_MBR
          /\ UNCHANGED <<settledVars, pendingWithdrawals, exits, escaped>>
      BY <2>4 DEF requestWithdrawal, escapeVars
    <3>3. balance' = balance + INBOX_MBR + 0
      <4>1. balance \in Nat /\ INBOX_MBR \in Nat
        BY <1>1, Owed, ContractAssumption DEF InNumbers
      <4> QED BY <3>2, <4>1
    <3> QED BY <1>1, <3>1, <3>2, <3>3, AppendKeepsSolvency
  <2>5. ASSUME NEW index,
               pruneRequest(index) \/ pruneDeposit(index) \/ reclaimDeposit(index)
        PROVE  Solvency'
    BY <1>1, <2>5, DeleteKeepsSolvency
  <2>6. ASSUME NEW recipient, NEW address \in Addresses,
               forceExit(address, stateRoot[address], recipient)
        PROVE  Solvency'
    BY <1>1, <2>6, ExitKeepsSolvency
  <2> QED BY <1>4, <2>1, <2>2, <2>3, <2>4, <2>5, <2>6 DEF Anyone
<1>5. CASE Drain
  BY <1>1, <1>5, PayoutKeepsSolvency
<1>6. CASE Tick
  BY <1>1, <1>6, IdleKeepsSolvency DEF Tick, escapeVars
<1>7. CASE UNCHANGED vars
  BY <1>1, <1>7, IdleKeepsSolvency DEF vars, escapeVars
<1> QED BY <1>2, <1>3, <1>4, <1>5, <1>6, <1>7 DEF Next

(* A solvent application can always make the payout at the head of the chain. *)
LEMMA SolventCanPay == Solvency => PayoutNeverBlocked
<1> SUFFICES ASSUME Solvency, pendingWithdrawals # None
             PROVE  LET head == pendingWithdrawals[Len(pendingWithdrawals)]
                    IN /\ pendingWithdrawals # << >>
                       /\ balance - head.amount >= appMinBalance
                       /\ head.recipient \in ClosedAccounts =>
                            head.amount >= NETWORK_MIN
  BY DEF PayoutNeverBlocked
<1> DEFINE n == Len(pendingWithdrawals)
           head == pendingWithdrawals[n]
<1>1. Bookkeeping /\ Solvent /\ pendingWithdrawals # << >>
  BY DEF Solvency, PayoutsPayable
<1>2. pendingWithdrawals \in Seq(Payout) /\ n \in Nat /\ n > 0
  <2>1. pendingWithdrawals \in Seq(Payout)
    BY <1>1 DEF Bookkeeping, TypeOK, MoneyType
  <2> QED BY <1>1, <2>1, EmptySeq, LenProperties
<1>3. head.amount >= MIN_WITHDRAWAL
  BY <1>2 DEF Solvency, PayoutsPayable
<1>4. /\ PayoutTotal(Prefix(pendingWithdrawals, n - 1)) \in Nat
      /\ head.amount \in Nat
      /\ PayoutsOwed = PayoutTotal(Prefix(pendingWithdrawals, n - 1)) + head.amount
  BY <1>2, PayoutSplit DEF PayoutsOwed
<1>5. head.amount >= NETWORK_MIN
  BY <1>3, <1>4, ContractAssumption, MinWithdrawalAssumption DEF U64
<1>6. balance - head.amount >= appMinBalance
  <2>1. /\ balance \in Nat /\ appMinBalance \in Nat /\ L2Owed \in Nat
        /\ DepositsOwed \in Nat
    BY <1>1, Owed DEF InNumbers
  <2>2. balance >= appMinBalance + L2Owed + DepositsOwed + PayoutsOwed
    BY <1>1 DEF Solvent
  <2> HIDE DEF head
  <2> QED BY <1>4, <2>1, <2>2
<1> QED BY <1>1, <1>5, <1>6

(* Whatever a sequencer settles within the block law, and in whatever order
   deposits, refunds, prunes, payouts, exits and an escape are called, the
   application account holds all that it owes. *)
THEOREM AlwaysSolvent == Spec => []Solvent
<1>1. Spec => []Solvency
  BY SolvencyInit, SolvencyStep, PTL DEF Spec
<1> QED BY <1>1, PTL DEF Solvency

(* "The payment cannot fail": payWithdrawal can make the next payout in every
   reachable state, whoever its recipient is, so openBatch cannot be shut. *)
THEOREM PayoutsNeverBlock == Spec => []PayoutNeverBlocked
<1>1. Spec => []Solvency
  BY SolvencyInit, SolvencyStep, PTL DEF Spec
<1> QED BY <1>1, SolventCanPay, PTL
=============================================================================
