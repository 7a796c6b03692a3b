---------------------------- MODULE Ledger_proofs ----------------------------
(***************************************************************************)
(* The sequencer's ledger, for every value of the constants: its two       *)
(* copies of the state stay in step, the guest accepts the blocks it       *)
(* builds, the payouts it reports are the ones it queued, signatures move  *)
(* value only as their holders meant, and it implements the replay.        *)
(*                                                                         *)
(* The inductive invariant adds to the checked properties that accounts    *)
(* sit in the slot of their own address (so a signature that verifies is   *)
(* the sender's, and a slot is empty exactly where the HashMap has none),  *)
(* that the recorded block is well formed, and that between two calls of   *)
(* get_block its locals stand where the next call sets them.               *)
(***************************************************************************)
EXTENDS Ledger, VerifyBatch_proofs

-----------------------------------------------------------------------------
(* The two copies of the state. *)

(* An account in the slot of address a. *)
Held(a) == [nonce : U64, amount : U64, auth_address : {a}]

(* Accounts sit in the slot of their own address, and the tree commits to the
   HashMap. *)
InStep(L) ==
  /\ DOMAIN L.accounts \subseteq Addresses
  /\ \A a \in DOMAIN L.accounts : L.accounts[a] \in Held(a)
  /\ L.tree = [a \in Addresses |-> OldAccount(L, a)]

(* A slot of the tree shows the account, or that there is none. *)
LEMMA Slot ==
  ASSUME NEW L, InStep(L), NEW a \in Addresses
  PROVE  /\ L.tree[a] = OldAccount(L, a)
         /\ Has(L, a) => L.tree[a] = L.accounts[a] /\ L.tree[a] \in Held(a)
         /\ ~Has(L, a) => L.tree[a] = NoAccount
         /\ Has(L, a) <=> L.tree[a] # NoAccount
         /\ L.tree[a].nonce \in U64 /\ L.tree[a].amount \in U64
<1>1. L.tree[a] = OldAccount(L, a)
  BY DEF InStep
<1>2. ASSUME Has(L, a) PROVE L.tree[a] = L.accounts[a] /\ L.tree[a] \in Held(a)
  BY <1>1, <1>2 DEF InStep, OldAccount, Has
<1>3. ASSUME ~Has(L, a) PROVE L.tree[a] = NoAccount
  BY <1>1, <1>3 DEF OldAccount
<1>4. NoAccount \notin Held(a) /\ NoAccount.nonce \in U64 /\ NoAccount.amount \in U64
  BY KeylessAssumption, MaxU64Assumption DEF NoAccount, Held, U64
<1>5. \A x \in Held(a) : x.nonce \in U64 /\ x.amount \in U64
  BY DEF Held
<1>. QED BY <1>1, <1>2, <1>3, <1>4, <1>5

(* One write reaches both copies. *)
LEMMA WriteInStep ==
  ASSUME NEW L, InStep(L), NEW a \in Addresses, NEW x \in Held(a)
  PROVE  /\ InStep(Write(L, a, x))
         /\ Write(L, a, x).tree = [L.tree EXCEPT ![a] = x]
<1> DEFINE M == Write(L, a, x)
           acc == [b \in DOMAIN L.accounts \cup {a} |-> IF b = a THEN x ELSE L.accounts[b]]
<1>1. M.accounts = acc /\ M.tree = [L.tree EXCEPT ![a] = x]
  BY DEF Write
<1>2. /\ DOMAIN acc = DOMAIN L.accounts \cup {a} /\ acc[a] = x
      /\ \A b \in DOMAIN L.accounts \ {a} : acc[b] = L.accounts[b]
  OBVIOUS
<1>. HIDE DEF M, acc
<1>3. DOMAIN M.accounts \subseteq Addresses
  BY <1>1, <1>2 DEF InStep
<1>4. ASSUME NEW b \in DOMAIN M.accounts PROVE M.accounts[b] \in Held(b)
  BY <1>1, <1>2, <1>4 DEF InStep
<1>5. ASSUME NEW b \in Addresses PROVE M.tree[b] = OldAccount(M, b)
  <2>1. DOMAIN L.tree = Addresses
    BY DEF InStep
  <2>2. CASE b = a
    BY <1>1, <1>2, <2>1, <2>2 DEF OldAccount, Has
  <2>3. CASE b # a
    <3>1. M.tree[b] = L.tree[b] /\ L.tree[b] = OldAccount(L, b)
      BY <1>1, <2>1, <2>3, Slot
    <3>. QED BY <1>1, <1>2, <2>3, <3>1 DEF OldAccount, Has
  <2>. QED BY <2>2, <2>3
<1>6. M.tree = [b \in Addresses |-> OldAccount(M, b)]
  <2>1. DOMAIN L.tree = Addresses
    BY DEF InStep
  <2>2. M.tree = [b \in Addresses |-> M.tree[b]]
    BY <1>1, <2>1
  <2>. QED BY <1>5, <2>2
<1>7. InStep(M)
  BY <1>3, <1>4, <1>6 DEF InStep
<1>. QED BY <1>1, <1>7 DEF M

(* The tree of a ledger in step is a root. *)
LEMMA TreeIsRoot ==
  ASSUME NEW L, InStep(L)
  PROVE  IsRoot(L.tree)
BY DEF InStep, IsRoot

(* A witness the ledger captures matches the root it is captured at. *)
LEMMA WitnessMatches ==
  ASSUME NEW L, InStep(L), NEW a \in Addresses
  PROVE  /\ expect_pre_state(a, Witness(L, a), L.tree)
         /\ Witness(L, a).old_account = L.tree[a]
         /\ Witness(L, a).proof = L.tree
<1>1. Witness(L, a).old_account = L.tree[a] /\ Witness(L, a).proof = L.tree
  BY Slot DEF Witness
<1>2. [L.tree EXCEPT ![a] = L.tree[a]] = L.tree
  BY DEF InStep
<1>. QED BY <1>1, <1>2 DEF expect_pre_state, root_with

-----------------------------------------------------------------------------
(* The three writes of get_block are the three of the guest. *)

(* A debit: the ledger's, the guest's with the ledger's witness, and the one of
   module Replay. *)
LEMMA DebitAgrees ==
  ASSUME NEW L, InStep(L), NEW txn, txn.sender \in Addresses, txn.amount \in U64,
         txn.fee \in U64, NEW sig, CanDebit(L, txn, sig)
  PROVE  /\ InStep(Ledger_debit(L, txn))
         /\ debit(Domain, txn, Witness(L, txn.sender), sig, L.tree)
              = Ledger_debit(L, txn).tree
         /\ R!CanDebit(L.tree, txn.sender, txn.amount, txn.fee)
         /\ R!debit(L.tree, txn.sender, txn.amount, txn.fee) = Ledger_debit(L, txn).tree
<1> DEFINE s == txn.sender
           old == L.tree[s]
           new == Spent(old, txn)
<1>1. /\ Has(L, s) /\ old = L.accounts[s] /\ old \in Held(s) /\ old # NoAccount
      /\ old.nonce < MAX_U64 /\ txn.amount <= old.amount
      /\ txn.fee <= old.amount - txn.amount
      /\ verify(sig, old, bytes_to_sign(Domain, txn, old.nonce + 1))
  <2>1. Has(L, s) /\ old = L.accounts[s] /\ old \in Held(s) /\ old # NoAccount
    BY Slot DEF CanDebit
  <2>. QED BY <2>1 DEF CanDebit
<1>2. /\ old = [nonce |-> old.nonce, amount |-> old.amount, auth_address |-> s]
      /\ old.nonce \in U64 /\ old.amount \in U64 /\ old.auth_address = s
  BY <1>1 DEF Held
<1>3. new = [nonce |-> old.nonce + 1, amount |-> old.amount - txn.amount - txn.fee,
             auth_address |-> s]
  BY <1>2 DEF Spent
<1>4. old.nonce + 1 \in U64 /\ old.amount - txn.amount - txn.fee \in U64
  BY <1>1, <1>2, MaxU64Assumption DEF U64
<1>5. new \in Held(s)
  BY <1>3, <1>4 DEF Held
<1>6. Ledger_debit(L, txn) = Write(L, s, new)
  BY <1>1 DEF Ledger_debit, Spent
<1>7. expect_pre_state(s, Witness(L, s), L.tree) /\ Witness(L, s).old_account = old
      /\ Witness(L, s).proof = L.tree
  BY WitnessMatches
<1>8. debit(Domain, txn, Witness(L, s), sig, L.tree) = [L.tree EXCEPT ![s] = new]
  BY <1>1, <1>7 DEF debit, root_with, Spent
<1>9. R!debit(L.tree, s, txn.amount, txn.fee) = [L.tree EXCEPT ![s] = new]
  BY <1>2, <1>3 DEF R!debit
<1>10. R!CanDebit(L.tree, s, txn.amount, txn.fee)
  <2>1. sig.key = s /\ SchemeOf[s] \in Schemes
    BY <1>1, <1>2 DEF verify, verify_auth, crypto_verify, Schemes
  <2>2. R!NoAccount = NoAccount
    BY DEF R!NoAccount, NoAccount
  <2>. QED BY <1>1, <1>2, <2>1, <2>2 DEF R!CanDebit, R!CanBumpNonce, R!verify, Schemes, R!Schemes
<1>11. InStep(Write(L, s, new)) /\ Write(L, s, new).tree = [L.tree EXCEPT ![s] = new]
  <2>. HIDE DEF new
  <2>. QED BY <1>5, WriteInStep
<1>. QED BY <1>6, <1>8, <1>9, <1>10, <1>11

(* A credit, of an account or of an address that has none yet. *)
LEMMA CreditAgrees ==
  ASSUME NEW L, InStep(L), NEW a \in Addresses, NEW amount \in U64, CanCredit(L, a, amount)
  PROVE  /\ InStep(Ledger_credit(L, a, amount))
         /\ credit(a, Witness(L, a), amount, L.tree) = Ledger_credit(L, a, amount).tree
         /\ R!CanCredit(L.tree, a, amount)
         /\ R!credit(L.tree, a, amount) = Ledger_credit(L, a, amount).tree
<1> DEFINE old == CreditedAccount(L, a)
           new == Richer(old, amount)
<1>1. old = (IF L.tree[a] = NoAccount THEN empty(a) ELSE L.tree[a]) /\ old \in Held(a)
  <2>1. empty(a) \in Held(a)
    BY MaxU64Assumption DEF empty, Held, U64
  <2>2. CASE Has(L, a)
    BY <2>2, Slot DEF CreditedAccount
  <2>3. CASE ~Has(L, a)
    BY <2>1, <2>3, Slot DEF CreditedAccount
  <2>. QED BY <2>2, <2>3
<1>2. old.nonce \in U64 /\ old.amount \in U64 /\ old.auth_address = a
  BY <1>1 DEF Held
<1>3. old.amount + amount <= MAX_U64
  BY DEF CanCredit
<1>4. /\ L.tree[a].nonce = old.nonce /\ L.tree[a].amount = old.amount
      /\ L.tree[a] # NoAccount => L.tree[a].auth_address = a
  BY <1>1, <1>2 DEF NoAccount, empty
<1>. HIDE DEF old
<1>5. new = [nonce |-> old.nonce, amount |-> old.amount + amount, auth_address |-> a]
  BY <1>2 DEF Richer
<1>6. old.amount + amount \in U64
  BY <1>2, <1>3, MaxU64Assumption DEF U64
<1>7. new \in Held(a)
  BY <1>2, <1>5, <1>6 DEF Held
<1>8. Ledger_credit(L, a, amount) = Write(L, a, new)
  BY DEF Ledger_credit, Richer, old
<1>9. expect_pre_state(a, Witness(L, a), L.tree) /\ Witness(L, a).old_account = L.tree[a]
      /\ Witness(L, a).proof = L.tree
  BY WitnessMatches
<1>10. L.tree # Err
  BY RootIsNoErr, TreeIsRoot
<1>11. credit(a, Witness(L, a), amount, L.tree) = [L.tree EXCEPT ![a] = new]
  BY <1>1, <1>3, <1>9, <1>10 DEF credit, root_with, Richer
<1>12. R!credit(L.tree, a, amount) = [L.tree EXCEPT ![a] = new]
  <2>1. R!NoAccount = NoAccount
    BY DEF R!NoAccount, NoAccount
  <2>. QED BY <1>4, <1>5, <2>1 DEF R!credit
<1>13. R!CanCredit(L.tree, a, amount)
  BY <1>3, <1>4 DEF R!CanCredit
<1>14. InStep(Write(L, a, new)) /\ Write(L, a, new).tree = [L.tree EXCEPT ![a] = new]
  <2>. HIDE DEF new
  <2>. QED BY <1>7, WriteInStep
<1>. QED BY <1>8, <1>11, <1>12, <1>13, <1>14

(* The fee, which is credited to the sink only when there is one. *)
LEMMA FeeAgrees ==
  ASSUME NEW L, InStep(L), NEW fee \in U64, CanCreditFee(L, fee)
  PROVE  /\ InStep(CreditFee(L, fee))
         /\ R!CanPayFee(L.tree, fee)
         /\ R!payFee(L.tree, fee) = CreditFee(L, fee).tree
         /\ fee # 0 => credit(FEE_SINK, Witness(L, FEE_SINK), fee, L.tree)
                         = CreditFee(L, fee).tree
         /\ fee = 0 => CreditFee(L, fee) = L
<1>1. FEE_SINK \in Addresses
  BY KeylessAssumption
<1>2. CASE fee = 0
  BY <1>2 DEF CreditFee, R!CanPayFee, R!payFee
<1>3. CASE fee # 0
  <2>1. CanCredit(L, FEE_SINK, fee) /\ CreditFee(L, fee) = Ledger_credit(L, FEE_SINK, fee)
    BY <1>3 DEF CanCreditFee, CreditFee
  <2>. QED BY <1>1, <1>3, <2>1, CreditAgrees DEF R!CanPayFee, R!payFee
<1>. QED BY <1>2, <1>3

(* A forced exit of an account that can be paid. *)
LEMMA EmptyAgrees ==
  ASSUME NEW L, InStep(L), NEW a \in Addresses, Has(L, a), L.accounts[a].nonce < MAX_U64
  PROVE  /\ InStep(EmptyAccount(L, a))
         /\ EmptyAccount(L, a).tree = [L.tree EXCEPT ![a] = emptied(L.tree[a])]
<1> DEFINE new == emptied(L.accounts[a])
<1>1. L.tree[a] = L.accounts[a] /\ L.tree[a] \in Held(a)
  BY Slot
<1>2. new \in Held(a)
  BY <1>1, MaxU64Assumption DEF emptied, Held, U64
<1>3. EmptyAccount(L, a) = Write(L, a, new)
  BY DEF EmptyAccount
<1>4. InStep(Write(L, a, new)) /\ Write(L, a, new).tree = [L.tree EXCEPT ![a] = new]
  <2>. HIDE DEF new
  <2>. QED BY <1>2, WriteInStep
<1>. QED BY <1>1, <1>3, <1>4

-----------------------------------------------------------------------------
(* The inductive invariant. *)

Accounts == [nonce : U64, amount : U64, auth_address : Addresses \cup {NoKey}]
Witnesses == [old_account : Accounts, proof : [Addresses -> Accounts]]
Sigs == {NoSig} \cup {SignatureOf(request) : request \in Asked}
Entry == [kind : {"PAY", "WDR", "deposit", "forced"}, sig : Sigs, witnesses : Seq(Witnesses)]
Txn == {txn \in [kind : {"PAY", "WDR", "deposit", "forced"}, sender : Addresses,
                 destination : Addresses \cup L1Accounts, amount : U64, fee : U64] :
          IsTxn(txn)}

Typed ==
  /\ txns \in Seq(Txn)
  /\ entries \in Seq(Entry)
  /\ Len(txns) = Len(entries)
  /\ payouts \in Seq(Payout)
  /\ IsRoot(old_root)

(* Between two calls of get_block its locals are what the next call sets. *)
BlockBegins ==
  txns = << >> => old_root = tree /\ old_inbox_chain = inbox_chain /\ payouts = << >>

(* Where the replay of the block under construction has to stand. *)
Here == [root |-> tree, inbox_chain |-> inbox_chain, payouts |-> payouts]

LedgerInv ==
  /\ Typed
  /\ InStep(Now)
  /\ BlockBegins
  /\ OwnBlocksVerify
  /\ PayoutsReported
  /\ SpendsAsAsked

(* One transaction of SpendsAsAsked. *)
AsAsked(txn, entry) ==
  txn.kind \in {"PAY", "WDR"} /\ SchemeOf[txn.sender] # "man" =>
    entry.sig.asked = [key |-> txn.sender, domain |-> Domain, txn |-> txn,
                       nonce |-> entry.witnesses[1].old_account.nonce + 1]

(* What is captured is a witness. *)
LEMMA WitnessType ==
  ASSUME NEW L, InStep(L), NEW a \in Addresses
  PROVE  Witness(L, a) \in Witnesses
<1>1. ASSUME NEW b \in Addresses PROVE L.tree[b] \in Accounts
  <2>1. NoAccount \in Accounts
    BY MaxU64Assumption DEF NoAccount, Accounts, U64
  <2>2. Held(b) \subseteq Accounts
    BY DEF Held, Accounts
  <2>. QED BY <2>1, <2>2, Slot
<1>2. L.tree \in [Addresses -> Accounts]
  <2>1. L.tree = [b \in Addresses |-> L.tree[b]]
    BY DEF InStep
  <2>. QED BY <1>1, <2>1
<1>3. OldAccount(L, a) \in Accounts
  BY <1>1, Slot
<1>. QED BY <1>2, <1>3 DEF Witness, Witnesses

(* A transaction that is applied and recorded keeps the invariant, if replaying
   it with the entry recorded does what was applied. *)
LEMMA Recorded ==
  ASSUME LedgerInv, NEW txn \in Txn, NEW sig \in Sigs, NEW ws \in Seq(Witnesses),
         Record(txn, sig, ws), UNCHANGED blockVars, InStep(Now)',
         ReplayTxn(Domain, Here, txn, [kind |-> txn.kind, sig |-> sig, witnesses |-> ws]) = Here',
         payouts' \in Seq(Payout),
         payouts' = Paying(payouts, txn, [kind |-> txn.kind, sig |-> sig, witnesses |-> ws]),
         AsAsked(txn, [kind |-> txn.kind, sig |-> sig, witnesses |-> ws])
  PROVE  LedgerInv'
<1> DEFINE entry == [kind |-> txn.kind, sig |-> sig, witnesses |-> ws]
<1>1. entry \in Entry
  BY DEF Entry, Txn
<1>2. txns' = Append(txns, txn) /\ entries' = Append(entries, entry)
  BY DEF Record
<1>. HIDE DEF entry
<1>3. txns \in Seq(Txn) /\ entries \in Seq(Entry) /\ Len(txns) = Len(entries)
  BY DEF LedgerInv, Typed
<1>4. /\ txns' \in Seq(Txn) /\ entries' \in Seq(Entry)
      /\ Len(txns') = Len(txns) + 1 /\ Len(entries') = Len(txns) + 1
      /\ Len(txns) \in Nat
      /\ \A i \in 1..Len(txns) : txns'[i] = txns[i] /\ entries'[i] = entries[i]
      /\ txns'[Len(txns) + 1] = txn /\ entries'[Len(txns) + 1] = entry
  BY <1>1, <1>2, <1>3, AppendProperties, LenProperties
<1>5. Typed'
  BY <1>4 DEF Typed, LedgerInv, blockVars
<1>6. BlockBegins'
  <2>1. txns' # << >>
    BY <1>4
  <2>. QED BY <2>1 DEF BlockBegins
<1>7. OwnBlocksVerify'
  <2>1. verify_batch(Domain, old_root, old_inbox_chain, txns, entries) = Here
    BY DEF LedgerInv, OwnBlocksVerify, Here
  <2>2. verify_batch(Domain, old_root, old_inbox_chain, txns', entries')
          = ReplayTxn(Domain, Here, txn, entry)
    BY <1>1, <1>2, <1>3, <2>1, VerifyOneMore
  <2>3. ReplayTxn(Domain, Here, txn, entry) = Here'
    BY DEF entry
  <2>4. old_root' = old_root /\ old_inbox_chain' = old_inbox_chain
    BY DEF blockVars
  <2>. QED BY <2>2, <2>3, <2>4 DEF OwnBlocksVerify, Here
<1>8. PayoutsReported'
  <2>1. withdrawal_payouts(txns, entries) = payouts
    BY DEF LedgerInv, PayoutsReported
  <2>2. withdrawal_payouts(txns', entries') = Paying(payouts, txn, entry)
    BY <1>1, <1>2, <1>3, <2>1, PayoutsOneMore
  <2>3. payouts' = Paying(payouts, txn, entry)
    BY DEF entry
  <2>. QED BY <2>2, <2>3 DEF PayoutsReported
<1>9. SpendsAsAsked'
  <2>1. \A i \in 1..Len(txns) : AsAsked(txns[i], entries[i])
    BY DEF LedgerInv, SpendsAsAsked, AsAsked
  <2>2. AsAsked(txn, entry)
    BY DEF entry
  <2>3. ASSUME NEW i \in 1..Len(txns') PROVE AsAsked(txns'[i], entries'[i])
    <3>1. i \in 1..Len(txns) \/ i = Len(txns) + 1
      BY <1>4
    <3>2. CASE i \in 1..Len(txns)
      BY <1>4, <2>1, <3>2
    <3>3. CASE i = Len(txns) + 1
      BY <1>4, <2>2, <3>3
    <3>. QED BY <3>1, <3>2, <3>3
  <2>. QED BY <2>3 DEF SpendsAsAsked, AsAsked
<1>. QED BY <1>5, <1>6, <1>7, <1>8, <1>9 DEF LedgerInv

(* The tuples of witnesses the four kinds of transactions carry. *)
LEMMA Tuples ==
  ASSUME NEW x, NEW y, NEW z
  PROVE  /\ <<x>> \o << >> = <<x>> /\ <<x>> \o <<z>> = <<x, z>>
         /\ <<x, y>> \o << >> = <<x, y>> /\ <<x, y>> \o <<z>> = <<x, y, z>>
         /\ Len(<<x>>) = 1 /\ Len(<<x, y>>) = 2 /\ Len(<<x, y, z>>) = 3
<1> DEFINE S == {x, y, z}
<1>1. /\ <<x>> \in Seq(S) /\ <<z>> \in Seq(S) /\ <<x, y>> \in Seq(S) /\ <<x, z>> \in Seq(S)
      /\ <<x, y, z>> \in Seq(S)
      /\ Len(<<x>>) = 1 /\ Len(<<z>>) = 1 /\ Len(<<x, y>>) = 2 /\ Len(<<x, y, z>>) = 3
      /\ Len(<<x, z>>) = 2
  OBVIOUS
<1>2. <<x>> \o << >> = <<x>>
  OBVIOUS
<1>3. <<x, y>> \o << >> = <<x, y>>
  OBVIOUS
<1>4. <<x>> \o <<z>> = <<x, z>>
  <2>1. Len(<<x>> \o <<z>>) = 2 /\ <<x>> \o <<z>> \in Seq(S)
    BY <1>1, ConcatProperties
  <2>2. \A i \in 1..2 : (<<x>> \o <<z>>)[i] = <<x, z>>[i]
    BY <1>1, ConcatProperties
  <2>. QED BY <1>1, <2>1, <2>2, SeqEqual
<1>5. <<x, y>> \o <<z>> = <<x, y, z>>
  <2>1. Len(<<x, y>> \o <<z>>) = 3 /\ <<x, y>> \o <<z>> \in Seq(S)
    BY <1>1, ConcatProperties
  <2>2. \A i \in 1..3 : (<<x, y>> \o <<z>>)[i] = <<x, y, z>>[i]
    BY <1>1, ConcatProperties
  <2>. QED BY <1>1, <2>1, <2>2, SeqEqual
<1>. QED BY <1>1, <1>2, <1>3, <1>4, <1>5

(* The holder's wish, read off a signature that verifies. *)
LEMMA SignedIsAsked ==
  ASSUME NEW request \in Asked, NEW txn \in Txn, NEW account, account \in Held(txn.sender),
         verify(SignatureOf(request), account, bytes_to_sign(Domain, txn, account.nonce + 1)),
         SchemeOf[txn.sender] # "man"
  PROVE  request = [key |-> txn.sender, domain |-> Domain, txn |-> txn,
                    nonce |-> account.nonce + 1]
<1>1. /\ request = [key |-> request.key, domain |-> request.domain, txn |-> request.txn,
                    nonce |-> request.nonce]
      /\ request.txn = [kind |-> request.txn.kind, sender |-> request.txn.sender,
                        destination |-> request.txn.destination,
                        amount |-> request.txn.amount, fee |-> request.txn.fee]
  BY LedgerAssumption
<1>2. txn = [kind |-> txn.kind, sender |-> txn.sender, destination |-> txn.destination,
             amount |-> txn.amount, fee |-> txn.fee]
  BY DEF Txn
<1>3. request.key = txn.sender
  BY DEF verify, verify_auth, SignatureOf, Held
<1>4. bytes_to_sign(request.domain, request.txn, request.nonce)
        = bytes_to_sign(Domain, txn, account.nonce + 1)
  BY <1>3 DEF verify, crypto_verify, SignatureOf
<1>5. /\ request.txn.kind = txn.kind /\ request.domain = Domain
      /\ request.txn.sender = txn.sender /\ request.nonce = account.nonce + 1
      /\ request.txn.fee = txn.fee /\ request.txn.destination = txn.destination
      /\ request.txn.amount = txn.amount
  BY <1>4 DEF bytes_to_sign
<1>6. request.txn = txn
  BY <1>1, <1>2, <1>5
<1>. QED BY <1>1, <1>3, <1>5, <1>6

(* Being in step is a matter of the two copies and nothing else. *)
LEMMA InStepFields ==
  ASSUME NEW L, InStep(L), NEW M, M.accounts = L.accounts, M.tree = L.tree
  PROVE  InStep(M)
<1>1. \A a : OldAccount(M, a) = OldAccount(L, a)
  BY DEF OldAccount, Has
<1>2. M.tree = [a \in Addresses |-> OldAccount(M, a)]
  BY <1>1 DEF InStep
<1>. QED BY <1>2 DEF InStep

(* A transaction that goes through is a turn of the loop that does. *)
LEMMA TurnGoesThrough ==
  ASSUME LedgerInv, NEW txn, NEW entry, KindsMatch(txn, entry)
  PROVE  ReplayTxn(Domain, Here, txn, entry)
           = [root |-> NextRoot(Domain, txn, entry, tree),
              inbox_chain |-> NextInbox(txn, inbox_chain),
              payouts |-> NextPayouts(txn, entry, payouts)]
<1>1. tree # Err
  <2>1. IsRoot(Now.tree) /\ Now.tree = tree
    BY TreeIsRoot DEF LedgerInv, Now
  <2>. QED BY <2>1, RootIsNoErr
<1>. QED BY <1>1 DEF ReplayTxn, Here

(* A payment. *)
LEMMA PaymentStep ==
  ASSUME LedgerInv, NEW request \in Asked, NEW s \in Addresses, NEW r \in Addresses,
         NEW amount \in Amounts, NEW fee \in Fees,
         ApplyPayment(Payment(s, r, amount, fee), SignatureOf(request))
  PROVE  LedgerInv' /\ R!Payment(s, r, amount, fee)
<1> DEFINE txn == Payment(s, r, amount, fee)
           sig == SignatureOf(request)
           D == Ledger_debit(Now, txn)
           C == Ledger_credit(D, r, amount)
           F == CreditFee(C, fee)
           ws == PaymentWitnesses(Now, D, C, txn)
           entry == [kind |-> txn.kind, sig |-> sig, witnesses |-> ws]
<1>1. /\ txn.kind = "PAY" /\ txn.sender = s /\ txn.destination = r
      /\ txn.amount = amount /\ txn.fee = fee /\ amount \in U64 /\ fee \in U64
  BY LedgerAssumption DEF Payment
<1>2. txn \in Txn
  <2>1. txn \in [kind : {"PAY", "WDR", "deposit", "forced"}, sender : Addresses,
                 destination : Addresses \cup L1Accounts, amount : U64, fee : U64]
    BY <1>1 DEF Payment
  <2>2. IsTxn(txn)
    BY <1>1 DEF IsTxn
  <2>. QED BY <2>1, <2>2 DEF Txn
<1>3. /\ CanDebit(Now, txn, sig) /\ CanCredit(D, r, amount) /\ CanCreditFee(C, fee)
      /\ accounts' = F.accounts /\ tree' = F.tree
      /\ Record(txn, sig, ws) /\ recordMove(s)
      /\ UNCHANGED <<inbox_chain, payouts>> /\ UNCHANGED blockVars
  BY <1>1 DEF ApplyPayment, Become
<1>. HIDE DEF txn, sig, ws
<1>4. /\ InStep(Now) /\ Now.tree = tree /\ Now.accounts = accounts
      /\ payouts \in Seq(Payout)
  BY DEF LedgerInv, Typed, Now
<1>5. /\ InStep(D) /\ debit(Domain, txn, Witness(Now, s), sig, tree) = D.tree
      /\ R!CanDebit(tree, s, amount, fee) /\ R!debit(tree, s, amount, fee) = D.tree
  <2>1. txn.sender \in Addresses /\ txn.amount \in U64 /\ txn.fee \in U64
    BY <1>1
  <2>. QED BY <1>1, <1>3, <1>4, <2>1, DebitAgrees
<1>. HIDE DEF D
<1>6. /\ InStep(C) /\ credit(r, Witness(D, r), amount, D.tree) = C.tree
      /\ R!CanCredit(D.tree, r, amount) /\ R!credit(D.tree, r, amount) = C.tree
  BY <1>1, <1>3, <1>5, CreditAgrees
<1>. HIDE DEF C
<1>7. /\ InStep(F) /\ R!CanPayFee(C.tree, fee) /\ R!payFee(C.tree, fee) = F.tree
      /\ fee # 0 => credit(FEE_SINK, Witness(C, FEE_SINK), fee, C.tree) = F.tree
      /\ fee = 0 => F = C
  BY <1>1, <1>3, <1>6, FeeAgrees
<1>. HIDE DEF F
<1>8. InStep(Now)'
  <2>1. Now'.accounts = F.accounts /\ Now'.tree = F.tree
    BY <1>3 DEF Now
  <2>2. InStep(Now')
    BY <1>7, <2>1, InStepFields
  <2>. QED BY <2>2 DEF InStep, OldAccount, Has, Now
<1>9. /\ ws \in Seq(Witnesses) /\ ws[1] = Witness(Now, s) /\ ws[2] = Witness(D, r)
      /\ fee # 0 => Len(ws) = 3 /\ ws[3] = Witness(C, FEE_SINK)
      /\ fee = 0 => Len(ws) = 2
  <2>1. /\ Witness(Now, s) \in Witnesses /\ Witness(D, r) \in Witnesses
        /\ Witness(C, FEE_SINK) \in Witnesses
    BY <1>4, <1>5, <1>6, KeylessAssumption, WitnessType
  <2>2. CASE fee = 0
    <3>1. ws = <<Witness(Now, s), Witness(D, r)>>
      BY <1>1, <2>1, <2>2, Tuples DEF ws, PaymentWitnesses, FeeWitness
    <3>. QED BY <2>1, <2>2, <3>1
  <2>3. CASE fee # 0
    <3>1. ws = <<Witness(Now, s), Witness(D, r), Witness(C, FEE_SINK)>>
      <4>1. ws = <<Witness(Now, s), Witness(D, r)>> \o <<Witness(C, FEE_SINK)>>
        BY <1>1, <2>3 DEF ws, PaymentWitnesses, FeeWitness
      <4>. QED BY <2>1, <4>1, Tuples
    <3>. QED BY <2>1, <2>3, <3>1
  <2>. QED BY <2>2, <2>3
<1>10. /\ entry.kind = "PAY" /\ entry.sig = sig /\ entry.witnesses = ws
  BY <1>1
<1>. HIDE DEF entry
<1>11. KindsMatch(txn, entry)
  <2>1. FEE_SINK \in Addresses
    BY KeylessAssumption
  <2>2. CASE fee = 0
    <3>1. WrittenSlots(txn) = <<s, r>>
      BY <1>1, <2>2, <2>1, Tuples DEF WrittenSlots
    <3>. QED BY <1>1, <1>9, <1>10, <2>2, <3>1 DEF KindsMatch
  <2>3. CASE fee # 0
    <3>1. WrittenSlots(txn) = <<s, r, FEE_SINK>>
      <4>1. WrittenSlots(txn) = <<s, r>> \o <<FEE_SINK>>
        BY <1>1, <2>3 DEF WrittenSlots
      <4>. QED BY <2>1, <4>1, Tuples
    <3>. QED BY <1>1, <1>9, <1>10, <2>3, <3>1 DEF KindsMatch
  <2>. QED BY <2>2, <2>3
<1>12. NextRoot(Domain, txn, entry, tree) = F.tree
  <2>1. NextRoot(Domain, txn, entry, tree) = payFee(txn, entry, C.tree)
    BY <1>1, <1>5, <1>6, <1>9, <1>10 DEF NextRoot
  <2>. QED BY <1>1, <1>7, <1>9, <1>10, <2>1 DEF payFee
<1>13. ReplayTxn(Domain, Here, txn, entry) = Here'
  <2>1. NextInbox(txn, inbox_chain) = inbox_chain /\ NextPayouts(txn, entry, payouts) = payouts
    BY <1>1 DEF NextInbox, NextPayouts
  <2>. QED BY <1>3, <1>11, <1>12, <2>1, TurnGoesThrough DEF Here
<1>14. payouts' \in Seq(Payout) /\ payouts' = Paying(payouts, txn, entry)
  <2>1. PaidBy(txn, entry) = << >>
    BY <1>1 DEF PaidBy
  <2>. QED BY <1>3, <1>4, <2>1 DEF Paying
<1>15. AsAsked(txn, entry)
  <2>1. ASSUME SchemeOf[s] # "man"
        PROVE  request = [key |-> s, domain |-> Domain, txn |-> txn, nonce |-> tree[s].nonce + 1]
    <3>1. tree[s] = accounts[s] /\ tree[s] \in Held(s)
      BY <1>1, <1>3, <1>4, Slot DEF CanDebit
    <3>2. verify(sig, tree[s], bytes_to_sign(Domain, txn, tree[s].nonce + 1))
      BY <1>1, <1>3, <1>4, <3>1 DEF CanDebit
    <3>. QED BY <1>1, <1>2, <2>1, <3>1, <3>2, SignedIsAsked DEF sig
  <2>2. entry.sig.asked = request
    BY <1>10 DEF sig, SignatureOf
  <2>3. entry.witnesses[1].old_account = tree[s]
    BY <1>4, <1>9, <1>10, WitnessMatches
  <2>. QED BY <1>1, <2>1, <2>2, <2>3 DEF AsAsked
<1>16. sig \in Sigs
  BY DEF sig, Sigs
<1>17. LedgerInv'
  BY <1>2, <1>3, <1>8, <1>9, <1>13, <1>14, <1>15, <1>16, Recorded DEF entry
<1>18. moves' = R!recordMove(s)
  <2>1. tree[s] = accounts[s]
    BY <1>1, <1>3, <1>4, Slot DEF CanDebit
  <2>. QED BY <1>3, <2>1 DEF recordMove, R!recordMove
<1>19. R!Payment(s, r, amount, fee)
  BY <1>3, <1>5, <1>6, <1>7, <1>18 DEF R!Payment, blockVars
<1>. QED BY <1>17, <1>19

(* A withdrawal. *)
LEMMA WithdrawalStep ==
  ASSUME LedgerInv, NEW request \in Asked, NEW s \in Addresses, NEW r \in L1Accounts,
         NEW amount \in Amounts, NEW fee \in Fees,
         ApplyWithdrawal(Withdrawal(s, r, amount, fee), SignatureOf(request))
  PROVE  LedgerInv' /\ R!Withdrawal(s, r, amount, fee)
<1> DEFINE txn == Withdrawal(s, r, amount, fee)
           sig == SignatureOf(request)
           D == Ledger_debit(Now, txn)
           F == CreditFee(D, fee)
           ws == <<Witness(Now, s)>> \o FeeWitness(D, fee)
           entry == [kind |-> txn.kind, sig |-> sig, witnesses |-> ws]
           paid == [recipient |-> r, amount |-> amount]
<1>1. /\ txn.kind = "WDR" /\ txn.sender = s /\ txn.destination = r
      /\ txn.amount = amount /\ txn.fee = fee /\ amount \in U64 /\ fee \in U64
  BY LedgerAssumption DEF Withdrawal
<1>2. txn \in Txn
  <2>1. txn \in [kind : {"PAY", "WDR", "deposit", "forced"}, sender : Addresses,
                 destination : Addresses \cup L1Accounts, amount : U64, fee : U64]
    BY <1>1 DEF Withdrawal
  <2>2. IsTxn(txn)
    BY <1>1 DEF IsTxn
  <2>. QED BY <2>1, <2>2 DEF Txn
<1>3. /\ amount >= MIN_WITHDRAWAL /\ CanDebit(Now, txn, sig) /\ CanCreditFee(D, fee)
      /\ accounts' = F.accounts /\ tree' = F.tree
      /\ payouts' = Append(payouts, paid)
      /\ Record(txn, sig, ws) /\ recordMove(s)
      /\ UNCHANGED inbox_chain /\ UNCHANGED blockVars
  BY <1>1 DEF ApplyWithdrawal, Become
<1>. HIDE DEF txn, sig, ws
<1>4. /\ InStep(Now) /\ Now.tree = tree /\ Now.accounts = accounts
      /\ payouts \in Seq(Payout)
  BY DEF LedgerInv, Typed, Now
<1>5. /\ InStep(D) /\ debit(Domain, txn, Witness(Now, s), sig, tree) = D.tree
      /\ R!CanDebit(tree, s, amount, fee) /\ R!debit(tree, s, amount, fee) = D.tree
  <2>1. txn.sender \in Addresses /\ txn.amount \in U64 /\ txn.fee \in U64
    BY <1>1
  <2>. QED BY <1>1, <1>3, <1>4, <2>1, DebitAgrees
<1>. HIDE DEF D
<1>7. /\ InStep(F) /\ R!CanPayFee(D.tree, fee) /\ R!payFee(D.tree, fee) = F.tree
      /\ fee # 0 => credit(FEE_SINK, Witness(D, FEE_SINK), fee, D.tree) = F.tree
      /\ fee = 0 => F = D
  BY <1>1, <1>3, <1>5, FeeAgrees
<1>. HIDE DEF F
<1>8. InStep(Now)'
  <2>1. Now'.accounts = F.accounts /\ Now'.tree = F.tree
    BY <1>3 DEF Now
  <2>2. InStep(Now')
    BY <1>7, <2>1, InStepFields
  <2>. QED BY <2>2 DEF InStep, OldAccount, Has, Now
<1>9. /\ ws \in Seq(Witnesses) /\ ws[1] = Witness(Now, s)
      /\ fee # 0 => Len(ws) = 2 /\ ws[2] = Witness(D, FEE_SINK)
      /\ fee = 0 => Len(ws) = 1
  <2>1. Witness(Now, s) \in Witnesses /\ Witness(D, FEE_SINK) \in Witnesses
    BY <1>4, <1>5, KeylessAssumption, WitnessType
  <2>2. CASE fee = 0
    <3>1. ws = <<Witness(Now, s)>>
      BY <2>2, Tuples DEF ws, FeeWitness
    <3>. QED BY <2>1, <2>2, <3>1
  <2>3. CASE fee # 0
    <3>1. ws = <<Witness(Now, s), Witness(D, FEE_SINK)>>
      <4>1. ws = <<Witness(Now, s)>> \o <<Witness(D, FEE_SINK)>>
        BY <2>3 DEF ws, FeeWitness
      <4>. QED BY <4>1, Tuples
    <3>. QED BY <2>1, <2>3, <3>1
  <2>. QED BY <2>2, <2>3
<1>10. /\ entry.kind = "WDR" /\ entry.sig = sig /\ entry.witnesses = ws
  BY <1>1
<1>. HIDE DEF entry
<1>11. KindsMatch(txn, entry)
  <2>2. CASE fee = 0
    <3>1. WrittenSlots(txn) = <<s>>
      BY <1>1, <2>2, Tuples DEF WrittenSlots
    <3>. QED BY <1>1, <1>9, <1>10, <2>2, <3>1 DEF KindsMatch
  <2>3. CASE fee # 0
    <3>1. WrittenSlots(txn) = <<s, FEE_SINK>>
      <4>1. WrittenSlots(txn) = <<s>> \o <<FEE_SINK>>
        BY <1>1, <2>3 DEF WrittenSlots
      <4>. QED BY <4>1, Tuples
    <3>. QED BY <1>1, <1>9, <1>10, <2>3, <3>1 DEF KindsMatch
  <2>. QED BY <2>2, <2>3
<1>12. NextRoot(Domain, txn, entry, tree) = F.tree
  <2>1. ~(amount < MIN_WITHDRAWAL)
    BY <1>1, <1>3, MinWithdrawalAssumption DEF U64
  <2>2. NextRoot(Domain, txn, entry, tree) = payFee(txn, entry, D.tree)
    BY <1>1, <1>5, <1>9, <1>10, <2>1 DEF NextRoot
  <2>. QED BY <1>1, <1>7, <1>9, <1>10, <2>2 DEF payFee
<1>13. ReplayTxn(Domain, Here, txn, entry) = Here'
  <2>1. NextInbox(txn, inbox_chain) = inbox_chain
    BY <1>1 DEF NextInbox
  <2>2. NextPayouts(txn, entry, payouts) = Append(payouts, paid)
    BY <1>1 DEF NextPayouts
  <2>. QED BY <1>3, <1>11, <1>12, <2>1, <2>2, TurnGoesThrough DEF Here
<1>14. payouts' \in Seq(Payout) /\ payouts' = Paying(payouts, txn, entry)
  <2>1. PaidBy(txn, entry) = <<paid>>
    BY <1>1 DEF PaidBy
  <2>2. paid \in Payout
    BY <1>1 DEF Payout
  <2>. HIDE DEF paid
  <2>3. Append(payouts, paid) = payouts \o <<paid>>
    BY <1>4, <2>2, AppendIsConcat
  <2>. QED BY <1>3, <1>4, <2>1, <2>2, <2>3, AppendProperties DEF Paying
<1>15. AsAsked(txn, entry)
  <2>1. ASSUME SchemeOf[s] # "man"
        PROVE  request = [key |-> s, domain |-> Domain, txn |-> txn, nonce |-> tree[s].nonce + 1]
    <3>1. tree[s] = accounts[s] /\ tree[s] \in Held(s)
      BY <1>1, <1>3, <1>4, Slot DEF CanDebit
    <3>2. verify(sig, tree[s], bytes_to_sign(Domain, txn, tree[s].nonce + 1))
      BY <1>1, <1>3, <1>4, <3>1 DEF CanDebit
    <3>. QED BY <1>1, <1>2, <2>1, <3>1, <3>2, SignedIsAsked DEF sig
  <2>2. entry.sig.asked = request
    BY <1>10 DEF sig, SignatureOf
  <2>3. entry.witnesses[1].old_account = tree[s]
    BY <1>4, <1>9, <1>10, WitnessMatches
  <2>. QED BY <1>1, <2>1, <2>2, <2>3 DEF AsAsked
<1>16. sig \in Sigs
  BY DEF sig, Sigs
<1>17. LedgerInv'
  BY <1>2, <1>3, <1>8, <1>9, <1>13, <1>14, <1>15, <1>16, Recorded DEF entry
<1>18. moves' = R!recordMove(s)
  <2>1. tree[s] = accounts[s]
    BY <1>1, <1>3, <1>4, Slot DEF CanDebit
  <2>. QED BY <1>3, <2>1 DEF recordMove, R!recordMove
<1>19. R!Withdrawal(s, r, amount, fee)
  BY <1>3, <1>5, <1>7, <1>18 DEF R!Withdrawal, blockVars
<1>. QED BY <1>17, <1>19

(* A deposit. *)
LEMMA DepositStep ==
  ASSUME LedgerInv, NEW r \in Addresses, NEW amount \in DepositAmounts,
         Len(inbox_chain) < MaxInbox, ApplyDeposit(Deposit(r, amount))
  PROVE  LedgerInv' /\ R!Deposit(r, amount)
<1> DEFINE txn == Deposit(r, amount)
           C == Ledger_credit(Now, r, amount)
           ws == <<Witness(Now, r)>>
           entry == [kind |-> txn.kind, sig |-> NoSig, witnesses |-> ws]
<1>1. /\ txn.kind = "deposit" /\ txn.sender = ZERO_ADDRESS /\ txn.destination = r
      /\ txn.amount = amount /\ txn.fee = 0 /\ amount \in U64 /\ 0 \in U64
  BY LedgerAssumption, MaxU64Assumption DEF Deposit, U64
<1>2. txn \in Txn
  <2>1. txn \in [kind : {"PAY", "WDR", "deposit", "forced"}, sender : Addresses,
                 destination : Addresses \cup L1Accounts, amount : U64, fee : U64]
    BY <1>1, KeylessAssumption DEF Deposit
  <2>2. IsTxn(txn)
    BY <1>1 DEF IsTxn
  <2>. QED BY <2>1, <2>2 DEF Txn
<1>3. /\ CanCredit(Now, r, amount)
      /\ accounts' = C.accounts /\ tree' = C.tree
      /\ inbox_chain' = accumulate_deposit(inbox_chain, r, amount)
      /\ Record(txn, NoSig, ws)
      /\ UNCHANGED <<payouts, moves>> /\ UNCHANGED blockVars
  BY <1>1 DEF ApplyDeposit, Become
<1>. HIDE DEF txn
<1>4. /\ InStep(Now) /\ Now.tree = tree /\ Now.accounts = accounts
      /\ payouts \in Seq(Payout)
  BY DEF LedgerInv, Typed, Now
<1>5. /\ InStep(C) /\ credit(r, Witness(Now, r), amount, tree) = C.tree
      /\ R!CanCredit(tree, r, amount) /\ R!credit(tree, r, amount) = C.tree
  BY <1>1, <1>3, <1>4, CreditAgrees
<1>. HIDE DEF C
<1>8. InStep(Now)'
  <2>1. Now'.accounts = C.accounts /\ Now'.tree = C.tree
    BY <1>3 DEF Now
  <2>2. InStep(Now')
    BY <1>5, <2>1, InStepFields
  <2>. QED BY <2>2 DEF InStep, OldAccount, Has, Now
<1>9. ws \in Seq(Witnesses) /\ ws[1] = Witness(Now, r) /\ Len(ws) = 1
  <2>1. Witness(Now, r) \in Witnesses
    BY <1>4, WitnessType
  <2>. QED BY <2>1
<1>10. entry.kind = "deposit" /\ entry.witnesses = ws
  BY <1>1
<1>. HIDE DEF entry, ws
<1>11. KindsMatch(txn, entry)
  <2>1. WrittenSlots(txn) = <<r>>
    BY <1>1 DEF WrittenSlots
  <2>. QED BY <1>1, <1>9, <1>10, <2>1 DEF KindsMatch
<1>12. NextRoot(Domain, txn, entry, tree) = C.tree
  BY <1>1, <1>5, <1>9, <1>10 DEF NextRoot
<1>13. ReplayTxn(Domain, Here, txn, entry) = Here'
  <2>1. NextInbox(txn, inbox_chain) = accumulate_deposit(inbox_chain, r, amount)
    BY <1>1 DEF NextInbox
  <2>2. NextPayouts(txn, entry, payouts) = payouts
    BY <1>1 DEF NextPayouts
  <2>. QED BY <1>3, <1>11, <1>12, <2>1, <2>2, TurnGoesThrough DEF Here
<1>14. payouts' \in Seq(Payout) /\ payouts' = Paying(payouts, txn, entry)
  <2>1. PaidBy(txn, entry) = << >>
    BY <1>1 DEF PaidBy
  <2>. QED BY <1>3, <1>4, <2>1 DEF Paying
<1>15. AsAsked(txn, entry) /\ NoSig \in Sigs
  BY <1>1 DEF AsAsked, Sigs
<1>17. LedgerInv'
  BY <1>2, <1>3, <1>8, <1>9, <1>13, <1>14, <1>15, Recorded DEF entry
<1>19. R!Deposit(r, amount)
  BY <1>3, <1>5 DEF R!Deposit, blockVars, accumulate_deposit, R!accumulate_deposit
<1>. QED BY <1>17, <1>19

(* A forced withdrawal, paid or dropped. *)
LEMMA ForcedStep ==
  ASSUME LedgerInv, NEW a \in Addresses, NEW r \in L1Accounts,
         Len(inbox_chain) < MaxInbox, ApplyForced(ForcedWithdrawal(a, r))
  PROVE  LedgerInv' /\ (R!ForcedWithdrawalPaid(a, r) \/ R!ForcedWithdrawalDropped(a, r))
<1> DEFINE txn == ForcedWithdrawal(a, r)
           balance == tree[a].amount
           paid == [recipient |-> r, amount |-> balance]
           F == EmptyAccount(Now, a)
           ws == <<Witness(Now, a)>>
           entry == [kind |-> txn.kind, sig |-> NoSig, witnesses |-> ws]
<1>1. /\ txn.kind = "forced" /\ txn.sender = a /\ txn.destination = r
      /\ txn.amount = 0 /\ txn.fee = 0 /\ 0 \in U64
  BY MaxU64Assumption DEF ForcedWithdrawal, U64
<1>2. txn \in Txn
  <2>1. txn \in [kind : {"PAY", "WDR", "deposit", "forced"}, sender : Addresses,
                 destination : Addresses \cup L1Accounts, amount : U64, fee : U64]
    BY <1>1 DEF ForcedWithdrawal
  <2>2. IsTxn(txn)
    BY <1>1 DEF IsTxn
  <2>. QED BY <2>1, <2>2 DEF Txn
<1>3. /\ InStep(Now) /\ Now.tree = tree /\ Now.accounts = accounts
      /\ payouts \in Seq(Payout)
  BY DEF LedgerInv, Typed, Now
<1>4. /\ OldAccount(Now, a) = tree[a] /\ balance \in U64
      /\ Has(Now, a) => tree[a] = accounts[a]
      /\ ~Has(Now, a) => tree[a] = NoAccount
  BY <1>3, Slot
<1>5. /\ \/ /\ balance >= MIN_WITHDRAWAL /\ accounts[a].nonce < MAX_U64
            /\ accounts' = F.accounts /\ tree' = F.tree
            /\ payouts' = Append(payouts, paid) /\ recordMove(a)
         \/ /\ balance < MIN_WITHDRAWAL /\ UNCHANGED <<accounts, tree, payouts, moves>>
      /\ inbox_chain' = accumulate_request(inbox_chain, a, r)
      /\ Record(txn, NoSig, ws) /\ UNCHANGED blockVars
  BY <1>1, <1>4 DEF ApplyForced, Become
<1>. HIDE DEF txn, balance
<1>6. /\ ws \in Seq(Witnesses) /\ ws[1] = Witness(Now, a) /\ Len(ws) = 1
      /\ ws[1].old_account = tree[a] /\ ws[1].proof = tree
      /\ expect_pre_state(a, ws[1], tree)
  <2>1. Witness(Now, a) \in Witnesses
    BY <1>3, WitnessType
  <2>2. ws \in Seq(Witnesses) /\ ws[1] = Witness(Now, a) /\ Len(ws) = 1
    BY <2>1
  <2>3. /\ Witness(Now, a).old_account = tree[a] /\ Witness(Now, a).proof = tree
        /\ expect_pre_state(a, Witness(Now, a), tree)
    BY <1>3, WitnessMatches
  <2>. QED BY <2>2, <2>3
<1>7. entry.kind = "forced" /\ entry.witnesses = ws
  BY <1>1
<1>. HIDE DEF entry, ws
<1>8. KindsMatch(txn, entry)
  <2>1. WrittenSlots(txn) = <<a>>
    BY <1>1 DEF WrittenSlots
  <2>. QED BY <1>1, <1>6, <1>7, <2>1 DEF KindsMatch
<1>9. NextRoot(Domain, txn, entry, tree) = force(txn, ws[1], tree)
  BY <1>1, <1>7 DEF NextRoot
<1>10. NextInbox(txn, inbox_chain) = inbox_chain'
  BY <1>1, <1>5 DEF NextInbox
<1>11. AsAsked(txn, entry) /\ NoSig \in Sigs
  BY <1>1 DEF AsAsked, Sigs
<1>12. CASE /\ balance >= MIN_WITHDRAWAL /\ accounts[a].nonce < MAX_U64
            /\ accounts' = F.accounts /\ tree' = F.tree
            /\ payouts' = Append(payouts, paid) /\ recordMove(a)
  <2>1. Has(Now, a)
    <3>1. NoAccount.amount = 0 /\ MIN_WITHDRAWAL \in Nat /\ MIN_WITHDRAWAL # 0
      BY MinWithdrawalAssumption DEF NoAccount, U64
    <3>. QED BY <1>4, <1>12, <3>1 DEF balance
  <2>2. tree[a] = accounts[a] /\ ~(balance < MIN_WITHDRAWAL) /\ tree[a].nonce # MAX_U64
        /\ tree[a].nonce < MAX_U64
    <3>1. tree[a] = accounts[a]
      BY <1>4, <2>1
    <3>2. tree[a].nonce \in U64
      BY <1>3, Slot
    <3>. QED BY <1>4, <1>12, <3>1, <3>2, MinWithdrawalAssumption, MaxU64Assumption DEF U64
  <2>3. InStep(F) /\ F.tree = [tree EXCEPT ![a] = emptied(tree[a])]
    BY <1>3, <1>12, <2>1, EmptyAgrees
  <2>. HIDE DEF F
  <2>4. InStep(Now)'
    <3>1. Now'.accounts = F.accounts /\ Now'.tree = F.tree
      BY <1>12 DEF Now
    <3>2. InStep(Now')
      BY <2>3, <3>1, InStepFields
    <3>. QED BY <3>2 DEF InStep, OldAccount, Has, Now
  <2>5. NextRoot(Domain, txn, entry, tree) = F.tree
    BY <1>1, <1>6, <1>9, <2>2, <2>3 DEF force, root_with, balance
  <2>6. NextPayouts(txn, entry, payouts) = Append(payouts, paid)
    BY <1>1, <1>6, <1>7, <1>12 DEF NextPayouts, balance
  <2>7. ReplayTxn(Domain, Here, txn, entry) = Here'
    BY <1>8, <1>10, <1>12, <2>5, <2>6, TurnGoesThrough DEF Here
  <2>8. payouts' \in Seq(Payout) /\ payouts' = Paying(payouts, txn, entry)
    <3>1. PaidBy(txn, entry) = <<paid>>
      BY <1>1, <1>6, <1>7, <1>12 DEF PaidBy, balance
    <3>2. paid \in Payout
      BY <1>4 DEF Payout
    <3>. HIDE DEF paid
    <3>3. Append(payouts, paid) = payouts \o <<paid>>
      BY <1>3, <3>2, AppendIsConcat
    <3>. QED BY <1>3, <1>12, <3>1, <3>2, <3>3, AppendProperties DEF Paying
  <2>9. LedgerInv'
    BY <1>2, <1>5, <1>6, <1>11, <2>4, <2>7, <2>8, Recorded DEF entry
  <2>10. moves' = R!recordMove(a)
    BY <1>12, <2>2 DEF recordMove, R!recordMove
  <2>11. tree' = [tree EXCEPT ![a] = R!emptied(tree[a])]
    BY <1>12, <2>3 DEF emptied, R!emptied
  <2>12. R!ForcedWithdrawalPaid(a, r)
    BY <1>5, <1>12, <2>2, <2>10, <2>11
    DEF R!ForcedWithdrawalPaid, R!CanBumpNonce, balance, blockVars,
        accumulate_request, R!accumulate_request
  <2>. QED BY <2>9, <2>12
<1>13. CASE balance < MIN_WITHDRAWAL /\ UNCHANGED <<accounts, tree, payouts, moves>>
  <2>1. ~(balance >= MIN_WITHDRAWAL)
    BY <1>4, <1>13, MinWithdrawalAssumption DEF U64
  <2>2. InStep(Now)'
    BY <1>3, <1>13 DEF InStep, OldAccount, Has, Now
  <2>3. NextRoot(Domain, txn, entry, tree) = tree
    BY <1>1, <1>6, <1>9, <1>13 DEF force, balance
  <2>4. NextPayouts(txn, entry, payouts) = payouts
    BY <1>1, <1>6, <1>7, <2>1 DEF NextPayouts, balance
  <2>5. ReplayTxn(Domain, Here, txn, entry) = Here'
    BY <1>8, <1>10, <1>13, <2>3, <2>4, TurnGoesThrough DEF Here
  <2>6. payouts' \in Seq(Payout) /\ payouts' = Paying(payouts, txn, entry)
    <3>1. PaidBy(txn, entry) = << >>
      BY <1>1, <1>6, <1>7, <2>1 DEF PaidBy, balance
    <3>. QED BY <1>3, <1>13, <3>1 DEF Paying
  <2>7. LedgerInv'
    BY <1>2, <1>5, <1>6, <1>11, <2>2, <2>5, <2>6, Recorded DEF entry
  <2>8. R!ForcedWithdrawalDropped(a, r)
    BY <1>5, <1>13
    DEF R!ForcedWithdrawalDropped, balance, blockVars,
        accumulate_request, R!accumulate_request
  <2>. QED BY <2>7, <2>8
<1>. QED BY <1>5, <1>12, <1>13

(* get_block returns. *)
LEMMA EndBlockStep ==
  ASSUME LedgerInv, EndBlock
  PROVE  LedgerInv' /\ (R!NextBatch \/ UNCHANGED R!vars)
<1>1. /\ old_root' = tree /\ old_inbox_chain' = inbox_chain /\ payouts' = << >>
      /\ txns' = << >> /\ entries' = << >>
      /\ UNCHANGED <<accounts, tree, inbox_chain, moves>>
  BY DEF EndBlock
<1>2. InStep(Now)' /\ IsRoot(tree)
  <2>1. InStep(Now) /\ Now.tree = tree
    BY DEF LedgerInv, Now
  <2>. QED BY <1>1, <2>1, TreeIsRoot DEF InStep, OldAccount, Has, Now
<1>3. Typed'
  BY <1>1, <1>2 DEF Typed
<1>4. BlockBegins'
  BY <1>1 DEF BlockBegins
<1>5. OwnBlocksVerify' /\ PayoutsReported' /\ SpendsAsAsked'
  BY <1>1, VerifyNothing, PayoutsNone DEF OwnBlocksVerify, PayoutsReported, SpendsAsAsked, Begun
<1>6. R!NextBatch \/ UNCHANGED R!vars
  BY <1>1 DEF R!NextBatch, R!vars
<1>. QED BY <1>2, <1>3, <1>4, <1>5, <1>6 DEF LedgerInv

(* An account is created between two blocks. *)
LEMMA CreateStep ==
  ASSUME LedgerInv, NEW a \in NewKeys, create_account(a)
  PROVE  LedgerInv' /\ Created
<1> DEFINE W == Write(Now, a, empty(a))
<1>1. /\ txns = << >> /\ ~Has(Now, a)
      /\ accounts' = W.accounts /\ tree' = W.tree /\ old_root' = tree'
      /\ UNCHANGED <<inbox_chain, old_inbox_chain, payouts, txns, entries, moves>>
  BY DEF create_account, Become
<1>2. a \in Addresses /\ empty(a) \in Held(a)
  BY LedgerAssumption, MaxU64Assumption DEF empty, Held, U64
<1>3. InStep(Now) /\ Now.tree = tree
  BY DEF LedgerInv, Now
<1>4. InStep(W) /\ W.tree = [tree EXCEPT ![a] = empty(a)] /\ tree[a] = NoAccount
  <2>1. InStep(W) /\ W.tree = [Now.tree EXCEPT ![a] = empty(a)]
    BY <1>2, <1>3, WriteInStep
  <2>. QED BY <1>1, <1>2, <1>3, <2>1, Slot
<1>. HIDE DEF W
<1>5. InStep(Now)' /\ IsRoot(tree')
  <2>1. Now'.accounts = W.accounts /\ Now'.tree = W.tree
    BY <1>1 DEF Now
  <2>2. InStep(Now') /\ Now'.tree = tree'
    BY <1>4, <2>1, InStepFields DEF Now
  <2>. QED BY <2>2, TreeIsRoot DEF InStep, OldAccount, Has, Now
<1>6. /\ old_root = tree /\ old_inbox_chain = inbox_chain /\ payouts = << >>
      /\ entries = << >>
  BY <1>1 DEF LedgerInv, BlockBegins, Typed
<1>7. Typed'
  BY <1>1, <1>5 DEF Typed, LedgerInv
<1>8. BlockBegins'
  BY <1>1, <1>6 DEF BlockBegins
<1>9. OwnBlocksVerify' /\ PayoutsReported' /\ SpendsAsAsked'
  BY <1>1, <1>6, VerifyNothing, PayoutsNone DEF OwnBlocksVerify, PayoutsReported, SpendsAsAsked, Begun
<1>10. Created
  BY <1>1, <1>2, <1>4, <1>6 DEF Created
<1>. QED BY <1>5, <1>7, <1>8, <1>9, <1>10 DEF LedgerInv

-----------------------------------------------------------------------------
(* The ledger starts in the invariant. *)
LEMMA LedgerInit == Init => LedgerInv
<1> SUFFICES ASSUME Init PROVE LedgerInv
  OBVIOUS
<1>1. /\ accounts = [a \in {} |-> NoAccount] /\ tree = [a \in Addresses |-> NoAccount]
      /\ old_root = tree /\ old_inbox_chain = inbox_chain
      /\ payouts = << >> /\ txns = << >> /\ entries = << >>
  BY DEF Init
<1>2. InStep(Now)
  <2>1. \A a : OldAccount(Now, a) = NoAccount
    BY <1>1 DEF OldAccount, Has, Now
  <2>2. DOMAIN Now.accounts = {} /\ Now.tree = [a \in Addresses |-> NoAccount]
    BY <1>1 DEF Now
  <2>. QED BY <2>1, <2>2 DEF InStep
<1>3. Typed
  BY <1>1 DEF Typed, IsRoot
<1>4. BlockBegins
  BY <1>1 DEF BlockBegins
<1>5. OwnBlocksVerify /\ PayoutsReported /\ SpendsAsAsked
  BY <1>1, VerifyNothing, PayoutsNone DEF OwnBlocksVerify, PayoutsReported, SpendsAsAsked, Begun
<1>. QED BY <1>2, <1>3, <1>4, <1>5 DEF LedgerInv

(* Every step keeps it, and is a step of the replay, a creation or neither. *)
LEMMA LedgerStep ==
  LedgerInv /\ [Next]_vars => LedgerInv' /\ [R!Next \/ Created]_(R!vars)
<1> SUFFICES ASSUME LedgerInv, [Next]_vars
             PROVE  LedgerInv' /\ (R!Next \/ Created \/ UNCHANGED R!vars)
  OBVIOUS
<1>1. CASE Spend
  <2>1. PICK request \in Asked, s \in Addresses, amount \in Amounts, fee \in Fees :
          \/ \E r \in Addresses :
               ApplyPayment(Payment(s, r, amount, fee), SignatureOf(request))
          \/ \E r \in L1Accounts :
               ApplyWithdrawal(Withdrawal(s, r, amount, fee), SignatureOf(request))
    BY <1>1 DEF Spend
  <2>2. CASE \E r \in Addresses :
               ApplyPayment(Payment(s, r, amount, fee), SignatureOf(request))
    <3>1. PICK r \in Addresses :
                 ApplyPayment(Payment(s, r, amount, fee), SignatureOf(request))
      BY <2>2
    <3>2. LedgerInv' /\ R!Payment(s, r, amount, fee)
      BY <3>1, PaymentStep
    <3>. QED BY <3>2 DEF R!Next
  <2>3. CASE \E r \in L1Accounts :
               ApplyWithdrawal(Withdrawal(s, r, amount, fee), SignatureOf(request))
    <3>1. PICK r \in L1Accounts :
                 ApplyWithdrawal(Withdrawal(s, r, amount, fee), SignatureOf(request))
      BY <2>3
    <3>2. LedgerInv' /\ R!Withdrawal(s, r, amount, fee)
      BY <3>1, WithdrawalStep
    <3>. QED BY <3>2 DEF R!Next
  <2>. QED BY <2>1, <2>2, <2>3
<1>2. CASE FromL1
  <2>1. CASE \E r \in Addresses, amount \in DepositAmounts : ApplyDeposit(Deposit(r, amount))
    <3>1. PICK r \in Addresses, amount \in DepositAmounts : ApplyDeposit(Deposit(r, amount))
      BY <2>1
    <3>2. LedgerInv' /\ R!Deposit(r, amount)
      BY <1>2, <3>1, DepositStep DEF FromL1
    <3>. QED BY <3>2 DEF R!Next
  <2>2. CASE \E a \in Addresses, r \in L1Accounts : ApplyForced(ForcedWithdrawal(a, r))
    <3>1. PICK a \in Addresses, r \in L1Accounts : ApplyForced(ForcedWithdrawal(a, r))
      BY <2>2
    <3>2. LedgerInv' /\ (R!ForcedWithdrawalPaid(a, r) \/ R!ForcedWithdrawalDropped(a, r))
      BY <1>2, <3>1, ForcedStep DEF FromL1
    <3>. QED BY <3>2 DEF R!Next
  <2>. QED BY <1>2, <2>1, <2>2 DEF FromL1
<1>3. CASE EndBlock
  BY <1>3, EndBlockStep DEF R!Next
<1>4. CASE \E a \in NewKeys : create_account(a)
  BY <1>4, CreateStep
<1>5. CASE UNCHANGED vars
  <2>1. UNCHANGED <<accounts, tree, inbox_chain, old_root, old_inbox_chain, payouts,
                    txns, entries, moves>>
    BY <1>5 DEF vars
  <2>2. LedgerInv'
    <3>1. InStep(Now)'
      BY <2>1 DEF LedgerInv, InStep, OldAccount, Has, Now
    <3>2. Typed' /\ BlockBegins'
      BY <2>1 DEF LedgerInv, Typed, BlockBegins
    <3>3. OwnBlocksVerify' /\ PayoutsReported' /\ SpendsAsAsked'
      BY <2>1 DEF LedgerInv, OwnBlocksVerify, PayoutsReported, SpendsAsAsked
    <3>. QED BY <3>1, <3>2, <3>3 DEF LedgerInv
  <2>. QED BY <2>1, <2>2 DEF R!vars
<1>. QED BY <1>1, <1>2, <1>3, <1>4, <1>5 DEF Next

(* What the invariant says of the tree. *)
LEMMA InvTree == LedgerInv => TreeInStep
<1> SUFFICES ASSUME LedgerInv, NEW a \in Addresses PROVE tree[a] = OldAccount(Now, a)
  BY DEF TreeInStep
<1>1. InStep(Now) /\ Now.tree = tree
  BY DEF LedgerInv, Now
<1>. QED BY <1>1, Slot

(* And of sidecars other than the ledger's own. *)
LEMMA InvRedirect == LedgerInv => SidecarCannotRedirect
<1> SUFFICES ASSUME LedgerInv PROVE SidecarCannotRedirect
  OBVIOUS
<1>1. /\ InStep(Now) /\ Now.tree = tree
      /\ IsRoot(old_root) /\ txns \in Seq(Txn)
      /\ verify_batch(Domain, old_root, old_inbox_chain, txns, entries) = Here
  BY DEF LedgerInv, Typed, OwnBlocksVerify, Here, Now
<1>2. Here.root # Err
  BY <1>1, TreeIsRoot, RootIsNoErr DEF Here
<1>3. \A n \in 1..Len(txns) : IsTxn(txns[n])
  BY <1>1, ElementOfSeq DEF Txn
<1>4. ASSUME NEW c, verify_batch(Domain, old_root, old_inbox_chain, txns, c).root # Err
      PROVE  verify_batch(Domain, old_root, old_inbox_chain, txns, c) = Here
  BY <1>1, <1>2, <1>3, <1>4, SidecarIsEvidence
<1>. QED BY <1>4 DEF SidecarCannotRedirect, Here

(* Initially the replay is where it starts too. *)
LEMMA RefinesInit == Init => R!Init
BY DEF Init, R!Init, NoAccount, R!NoAccount, INBOX_CHAIN_GENESIS, R!INBOX_CHAIN_GENESIS

(* The invariant holds of every behaviour. *)
LEMMA LedgerAlways == Spec => []LedgerInv
<1>1. LedgerInv /\ [Next]_vars => LedgerInv'
  BY LedgerStep
<1>. QED BY LedgerInit, <1>1, PTL DEF Spec

(* Whatever get_block applies, in whatever order, and whatever panics it avoids:
   the HashMap and the tree never disagree about an account after it. *)
THEOREM TreeFollowsAccounts == Spec => []TreeInStep
BY LedgerAlways, InvTree, PTL

(* verify_block accepts every block get_block builds, for any accounts, amounts,
   fees and signatures, and lands on what the ledger claims: no witness is ever
   stale when it is used, however often one transaction writes one slot. *)
THEOREM BlocksVerify == Spec => []OwnBlocksVerify
<1>1. LedgerInv => OwnBlocksVerify
  BY DEF LedgerInv
<1>. QED BY LedgerAlways, <1>1, PTL

(* withdrawal_payouts reads back exactly the payouts get_block queued. *)
THEOREM PayoutsAreReported == Spec => []PayoutsReported
<1>1. LedgerInv => PayoutsReported
  BY DEF LedgerInv
<1>. QED BY LedgerAlways, <1>1, PTL

(* No signature moves the value of an account with a key otherwise than its
   holder signed for, at any other nonce or in any other deployment. *)
THEOREM SpendsAreAsAsked == Spec => []SpendsAsAsked
<1>1. LedgerInv => SpendsAsAsked
  BY DEF LedgerInv
<1>. QED BY LedgerAlways, <1>1, PTL

(* With any one witness of the sidecar replaced the guest refuses the block or
   commits what it committed before. *)
THEOREM NoRedirection == Spec => []SidecarCannotRedirect
BY LedgerAlways, InvRedirect, PTL

(* The sequencer's ledger takes only steps of the replay the guest proves, and
   create_account between blocks. *)
THEOREM LedgerImplementsReplay == Spec => ImplementsReplay
<1>1. LedgerInv /\ [Next]_vars => [R!Next \/ Created]_(R!vars)
  BY LedgerStep
<1>. QED BY LedgerAlways, RefinesInit, <1>1, PTL DEF Spec, ImplementsReplay
=============================================================================
