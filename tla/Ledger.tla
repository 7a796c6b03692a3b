------------------------------- MODULE Ledger -------------------------------
(***************************************************************************)
(* Ledger of crates/payment-rollup/src/lib.rs: the sequencer's own copy of *)
(* the state and get_block, which applies submitted transactions one by    *)
(* one and records a batch and the sidecar that lets the guest replay it.  *)
(*                                                                         *)
(* One action per transaction of the loop; EndBlock returns the block and  *)
(* begins the next, and create_account may come in between.  Where the     *)
(* code panics the step is not enabled: the process is gone and the block  *)
(* with it.  Holders sign what Asked says, in any order and long before;   *)
(* whoever has a signature may present it with any transaction.            *)
(***************************************************************************)
EXTENDS VerifyBatch, FiniteSets

CONSTANTS
  Domain,          \* this deployment
  Asked,           \* what key holders sign: a transaction, a nonce, a domain, a key
  DepositAmounts,  \* the amounts deposits are tried with
  Amounts,         \* the amounts payments and withdrawals are tried with
  Fees,            \* the fees they are tried with
  NewKeys,         \* the addresses of keys accounts are created for
  MaxInbox,        \* bound: inbox entries in one behaviour
  MaxTxns          \* bound: transactions of one block

(* Amounts are u64 and addresses 32 bytes by their Rust types; a request is for
   a payment or a withdrawal, the only transactions anybody signs. *)
ASSUME LedgerAssumption ==
  /\ DepositAmounts \subseteq U64 /\ Amounts \subseteq U64 /\ Fees \subseteq U64
  /\ NewKeys \subseteq Addresses
  /\ \A request \in Asked :
       request \in [key : Addresses, domain : {request.domain}, nonce : U64,
                    txn : [kind : {"PAY", "WDR"}, sender : Addresses,
                           destination : Addresses \cup L1Accounts,
                           amount : U64, fee : U64]]

VARIABLES
  accounts,        \* the HashMap: defined on the addresses that have an account
  tree,            \* the Merkle tree kept in step with it, as the map it commits to
  inbox_chain,     \* fold over every inbox item applied, across blocks
  old_root,        \* locals of get_block
  old_inbox_chain,
  payouts,
  txns,
  entries,
  moves            \* history: how often value left an account at a nonce

vars == <<accounts, tree, inbox_chain, old_root, old_inbox_chain, payouts,
          txns, entries, moves>>

blockVars == <<old_root, old_inbox_chain>>

-----------------------------------------------------------------------------
(* The ledger between two writes. *)
Now == [accounts |-> accounts, tree |-> tree]

Has(ledger, address) == address \in DOMAIN ledger.accounts

OldAccount(ledger, address) ==
  IF Has(ledger, address) THEN ledger.accounts[address] ELSE NoAccount

(* A leaf witness: captured before a write and after everything before it. *)
Witness(ledger, address) ==
  [old_account |-> OldAccount(ledger, address), proof |-> ledger.tree]

(* The HashMap write and the tree update that goes with it. *)
Write(ledger, address, account) ==
  [accounts |-> [a \in DOMAIN ledger.accounts \cup {address} |->
                   IF a = address THEN account ELSE ledger.accounts[a]],
   tree |-> [ledger.tree EXCEPT ![address] = account]]

(* What Ledger::debit unwraps. *)
CanDebit(ledger, txn, sig) ==
  /\ Has(ledger, txn.sender)
  /\ LET account == ledger.accounts[txn.sender]
     IN /\ account.nonce < MAX_U64
        /\ txn.amount <= account.amount
        /\ txn.fee <= account.amount - txn.amount
        /\ verify(sig, account, bytes_to_sign(Domain, txn, account.nonce + 1))

Ledger_debit(ledger, txn) ==
  LET account == ledger.accounts[txn.sender]
  IN Write(ledger, txn.sender,
           [nonce |-> account.nonce + 1,
            amount |-> account.amount - txn.amount - txn.fee,
            auth_address |-> account.auth_address])

CreditedAccount(ledger, receiver) ==
  IF Has(ledger, receiver) THEN ledger.accounts[receiver] ELSE empty(receiver)

CanCredit(ledger, receiver, amount) ==
  CreditedAccount(ledger, receiver).amount + amount <= MAX_U64

Ledger_credit(ledger, receiver, amount) ==
  LET account == CreditedAccount(ledger, receiver)
  IN Write(ledger, receiver, [nonce |-> account.nonce, amount |-> account.amount + amount,
                              auth_address |-> account.auth_address])

(* The fee-sink credit a nonzero fee brings along, and its witness. *)
CanCreditFee(ledger, fee) == fee # 0 => CanCredit(ledger, FEE_SINK, fee)
CreditFee(ledger, fee) == IF fee = 0 THEN ledger ELSE Ledger_credit(ledger, FEE_SINK, fee)
FeeWitness(ledger, fee) == IF fee = 0 THEN << >> ELSE <<Witness(ledger, FEE_SINK)>>

\* Bug: the receiver is witnessed before the sender is written.
PaymentWitnessesEarly(ledger, debited, credited, txn) ==
  <<Witness(ledger, txn.sender), Witness(ledger, txn.destination)>>
    \o FeeWitness(credited, txn.fee)

PaymentWitnesses(ledger, debited, credited, txn) ==
  <<Witness(ledger, txn.sender), Witness(debited, txn.destination)>>
    \o FeeWitness(credited, txn.fee)

\* Bug: the account is emptied in the HashMap only.
EmptyHashMapOnly(ledger, address) ==
  [ledger EXCEPT !.accounts[address] = emptied(@)]

EmptyAccount(ledger, address) == Write(ledger, address, emptied(ledger.accounts[address]))

-----------------------------------------------------------------------------
NoSig == [key |-> NoKey, message |-> << >>, asked |-> << >>]

(* The signature that answers a request; `asked' is a note of what was meant. *)
SignatureOf(request) ==
  [key |-> request.key,
   message |-> bytes_to_sign(request.domain, request.txn, request.nonce),
   asked |-> request]

Record(txn, sig, witnesses) ==
  /\ txns' = Append(txns, txn)
  /\ entries' = Append(entries, [kind |-> txn.kind, sig |-> sig, witnesses |-> witnesses])

Become(ledger) == accounts' = ledger.accounts /\ tree' = ledger.tree

recordMove(a) == moves' = [moves EXCEPT ![a][accounts[a].nonce + 1] = @ + 1]

ApplyPayment(txn, sig) ==
  LET debited  == Ledger_debit(Now, txn)
      credited == Ledger_credit(debited, txn.destination, txn.amount)
  IN /\ CanDebit(Now, txn, sig)
     /\ CanCredit(debited, txn.destination, txn.amount)
     /\ CanCreditFee(credited, txn.fee)
     /\ Become(CreditFee(credited, txn.fee))
     /\ Record(txn, sig, PaymentWitnesses(Now, debited, credited, txn))
     /\ recordMove(txn.sender)
     /\ UNCHANGED <<inbox_chain, payouts, blockVars>>

ApplyDeposit(txn) ==
  /\ CanCredit(Now, txn.destination, txn.amount)
  /\ Become(Ledger_credit(Now, txn.destination, txn.amount))
  /\ inbox_chain' = accumulate_deposit(inbox_chain, txn.destination, txn.amount)
  /\ Record(txn, NoSig, <<Witness(Now, txn.destination)>>)
  /\ UNCHANGED <<payouts, moves, blockVars>>

ApplyWithdrawal(txn, sig) ==
  LET debited == Ledger_debit(Now, txn)
  IN /\ txn.amount >= MIN_WITHDRAWAL
     /\ CanDebit(Now, txn, sig)
     /\ CanCreditFee(debited, txn.fee)
     /\ Become(CreditFee(debited, txn.fee))
     /\ payouts' = Append(payouts, [recipient |-> txn.destination, amount |-> txn.amount])
     /\ Record(txn, sig, <<Witness(Now, txn.sender)>> \o FeeWitness(debited, txn.fee))
     /\ recordMove(txn.sender)
     /\ UNCHANGED <<inbox_chain, blockVars>>

ApplyForced(txn) ==
  LET balance == OldAccount(Now, txn.sender).amount
  IN /\ \/ /\ balance >= MIN_WITHDRAWAL
           /\ accounts[txn.sender].nonce < MAX_U64
           /\ Become(EmptyAccount(Now, txn.sender))
           /\ payouts' = Append(payouts, [recipient |-> txn.destination,
                                          amount |-> balance])
           /\ recordMove(txn.sender)
        \/ /\ balance < MIN_WITHDRAWAL
           /\ UNCHANGED <<accounts, tree, payouts, moves>>
     /\ inbox_chain' = accumulate_request(inbox_chain, txn.sender, txn.destination)
     /\ Record(txn, NoSig, <<Witness(Now, txn.sender)>>)
     /\ UNCHANGED blockVars

(* get_block returns, and is called again; a call with nothing to apply changes
   nothing. *)
EndBlock ==
  /\ txns # << >>
  /\ old_root' = tree
  /\ old_inbox_chain' = inbox_chain
  /\ payouts' = << >>
  /\ txns' = << >>
  /\ entries' = << >>
  /\ UNCHANGED <<accounts, tree, inbox_chain, moves>>

\* Bug: a key submitted again wipes the account it has.
createAnyway(address) ==
  /\ txns = << >>
  /\ Become(Write(Now, address, empty(address)))
  /\ old_root' = tree'
  /\ UNCHANGED <<inbox_chain, old_inbox_chain, payouts, txns, entries, moves>>

(* Between two calls of get_block, so the next one begins at the new root; an
   account that is there is left alone. *)
create_account(address) ==
  /\ txns = << >>
  /\ ~Has(Now, address)
  /\ Become(Write(Now, address, empty(address)))
  /\ old_root' = tree'
  /\ UNCHANGED <<inbox_chain, old_inbox_chain, payouts, txns, entries, moves>>

Init ==
  /\ accounts = [a \in {} |-> NoAccount]
  /\ tree = [a \in Addresses |-> NoAccount]
  /\ inbox_chain = INBOX_CHAIN_GENESIS
  /\ old_root = tree
  /\ old_inbox_chain = inbox_chain
  /\ payouts = << >>
  /\ txns = << >>
  /\ entries = << >>
  /\ moves = [a \in Addresses |-> [n \in 1..MAX_U64 |-> 0]]

Spend ==
  \E request \in Asked, sender \in Addresses, amount \in Amounts, fee \in Fees :
    LET sig == SignatureOf(request)
    IN \/ \E receiver \in Addresses :
            ApplyPayment(Payment(sender, receiver, amount, fee), sig)
       \/ \E recipient \in L1Accounts :
            ApplyWithdrawal(Withdrawal(sender, recipient, amount, fee), sig)

FromL1 ==
  /\ Len(inbox_chain) < MaxInbox
  /\ \/ \E receiver \in Addresses, amount \in DepositAmounts :
          ApplyDeposit(Deposit(receiver, amount))
     \/ \E address \in Addresses, recipient \in L1Accounts :
          ApplyForced(ForcedWithdrawal(address, recipient))

Next ==
  \/ Len(txns) < MaxTxns /\ (Spend \/ FromL1)
  \/ EndBlock
  \/ \E address \in NewKeys : create_account(address)

Spec == Init /\ [][Next]_vars

-----------------------------------------------------------------------------
(* The HashMap and the tree are two copies of the state, written one after the
   other in every branch of get_block; after each transaction they agree. *)
TreeInStep == \A a \in Addresses : tree[a] = OldAccount(Now, a)

(* verify_block accepts whatever get_block builds: every witness describes the
   root at the moment it is used (also when one transaction writes a slot
   twice, as self-payments and payments to the fee sink do), and the guest
   lands on the root, the inbox chain and the payouts the ledger claims. *)
OwnBlocksVerify ==
  verify_batch(Domain, old_root, old_inbox_chain, txns, entries)
    = [root |-> tree, inbox_chain |-> inbox_chain, payouts |-> payouts]

(* The sequencer's list of payouts to make on L1, read back from batch and
   sidecar by other code than the one that queued them, is the list the chain
   commits to: one missing or one more and the chain cannot be drained. *)
PayoutsReported == withdrawal_payouts(txns, entries) = payouts

(* A spend from an account with a key executes only as its holder asked: kind,
   amount, fee, destination and deployment, and at the one nonce it was signed
   for, whatever transaction the signature was presented with. *)
SpendsAsAsked ==
  \A i \in 1..Len(txns) :
    /\ txns[i].kind \in {"PAY", "WDR"}
    /\ SchemeOf[txns[i].sender] # "man"
    => entries[i].sig.asked =
         [key |-> txns[i].sender, domain |-> Domain, txn |-> txns[i],
          nonce |-> entries[i].witnesses[1].old_account.nonce + 1]

(* Witnesses somebody might put in place of the ledger's: of another moment, of
   another slot, of an account that is absent or far richer. *)
Doctored ==
  LET honest == UNION {{entries[i].witnesses[j] : j \in 1..Len(entries[i].witnesses)} :
                         i \in 1..Len(entries)}
      held == {w.old_account : w \in honest}
  IN [old_account : {NoAccount} \cup held \cup {[acc EXCEPT !.amount = MAX_U64] : acc \in held},
      proof : {w.proof : w \in honest}]

(* The comment on TxnSidecar: "a doctored sidecar produces a rejected block, not
   a redirected payment".  With any one witness replaced the batch is refused or
   does exactly what it did, the amount of a forced withdrawal included, which
   only its witness says. *)
SidecarCannotRedirect ==
  \A i \in 1..Len(txns) : \A j \in 1..Len(entries[i].witnesses) : \A w \in Doctored :
    LET got == verify_batch(Domain, old_root, old_inbox_chain, txns,
                            [entries EXCEPT ![i].witnesses[j] = w])
    IN got.root # Err =>
         got = [root |-> tree, inbox_chain |-> inbox_chain, payouts |-> payouts]

(* The guest's replay, over the ledger's state. *)
R == INSTANCE Replay WITH root <- tree, inbox_anchor <- old_inbox_chain

(* The root moves between two blocks for one reason: an empty account in a slot
   that held none.  No nonce, no balance and no key that was there changes. *)
Created ==
  /\ \E a \in Addresses :
       tree[a] = NoAccount /\ tree' = [tree EXCEPT ![a] = empty(a)]
  /\ old_root = tree /\ old_root' = tree'
  /\ UNCHANGED <<old_inbox_chain, inbox_chain, payouts, moves>>

(* get_block takes only steps of the replay the guest proves, so what holds of
   every run of Replay (conservation, one move per nonce, accounts that stay)
   holds of the sequencer's ledger too; create_account, the one write outside a
   block, adds an empty account and does nothing else. *)
ImplementsReplay == R!Init /\ [][R!Next \/ Created]_(R!vars)

(* The client's comment on paymentMessage: "Bytes an L2 payment signs".  What
   the client signs for the next payment of an account, the guest accepts. *)
ClientSignaturesVerify ==
  \A a \in DOMAIN accounts : SchemeOf[a] = "edd" =>
    \A b \in Addresses, amount \in Amounts, fee \in Fees :
      LET txn == Payment(a, b, amount, fee)
          nonce == accounts[a].nonce + 1
          sig == [key |-> a, message |-> l2TransactionMessage(Domain, txn, nonce)]
      IN verify(sig, accounts[a], bytes_to_sign(Domain, txn, nonce))
=============================================================================
