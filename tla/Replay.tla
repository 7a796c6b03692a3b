------------------------------- MODULE Replay -------------------------------
(***************************************************************************)
(* verify_batch of crates/payment-rollup/src/lib.rs: the replay the SP1    *)
(* guest proves, one step per transaction of the batch.                    *)
(*                                                                         *)
(* `root' is the running root, `inbox_chain' and `payouts' the other two   *)
(* locals of the loop; `old_root' and `inbox_anchor' are the arguments,    *)
(* and NextBatch starts the next call where the last one landed, which is  *)
(* where the settlement contract pins it.  A transaction the code answers  *)
(* with an error is a step that is not enabled: the guest then commits no  *)
(* public values and the batch never happened.  The sequencer's            *)
(* Ledger::get_block applies the same arithmetic and panics instead.       *)
(*                                                                         *)
(* A signature is known by the address its key derives.  Whoever holds the *)
(* key may sign anything at any time, so a spend needs only that the key   *)
(* is the one the account names and that such a key exists.                *)
(***************************************************************************)
EXTENDS PaymentRollup

CONSTANTS
  FEE_SINK,        \* collects fees; no key derives it
  ZERO_ADDRESS,    \* the sender a deposit is marked with; no key derives it
  NoKey,           \* the authority of a slot that holds no account
  DepositAmounts,  \* the amounts deposits are tried with
  Amounts,         \* the amounts payments and withdrawals are tried with
  Fees,            \* the fees they are tried with
  MaxInbox         \* bound: inbox entries folded in one behaviour

ASSUME ReplayAssumption ==
  /\ {FEE_SINK, ZERO_ADDRESS} \subseteq Addresses
  /\ SchemeOf[FEE_SINK] = "none" /\ SchemeOf[ZERO_ADDRESS] = "none"
  /\ NoKey \notin Addresses
  /\ DepositAmounts \subseteq U64 /\ Amounts \subseteq U64 /\ Fees \subseteq U64
  /\ MaxInbox \in Nat

VARIABLES
  root,            \* the running root: the account in every slot
  old_root,        \* the root the batch began at
  inbox_anchor,    \* the inbox chain the batch began at
  inbox_chain,     \* the inbox chain folded so far
  payouts,         \* the payouts the batch has queued, in order
  moves            \* history: how often value left an account at a nonce

vars == <<root, old_root, inbox_anchor, inbox_chain, payouts, moves>>

Account == [nonce : U64, amount : U64, auth_address : Addresses \cup {NoKey}]

NoAccount == [nonce |-> 0, amount |-> 0, auth_address |-> NoKey]

empty(address) == [nonce |-> 0, amount |-> 0, auth_address |-> address]

Leaves(r) ==
  [a \in Addresses |->
     [amount |-> r[a].amount,
      auth_address |-> IF r[a] = NoAccount THEN a ELSE r[a].auth_address]]

-----------------------------------------------------------------------------
(* Signature::verify: the key presented derives the account's auth_address,
   and the scheme's own check passes for the holder of that key. *)
verify(account) ==
  /\ account.auth_address \in Addresses
  /\ SchemeOf[account.auth_address] \in Schemes

(* bump_nonce is a checked add. *)
CanBumpNonce(account) == account.nonce < MAX_U64

CanDebit(r, sender, amount, fee) ==
  /\ r[sender] # NoAccount
  /\ CanBumpNonce(r[sender])
  /\ verify(r[sender])
  /\ amount <= r[sender].amount
  /\ fee <= r[sender].amount - amount

\* Bug: a spend that empties an account takes it out of the tree.
debitAndPrune(r, sender, amount, fee) ==
  [r EXCEPT ![sender] =
     IF @.amount = amount + fee THEN NoAccount
     ELSE [nonce |-> @.nonce + 1, amount |-> @.amount - amount - fee,
           auth_address |-> @.auth_address]]

debit(r, sender, amount, fee) ==
  [r EXCEPT ![sender] =
     [nonce |-> @.nonce + 1,
      amount |-> @.amount - amount - fee,
      auth_address |-> @.auth_address]]

\* Bug: the add is not checked.
CanCreditUnchecked(r, receiver, amount) == TRUE

CanCredit(r, receiver, amount) == r[receiver].amount + amount <= MAX_U64

credit(r, receiver, amount) ==
  [r EXCEPT ![receiver] =
     [nonce |-> @.nonce,
      amount |-> @.amount + amount,
      auth_address |-> IF @ = NoAccount THEN receiver ELSE @.auth_address]]

(* The fee-sink write a nonzero fee brings along. *)
CanPayFee(r, fee) == fee # 0 => CanCredit(r, FEE_SINK, fee)
\* Bug: the fee is debited and credited to nobody.
payFeeToNobody(r, fee) == r

payFee(r, fee) == IF fee = 0 THEN r ELSE credit(r, FEE_SINK, fee)

(* A signed spend or a forced exit is the next move of the account. *)
recordMove(a) == [moves EXCEPT ![a][root[a].nonce + 1] = @ + 1]

-----------------------------------------------------------------------------
Payment(sender, receiver, amount, fee) ==
  LET debited  == debit(root, sender, amount, fee)
      credited == credit(debited, receiver, amount)
  IN /\ CanDebit(root, sender, amount, fee)
     /\ CanCredit(debited, receiver, amount)
     /\ CanPayFee(credited, fee)
     /\ root' = payFee(credited, fee)
     /\ moves' = recordMove(sender)
     /\ UNCHANGED <<old_root, inbox_anchor, inbox_chain, payouts>>

Deposit(receiver, amount) ==
  /\ Len(inbox_chain) < MaxInbox
  /\ CanCredit(root, receiver, amount)
  /\ root' = credit(root, receiver, amount)
  /\ inbox_chain' = accumulate_deposit(inbox_chain, receiver, amount)
  /\ UNCHANGED <<old_root, inbox_anchor, payouts, moves>>

Withdrawal(sender, recipient, amount, fee) ==
  LET debited == debit(root, sender, amount, fee)
  IN /\ amount >= MIN_WITHDRAWAL
     /\ CanDebit(root, sender, amount, fee)
     /\ CanPayFee(debited, fee)
     /\ root' = payFee(debited, fee)
     /\ payouts' = Append(payouts, [recipient |-> recipient, amount |-> amount])
     /\ moves' = recordMove(sender)
     /\ UNCHANGED <<old_root, inbox_anchor, inbox_chain>>

\* Bug: the nonce stays, and with it every signature made for the next one.
emptiedKeepingNonce(account) == [account EXCEPT !.amount = 0]

(* The account a paid request leaves behind: empty, and one nonce further. *)
emptied(account) ==
  [nonce |-> account.nonce + 1, amount |-> 0,
   auth_address |-> account.auth_address]

ForcedWithdrawalPaid(address, recipient) ==
  /\ Len(inbox_chain) < MaxInbox
  /\ root[address].amount >= MIN_WITHDRAWAL
  /\ CanBumpNonce(root[address])
  /\ root' = [root EXCEPT ![address] = emptied(@)]
  /\ payouts' = Append(payouts, [recipient |-> recipient,
                                 amount |-> root[address].amount])
  /\ inbox_chain' = accumulate_request(inbox_chain, address, recipient)
  /\ moves' = recordMove(address)
  /\ UNCHANGED <<old_root, inbox_anchor>>

(* A request against less than the minimum is consumed without effect. *)
ForcedWithdrawalDropped(address, recipient) ==
  /\ Len(inbox_chain) < MaxInbox
  /\ root[address].amount < MIN_WITHDRAWAL
  /\ inbox_chain' = accumulate_request(inbox_chain, address, recipient)
  /\ UNCHANGED <<root, old_root, inbox_anchor, payouts, moves>>

(* The batch ends; the next one starts from the words this one committed. *)
NextBatch ==
  /\ <<old_root, inbox_anchor, payouts>> # <<root, inbox_chain, << >>>>
  /\ old_root' = root
  /\ inbox_anchor' = inbox_chain
  /\ payouts' = << >>
  /\ UNCHANGED <<root, inbox_chain, moves>>

Init ==
  /\ root = [a \in Addresses |-> NoAccount]
  /\ old_root = root
  /\ inbox_anchor = INBOX_CHAIN_GENESIS
  /\ inbox_chain = INBOX_CHAIN_GENESIS
  /\ payouts = << >>
  /\ moves = [a \in Addresses |-> [n \in 1..MAX_U64 |-> 0]]

Next ==
  \/ \E sender, receiver \in Addresses, amount \in Amounts, fee \in Fees :
       Payment(sender, receiver, amount, fee)
  \/ \E receiver \in Addresses, amount \in DepositAmounts :
       Deposit(receiver, amount)
  \/ \E sender \in Addresses, recipient \in L1Accounts,
        amount \in Amounts, fee \in Fees :
       Withdrawal(sender, recipient, amount, fee)
  \/ \E address \in Addresses, recipient \in L1Accounts :
       \/ ForcedWithdrawalPaid(address, recipient)
       \/ ForcedWithdrawalDropped(address, recipient)
  \/ NextBatch

Spec == Init /\ [][Next]_vars

-----------------------------------------------------------------------------
(* Every variable keeps its type; amounts and nonces never leave u64. *)
TypeOK ==
  /\ root \in [Addresses -> Account]
  /\ old_root \in [Addresses -> Account]
  /\ inbox_anchor \in Seq(InboxEntry)
  /\ inbox_chain \in Seq(InboxEntry)
  /\ payouts \in Seq(Payout)
  /\ moves \in [Addresses -> [1..MAX_U64 -> Nat]]

(* However payments, fees, deposits, withdrawals and forced exits interleave
   in a batch, and whoever pays whom (a self-payment, a payment to the fee
   sink), what verify_batch returns obeys the law the contract relies on:
   value enters only with the deposits folded, leaves only with the payouts
   queued, every payout is payable, and no account changes hands. *)
BlockLawHolds ==
  BlockLaw(Leaves(old_root), Leaves(root), inbox_anchor, inbox_chain,
           withdrawal_chain(payouts))

(* At each nonce of each account value leaves at most once, by a signed spend
   or by a forced exit.  This is what the nonce is for: a signature executes
   once, and one held back across a forced exit never executes. *)
OneMovePerNonce ==
  \A a \in Addresses : \A n \in 1..MAX_U64 : moves[a][n] <= 1

(* An account's history only grows: it never leaves the tree, which would
   restart its nonce and revive every signature it ever made; its key stays,
   and its nonce never goes back. *)
HistoryGrows ==
  [][\A a \in Addresses :
       root[a] # NoAccount =>
         /\ root'[a] # NoAccount
         /\ root'[a].auth_address = root[a].auth_address
         /\ root'[a].nonce >= root[a].nonce]_vars

(* The comment on ZERO_ADDRESS: "verify_batch never reads or writes an account
   here, so the address never enters the tree at all". *)
ZeroAddressNeverInTree == root[ZERO_ADDRESS] = NoAccount
=============================================================================
