---------------------------- MODULE VerifyBatch ----------------------------
(***************************************************************************)
(* verify_batch of crates/payment-rollup/src/lib.rs as a function of what  *)
(* it is handed: a batch, a sidecar of signatures and witnesses, a root    *)
(* and an inbox anchor.  Module Replay is the same replay with the sidecar *)
(* taken to be right; here it is data that can be wrong or stale.          *)
(*                                                                         *)
(* A root is the map of accounts it commits to.  A Merkle proof is the map *)
(* of the tree it was cut from: hashing up with an account in the slot of  *)
(* its address gives that map with that slot replaced, which is what       *)
(* Merkle_proofs proves of root_from_proof.                                *)
(***************************************************************************)
EXTENDS PaymentRollup

CONSTANTS
  FEE_SINK,        \* collects fees; no key derives it
  ZERO_ADDRESS,    \* the sender a deposit is marked with; no key derives it
  NoKey            \* the authority of a slot that holds no account

ASSUME KeylessAssumption ==
  /\ {FEE_SINK, ZERO_ADDRESS} \subseteq Addresses
  /\ SchemeOf[FEE_SINK] = "none" /\ SchemeOf[ZERO_ADDRESS] = "none"
  /\ NoKey \notin Addresses

NoAccount == [nonce |-> 0, amount |-> 0, auth_address |-> NoKey]
empty(address) == [nonce |-> 0, amount |-> 0, auth_address |-> address]

-----------------------------------------------------------------------------
(* Transactions as the batch carries them.  A deposit's sender is a constant,
   and a forced withdrawal says no amount. *)
Payment(sender, receiver, amount, fee) ==
  [kind |-> "PAY", sender |-> sender, destination |-> receiver,
   amount |-> amount, fee |-> fee]
Withdrawal(sender, recipient, amount, fee) ==
  [kind |-> "WDR", sender |-> sender, destination |-> recipient,
   amount |-> amount, fee |-> fee]
Deposit(receiver, amount) ==
  [kind |-> "deposit", sender |-> ZERO_ADDRESS, destination |-> receiver,
   amount |-> amount, fee |-> 0]
ForcedWithdrawal(address, recipient) ==
  [kind |-> "forced", sender |-> address, destination |-> recipient,
   amount |-> 0, fee |-> 0]

\* Bug: a payment and a withdrawal are signed alike.
bytes_without_tag(domain, txn, nonce) ==
  <<domain, txn.sender, nonce, txn.fee, txn.destination, txn.amount>>

(* What a sender signs.  All fields have fixed widths. *)
bytes_to_sign(domain, txn, nonce) ==
  <<txn.kind, domain, txn.sender, nonce, txn.fee, txn.destination, txn.amount>>

(* The same in the TypeScript client. *)
l2TransactionMessage(domain, txn, nonce) ==
  <<txn.kind, domain, txn.sender, nonce, txn.destination, txn.amount>>

(* A signature is the address its key derives and the bytes that were signed.
   Nothing is signed for a managed account, whose key is only a name. *)
crypto_verify(sig, message) ==
  \/ SchemeOf[sig.key] = "man"
  \/ SchemeOf[sig.key] \in {"edd", "f1h"} /\ sig.message = message

verify_auth(sig, account) == sig.key = account.auth_address

verify(sig, account, message) ==
  verify_auth(sig, account) /\ crypto_verify(sig, message)

-----------------------------------------------------------------------------
root_with(address, account, proof) == [proof EXCEPT ![address] = account]

expect_pre_state(address, witness, root) ==
  root_with(address, witness.old_account, witness.proof) = root

(* In place of a root: the replay has ended in an error. *)
Err == << >>

debit(domain, txn, witness, sig, root) ==
  LET old == witness.old_account
      sender == [nonce |-> old.nonce + 1, amount |-> old.amount - txn.amount - txn.fee,
                 auth_address |-> old.auth_address]
  IN IF /\ expect_pre_state(txn.sender, witness, root)
        /\ old # NoAccount
        /\ old.nonce < MAX_U64
        /\ verify(sig, old, bytes_to_sign(domain, txn, old.nonce + 1))
        /\ txn.amount <= old.amount /\ txn.fee <= old.amount - txn.amount
     THEN root_with(txn.sender, sender, witness.proof)
     ELSE Err

credit(address, witness, amount, root) ==
  LET old == IF witness.old_account = NoAccount THEN empty(address)
             ELSE witness.old_account
  IN IF /\ root # Err
        /\ expect_pre_state(address, witness, root)
        /\ old.amount + amount <= MAX_U64
     THEN root_with(address, [nonce |-> old.nonce, amount |-> old.amount + amount,
                              auth_address |-> old.auth_address], witness.proof)
     ELSE Err

(* The slots a transaction writes, in order; a sidecar entry carries one
   witness for each, or it is not of the transaction's kind. *)
WrittenSlots(txn) ==
  LET toSink == IF txn.fee = 0 THEN << >> ELSE <<FEE_SINK>>
  IN CASE txn.kind = "PAY"     -> <<txn.sender, txn.destination>> \o toSink
       [] txn.kind = "WDR"     -> <<txn.sender>> \o toSink
       [] txn.kind = "deposit" -> <<txn.destination>>
       [] txn.kind = "forced"  -> <<txn.sender>>

KindsMatch(txn, entry) ==
  entry.kind = txn.kind /\ Len(entry.witnesses) = Len(WrittenSlots(txn))

(* The fee-sink write, with the last witness. *)
payFee(txn, entry, root) ==
  IF txn.fee = 0 THEN root
  ELSE credit(FEE_SINK, entry.witnesses[Len(entry.witnesses)], txn.fee, root)

\* Bug: the nonce stays, and with it every signature made for the next one.
emptiedKeepingNonce(account) == [account EXCEPT !.amount = 0]

(* The account a paid request leaves behind. *)
emptied(account) ==
  [nonce |-> account.nonce + 1, amount |-> 0, auth_address |-> account.auth_address]

\* Bug: the balance is read from a witness nobody has checked.
forceUnchecked(txn, witness, root) ==
  LET old == witness.old_account
  IN IF old.amount < MIN_WITHDRAWAL THEN root
     ELSE IF old.nonce = MAX_U64 THEN Err
     ELSE root_with(txn.sender, emptied(old), witness.proof)

(* A forced withdrawal takes the whole balance, or nothing at all. *)
force(txn, witness, root) ==
  LET old == witness.old_account
  IN IF ~expect_pre_state(txn.sender, witness, root) THEN Err
     ELSE IF old.amount < MIN_WITHDRAWAL THEN root
     ELSE IF old.nonce = MAX_U64 THEN Err
     ELSE root_with(txn.sender, emptied(old), witness.proof)

NextRoot(domain, txn, entry, root) ==
  LET w == entry.witnesses
  IN CASE txn.kind = "PAY" ->
            payFee(txn, entry, credit(txn.destination, w[2], txn.amount,
                                      debit(domain, txn, w[1], entry.sig, root)))
       [] txn.kind = "WDR" ->
            IF txn.amount < MIN_WITHDRAWAL THEN Err
            ELSE payFee(txn, entry, debit(domain, txn, w[1], entry.sig, root))
       [] txn.kind = "deposit" -> credit(txn.destination, w[1], txn.amount, root)
       [] txn.kind = "forced" -> force(txn, w[1], root)

NextInbox(txn, chain) ==
  CASE txn.kind = "deposit" -> accumulate_deposit(chain, txn.destination, txn.amount)
    [] txn.kind = "forced"  -> accumulate_request(chain, txn.sender, txn.destination)
    [] OTHER -> chain

(* A withdrawal queues its amount, a forced one the balance its witness shows. *)
NextPayouts(txn, entry, payouts) ==
  LET balance == entry.witnesses[1].old_account.amount
      pay(amount) == Append(payouts, [recipient |-> txn.destination, amount |-> amount])
  IN CASE txn.kind = "WDR" -> pay(txn.amount)
       [] txn.kind = "forced" /\ balance >= MIN_WITHDRAWAL -> pay(balance)
       [] OTHER -> payouts

(* One turn of the loop: where a transaction and its entry take the replay.
   After an error nothing more happens. *)
ReplayTxn(domain, before, txn, entry) ==
  IF before.root = Err \/ ~KindsMatch(txn, entry)
  THEN [root |-> Err, inbox_chain |-> before.inbox_chain, payouts |-> before.payouts]
  ELSE [root |-> NextRoot(domain, txn, entry, before.root),
        inbox_chain |-> NextInbox(txn, before.inbox_chain),
        payouts |-> NextPayouts(txn, entry, before.payouts)]

(* Where the replay ends: a root or Err, the inbox chain and the payouts. *)
verify_batch(domain, old_root, inbox_anchor, txns, entries) ==
  LET replay[n \in 0..Len(txns)] ==
        IF n = 0
        THEN [root |-> old_root, inbox_chain |-> inbox_anchor, payouts |-> << >>]
        ELSE ReplayTxn(domain, replay[n - 1], txns[n], entries[n])
  IN IF Len(txns) # Len(entries)
     THEN [root |-> Err, inbox_chain |-> inbox_anchor, payouts |-> << >>]
     ELSE replay[Len(txns)]

\* Bug: the report forgets the minimum a forced withdrawal has to reach.
anyBalancePaid(txn, entry) ==
  CASE txn.kind = "WDR" -> <<[recipient |-> txn.destination, amount |-> txn.amount]>>
    [] txn.kind = "forced" ->
         <<[recipient |-> txn.destination,
            amount |-> entry.witnesses[1].old_account.amount]>>
    [] OTHER -> << >>

(* What a transaction and its entry say is to be paid: one payout or none. *)
PaidBy(txn, entry) ==
  LET balance == entry.witnesses[1].old_account.amount
      pay(amount) == <<[recipient |-> txn.destination, amount |-> amount]>>
  IN CASE txn.kind = "WDR" -> pay(txn.amount)
       [] /\ txn.kind = "forced" /\ entry.kind = "forced"
          /\ balance >= MIN_WITHDRAWAL -> pay(balance)
       [] OTHER -> << >>

(* The payouts of a batch, read back out of it for whoever has to make them. *)
withdrawal_payouts(txns, entries) ==
  LET collect[n \in 0..Len(txns)] ==
        IF n = 0 THEN << >> ELSE collect[n - 1] \o PaidBy(txns[n], entries[n])
  IN collect[Len(txns)]
=============================================================================
