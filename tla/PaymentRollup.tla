--------------------------- MODULE PaymentRollup ---------------------------
(***************************************************************************)
(* The vocabulary the guest (crates/payment-rollup) and the settlement     *)
(* contract (contracts/rollup-verifier.algo.ts) share.                     *)
(*                                                                         *)
(* SHA-256 is taken to be collision free, so a commitment is the value it  *)
(* commits to: a state root is the map of leaves, and a hash chain is the  *)
(* sequence of the items folded into it, oldest first.                     *)
(***************************************************************************)
EXTENDS Coins, Sequences

CONSTANTS
  Addresses,       \* the L2 addresses in play, with and without a key
  L1Accounts,      \* the Algorand accounts in play
  NoRecipient,     \* the zero L1 address a deposit's record carries
  SchemeOf,        \* the scheme an address was derived under, or "none"
  MIN_WITHDRAWAL   \* the smallest payout, the network's own minimum balance

Schemes == {"man", "edd", "f1h"}

ASSUME AddressAssumption == IsFiniteSet(Addresses)
ASSUME SchemeAssumption == SchemeOf \in [Addresses -> Schemes \cup {"none"}]
ASSUME MinWithdrawalAssumption == MIN_WITHDRAWAL \in U64 \ {0}
ASSUME NoRecipientAssumption == NoRecipient \notin L1Accounts

-----------------------------------------------------------------------------
(* The three things that are folded into chains. *)

InboxEntry == [kind : {"d", "w"}, address : Addresses,
               recipient : L1Accounts \cup {NoRecipient}, amount : U64]

accumulate_deposit(chain, receiver, amount) ==
  Append(chain, [kind |-> "d", address |-> receiver,
                 recipient |-> NoRecipient, amount |-> amount])

accumulate_request(chain, address, recipient) ==
  Append(chain, [kind |-> "w", address |-> address,
                 recipient |-> recipient, amount |-> 0])

INBOX_CHAIN_GENESIS == << >>

Payout == [recipient : L1Accounts, amount : U64]

withdrawal_chain_terminal == << >>

accumulate_withdrawal(tail, recipient, amount) ==
  Append(tail, [recipient |-> recipient, amount |-> amount])

(* The chain is folded from the last payout to the first, so that its head
   is the first payout to be made. *)
withdrawal_chain(payouts) ==
  [i \in 1..Len(payouts) |-> payouts[Len(payouts) + 1 - i]]

-----------------------------------------------------------------------------
(* A leaf as the settlement contract reads it.  The nonce is hashed into the
   leaf and decides nothing on L1; an address without an account proves no
   balance, which is what a leaf of amount zero says. *)
Leaf == [amount : U64, auth_address : Addresses]

Balances(leaves) == [a \in Addresses |-> leaves[a].amount]

EmptyLeaves == [a \in Addresses |-> [amount |-> 0, auth_address |-> a]]

AuthPinned(leaves) == \A a \in Addresses : leaves[a].auth_address = a

(* What the deposits folded between two chain values are worth.  Inbox entry
   number i is the (i+1)-st item of the chain. *)
DepositsFolded(old, new) ==
  Sum([i \in Len(old)..(Len(new) - 1) |-> new[i + 1].amount])

PayoutTotal(chain) == Sum([i \in 1..Len(chain) |-> chain[i].amount])

(* What a chain was when n items had been folded into it. *)
Prefix(chain, n) == [i \in 1..n |-> chain[i]]

ChainExtends(old, new) ==
  Len(old) <= Len(new) /\ \A i \in 1..Len(old) : new[i] = old[i]

(***************************************************************************)
(* What a proof that the contract accepts says of the words it carries:    *)
(* the guest folded further along the inbox, created value only for the    *)
(* deposits it folded and destroyed it only for the payouts it committed,  *)
(* made every payout large enough to reach any L1 account, and moved no    *)
(* account to another key.  VerifyBatch_proofs proves it of verify_batch,  *)
(* whatever the sidecar, and Replay_proofs of a chain of batches; module   *)
(* RollupVerifier relies on it and on nothing else of the guest.           *)
(***************************************************************************)
BlockLaw(old_root, new_root, old_inbox, new_inbox, chain) ==
  /\ ChainExtends(old_inbox, new_inbox)
  /\ Sum(Balances(new_root)) + PayoutTotal(chain)
       = Sum(Balances(old_root)) + DepositsFolded(old_inbox, new_inbox)
  /\ \A i \in 1..Len(chain) : chain[i].amount >= MIN_WITHDRAWAL
  /\ AuthPinned(old_root) => AuthPinned(new_root)
=============================================================================
