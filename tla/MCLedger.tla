------------------------------ MODULE MCLedger ------------------------------
(* A key holder, a managed account, the fee sink and the zero address.  b names
   an address of the rollup and an account of L1, the same 32 bytes. *)
EXTENDS Ledger, TLC

CONSTANTS a, b, sink, zero, here, elsewhere

SchemesOfFour == (a :> "edd") @@ (b :> "man") @@ (sink :> "none") @@ (zero :> "none")

Ask(key, domain, nonce, txn) ==
  [key |-> key, domain |-> domain, nonce |-> nonce, txn |-> txn]

(* Self-payments, payments that differ in kind only, in nonce only and in
   domain only, a payment to the fee sink that pays a fee, and the sequencer's
   key for b, which serves for anything of b's and for nothing of a's. *)
Requests ==
  {Ask(a, here, 1, Payment(a, a, 2, 1)),
   Ask(a, here, 1, Payment(a, b, 2, 0)),
   Ask(a, here, 2, Payment(a, b, 2, 0)),
   Ask(a, here, 1, Payment(a, sink, 2, 1)),
   Ask(a, elsewhere, 1, Payment(a, b, 2, 0)),
   Ask(a, here, 2, Withdrawal(a, b, 2, 0)),
   Ask(b, here, 1, Payment(a, b, 2, 0))}
=============================================================================
