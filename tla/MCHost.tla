------------------------------- MODULE MCHost -------------------------------
(* The codec on bytes below eight and addresses of two of them, so that every
   byte can be a tag, a count, a reference or a part of an address.  The first
   L1 account is spelt like the address A. *)
EXTENDS Host, SequencesExt, TLC

CONSTANTS domain

Zero == <<0, 0>>
Sink == <<3, 1>>
A == <<1, 2>>
B == <<0, 1>>

MCAddresses == {Zero, Sink, A, B}
MCL1Accounts == {<<1, 2>>, <<2, 0>>}
MCSchemeOf == (Zero :> "none") @@ (Sink :> "none") @@ (A :> "edd") @@ (B :> "man")
MCIdentifierOf == [man |-> <<0>>, edd |-> <<1>>, f1h |-> <<2>>]
MCZeroAddress == Zero
MCFeeSink == Sink

-----------------------------------------------------------------------------
(* Amounts take one byte and two; so do the lengths of keys and signatures. *)
Signed ==
  {Payment(s, r, n[1], n[2]) : s \in {A, B}, r \in {A, B}, n \in {<<0, 0>>, <<7, 0>>, <<1, 5>>}}
    \cup {Withdrawal(s, r, n[1], n[2]) :
            s \in {A, B}, r \in MCL1Accounts, n \in {<<2, 0>>, <<7, 3>>}}
FromL1 ==
  {Deposit(r, n) : r \in {A, B}, n \in {0, 4}}
    \cup {ForcedWithdrawal(s, r) : s \in {A, B}, r \in MCL1Accounts}
Txns == Signed \cup FromL1

Managed == [scheme |-> "man", pub_key |-> <<1, 0>>, sig |-> << >>]
Ed25519 == [scheme |-> "edd", pub_key |-> <<0>>, sig |-> <<1, 0, 1, 2, 1>>]
Forged == [scheme |-> "edd", pub_key |-> <<0>>, sig |-> <<6>>]

Account(nonce, amount, key) == [nonce |-> nonce, amount |-> amount, auth_address |-> key]

(* An absent account in an empty tree, a present one, and an absent one whose
   slot somebody else is in. *)
Fresh == [old_account |-> NoAccount, siblings |-> << >>, slot |-> OwnSlot]
Funded == [old_account |-> Account(1, 7, A), siblings |-> <<<<4, 1>>>>, slot |-> OwnSlot]
Displaced == [old_account |-> NoAccount, siblings |-> <<<<0, 0>>>>,
              slot |-> [address |-> Sink, account |-> Account(0, 5, Sink)]]

IsSigned(txn) == txn.kind \in {"PAY", "WDR"}

Entry(txn, sig, first, later) ==
  [kind |-> txn.kind, sig |-> IF IsSigned(txn) THEN sig ELSE << >>,
   witnesses |-> [i \in 1..Len(WrittenSlots(txn)) |-> IF i = 1 THEN first ELSE later]]

(* Whether signatures and witnesses are good is VerifyBatch's subject. *)
MCReplays(txns, entries) ==
  \A i \in 1..Len(entries) : IsSigned(txns[i]) => entries[i].sig.sig # <<6>>

Block(root, chain, txns, entries) ==
  [old_root |-> root, old_inbox_chain |-> chain, txns |-> txns, entries |-> entries]
    @@ replay(root, chain, txns, entries)

BlockOf(txns, sig, first, later) ==
  Block(GENESIS_ROOT, INBOX_CHAIN_GENESIS, txns,
        [i \in 1..Len(txns) |-> Entry(txns[i], sig, first, later)])

-----------------------------------------------------------------------------
(* Every batch of two, with witnesses of both kinds; every batch of three that
   could be told from another only by its references. *)
AnyBlock ==
  {BlockOf(txns, Ed25519, Funded, Displaced) : txns \in SeqOf(Txns, 2)}
    \cup {BlockOf(txns, Managed, Displaced, Funded) : txns \in SeqOf(Txns, 2)}
    \cup {BlockOf(txns, Ed25519, Fresh, Fresh) :
            txns \in [1..3 -> {Deposit(A, 0), Deposit(B, 4), Withdrawal(A, A, 2, 0),
                               Payment(B, A, 7, 0), ForcedWithdrawal(B, A)}]}

Payouts == BlockOf(<<Deposit(A, 4), Withdrawal(A, A, 2, 3), ForcedWithdrawal(A, <<2, 0>>)>>,
                  Ed25519, Funded, Fresh)

(* Blocks that claim to land elsewhere, do not replay, or start elsewhere. *)
Wrong ==
  {[Payouts EXCEPT !.new_root = Payouts.old_root],
   [Payouts EXCEPT !.new_inbox_chain = << >>],
   [Payouts EXCEPT !.withdrawal_chain = Tail(@)],
   BlockOf(<<Payment(A, B, 1, 5)>>, Forged, Funded, Fresh),
   Block(Payouts.new_root, Payouts.new_inbox_chain, << >>, << >>),
   Block(GENESIS_ROOT, Payouts.new_inbox_chain, << >>, << >>)}

Deposits == BlockOf(<<Deposit(A, 0), Deposit(A, 0), Deposit(A, 0)>>, Managed, Fresh, Fresh)
Empty == BlockOf(<< >>, Managed, Fresh, Fresh)

ProbedBlocks ==
  {Payouts, Deposits, Empty,
   BlockOf(<<Payment(A, B, 7, 0), Payment(B, A, 1, 5)>>, Managed, Funded, Fresh),
   BlockOf(<<ForcedWithdrawal(A, A), Payment(B, A, 0, 0)>>, Ed25519, Fresh, Displaced),
   BlockOf(<<Withdrawal(B, <<1, 2>>, 2, 0), Deposit(A, 4)>>, Ed25519, Displaced, Fresh)}

MCBlocksOf ==
  [deposits |-> {Deposits, Empty}, payouts |-> {Payouts}, wrong |-> Wrong \cup {Payouts},
   any |-> AnyBlock, probed |-> ProbedBlocks]

MCAllScenarios == <<"deposits", "payouts">>

Args(names, prove, report) ==
  [parsed |-> "run", names |-> names, prove |-> prove, report |-> report]
MCArguments ==
  {[Args(<< >>, TRUE, FALSE) EXCEPT !.parsed = "list"],
   [Args(<<"payouts">>, TRUE, FALSE) EXCEPT !.parsed = "bad"],
   Args(<< >>, FALSE, FALSE), Args(<< >>, TRUE, FALSE), Args(<< >>, FALSE, TRUE),
   Args(<<"any">>, FALSE, FALSE), Args(<<"probed">>, FALSE, FALSE),
   Args(<<"payouts", "nosuch">>, TRUE, FALSE),
   Args(<<"payouts", "wrong", "deposits">>, TRUE, TRUE),
   Args(<<"wrong", "payouts", "payouts">>, TRUE, FALSE)}

-----------------------------------------------------------------------------
(* One byte changed, dropped, inserted or held back; a number written with a
   byte more than it needs; an address written out where it stands; the bytes
   of another block. *)
MCRespelt(bytes) ==
  LET before(i) == SubSeq(bytes, 1, i - 1)
      after(i) == SubSeq(bytes, i + 1, Len(bytes))
      places == 1..Len(bytes)
  IN {before(i) \o <<x>> \o after(i) : i \in places, x \in Byte}
       \cup {before(i) \o <<x>> \o SubSeq(bytes, i, Len(bytes)) :
               i \in 1..(Len(bytes) + 1), x \in Byte}
       \cup {before(i) \o after(i) : i \in places}
       \cup {before(i) : i \in places}
       \cup {before(i) \o <<bytes[i] + BASE, 0>> \o after(i) :
               i \in {j \in places : bytes[j] < BASE}}
       \cup {before(i) \o <<0>> \o x \o after(i) : i \in places, x \in {A, B}}
       \cup UNION {{Batch_encode(b.txns), Sidecar_encode(b.entries)} : b \in ProbedBlocks}
=============================================================================
