-------------------------------- MODULE Host --------------------------------
(***************************************************************************)
(* crates/sp1-host: a run of the settlement host, from its arguments to    *)
(* the fixtures it writes.  For each scenario asked for it builds a block, *)
(* writes it to its two wire halves, runs the guest on the bytes, and may  *)
(* buy a proof of that run on the prover network.                          *)
(*                                                                         *)
(* What a replay makes of a batch is module VerifyBatch's subject; here    *)
(* the root it lands on is the batch and the sidecar it was given, so that *)
(* two replays that were told different things land on different roots.    *)
(* A commitment to bytes is the bytes.                                     *)
(*                                                                         *)
(* The network, the zkVM and the file system fail when they like, and the  *)
(* process can be killed between any two steps: proving takes minutes.     *)
(* Hand is not the host's: whoever sequences may publish any bytes and     *)
(* hand a prover any sidecar.                                              *)
(***************************************************************************)
EXTENDS Codec

CONSTANTS
  Replays(_, _),   \* whether a batch with this sidecar replays at all
  Domain,          \* the deployment the fixtures are for
  AllScenarios,    \* the names --list shows, in order
  HeavyScenarios,  \* the names that are found but never listed
  BlocksOf,        \* the blocks a scenario may build
  Arguments,       \* command lines tried: how they parse, the names, and whether
                   \* to prove and report
  Probed,          \* scenarios whose bytes are also tried in other spellings
  Respelt(_)       \* the byte strings tried in place of one

(* A block as Ledger::get_block hands it over: an entry for every transaction,
   with a witness for every slot it writes, and no more transactions than can
   each be referred to twice. *)
IsBlock(b) ==
  /\ b.txns \in Seq(Transaction) /\ b.entries \in Seq(TxnSidecar)
  /\ Len(b.entries) = Len(b.txns) /\ 2 * Len(b.txns) <= MAX_U64
  /\ \A i \in 1..Len(b.txns) : KindsMatch(b.txns[i], b.entries[i])

(* Every scenario that is found can be built. *)
ASSUME HostAssumption ==
  /\ HeavyScenarios \subseteq DOMAIN BlocksOf
  /\ AllScenarios \in Seq(DOMAIN BlocksOf)
  /\ \A x \in Arguments : x.names \in Seq(STRING)
  /\ \A name \in DOMAIN BlocksOf : \A b \in BlocksOf[name] : IsBlock(b)

VARIABLES
  args,            \* the command line
  stage,           \* how far the run is with the scenario in hand, or how it ended
  why,             \* the call that ended it with an error, or "none"
  block,           \* the block of the scenario in hand
  settlement,      \* Settlement::for_block of it
  proof,           \* the proof bought for it
  bought,          \* every proof accepted from the network
  artifacts,       \* contracts/fixtures/proofs: the fixture on disk by scenario
  emitted,         \* the fixtures of the combined document
  handed           \* the bytes somebody else published and gave to a prover

vars == <<args, stage, why, block, settlement, proof, bought, artifacts,
          emitted, handed>>

Nothing == << >>
GENESIS_ROOT == << >>

-----------------------------------------------------------------------------
(* payment_rollup::execute. *)
replay(old_root, inbox_anchor, txns, entries) ==
  LET folded[n \in 0..Len(txns)] ==
        IF n = 0 THEN [inbox |-> inbox_anchor, payouts |-> << >>]
        ELSE [inbox |-> NextInbox(txns[n], folded[n - 1].inbox),
              payouts |-> NextPayouts(txns[n], entries[n], folded[n - 1].payouts)]
      end == folded[Len(txns)]
  IN [new_root |-> IF txns = << >> THEN old_root
                   ELSE [from |-> old_root, txns |-> txns, entries |-> entries],
      new_inbox_chain |-> end.inbox,
      withdrawal_chain |-> withdrawal_chain(end.payouts)]

batch_commitment(domain, batch_bytes) == <<domain, batch_bytes>>

public_values(domain, old_root, batch_bytes, old_inbox_chain, landed) ==
  [old_root |-> old_root, new_root |-> landed.new_root,
   batch_commitment |-> batch_commitment(domain, batch_bytes),
   old_inbox_chain |-> old_inbox_chain,
   new_inbox_chain |-> landed.new_inbox_chain,
   withdrawal_chain |-> landed.withdrawal_chain]

Executed(domain, old_root, inbox_anchor, batch_bytes, batch, sidecar) ==
  IF ~Good(batch) \/ ~Good(sidecar) \/ ~Replays(batch.out, sidecar.out) THEN Nothing
  ELSE public_values(domain, old_root, batch_bytes, inbox_anchor,
                     replay(old_root, inbox_anchor, batch.out, sidecar.out))

execute(domain, old_root, inbox_anchor, batch_bytes, sidecar_bytes) ==
  LET batch == Batch_decode(batch_bytes)
  IN Executed(domain, old_root, inbox_anchor, batch_bytes, batch,
              Sidecar_decode(sidecar_bytes, batch.out))

(* The guest's io is positional: five reads, in the order of the five writes. *)
guest_main(stdin) == execute(stdin[1], stdin[2], stdin[3], stdin[4], stdin[5])

\* Bug: the two byte strings are written in the other order.
stdin_swapped(s) ==
  <<s.domain, s.old_root, s.old_inbox_chain, s.sidecar_bytes, s.batch_bytes>>

stdin_for(s) ==
  <<s.domain, s.old_root, s.old_inbox_chain, s.batch_bytes, s.sidecar_bytes>>

-----------------------------------------------------------------------------
(* Settlement::for_block: everything after the encoding reads only the bytes. *)
InboxItems(txns) ==
  LET item(txn) == IF txn.kind = "deposit"
                   THEN [kind |-> "d", address |-> txn.destination,
                         recipient |-> NoRecipient, amount |-> txn.amount]
                   ELSE [kind |-> "w", address |-> txn.sender,
                         recipient |-> txn.destination, amount |-> 0]
      listed[n \in 0..Len(txns)] ==
        IF n = 0 THEN << >>
        ELSE IF txns[n].kind \in {"deposit", "forced"}
             THEN Append(listed[n - 1], item(txns[n])) ELSE listed[n - 1]
  IN listed[Len(txns)]

OfKind(items, kind) == SelectSeq(items, LAMBDA item : item.kind = kind)

\* Bug: the views are joined, and the order between the kinds is lost.
InboxByKind(txns) == OfKind(InboxItems(txns), "d") \o OfKind(InboxItems(txns), "w")

Inbox(txns) == InboxItems(txns)

(* The guest is not told where to land, so landing elsewhere than the block
   claims is a real disagreement. *)
LandsAsClaimed(b, values) ==
  /\ values # Nothing
  /\ values.new_root = b.new_root
  /\ values.new_inbox_chain = b.new_inbox_chain
  /\ values.withdrawal_chain = b.withdrawal_chain

Collected(b, batch_bytes, sidecar_bytes, values, txns) ==
  [domain |-> Domain, old_root |-> b.old_root, old_inbox_chain |-> b.old_inbox_chain,
   inbox |-> Inbox(txns),
   withdrawals |-> withdrawal_payouts(txns, Sidecar_decode(sidecar_bytes, txns).out),
   txn_count |-> Len(b.txns), batch_bytes |-> batch_bytes,
   sidecar_bytes |-> sidecar_bytes, public_values |-> values]

Settled(b, batch_bytes, sidecar_bytes, values) ==
  IF LandsAsClaimed(b, values)
  THEN Collected(b, batch_bytes, sidecar_bytes, values, Batch_decode(batch_bytes).out)
  ELSE Nothing

for_block(b) ==
  LET batch_bytes == Batch_encode(b.txns)
      sidecar_bytes == Sidecar_encode(b.entries)
  IN Settled(b, batch_bytes, sidecar_bytes,
             execute(Domain, b.old_root, b.old_inbox_chain, batch_bytes, sidecar_bytes))

settles_from_genesis(s) ==
  s.old_root = GENESIS_ROOT /\ s.old_inbox_chain = INBOX_CHAIN_GENESIS

-----------------------------------------------------------------------------
(* run(). *)
find(name) == name \in HeavyScenarios \/ \E i \in 1..Len(AllScenarios) : AllScenarios[i] = name

AllFound == \A i \in 1..Len(args.names) : find(args.names[i])

Selected == IF args.names = << >> THEN AllScenarios ELSE args.names

Name == Selected[Len(emitted) + 1]

InProgress == stage \in {"start", "next", "settled", "reported", "proved"}

Stop(call) ==
  /\ stage' = "failed" /\ why' = call

(* Every proof is a paid request, so the scenarios to prove are named. *)
NamesGiven == args.prove => args.names # << >>

(* Setting up the prover or the executor: no credential, no network, or a build
   without either. *)
SetUpFails == (args.prove \/ args.report) /\ Stop("setup")

Start ==
  /\ stage = "start"
  /\ \/ args.parsed = "list" /\ stage' = "done" /\ UNCHANGED why
     \/ args.parsed = "bad" /\ Stop("parse_args")
     \/ args.parsed = "run" /\ ~NamesGiven /\ Stop("args")
     \/ args.parsed = "run" /\ NamesGiven /\ ~AllFound /\ Stop("find")
     \/ /\ args.parsed = "run" /\ NamesGiven /\ AllFound
        /\ SetUpFails \/ (stage' = "next" /\ UNCHANGED why)
  /\ UNCHANGED <<args, block, settlement, proof, bought, artifacts, emitted, handed>>

Settle ==
  /\ stage = "next" /\ Len(emitted) < Len(Selected)
  /\ \E b \in BlocksOf[Name] : block' = b /\ settlement' = for_block(b)
  /\ \/ settlement' = Nothing /\ Stop("for_block")
     \/ settlement' # Nothing /\ ~settles_from_genesis(settlement') /\ Stop("genesis")
     \/ /\ settlement' # Nothing /\ settles_from_genesis(settlement')
        /\ stage' = "settled" /\ UNCHANGED why
  /\ UNCHANGED <<args, proof, bought, artifacts, emitted, handed>>

(* What a zkVM that has drifted from the native build commits. *)
Drifted(values) ==
  [values EXCEPT !.new_root = [from |-> @, txns |-> << >>, entries |-> << >>]]

(* What running the guest in the zkVM commits: nothing if the run fails. *)
Committed(stdin) == {guest_main(stdin), Nothing, Drifted(settlement.public_values)}

Agrees(values) == values = settlement.public_values

Report ==
  /\ stage = "settled" /\ args.report
  /\ \E values \in Committed(stdin_for(settlement)) :
       IF Agrees(values) THEN stage' = "reported" /\ UNCHANGED why ELSE Stop("report")
  /\ UNCHANGED <<args, block, settlement, proof, bought, artifacts, emitted, handed>>

(* The proof commits what the native replay produced, or it is not taken. *)
Accept(values) == Agrees(values)

ReadyToProve == stage = (IF args.report THEN "reported" ELSE "settled")

Prove ==
  /\ ReadyToProve /\ args.prove
  /\ \E values \in Committed(stdin_for(settlement)) :
       IF Accept(values)
       THEN /\ proof' = [name |-> Name, values |-> values]
            /\ bought' = Append(bought, proof')
            /\ stage' = "proved" /\ UNCHANGED why
       ELSE Stop("prove") /\ UNCHANGED <<proof, bought>>
  /\ UNCHANGED <<args, block, settlement, artifacts, emitted, handed>>

Fixture == [name |-> Name, settlement |-> settlement, proof |-> proof]

\* Bug: proofs are left to the combined document at the end.
KeepInMemory ==
  /\ stage = "proved"
  /\ emitted' = Append(emitted, Fixture) /\ proof' = Nothing
  /\ stage' = "next"
  /\ UNCHANGED <<args, why, block, settlement, bought, artifacts, handed>>

(* The file is emptied before it is written, so a write that fails or is cut
   short leaves what was there or nothing that can be read. *)
WriteCutShort == artifacts' \in {artifacts, [artifacts EXCEPT ![Name] = Nothing]}

(* A proved scenario goes to a file of its own before the next one begins. *)
Keep ==
  /\ stage = "proved"
  /\ \/ /\ artifacts' = [artifacts EXCEPT ![Name] = Fixture]
        /\ emitted' = Append(emitted, Fixture) /\ proof' = Nothing
        /\ stage' = "next" /\ UNCHANGED why
     \/ WriteCutShort /\ Stop("write_json") /\ UNCHANGED <<emitted, proof>>
  /\ UNCHANGED <<args, block, settlement, bought, handed>>

Emit ==
  /\ ReadyToProve /\ ~args.prove
  /\ emitted' = Append(emitted, Fixture)
  /\ stage' = "next"
  /\ UNCHANGED <<args, why, block, settlement, proof, bought, artifacts, handed>>

Document ==
  /\ stage = "next" /\ Len(emitted) = Len(Selected)
  /\ \/ stage' = "done" /\ UNCHANGED why
     \/ Stop("write_json")
  /\ UNCHANGED <<args, block, settlement, proof, bought, artifacts, emitted, handed>>

Kill ==
  /\ InProgress
  /\ stage' = "killed"
  /\ IF stage = "proved" THEN WriteCutShort ELSE UNCHANGED artifacts
  /\ UNCHANGED <<args, why, block, settlement, proof, bought, emitted, handed>>

(* Bytes with room for no more addresses than a u64 can refer to. *)
Addressable(bytes) == Len(bytes) <= MAX_U64 * (WORD + 1)

Hand ==
  /\ stage = "settled" /\ Name \in Probed
  /\ \/ \E bytes \in Respelt(settlement.batch_bytes) :
          /\ bytes \in Seq(Byte) /\ Addressable(bytes)
          /\ handed' = [batch |-> bytes, sidecar |-> settlement.sidecar_bytes]
     \/ \E bytes \in Respelt(settlement.sidecar_bytes) :
          /\ bytes \in Seq(Byte)
          /\ handed' = [batch |-> settlement.batch_bytes, sidecar |-> bytes]
  /\ stage' = "elsewhere"
  /\ UNCHANGED <<args, why, block, settlement, proof, bought, artifacts, emitted>>

Init ==
  /\ args \in Arguments
  /\ stage = "start" /\ why = "none"
  /\ block = Nothing /\ settlement = Nothing /\ proof = Nothing
  /\ bought = << >> /\ emitted = << >>
  /\ artifacts = [n \in DOMAIN BlocksOf |-> Nothing]
  /\ handed = Nothing

Next == Start \/ Settle \/ Report \/ Prove \/ Keep \/ Emit \/ Document \/ Kill \/ Hand

Spec == Init /\ [][Next]_vars

-----------------------------------------------------------------------------
(* What the ledger knows of its block without any bytes. *)
Honest(b) ==
  LET landed == replay(b.old_root, b.old_inbox_chain, b.txns, b.entries)
  IN /\ Replays(b.txns, b.entries)
     /\ b.new_root = landed.new_root
     /\ b.new_inbox_chain = landed.new_inbox_chain
     /\ b.withdrawal_chain = landed.withdrawal_chain

(* A block that verifies in memory survives the wire: encoded, decoded by the
   guest against the dictionary it rebuilds as it goes, with the sidecar read
   in the shapes the decoded batch dictates, it settles; and a block that lies
   about where it lands never does. *)
OnlyTrueBlocksSettle ==
  /\ why = "for_block" => ~Honest(block)
  /\ stage = "settled" => Honest(block)

(* The lists the host gives whoever drives L1 are the ones the proof commits
   to: submitting the inbox in the order listed reaches the chain the batch
   folds to, and making the payouts in order drains the chain it queues. *)
ListsDriveL1 ==
  stage = "settled" =>
    /\ settlement.public_values.new_inbox_chain
         = settlement.old_inbox_chain \o settlement.inbox
    /\ settlement.public_values.withdrawal_chain
         = withdrawal_chain(settlement.withdrawals)

(* The guest, fed as the host feeds it, commits the public values the host has
   computed natively. *)
GuestAgrees ==
  stage = "settled" => guest_main(stdin_for(settlement)) = settlement.public_values

(* However a batch is spelt, Batch::decode reads one batch out of it: what it
   accepts the encoder writes shorter, or just so, and that reads the same. *)
EncoderIsShortest ==
  handed # Nothing /\ Good(Batch_decode(handed.batch)) =>
    LET txns == Batch_decode(handed.batch).out
        again == Batch_encode(txns)
    IN /\ Good(Batch_decode(again)) /\ Batch_decode(again).out = txns
       /\ again = handed.batch \/ Len(again) < Len(handed.batch)

(* Nothing that is a batch goes on to be another: no chunk a sequencer holds
   back or adds at the end leaves bytes that still decode. *)
NoBatchWithinABatch ==
  handed # Nothing /\ Good(Batch_decode(handed.batch)) =>
    \A n \in 0..(Len(handed.batch) - 1) :
      ~Good(Batch_decode(SubSeq(handed.batch, 1, n)))

(* The dictionary holds rollup addresses only: whatever was decoded, an L1
   recipient's bytes are in it only where a transaction also names them as a
   rollup address, so no reference turns the one into the other. *)
NamespacesApart ==
  handed # Nothing =>
    LET read == Batch_decode(handed.batch)
        named(txn) == {txn.sender} \cup
                      (IF txn.kind \in {"PAY", "deposit"} THEN {txn.destination} ELSE {})
    IN Good(read) =>
         \A i \in 1..Len(read.seen) :
           \E k \in 1..Len(read.out) : read.seen[i] \in named(read.out[k])

(* "a sidecar that does not line up with it is rejected here rather than
   reaching verify_batch misaligned" (Sidecar::decode): a sidecar accepted
   beside a batch has an entry of the right shape for every transaction, and
   nothing besides: the encoder writes those entries shorter, or just so. *)
SidecarLinesUp ==
  handed # Nothing =>
    LET txns == Batch_decode(handed.batch).out
        read == Sidecar_decode(handed.sidecar, txns)
        again == Sidecar_encode(read.out)
    IN Good(Batch_decode(handed.batch)) /\ Good(read) =>
         /\ Len(read.out) = Len(txns)
         /\ \A i \in 1..Len(txns) : KindsMatch(txns[i], read.out[i])
         /\ again = handed.sidecar \/ Len(again) < Len(handed.sidecar)

(* "A paid proof is useful only if its exact batch, public values, and verifier
   configuration survive with it": wherever the run ends, killed or failed, for
   every scenario but the one in hand the proof bought last is on disk beside
   the block it proves. *)
PaidProofsKept ==
  \A i \in 1..Len(bought) :
    \/ proof # Nothing /\ proof.name = bought[i].name
    \/ LET kept == artifacts[bought[i].name]
       IN /\ kept # Nothing /\ kept.name = bought[i].name
          /\ kept.proof.values = kept.settlement.public_values
=============================================================================
