------------------------------- MODULE Codec -------------------------------
(***************************************************************************)
(* crates/payment-rollup/src/codec.rs: the bytes a batch is recorded as on *)
(* the settlement chain, and the bytes its sidecar is handed to the prover *)
(* as.  The guest and every replaying node learn what the transactions are *)
(* from Batch_decode and from nothing else.                                *)
(*                                                                         *)
(* A byte is a number below 2 * BASE, a byte string a sequence of them;    *)
(* BASE is the 128 of LEB128, WORD the 32 bytes of an address or a digest, *)
(* U64_SIZE the 8 of a u64.  Nothing in a buffer says where a field ends,  *)
(* so a misplaced read yields whatever bytes are there, as in the code.    *)
(*                                                                         *)
(* A reader is the unread rest, what the last read returned, the address   *)
(* dictionary, and the error that ended the decoding, if one did: every    *)
(* read of a reader with an error returns it unchanged, which is what `?'  *)
(* does.                                                                   *)
(***************************************************************************)
EXTENDS VerifyBatch

CONSTANTS
  BASE,            \* half the number of bytes: what a varint byte carries
  WORD,            \* bytes of an address or a digest
  U64_SIZE,        \* bytes of a big-endian u64
  DEPTH,           \* of the Merkle tree, and the longest proof
  IdentifierOf     \* the bytes a scheme is written as

Byte == 0..(2 * BASE - 1)
Word == [1..WORD -> Byte]

Powers(base, len) ==
  LET power[n \in 0..len] == IF n = 0 THEN 1 ELSE base * power[n - 1]
  IN power

SCHEME_SIZE == Len(IdentifierOf["man"])

ASSUME CodecAssumption ==
  /\ BASE \in Nat \ {0, 1} /\ WORD \in Nat \ {0} /\ U64_SIZE \in Nat \ {0}
  /\ DEPTH \in 0..MAX_U64
  /\ MAX_U64 + 1 = Powers(2 * BASE, U64_SIZE)[U64_SIZE]
  /\ MAX_U64 < Powers(BASE, WORD)[WORD]     \* no varint is longer than an address
  /\ Addresses \cup L1Accounts \subseteq Word /\ NoKey \notin Word
  /\ IdentifierOf \in [Schemes -> Seq(Byte)]
  /\ \A s \in Schemes : Len(IdentifierOf[s]) = SCHEME_SIZE
  /\ \A s, t \in Schemes : IdentifierOf[s] = IdentifierOf[t] => s = t

VERSION == 1                      \* of the batch's format and of the sidecar's
KIND_PAYMENT == 0
KIND_DEPOSIT == 1
KIND_WITHDRAWAL == 2
KIND_FORCED_WITHDRAWAL == 3
ABSENT == 0
PRESENT == 1
SLOT_OWN == 0
SLOT_NEIGHBOR == 1
MIN_ENCODED_WITNESS_SIZE == 1 + 1 + 1
MIN_ENCODED_TXN_SIZE_OF_A_PAYMENT == 1 + 1 + 1 + 1 + 1   \* Bug: the wrong minimum.
MIN_ENCODED_TXN_SIZE == 1 + 1 + 1
MIN_ENCODED_ENTRY_SIZE == MIN_ENCODED_WITNESS_SIZE
ENCODED_ACCOUNT_SIZE == 2 * U64_SIZE + WORD

-----------------------------------------------------------------------------
(* What the types of lib.rs and merkle.rs hold, whatever it means. *)
Transaction ==
  [kind : {"PAY", "WDR"}, sender : Word, destination : Word, amount : U64, fee : U64]
    \cup [kind : {"deposit"}, sender : {ZERO_ADDRESS}, destination : Word,
          amount : U64, fee : {0}]
    \cup [kind : {"forced"}, sender : Word, destination : Word, amount : {0}, fee : {0}]

StoredAccount == [nonce : U64, amount : U64, auth_address : Word]

(* A witness's neighbour, if somebody else is in the slot. *)
OwnSlot == << >>
Slot == {OwnSlot} \cup [address : Word, account : StoredAccount]

LeafWitness ==
  [old_account : {NoAccount} \cup StoredAccount,
   siblings : {s \in Seq(Word) : Len(s) <= DEPTH},
   slot : Slot]

Buffer == {bytes \in Seq(Byte) : Len(bytes) <= MAX_U64}

TxnSidecar ==
  [kind : {"PAY", "WDR"}, witnesses : Seq(LeafWitness),
   sig : [scheme : Schemes, pub_key : Buffer, sig : Buffer]]
    \cup [kind : {"deposit", "forced"}, witnesses : Seq(LeafWitness), sig : {<< >>}]

-----------------------------------------------------------------------------
(* What is left of a value after each of the first shifts by one digit. *)
Shifted(value, base, len) ==
  LET left[n \in 0..len] == IF n = 0 THEN value ELSE left[n - 1] \div base
  IN left

(* Writing.  A number has as many base-BASE digits as it needs, least first,
   each but the last with the continuation bit. *)
put_varint(value) ==
  LET left == Shifted(value, BASE, value + 1)
      size == CHOOSE n \in 1..(value + 1) :
                left[n] = 0 /\ \A m \in 1..(n - 1) : left[m] # 0
  IN [i \in 1..size |-> (left[i - 1] % BASE) + (IF i < size THEN BASE ELSE 0)]

put_bytes(bytes) == put_varint(Len(bytes)) \o bytes

to_be_bytes(value) ==
  LET left == Shifted(value, 2 * BASE, U64_SIZE)
  IN [i \in 1..U64_SIZE |-> left[U64_SIZE - i] % (2 * BASE)]

Account_encode(account) ==
  to_be_bytes(account.nonce) \o to_be_bytes(account.amount) \o account.auth_address

(* The encoder: what is written and the addresses written so far, each at the
   position it will be referred to by. *)
EmptyBuffer == [buf |-> << >>, seen |-> << >>]

Extend(w, bytes) == [buf |-> w.buf \o bytes, seen |-> w.seen]

Mentioned(seen, address) == \E i \in 1..Len(seen) : seen[i] = address
Position(seen, address) == CHOOSE i \in 1..Len(seen) : seen[i] = address

\* Bug: a new address takes the position before its own.
Dictionary_put_zero_based(w, address) ==
  IF Mentioned(w.seen, address)
  THEN Extend(w, put_varint(Position(w.seen, address) - 1))
  ELSE [buf |-> w.buf \o <<0>> \o address, seen |-> Append(w.seen, address)]

(* References are one-based; zero says that a literal follows. *)
Dictionary_put(w, address) ==
  IF Mentioned(w.seen, address) THEN Extend(w, put_varint(Position(w.seen, address)))
  ELSE [buf |-> w.buf \o <<0>> \o address, seen |-> Append(w.seen, address)]

put_transaction(w, txn) ==
  CASE txn.kind = "PAY" ->
         LET sent == Dictionary_put(Extend(w, <<KIND_PAYMENT>>), txn.sender)
             received == Dictionary_put(Extend(sent, put_varint(txn.fee)),
                                        txn.destination)
         IN Extend(received, put_varint(txn.amount))
    [] txn.kind = "deposit" ->
         Extend(Dictionary_put(Extend(w, <<KIND_DEPOSIT>>), txn.destination),
                put_varint(txn.amount))
    [] txn.kind = "WDR" ->
         Extend(Dictionary_put(Extend(w, <<KIND_WITHDRAWAL>>), txn.sender),
                put_varint(txn.fee) \o txn.destination \o put_varint(txn.amount))
    [] txn.kind = "forced" ->
         Extend(Dictionary_put(Extend(w, <<KIND_FORCED_WITHDRAWAL>>), txn.sender),
                txn.destination)

Batch_encode(txns) ==
  LET written[n \in 0..Len(txns)] ==
        IF n = 0 THEN Extend(EmptyBuffer, <<VERSION>> \o put_varint(Len(txns)))
        ELSE put_transaction(written[n - 1], txns[n])
  IN written[Len(txns)].buf

(* A witness: the account its slot held or NoAccount, the siblings on the way,
   and the neighbour in the slot, if it is not the account's own. *)
put_account(account) ==
  IF account = NoAccount THEN <<ABSENT>> ELSE <<PRESENT>> \o Account_encode(account)

put_slot(slot) ==
  IF slot = OwnSlot THEN <<SLOT_OWN>>
  ELSE <<SLOT_NEIGHBOR>> \o slot.address \o Account_encode(slot.account)

Concat(strings) ==
  LET joined[n \in 0..Len(strings)] ==
        IF n = 0 THEN << >> ELSE joined[n - 1] \o strings[n]
  IN joined[Len(strings)]

put_witness(w) ==
  put_account(w.old_account)
    \o put_varint(Len(w.siblings)) \o Concat(w.siblings) \o put_slot(w.slot)

put_signature(sig) ==
  IdentifierOf[sig.scheme] \o put_bytes(sig.pub_key) \o put_bytes(sig.sig)

put_entry(entry) ==
  (IF entry.kind \in {"PAY", "WDR"} THEN put_signature(entry.sig) ELSE << >>)
    \o Concat([i \in 1..Len(entry.witnesses) |-> put_witness(entry.witnesses[i])])

Sidecar_encode(entries) ==
  <<VERSION>> \o put_varint(Len(entries))
    \o Concat([i \in 1..Len(entries) |-> put_entry(entries[i])])

-----------------------------------------------------------------------------
(* Reading. *)
Reader(bytes) ==
  [val |-> << >>, rest |-> bytes, seen |-> << >>, out |-> << >>, err |-> "none"]

Good(r) == r.err = "none"
Fail(r, error) ==
  [val |-> r.val, rest |-> r.rest, seen |-> r.seen, out |-> r.out, err |-> error]

(* The reader once it has read `val' and `rest' is left. *)
Took(r, val, rest) ==
  [val |-> val, rest |-> rest, seen |-> r.seen, out |-> r.out, err |-> r.err]

(* The reader once it has made `val' of what it last read. *)
Made(r, val) == Took(r, val, r.rest)

take(r, len) ==
  IF ~Good(r) THEN r
  ELSE IF Len(r.rest) < len THEN Fail(r, "UnexpectedEnd")
  ELSE Took(r, SubSeq(r.rest, 1, len), SubSeq(r.rest, len + 1, Len(r.rest)))

FirstByte(r) == IF Good(r) THEN Made(r, r.val[1]) ELSE r
byte(r) == FirstByte(take(r, 1))

Payload(b) == IF b < BASE THEN b ELSE b - BASE

(* The payload of the i-th byte does not fit a u64 at its place. *)
Overflows(bytes, i) ==
  LET weight == Powers(BASE, i - 1)[i - 1]
  IN weight > MAX_U64 \/ Payload(bytes[i]) > MAX_U64 \div weight

(* The number in the last n of the first `size' payloads. *)
Payloads(bytes, size) ==
  LET last[n \in 0..size] ==
        IF n = 0 THEN 0 ELSE Payload(bytes[size - n + 1]) + (BASE * last[n - 1])
  IN last

(* The loop ends at the first byte without the continuation bit or whose payload
   does not fit, whichever comes first. *)
Ends(bytes, i) == bytes[i] < BASE \/ Overflows(bytes, i)

EndsFirst(bytes, i) == Ends(bytes, i) /\ \A j \in 1..(i - 1) : ~Ends(bytes, j)

varintOf(r, size) ==
  IF Overflows(r.rest, size) THEN Fail(r, "MalformedVarint")
  ELSE Took(r, Payloads(r.rest, size)[size], SubSeq(r.rest, size + 1, Len(r.rest)))

varint(r) ==
  IF ~Good(r) THEN r
  ELSE IF \A i \in 1..Len(r.rest) : ~Ends(r.rest, i) THEN Fail(r, "UnexpectedEnd")
  ELSE varintOf(r, CHOOSE i \in 1..Len(r.rest) : EndsFirst(r.rest, i))

IsVersion(r) == IF Good(r) /\ r.val # VERSION THEN Fail(r, "UnsupportedVersion") ELSE r
expect_version(r) == IsVersion(byte(r))

(* A count that what is left could hold, so that it is safe to reserve for. *)
Plausible(r, stride) ==
  IF Good(r) /\ r.val * stride > Len(r.rest) THEN Fail(r, "ImplausibleLength") ELSE r
count(r, stride) == Plausible(varint(r), stride)

takeCounted(r) == IF Good(r) THEN take(r, r.val) ELSE r
take_bytes(r) == takeCounted(count(r, 1))

\* Bug: bytes after the last transaction go unnoticed.
finishAnywhere(r) == r

finish(r) == IF Good(r) /\ r.rest # << >> THEN Fail(r, "TrailingBytes") ELSE r

from_be_bytes(bytes) ==
  LET read[n \in 0..U64_SIZE] ==
        IF n = 0 THEN 0 ELSE (2 * BASE * read[n - 1]) + bytes[n]
  IN read[U64_SIZE]

Account_decode(bytes) ==
  [nonce |-> from_be_bytes(SubSeq(bytes, 1, U64_SIZE)),
   amount |-> from_be_bytes(SubSeq(bytes, U64_SIZE + 1, 2 * U64_SIZE)),
   auth_address |-> SubSeq(bytes, 2 * U64_SIZE + 1, ENCODED_ACCOUNT_SIZE)]

AccountOf(r) == IF Good(r) THEN Made(r, Account_decode(r.val)) ELSE r
take_account(r) == AccountOf(take(r, ENCODED_ACCOUNT_SIZE))

(* A literal joins the dictionary, again if it is there already. *)
Remember(r) ==
  IF Good(r)
  THEN [val |-> r.val, rest |-> r.rest, seen |-> Append(r.seen, r.val), out |-> r.out,
        err |-> r.err]
  ELSE r

Resolve(r) ==
  IF ~Good(r) THEN r
  ELSE IF r.val = 0 THEN Remember(take(r, WORD))
  ELSE IF r.val > Len(r.seen) THEN Fail(r, "UnknownAddressRef")
  ELSE Made(r, r.seen[r.val])

DictionaryReader_take(r) == Resolve(varint(r))

\* Bug: an L1 recipient joins the dictionary of rollup addresses.
take_recipient_remembered(r) == Remember(take(r, WORD))

(* An L1 recipient is read as it stands, never through the dictionary. *)
take_recipient(r) == take(r, WORD)

TaggedAccount(r) ==
  IF ~Good(r) THEN r
  ELSE CASE r.val = ABSENT -> Made(r, NoAccount)
         [] r.val = PRESENT -> take_account(r)
         [] OTHER -> Fail(r, "UnknownPresenceTag")
take_optional_account(r) == TaggedAccount(byte(r))

NamedScheme(r) ==
  LET named == {s \in Schemes : IdentifierOf[s] = r.val}
  IN IF ~Good(r) THEN r
     ELSE IF named = {} THEN Fail(r, "UnknownScheme")
     ELSE Made(r, CHOOSE s \in named : TRUE)
take_scheme(r) == NamedScheme(take(r, SCHEME_SIZE))

Words(bytes) ==
  [i \in 1..(Len(bytes) \div WORD) |-> SubSeq(bytes, (i - 1) * WORD + 1, i * WORD)]
Cut(r) == IF Good(r) THEN Made(r, Words(r.val)) ELSE r
SiblingsOf(r) ==
  IF ~Good(r) THEN r
  ELSE IF r.val > DEPTH THEN Fail(r, "ProofTooDeep")
  ELSE Cut(take(r, r.val * WORD))
take_siblings(r) == SiblingsOf(count(r, WORD))

Neighbor_decode(bytes) ==
  [address |-> SubSeq(bytes, 1, WORD),
   account |-> Account_decode(SubSeq(bytes, WORD + 1, Len(bytes)))]
NeighborOf(r) == IF Good(r) THEN Made(r, Neighbor_decode(r.val)) ELSE r
SlotOf(r) ==
  IF ~Good(r) THEN r
  ELSE CASE r.val = SLOT_OWN -> Made(r, OwnSlot)
         [] r.val = SLOT_NEIGHBOR -> NeighborOf(take(r, WORD + ENCODED_ACCOUNT_SIZE))
         [] OTHER -> Fail(r, "UnknownSlotKind")
take_slot(r) == SlotOf(byte(r))

-----------------------------------------------------------------------------
(* A transaction and a sidecar entry are fields in a fixed order. *)
take_field(r, field) ==
  CASE field = "address"   -> DictionaryReader_take(r)
    [] field = "number"    -> varint(r)
    [] field = "recipient" -> take_recipient(r)
    [] field = "scheme"    -> take_scheme(r)
    [] field = "bytes"     -> take_bytes(r)
    [] field = "account"   -> take_optional_account(r)
    [] field = "siblings"  -> take_siblings(r)
    [] field = "slot"      -> take_slot(r)

Collect(before, after) == Made(after, Append(before.val, after.val))

add_field(r, field) == Collect(r, take_field(r, field))

take_fields(r, layout) ==
  LET read[n \in 0..Len(layout)] ==
        IF n = 0 THEN Made(r, << >>)
        ELSE add_field(read[n - 1], layout[n])
  IN read[Len(layout)]

Push(r, item) ==
  [val |-> r.val, rest |-> r.rest, seen |-> r.seen, out |-> Append(r.out, item),
   err |-> r.err]

Kinds == KIND_PAYMENT..KIND_FORCED_WITHDRAWAL

TransactionLayout(kind) ==
  CASE kind = KIND_PAYMENT           -> <<"address", "number", "address", "number">>
    [] kind = KIND_DEPOSIT           -> <<"address", "number">>
    [] kind = KIND_WITHDRAWAL        -> <<"address", "number", "recipient", "number">>
    [] kind = KIND_FORCED_WITHDRAWAL -> <<"address", "recipient">>

TransactionOf(kind, f) ==
  CASE kind = KIND_PAYMENT           -> Payment(f[1], f[3], f[4], f[2])
    [] kind = KIND_DEPOSIT           -> Deposit(f[1], f[2])
    [] kind = KIND_WITHDRAWAL        -> Withdrawal(f[1], f[3], f[4], f[2])
    [] kind = KIND_FORCED_WITHDRAWAL -> ForcedWithdrawal(f[1], f[2])

PushTransaction(r, kind) == IF Good(r) THEN Push(r, TransactionOf(kind, r.val)) ELSE r

TransactionAfter(r) ==
  IF ~Good(r) THEN r
  ELSE IF r.val \notin Kinds THEN Fail(r, "UnknownTransactionKind")
  ELSE PushTransaction(take_fields(r, TransactionLayout(r.val)), r.val)
take_transaction(r) == TransactionAfter(byte(r))

TransactionsOf(header) ==
  LET read[n \in 0..header.val] ==
        IF n = 0 THEN header ELSE take_transaction(read[n - 1])
  IN IF Good(header) THEN finish(read[header.val]) ELSE header

Batch_decode(bytes) ==
  TransactionsOf(count(expect_version(Reader(bytes)), MIN_ENCODED_TXN_SIZE))

-----------------------------------------------------------------------------
(* One entry in the shape its transaction calls for: a signature if somebody
   had to authorize it, and a witness for every slot it writes. *)
SignatureLayout(txn) ==
  IF txn.kind \in {"PAY", "WDR"} THEN <<"scheme", "bytes", "bytes">> ELSE << >>

WitnessLayout == <<"account", "siblings", "slot">>

EntryLayout(txn) ==
  SignatureLayout(txn) \o Concat([i \in 1..Len(WrittenSlots(txn)) |-> WitnessLayout])

EntryOf(txn, f) ==
  LET signed == Len(SignatureLayout(txn))
      witness(i) == LET at == signed + 3 * (i - 1)
                    IN [old_account |-> f[at + 1], siblings |-> f[at + 2], slot |-> f[at + 3]]
  IN [kind |-> txn.kind,
      sig |-> IF signed = 0 THEN << >> ELSE [scheme |-> f[1], pub_key |-> f[2], sig |-> f[3]],
      witnesses |-> [i \in 1..Len(WrittenSlots(txn)) |-> witness(i)]]

PushEntry(r, txn) == IF Good(r) THEN Push(r, EntryOf(txn, r.val)) ELSE r
take_entry(r, txn) == PushEntry(take_fields(r, EntryLayout(txn)), txn)

\* Bug: the sidecar says how many entries there are.
countMismatchIgnored(found, txns) == FALSE

LengthMismatch(found, txns) == found # Len(txns)

EntriesOf(header, txns) ==
  LET read[n \in 0..Len(txns)] ==
        IF n = 0 THEN header ELSE take_entry(read[n - 1], txns[n])
  IN IF ~Good(header) THEN header
     ELSE IF LengthMismatch(header.val, txns) THEN Fail(header, "SidecarLengthMismatch")
     ELSE finish(read[Len(txns)])

Sidecar_decode(bytes, txns) ==
  EntriesOf(count(expect_version(Reader(bytes)), MIN_ENCODED_ENTRY_SIZE), txns)
=============================================================================
