---------------------------- MODULE Host_proofs -----------------------------
(***************************************************************************)
(* The sidecar's half of the wire format, and a run of the host, for every *)
(* set of scenarios, command line and outcome of the external calls.       *)
(*                                                                         *)
(* The sidecar is proved as the batch is in Codec_proofs: which bytes      *)
(* spell an entry beside a transaction, that they are read and nothing     *)
(* else is, and that an entry is written no longer than it was spelt.  A   *)
(* block that the types of lib.rs can hold therefore survives its two wire *)
(* halves, and Settlement::for_block goes by what the block says of        *)
(* itself.                                                                 *)
(*                                                                         *)
(* A run that fails, or is killed between two steps or in the middle of a  *)
(* write, has every proof it paid for on disk but the one in hand; and the *)
(* guest commits what the host computed natively.                          *)
(***************************************************************************)
EXTENDS Host, Codec_proofs

-----------------------------------------------------------------------------
(* Sidecars.  The fields of an entry: no address is among them. *)
TransactionKinds == {"PAY", "WDR", "deposit", "forced"}

EntryFields == {"scheme", "bytes", "account", "siblings", "slot"}

(* Where the elements of a joint are. *)
LEMMA JoinedAt ==
  ASSUME NEW S, NEW c \in Seq(S), NEW t \in Seq(S)
  PROVE  /\ c \o t \in Seq(S) /\ Len(c) \in Nat /\ Len(t) \in Nat
         /\ Len(c \o t) = Len(c) + Len(t)
         /\ \A i \in 1..Len(c) : (c \o t)[i] = c[i]
         /\ \A i \in 1..Len(t) : (c \o t)[Len(c) + i] = t[i]
<1> DEFINE s == c \o t
<1>1. /\ s \in Seq(S) /\ Len(c) \in Nat /\ Len(t) \in Nat /\ Len(s) = Len(c) + Len(t)
      /\ \A i \in 1..(Len(c) + Len(t)) : s[i] = IF i <= Len(c) THEN c[i] ELSE t[i - Len(c)]
  BY ConcatProperties, LenProperties
<1>. HIDE DEF s
<1>2. ASSUME NEW i \in 1..Len(t) PROVE s[Len(c) + i] = t[i]
  <2>1. /\ Len(c) + i \in 1..(Len(c) + Len(t)) /\ ~(Len(c) + i <= Len(c))
        /\ Len(c) + i - Len(c) = i
    BY <1>1
  <2>. QED BY <1>1, <2>1
<1>3. \A i \in 1..Len(c) : s[i] = c[i]
  BY <1>1
<1>. QED BY <1>1, <1>2, <1>3 DEF s

(* A transaction writes one slot, two or three. *)
LEMMA SlotsAre ==
  ASSUME NEW txn, txn.kind \in TransactionKinds
  PROVE  Len(WrittenSlots(txn)) \in {1, 2, 3}
<1> DEFINE sink == IF txn.fee = 0 THEN << >> ELSE <<FEE_SINK>>
           a == txn.sender
           b == txn.destination
<1>1. sink = << >> \/ \E x : sink = <<x>>
  OBVIOUS
<1>2. WrittenSlots(txn) \in {<<a, b>> \o sink, <<a>> \o sink, <<b>>, <<a>>}
  BY DEF WrittenSlots, TransactionKinds
<1>. HIDE DEF sink, a, b
<1>3. \E S : sink \in Seq(S) /\ <<a, b>> \in Seq(S) /\ <<a>> \in Seq(S) /\ Len(sink) \in {0, 1}
  <2>1. CASE sink = << >>
    <3>1. << >> \in Seq({a, b}) /\ <<a, b>> \in Seq({a, b}) /\ <<a>> \in Seq({a, b})
      OBVIOUS
    <3>. QED BY <2>1, <3>1
  <2>2. CASE \E x : sink = <<x>>
    <3>1. PICK x : sink = <<x>>
      BY <2>2
    <3> DEFINE S == {a, b, x}
    <3>2. <<x>> \in Seq(S) /\ <<a, b>> \in Seq(S) /\ <<a>> \in Seq(S)
      OBVIOUS
    <3>3. Len(sink) = 1
      BY <3>1
    <3>. HIDE DEF S
    <3>. QED BY <3>1, <3>2, <3>3
  <2>. QED BY <1>1, <2>1, <2>2
<1> DEFINE x == <<a, b>>
           y == <<a>>
<1>4. Len(x) = 2 /\ Len(y) = 1 /\ Len(<<b>>) = 1
  OBVIOUS
<1>. HIDE DEF x, y
<1>5. Len(x \o sink) = 2 + Len(sink) /\ Len(y \o sink) = 1 + Len(sink)
  <2>1. PICK S : sink \in Seq(S) /\ x \in Seq(S) /\ y \in Seq(S)
    BY <1>3 DEF x, y
  <2>2. Len(x \o sink) = Len(x) + Len(sink)
    BY <2>1, JoinedAt
  <2>3. Len(y \o sink) = Len(y) + Len(sink)
    BY <2>1, JoinedAt
  <2>. QED BY <1>4, <2>2, <2>3
<1> DEFINE g == WrittenSlots(txn)
<1>6. g = x \o sink \/ g = y \o sink \/ g = <<b>> \/ g = y
  BY <1>2 DEF x, y
<1>7. Len(sink) = 0 \/ Len(sink) = 1
  BY <1>3
<1> DEFINE p == x \o sink
           q == y \o sink
           z == <<b>>
<1>8. /\ Len(p) = 2 + Len(sink) /\ Len(q) = 1 + Len(sink) /\ Len(z) = 1 /\ Len(y) = 1
      /\ g = p \/ g = q \/ g = z \/ g = y
  BY <1>4, <1>5, <1>6
<1>. HIDE DEF g, p, q, z
<1> DEFINE n == Len(sink)
           np == Len(p)
           nq == Len(q)
<1>9. /\ np = 2 \/ np = 3
      /\ nq = 1 \/ nq = 2
  <2>1. np = 2 + n /\ nq = 1 + n /\ (n = 0 \/ n = 1)
    BY <1>7, <1>8
  <2>. HIDE DEF n, np, nq
  <2>. QED BY <2>1
<1>10. Len(g) = 1 \/ Len(g) = 2 \/ Len(g) = 3
  BY <1>8, <1>9
<1>. QED BY <1>10 DEF g

Triples(K) == [i \in 1..K |-> WitnessLayout]

(* The three fields of each witness, one witness after another. *)
LEMMA TriplesAre ==
  ASSUME NEW K \in Nat
  PROVE  LET w == Concat(Triples(K))
         IN /\ w \in Seq(EntryFields) /\ Len(w) = 3 * K
            /\ \A m \in 1..K : /\ w[3 * m - 2] = "account" /\ w[3 * m - 1] = "siblings"
                               /\ w[3 * m] = "slot"
<1> DEFINE s == Triples(K)
           j == Joint(s)
           Holds(i) == /\ j[i] \in Seq(EntryFields) /\ Len(j[i]) = 3 * i
                       /\ \A m \in 1..i : /\ j[i][3 * m - 2] = "account"
                                          /\ j[i][3 * m - 1] = "siblings"
                                          /\ j[i][3 * m] = "slot"
           T == {i \in 0..K : Holds(i)}
           w == WitnessLayout
<1>1. Len(s) = K /\ \A i \in 1..K : s[i] = w
  BY DEF Triples
<1>2. j[0] = << >> /\ Concat(s) = j[K] /\ \A n \in 1..K : j[n] = j[n - 1] \o s[n]
  BY <1>1, JointIs
<1>3. w \in Seq(EntryFields) /\ Len(w) = 3 /\ w[1] = "account" /\ w[2] = "siblings" /\ w[3] = "slot"
  BY DEF WitnessLayout, EntryFields
<1>. HIDE DEF j, s, w
<1>4. 0 \in T
  <2>1. j[0] \in Seq(EntryFields) /\ Len(j[0]) = 3 * 0
    BY <1>2
  <2>2. Holds(0)
    BY <2>1
  <2>. QED BY <2>2
<1>5. ASSUME NEW n \in 0..(K - 1), n \in T PROVE n + 1 \in T
  <2> DEFINE p == j[n]
             q == j[n + 1]
  <2>1. n \in Nat /\ n + 1 \in 1..K /\ n + 1 \in 0..K /\ (n + 1) - 1 = n /\ n \in 0..K
    OBVIOUS
  <2>2. q = p \o w
    <3>1. j[n + 1] = j[(n + 1) - 1] \o s[n + 1]
      BY <1>2, <2>1
    <3>. QED BY <1>1, <2>1, <3>1
  <2>3. p \in Seq(EntryFields) /\ Len(p) = 3 * n
    BY <1>5
  <2>4. \A m \in 1..n : p[3 * m - 2] = "account" /\ p[3 * m - 1] = "siblings" /\ p[3 * m] = "slot"
    BY <1>5
  <2>. HIDE DEF p, q
  <2>5. /\ q \in Seq(EntryFields) /\ Len(q) = 3 * n + 3
        /\ \A i \in 1..(3 * n) : q[i] = p[i]
        /\ \A i \in 1..3 : q[3 * n + i] = w[i]
    <3>1. /\ p \o w \in Seq(EntryFields) /\ Len(p \o w) = Len(p) + Len(w)
          /\ \A i \in 1..Len(p) : (p \o w)[i] = p[i]
          /\ \A i \in 1..Len(w) : (p \o w)[Len(p) + i] = w[i]
      <4>1. p \in Seq(EntryFields) /\ w \in Seq(EntryFields)
        BY <1>3, <2>3
      <4>. QED BY <4>1, JoinedAt
    <3>. QED BY <1>3, <2>2, <2>3, <3>1
  <2>6. ASSUME NEW m \in 1..(n + 1)
        PROVE  q[3 * m - 2] = "account" /\ q[3 * m - 1] = "siblings" /\ q[3 * m] = "slot"
    <3>1. CASE m \in 1..n
      <4>1. 3 * m - 2 \in 1..(3 * n) /\ 3 * m - 1 \in 1..(3 * n) /\ 3 * m \in 1..(3 * n)
        BY <2>1, <3>1
      <4>2. q[3 * m - 2] = p[3 * m - 2] /\ q[3 * m - 1] = p[3 * m - 1] /\ q[3 * m] = p[3 * m]
        BY <2>5, <4>1
      <4>. QED BY <2>4, <3>1, <4>2
    <3>2. CASE m = n + 1
      <4>1. 3 * m - 2 = 3 * n + 1 /\ 3 * m - 1 = 3 * n + 2 /\ 3 * m = 3 * n + 3
        BY <2>1, <3>2
      <4>2. q[3 * n + 1] = w[1] /\ q[3 * n + 2] = w[2] /\ q[3 * n + 3] = w[3]
        BY <2>5
      <4>. QED BY <1>3, <4>1, <4>2
    <3>. QED BY <2>1, <3>1, <3>2
  <2>7. Holds(n + 1)
    BY <2>1, <2>5, <2>6 DEF q
  <2>. QED BY <2>1, <2>7
<1>. HIDE DEF T
<1>6. \A n \in 0..K : n \in T
  BY <1>4, <1>5, UpTo
<1>. QED BY <1>2, <1>6 DEF T, s

Slots(txn) == Len(WrittenSlots(txn))
Signature(txn) == Len(SignatureLayout(txn))

(* The layout of an entry: a signature or none, and as many witnesses. *)
LEMMA EntryLayoutIs ==
  ASSUME NEW txn, txn.kind \in TransactionKinds
  PROVE  LET L == EntryLayout(txn)
             s == Signature(txn)
         IN /\ L \in Seq(EntryFields) /\ Slots(txn) \in {1, 2, 3}
            /\ Len(L) = s + 3 * Slots(txn)
            /\ s = 0 \/ (s = 3 /\ L[1] = "scheme" /\ L[2] = "bytes" /\ L[3] = "bytes")
            /\ s = 3 <=> txn.kind \in {"PAY", "WDR"}
            /\ \A m \in 1..Slots(txn) : /\ L[s + 3 * m - 2] = "account"
                                        /\ L[s + 3 * m - 1] = "siblings"
                                        /\ L[s + 3 * m] = "slot"
<1> DEFINE K == Slots(txn)
           s == Signature(txn)
           g == SignatureLayout(txn)
           w == Concat(Triples(K))
           L == EntryLayout(txn)
<1>1. K \in {1, 2, 3}
  BY SlotsAre DEF Slots
<1>2. L = g \o w
  BY DEF EntryLayout, Triples, Slots
<1>3. /\ w \in Seq(EntryFields) /\ Len(w) = 3 * K
      /\ \A m \in 1..K : w[3 * m - 2] = "account" /\ w[3 * m - 1] = "siblings" /\ w[3 * m] = "slot"
  <2>. HIDE DEF K
  <2>1. K \in Nat
    BY <1>1
  <2>. QED BY <2>1, TriplesAre
<1>4. /\ g \in Seq(EntryFields) /\ Len(g) = s
      /\ s = 0 \/ (s = 3 /\ g[1] = "scheme" /\ g[2] = "bytes" /\ g[3] = "bytes")
      /\ s = 3 <=> txn.kind \in {"PAY", "WDR"}
  <2>1. CASE txn.kind \in {"PAY", "WDR"}
    <3>1. g = <<"scheme", "bytes", "bytes">>
      BY <2>1 DEF SignatureLayout
    <3>2. s = Len(g)
      BY DEF Signature
    <3>. HIDE DEF s, g
    <3>. QED BY <2>1, <3>1, <3>2 DEF EntryFields
  <2>2. CASE txn.kind \notin {"PAY", "WDR"}
    <3>1. g = << >>
      BY <2>2 DEF SignatureLayout
    <3>2. s = Len(g)
      BY DEF Signature
    <3>. HIDE DEF s, g
    <3>. QED BY <2>2, <3>1, <3>2 DEF EntryFields
  <2>. QED BY <2>1, <2>2
<1>. HIDE DEF g, w, s, K
<1>5. /\ g \o w \in Seq(EntryFields) /\ Len(g \o w) = Len(g) + Len(w)
      /\ \A i \in 1..Len(g) : (g \o w)[i] = g[i]
      /\ \A i \in 1..Len(w) : (g \o w)[Len(g) + i] = w[i]
  BY <1>3, <1>4, JoinedAt
<1>6. /\ L \in Seq(EntryFields) /\ Len(L) = s + 3 * K
      /\ \A i \in 1..s : L[i] = g[i]
      /\ \A i \in 1..(3 * K) : L[s + i] = w[i]
  BY <1>2, <1>3, <1>4, <1>5
<1>. HIDE DEF L
<1>7. s = 0 \/ (s = 3 /\ L[1] = "scheme" /\ L[2] = "bytes" /\ L[3] = "bytes")
  BY <1>4, <1>6
<1>8. ASSUME NEW m \in 1..K
      PROVE  L[s + 3 * m - 2] = "account" /\ L[s + 3 * m - 1] = "siblings" /\ L[s + 3 * m] = "slot"
  <2>1. 3 * m - 2 \in 1..(3 * K) /\ 3 * m - 1 \in 1..(3 * K) /\ 3 * m \in 1..(3 * K)
    BY <1>1
  <2>2. s + (3 * m - 2) = s + 3 * m - 2 /\ s + (3 * m - 1) = s + 3 * m - 1
    BY <1>1, <1>4
  <2>3. /\ L[s + (3 * m - 2)] = w[3 * m - 2] /\ L[s + (3 * m - 1)] = w[3 * m - 1]
        /\ L[s + 3 * m] = w[3 * m]
    BY <1>6, <2>1
  <2>. QED BY <1>3, <2>2, <2>3
<1>. QED BY <1>1, <1>4, <1>6, <1>7, <1>8 DEF L, s, K

Unseen(layout) == [n \in 0..Len(layout) |-> << >>]

EntryChunks(layout, vs) == [n \in 1..Len(layout) |-> FieldBytes(layout[n], vs[n])]

(* The fields of an entry, written one after another, spell their values, and
   the dictionary stays empty. *)
LEMMA EntryTrace ==
  ASSUME NEW layout \in Seq(EntryFields), NEW vs,
         \A n \in 1..Len(layout) : Typed(layout[n], vs[n])
  PROVE  FieldTrace(layout, EntryChunks(layout, vs), vs, Unseen(layout))
<1> DEFINE N == Len(layout)
           cs == EntryChunks(layout, vs)
           ss == Unseen(layout)
           e == << >>
<1>1. N \in Nat /\ \A n \in 1..N : layout[n] \in EntryFields
  BY ElementOfSeq, LenProperties
<1>2. e \in Seq(Word) /\ Len(e) = 0 /\ 0 <= MAX_U64
  BY Bases
<1>3. Len(cs) = N /\ \A n \in 1..N : cs[n] = FieldBytes(layout[n], vs[n])
  BY <1>1 DEF EntryChunks
<1>4. \A n \in 0..N : ss[n] = e
  BY DEF Unseen
<1>. HIDE DEF cs, ss, e
<1>5. ASSUME NEW n \in 1..N
      PROVE  cs[n] \in Bytes /\ Spelt(layout[n], ss[n - 1], cs[n], vs[n], ss[n])
  <2> DEFINE field == layout[n]
             v == vs[n]
             c == cs[n]
  <2>1. field \in EntryFields /\ Typed(field, v) /\ c = FieldBytes(field, v)
    BY <1>1, <1>3
  <2>2. n - 1 \in 0..N /\ n \in 0..N
    BY <1>1
  <2>3. ss[n - 1] = e /\ ss[n] = e
    BY <1>4, <2>2
  <2>4. field \in Fields /\ field # "address"
    BY <2>1 DEF Fields, EntryFields
  <2>. HIDE DEF field, v, c
  <2>5. FieldChunk(field, e, v) = c /\ FieldAfter(field, e, v) = e
    BY <2>1, <2>4 DEF FieldChunk, FieldAfter
  <2>6. Spelt(field, e, FieldChunk(field, e, v), v, FieldAfter(field, e, v))
    BY <1>2, <2>1, <2>4, FieldWrites
  <2>7. Spelt(field, e, c, v, e)
    BY <2>5, <2>6
  <2>8. c \in Bytes
    <3>1. << >> \in Bytes
      BY NoBytes
    <3>2. c \in Bytes
      BY <1>2, <2>7, <3>1, FieldReads
    <3>. QED BY <3>2
  <2>. QED BY <2>3, <2>7, <2>8 DEF field, v, c
<1>6. \A n \in 0..N : ss[n] \in Seq(Word)
  BY <1>2, <1>4
<1>. HIDE DEF N
<1>7. \A n \in 1..N : cs[n] \in Bytes /\ Spelt(layout[n], ss[n - 1], cs[n], vs[n], ss[n])
  BY <1>5
<1>. QED BY <1>3, <1>6, <1>7 DEF FieldTrace, cs, ss, N

WitnessAt(s, f, m) ==
  [old_account |-> f[s + 3 * m - 2], siblings |-> f[s + 3 * m - 1], slot |-> f[s + 3 * m]]

(* Where the fields of an entry go. *)
LEMMA EntryOfIs ==
  ASSUME NEW txn, txn.kind \in TransactionKinds, NEW f
  PROVE  LET e == EntryOf(txn, f)
         IN /\ e.kind = txn.kind /\ Len(e.witnesses) = Slots(txn)
            /\ \A m \in 1..Slots(txn) : e.witnesses[m] = WitnessAt(Signature(txn), f, m)
            /\ Signature(txn) = 3 => e.sig = [scheme |-> f[1], pub_key |-> f[2], sig |-> f[3]]
<1> DEFINE e == EntryOf(txn, f)
           K == Slots(txn)
           s == Signature(txn)
<1>1. K \in {1, 2, 3} /\ s \in {0, 3}
  BY EntryLayoutIs
<1>2. /\ e.kind = txn.kind
      /\ e.witnesses = [i \in 1..K |->
           [old_account |-> f[(s + 3 * (i - 1)) + 1], siblings |-> f[(s + 3 * (i - 1)) + 2],
            slot |-> f[(s + 3 * (i - 1)) + 3]]]
      /\ s = 3 => e.sig = [scheme |-> f[1], pub_key |-> f[2], sig |-> f[3]]
  BY DEF EntryOf, Signature, Slots
<1>. HIDE DEF K, s, e
<1>3. Len(e.witnesses) = K
  BY <1>1, <1>2
<1>4. ASSUME NEW m \in 1..K PROVE e.witnesses[m] = WitnessAt(s, f, m)
  <2>1. /\ (s + 3 * (m - 1)) + 1 = s + 3 * m - 2 /\ (s + 3 * (m - 1)) + 2 = s + 3 * m - 1
        /\ (s + 3 * (m - 1)) + 3 = s + 3 * m
    BY <1>1
  <2>2. e.witnesses[m] =
           [old_account |-> f[(s + 3 * (m - 1)) + 1], siblings |-> f[(s + 3 * (m - 1)) + 2],
            slot |-> f[(s + 3 * (m - 1)) + 3]]
    BY <1>2
  <2>. QED BY <2>1, <2>2 DEF WitnessAt
<1>. QED BY <1>2, <1>3, <1>4 DEF e, K, s

(* A witness is written as its three fields. *)
LEMMA WitnessPut ==
  ASSUME NEW a, NEW v, NEW p, Typed("account", a), Typed("siblings", v), Typed("slot", p)
  PROVE  LET fa == FieldBytes("account", a)
             fv == FieldBytes("siblings", v)
             fp == FieldBytes("slot", p)
         IN /\ put_witness([old_account |-> a, siblings |-> v, slot |-> p]) = (fa \o fv) \o fp
            /\ fa \in Bytes /\ fv \in Bytes /\ fp \in Bytes
<1> DEFINE w == [old_account |-> a, siblings |-> v, slot |-> p]
           fa == put_account(a)
           fn == put_varint(Len(v))
           fc == Concat(v)
           fp == put_slot(p)
           L == <<"account", "siblings", "slot">>
           f == <<a, v, p>>
<1>1. put_witness(w) = ((fa \o fn) \o fc) \o fp
  BY DEF put_witness
<1>2. /\ FieldBytes("account", a) = fa /\ FieldBytes("siblings", v) = fn \o fc
      /\ FieldBytes("slot", p) = fp
  BY FieldBytesIs
<1>3. fn \in Bytes /\ fc \in Bytes
  <2>1. v \in Seq(Word) /\ Number(fn, Len(v))
    BY DEF Typed, Writable
  <2>2. fn \in Bytes
    BY <2>1 DEF Number
  <2>. QED BY <2>1, <2>2, WordsJoined
<1>4. \A n \in 1..3 : FieldBytes(L[n], f[n]) \in Bytes
  <2>1. L \in Seq(EntryFields) /\ Len(L) = 3
    BY DEF EntryFields
  <2>2. \A n \in 1..Len(L) : Typed(L[n], f[n])
    OBVIOUS
  <2>3. FieldTrace(L, EntryChunks(L, f), f, Unseen(L))
    <3>. HIDE DEF L, f
    <3>. QED BY <2>1, <2>2, EntryTrace
  <2>4. \A n \in 1..3 : EntryChunks(L, f)[n] \in Bytes
    BY <2>1, <2>3 DEF FieldTrace
  <2>5. \A n \in 1..3 : EntryChunks(L, f)[n] = FieldBytes(L[n], f[n])
    BY <2>1 DEF EntryChunks
  <2>. HIDE DEF L, f
  <2>. QED BY <2>4, <2>5
<1>5. fa \in Bytes /\ fp \in Bytes
  <2>1. FieldBytes(L[1], f[1]) \in Bytes /\ FieldBytes(L[3], f[3]) \in Bytes
    BY <1>4
  <2>2. L[1] = "account" /\ f[1] = a /\ L[3] = "slot" /\ f[3] = p
    OBVIOUS
  <2>. HIDE DEF L, f, fa, fp
  <2>. QED BY <1>2, <2>1, <2>2
<1>. HIDE DEF fa, fn, fc, fp
<1>6. (fa \o fn) \o fc = fa \o (fn \o fc)
  BY <1>3, <1>5, Regrouped
<1>7. fn \o fc \in Bytes
  BY <1>3, BytesJoined
<1>. QED BY <1>1, <1>2, <1>5, <1>6, <1>7

(* One more witness. *)
ThreeBehind(j, a, b, c) == ((j \o a) \o b) \o c = j \o ((a \o b) \o c)

(* Three strings can be joined behind others from either end. *)
LEMMA Thrice ==
  ASSUME NEW j \in Bytes, NEW a \in Bytes, NEW b \in Bytes, NEW c \in Bytes
  PROVE  ThreeBehind(j, a, b, c)
<1>1. j \o a \in Bytes /\ a \o b \in Bytes
  BY BytesJoined
<1>2. (j \o a) \o b = j \o (a \o b)
  BY Regrouped
<1> DEFINE x == a \o b
<1>3. x \in Bytes
  BY <1>1
<1>. HIDE DEF x
<1>4. (j \o x) \o c = j \o (x \o c)
  BY <1>3, Regrouped
<1>. QED BY <1>2, <1>4 DEF x, ThreeBehind

EntryTyped(txn, vs) ==
  \A n \in 1..Len(EntryLayout(txn)) : Typed(EntryLayout(txn)[n], vs[n])

(* A signature is written as its three fields, and an entry without one starts
   with nothing. *)
LEMMA SignaturePut ==
  ASSUME NEW txn, txn.kind \in TransactionKinds, NEW vs, EntryTyped(txn, vs), NEW f,
         \A n \in 1..Len(EntryLayout(txn)) : f[n] = vs[n]
  PROVE  LET ds == EntryChunks(EntryLayout(txn), vs)
             e == EntryOf(txn, f)
         IN (IF e.kind \in {"PAY", "WDR"} THEN put_signature(e.sig) ELSE << >>)
              = Joint(ds)[Signature(txn)]
<1> DEFINE L == EntryLayout(txn)
           N == Len(L)
           ds == EntryChunks(L, vs)
           e == EntryOf(txn, f)
           s == Signature(txn)
           j == Joint(ds)
           g == IF e.kind \in {"PAY", "WDR"} THEN put_signature(e.sig) ELSE << >>
<1>1. /\ L \in Seq(EntryFields) /\ N = s + 3 * Slots(txn) /\ Slots(txn) \in {1, 2, 3}
      /\ s = 0 \/ (s = 3 /\ L[1] = "scheme" /\ L[2] = "bytes" /\ L[3] = "bytes")
      /\ s = 3 <=> txn.kind \in {"PAY", "WDR"}
  BY EntryLayoutIs
<1>2. e.kind = txn.kind /\ (s = 3 => e.sig = [scheme |-> f[1], pub_key |-> f[2], sig |-> f[3]])
  BY EntryOfIs
<1>3. N \in Nat /\ Len(ds) = N /\ \A n \in 1..N : ds[n] = FieldBytes(L[n], vs[n])
  BY <1>1 DEF EntryChunks
<1>4. j[0] = << >> /\ \A n \in 1..N : j[n] = j[n - 1] \o ds[n]
  <2>. HIDE DEF ds, N
  <2>. QED BY <1>3, JointIs
<1>5. \A n \in 1..N : ds[n] \in Bytes
  <2>1. FieldTrace(L, ds, vs, Unseen(L))
    <3>. HIDE DEF L
    <3>. QED BY <1>1, EntryTrace DEF EntryTyped, L
  <2>. QED BY <2>1 DEF FieldTrace
<1>. HIDE DEF j, ds, e, L, s
<1>6. ASSUME s = 0 PROVE g = j[s]
  BY <1>1, <1>2, <1>4, <1>6
<1>7. ASSUME s = 3 PROVE g = j[s]
  <2>1. 1 \in 1..N /\ 2 \in 1..N /\ 3 \in 1..N
    BY <1>1, <1>7
  <2>2. j[1] = j[0] \o ds[1] /\ j[2] = j[1] \o ds[2] /\ j[3] = j[2] \o ds[3]
    <3>1. j[1] = j[1 - 1] \o ds[1] /\ j[2] = j[2 - 1] \o ds[2] /\ j[3] = j[3 - 1] \o ds[3]
      BY <1>4, <2>1
    <3>2. 1 - 1 = 0 /\ 2 - 1 = 1 /\ 3 - 1 = 2
      OBVIOUS
    <3>. QED BY <3>1, <3>2
  <2>3. ds[1] \in Bytes
    BY <1>5, <2>1
  <2>4. << >> \o ds[1] = ds[1]
    <3> DEFINE d == ds[1]
    <3>1. d \in Seq(Byte)
      BY <2>3 DEF Bytes
    <3>. HIDE DEF d
    <3>2. << >> \o d = d
      BY <3>1, EmptySeq
    <3>. QED BY <3>2 DEF d
  <2>5. j[3] = (ds[1] \o ds[2]) \o ds[3]
    BY <1>4, <2>2, <2>4
  <2>6. /\ ds[1] = FieldBytes("scheme", f[1]) /\ ds[2] = FieldBytes("bytes", f[2])
        /\ ds[3] = FieldBytes("bytes", f[3])
    BY <1>1, <1>3, <1>7, <2>1 DEF L
  <2>7. put_signature(e.sig) = (IdentifierOf[f[1]] \o put_bytes(f[2])) \o put_bytes(f[3])
    <3> DEFINE r == [scheme |-> f[1], pub_key |-> f[2], sig |-> f[3]]
    <3>1. e.sig = r
      BY <1>2, <1>7
    <3>2. put_signature(r) = (IdentifierOf[f[1]] \o put_bytes(f[2])) \o put_bytes(f[3])
      BY DEF put_signature
    <3>. HIDE DEF r
    <3>. QED BY <3>1, <3>2
  <2>8. /\ FieldBytes("scheme", f[1]) = IdentifierOf[f[1]]
        /\ FieldBytes("bytes", f[2]) = put_bytes(f[2])
        /\ FieldBytes("bytes", f[3]) = put_bytes(f[3])
    BY FieldBytesIs
  <2>9. put_signature(e.sig) = j[3]
    BY <2>5, <2>6, <2>7, <2>8
  <2>10. g = put_signature(e.sig)
    BY <1>1, <1>2, <1>7
  <2>. HIDE DEF g
  <2>. QED BY <1>7, <2>9, <2>10
<1>. HIDE DEF g
<1>8. g = j[s]
  BY <1>1, <1>6, <1>7
<1>. QED BY <1>8 DEF g, j, ds, e, L, s

(* put_entry writes the fields of the layout, one after another. *)
LEMMA EntryPut ==
  ASSUME NEW txn, txn.kind \in TransactionKinds, NEW vs, EntryTyped(txn, vs)
  PROVE  LET L == EntryLayout(txn)
         IN put_entry(EntryOf(txn, First(vs, Len(L)))) = Concat(EntryChunks(L, vs))
<1> DEFINE L == EntryLayout(txn)
           N == Len(L)
           f == First(vs, N)
           ds == EntryChunks(L, vs)
           e == EntryOf(txn, f)
           s == Signature(txn)
           K == Slots(txn)
           j == Joint(ds)
           g == IF e.kind \in {"PAY", "WDR"} THEN put_signature(e.sig) ELSE << >>
           ws == [i \in 1..Len(e.witnesses) |-> put_witness(e.witnesses[i])]
           J == Joint(ws)
<1>1. /\ L \in Seq(EntryFields) /\ N = s + 3 * K /\ K \in {1, 2, 3} /\ s \in {0, 3}
      /\ \A m \in 1..K : /\ L[s + 3 * m - 2] = "account" /\ L[s + 3 * m - 1] = "siblings"
                         /\ L[s + 3 * m] = "slot"
  BY EntryLayoutIs
<1>2. \A n \in 1..N : f[n] = vs[n]
  BY DEF First
<1>3. /\ Len(e.witnesses) = K
      /\ \A m \in 1..K : e.witnesses[m] = WitnessAt(s, f, m)
  BY EntryOfIs
<1>4. N \in Nat /\ Len(ds) = N /\ \A n \in 1..N : ds[n] = FieldBytes(L[n], vs[n])
  BY <1>1 DEF EntryChunks
<1>5. \A n \in 1..N : ds[n] \in Bytes /\ Typed(L[n], vs[n])
  <2>1. FieldTrace(L, ds, vs, Unseen(L))
    <3>. HIDE DEF L
    <3>. QED BY <1>1, EntryTrace DEF EntryTyped, L
  <2>. QED BY <2>1 DEF FieldTrace, EntryTyped
<1>6. Concat(ds) = j[N] /\ \A n \in 1..N : j[n] = j[n - 1] \o ds[n]
  <2>. HIDE DEF ds, N
  <2>. QED BY <1>4, JointIs
<1>7. \A n \in 0..N : j[n] \in Bytes
  <2>1. Len(ds) \in Nat /\ \A n \in 1..Len(ds) : ds[n] \in Bytes
    BY <1>4, <1>5
  <2>. HIDE DEF ds, N
  <2>. QED BY <1>4, <2>1, JointBytes
<1>8. g = j[s]
  <2>. HIDE DEF f
  <2>. QED BY <1>2, SignaturePut
<1>9. Len(ws) = K /\ \A m \in 1..K : ws[m] = put_witness(e.witnesses[m])
  BY <1>1, <1>3
<1>10. put_entry(e) = g \o Concat(ws)
  BY DEF put_entry
<1>11. J[0] = << >> /\ Concat(ws) = J[K] /\ \A n \in 1..K : J[n] = J[n - 1] \o ws[n]
  <2>. HIDE DEF ws, K
  <2>1. Len(ws) \in Nat
    BY <1>1, <1>9
  <2>. QED BY <1>9, <2>1, JointIs
<1>. HIDE DEF L, N, f, ds, e, s, K, j, g, ws, J
<1>12. ASSUME NEW m \in 1..K
       PROVE  ws[m] \in Bytes /\ j[s + 3 * m] = j[s + 3 * (m - 1)] \o ws[m]
  <2> DEFINE x == s + 3 * m - 2
             y == s + 3 * m - 1
             z == s + 3 * m
             w == s + 3 * (m - 1)
             a == FieldBytes("account", vs[x])
             b == FieldBytes("siblings", vs[y])
             c == FieldBytes("slot", vs[z])
  <2>1. /\ x \in 1..N /\ y \in 1..N /\ z \in 1..N /\ w \in 0..N
        /\ x - 1 = w /\ y - 1 = x /\ z - 1 = y
    BY <1>1
  <2>2. L[x] = "account" /\ L[y] = "siblings" /\ L[z] = "slot"
    BY <1>1
  <2>3. WitnessAt(s, f, m) = [old_account |-> f[x], siblings |-> f[y], slot |-> f[z]]
    BY DEF WitnessAt
  <2>. HIDE DEF x, y, z, w
  <2>4. ds[x] = a /\ ds[y] = b /\ ds[z] = c
    BY <1>4, <2>1, <2>2
  <2>5. ws[m] = put_witness([old_account |-> vs[x], siblings |-> vs[y], slot |-> vs[z]])
    BY <1>2, <1>3, <1>9, <2>1, <2>3
  <2>6. Typed("account", vs[x]) /\ Typed("siblings", vs[y]) /\ Typed("slot", vs[z])
    BY <1>5, <2>1, <2>2
  <2>7. ws[m] = (a \o b) \o c /\ a \in Bytes /\ b \in Bytes /\ c \in Bytes
    <3> DEFINE v == vs[x]
               p == vs[y]
               q == vs[z]
               r == [old_account |-> v, siblings |-> p, slot |-> q]
    <3>1. Typed("account", v) /\ Typed("siblings", p) /\ Typed("slot", q)
      BY <2>6
    <3>. HIDE DEF v, p, q
    <3>2. /\ put_witness(r) = (FieldBytes("account", v) \o FieldBytes("siblings", p))
                                \o FieldBytes("slot", q)
          /\ FieldBytes("account", v) \in Bytes /\ FieldBytes("siblings", p) \in Bytes
          /\ FieldBytes("slot", q) \in Bytes
      BY <3>1, WitnessPut
    <3>3. ws[m] = put_witness(r)
      BY <2>5 DEF v, p, q
    <3>. HIDE DEF r
    <3>. QED BY <3>2, <3>3 DEF v, p, q
  <2>8. j[x] = j[w] \o ds[x] /\ j[y] = j[x] \o ds[y] /\ j[z] = j[y] \o ds[z]
    <3>1. j[x] = j[x - 1] \o ds[x] /\ j[y] = j[y - 1] \o ds[y] /\ j[z] = j[z - 1] \o ds[z]
      BY <1>6, <2>1
    <3>. QED BY <2>1, <3>1
  <2>. HIDE DEF a, b, c
  <2>9. j[z] = ((j[w] \o a) \o b) \o c
    BY <2>4, <2>8
  <2>10. j[w] \in Bytes
    BY <1>7, <2>1
  <2>11. j[z] = j[w] \o ((a \o b) \o c)
    <3> DEFINE k == j[w]
    <3>1. k \in Bytes /\ a \in Bytes /\ b \in Bytes /\ c \in Bytes
      BY <2>7, <2>10
    <3>. HIDE DEF k
    <3>2. ThreeBehind(k, a, b, c)
      BY <3>1, Thrice
    <3>. QED BY <2>9, <3>2 DEF k, ThreeBehind
  <2>12. (a \o b) \o c \in Bytes
    <3>1. a \o b \in Bytes
      BY <2>7, BytesJoined
    <3> DEFINE k == a \o b
    <3>2. k \in Bytes /\ c \in Bytes
      BY <2>7, <3>1
    <3>. HIDE DEF k
    <3>3. k \o c \in Bytes
      BY <3>2, BytesJoined
    <3>. QED BY <3>3 DEF k
  <2>. QED BY <2>7, <2>11, <2>12 DEF z, w
<1> DEFINE T == {m \in 0..K : J[m] \in Bytes /\ j[s + 3 * m] = g \o J[m]}
<1>13. 0 \in T
  <2>1. s + 3 * 0 = s /\ s \in 0..N /\ 0 \in 0..K
    BY <1>1
  <2>2. g \in Bytes
    BY <1>7, <1>8, <2>1
  <2>3. g \o << >> = g
    BY <2>2, BehindNothing
  <2>. QED BY <1>8, <1>11, <2>1, <2>3, NoBytes
<1>14. ASSUME NEW n \in 0..(K - 1), n \in T PROVE n + 1 \in T
  <2> DEFINE m == n + 1
             u == ws[m]
             p == J[n]
  <2>1. m \in 1..K /\ m \in 0..K /\ m - 1 = n /\ K \in Nat
    BY <1>1
  <2>2. J[m] = p \o u
    BY <1>11, <2>1
  <2>3. u \in Bytes /\ j[s + 3 * m] = j[s + 3 * n] \o u
    <3>1. ws[m] \in Bytes /\ j[s + 3 * m] = j[s + 3 * (m - 1)] \o ws[m]
      BY <1>12, <2>1
    <3>. HIDE DEF m
    <3>. QED BY <2>1, <3>1
  <2>4. p \in Bytes /\ j[s + 3 * n] = g \o p
    BY <1>14
  <2>5. g \in Bytes
    BY <1>1, <1>7, <1>8
  <2>. HIDE DEF m, u, p
  <2>6. (g \o p) \o u = g \o (p \o u)
    BY <2>3, <2>4, <2>5, Regrouped
  <2>7. p \o u \in Bytes
    BY <2>3, <2>4, BytesJoined
  <2>8. J[m] \in Bytes /\ j[s + 3 * m] = g \o J[m]
    BY <2>2, <2>3, <2>4, <2>6, <2>7
  <2>9. m \in T
    BY <2>1, <2>8
  <2>. QED BY <2>9 DEF m
<1>. HIDE DEF T
<1>15. \A n \in 0..K : n \in T
  <2>1. K \in Nat
    BY <1>1
  <2>. QED BY <1>13, <1>14, <2>1, UpTo
<1>16. j[N] = g \o Concat(ws)
  <2>1. K \in T
    BY <1>1, <1>15
  <2>2. j[s + 3 * K] = g \o J[K]
    BY <2>1 DEF T
  <2>. QED BY <1>1, <1>11, <2>2
<1>. QED BY <1>6, <1>10, <1>16 DEF L, N, f, ds, e

(* The bytes c spell the entry beside txn. *)
SpeltEntry(txn, c, entry) ==
  \E cs, vs : /\ FieldTrace(EntryLayout(txn), cs, vs, Unseen(EntryLayout(txn)))
              /\ c = Concat(cs)
              /\ entry = EntryOf(txn, First(vs, Len(EntryLayout(txn))))

EntryRead(txn, s, val, out, t, entry) ==
  \E w : take_entry(Rd(s, val, << >>, out), txn) = Rd(t, w, << >>, Append(out, entry))

(* take_entry reads what spells an entry, and leaves what follows. *)
LEMMA EntryReads ==
  ASSUME NEW txn, txn.kind \in TransactionKinds, NEW c, NEW entry, SpeltEntry(txn, c, entry),
         NEW t \in Bytes, NEW val, NEW out
  PROVE  EntryRead(txn, c \o t, val, out, t, entry) /\ c \in Bytes
<1> DEFINE L == EntryLayout(txn)
           N == Len(L)
           e == << >>
           ss == Unseen(L)
<1>1. N \in Nat
  <2>1. L \in Seq(EntryFields)
    BY EntryLayoutIs
  <2>. HIDE DEF L
  <2>. QED BY <2>1, LenProperties
<1>2. PICK cs, vs : FieldTrace(L, cs, vs, ss) /\ c = Concat(cs) /\ entry = EntryOf(txn, First(vs, N))
  BY DEF SpeltEntry
<1> DEFINE w == First(vs, N)
           r == Rd(c \o t, val, e, out)
           p == Rd(t, w, e, out)
<1>3. ss[0] = e /\ ss[N] = e
  BY <1>1 DEF Unseen
<1>. HIDE DEF L, ss, e
<1>4. take_fields(r, L) = p /\ c \in Bytes
  <2>1. Len(L) \in Nat /\ FieldTrace(L, cs, vs, ss)
    BY <1>1, <1>2
  <2>2. take_fields(Rd(Concat(cs) \o t, val, ss[0], out), L)
              = Rd(t, First(vs, Len(L)), ss[Len(L)], out)
    BY <2>1, FieldsRead
  <2>3. Concat(cs) \in Bytes
    BY <2>1, FieldsRead
  <2>. QED BY <1>2, <1>3, <2>2, <2>3
<1>. HIDE DEF w
<1>5. Good(p) /\ p.val = w
  BY RdIs
<1>6. Push(p, entry) = Rd(t, w, e, Append(out, entry))
  BY DEF Push, Rd
<1>. HIDE DEF r, p
<1>7. take_entry(r, txn) = Push(p, entry)
  BY <1>2, <1>4, <1>5 DEF take_entry, PushEntry, w, L
<1>8. take_entry(r, txn) = Rd(t, w, e, Append(out, entry))
  BY <1>6, <1>7
<1>. QED BY <1>4, <1>8 DEF EntryRead, r, e

EntrySplit(txn, s, val, out) ==
  \E c, t \in Bytes : \E entry :
    s = c \o t /\ SpeltEntry(txn, c, entry) /\ EntryRead(txn, s, val, out, t, entry)

(* The layout of an entry is a sequence of fields. *)
LEMMA LayoutFields ==
  ASSUME NEW layout \in Seq(EntryFields)
  PROVE  /\ Len(layout) \in Nat
         /\ \A n \in 1..Len(layout) : layout[n] \in EntryFields /\ layout[n] \in Fields
<1>1. Len(layout) \in Nat /\ \A n \in 1..Len(layout) : layout[n] \in EntryFields
  BY ElementOfSeq, LenProperties
<1>2. EntryFields \subseteq Fields
  BY DEF EntryFields, Fields
<1>. QED BY <1>1, <1>2

(* No field of an entry touches the dictionary. *)
LEMMA StaysUnseen ==
  ASSUME NEW layout \in Seq(EntryFields), NEW cs, NEW vs, NEW seens,
         FieldTrace(layout, cs, vs, seens), seens[0] = << >>
  PROVE  FieldTrace(layout, cs, vs, Unseen(layout)) /\ seens[Len(layout)] = << >>
<1> DEFINE N == Len(layout)
           e == << >>
           T == {n \in 0..N : seens[n] = e}
           ss == Unseen(layout)
<1>1. N \in Nat /\ \A n \in 1..N : layout[n] \in EntryFields
  BY LayoutFields
<1>2. Len(cs) = N /\ \A n \in 1..N : cs[n] \in Bytes /\ Spelt(layout[n], seens[n - 1], cs[n], vs[n], seens[n])
  BY DEF FieldTrace
<1>. HIDE DEF N
<1>3. 0 \in T
  BY <1>1
<1>4. ASSUME NEW n \in 0..(N - 1), n \in T PROVE n + 1 \in T
  <2>1. n + 1 \in 1..N /\ n + 1 \in 0..N /\ (n + 1) - 1 = n
    BY <1>1
  <2> DEFINE field == layout[n + 1]
             sn == seens[n]
             c == cs[n + 1]
             v == vs[n + 1]
             sm == seens[n + 1]
  <2>2. field \in EntryFields
    BY <1>1, <2>1
  <2>3. Spelt(field, sn, c, v, sm)
    <3>1. Spelt(layout[n + 1], seens[(n + 1) - 1], cs[n + 1], vs[n + 1], seens[n + 1])
      BY <1>2, <2>1
    <3>. QED BY <2>1, <3>1
  <2>4. sn = e
    BY <1>4
  <2>. HIDE DEF field, sn, c, v, sm
  <2>5. sm = sn
    BY <2>2, <2>3 DEF Spelt, EntryFields
  <2>6. seens[n + 1] = e
    BY <2>4, <2>5 DEF sm
  <2>. QED BY <2>1, <2>6
<1>. HIDE DEF T
<1>5. \A n \in 0..N : n \in T
  BY <1>1, <1>3, <1>4, UpTo
<1>6. \A n \in 0..N : seens[n] = e
  BY <1>5 DEF T
<1>7. \A n \in 0..N : ss[n] = e
  BY DEF Unseen, N
<1>8. e \in Seq(Word)
  OBVIOUS
<1>. HIDE DEF ss, e
<1>9. ASSUME NEW n \in 1..N
      PROVE  cs[n] \in Bytes /\ Spelt(layout[n], ss[n - 1], cs[n], vs[n], ss[n])
  <2>1. n \in 0..N /\ n - 1 \in 0..N
    BY <1>1
  <2>2. ss[n - 1] = seens[n - 1] /\ ss[n] = seens[n]
    BY <1>6, <1>7, <2>1
  <2>. QED BY <1>2, <2>2
<1>10. \A n \in 0..N : ss[n] \in Seq(Word)
  BY <1>7, <1>8
<1>11. FieldTrace(layout, cs, vs, ss)
  <2>1. Len(cs) = Len(layout) /\ \A n \in 0..Len(layout) : ss[n] \in Seq(Word)
    BY <1>2, <1>10 DEF N
  <2>2. \A n \in 1..Len(layout) : cs[n] \in Bytes /\ Spelt(layout[n], ss[n - 1], cs[n], vs[n], ss[n])
    BY <1>9 DEF N
  <2>. QED BY <2>1, <2>2 DEF FieldTrace
<1>12. seens[N] = e
  BY <1>1, <1>6
<1>. QED BY <1>11, <1>12 DEF ss, N, e

(* And nothing else. *)
LEMMA EntryTaken ==
  ASSUME NEW txn, txn.kind \in TransactionKinds, NEW s \in Bytes, NEW val, NEW out,
         Good(take_entry(Rd(s, val, << >>, out), txn))
  PROVE  EntrySplit(txn, s, val, out)
<1> DEFINE L == EntryLayout(txn)
           N == Len(L)
           e == << >>
           r == Rd(s, val, e, out)
           d == take_entry(r, txn)
           p == take_fields(r, L)
           ss == Unseen(L)
<1>1. L \in Seq(EntryFields)
  BY EntryLayoutIs
<1>2. e \in Seq(Word)
  OBVIOUS
<1>3. d = PushEntry(p, txn)
  BY DEF take_entry
<1>4. Good(p)
  <2>. HIDE DEF p, d
  <2>1. ~Good(p) => PushEntry(p, txn) = p
    BY DEF PushEntry
  <2>2. Good(d)
    BY DEF d
  <2>. QED BY <1>3, <2>1, <2>2
<1>. HIDE DEF L, e
<1>5. N \in Nat /\ \A n \in 1..N : L[n] \in Fields
  BY <1>1, LayoutFields
<1>6. FieldsSplit(L, s, val, e, out)
  BY <1>2, <1>4, <1>5, FieldsTaken
<1>7. PICK cs, vs, seens : \E t \in Bytes :
         /\ seens[0] = e /\ FieldTrace(L, cs, vs, seens) /\ s = Concat(cs) \o t
         /\ p = Rd(t, First(vs, N), seens[N], out)
  BY <1>6 DEF FieldsSplit
<1>8. PICK t \in Bytes :
         /\ seens[0] = e /\ FieldTrace(L, cs, vs, seens) /\ s = Concat(cs) \o t
         /\ p = Rd(t, First(vs, N), seens[N], out)
  BY <1>7
<1> DEFINE w == First(vs, N)
           entry == EntryOf(txn, w)
           c == Concat(cs)
<1>9. FieldTrace(L, cs, vs, ss) /\ seens[N] = e
  <2>1. seens[0] = << >> /\ FieldTrace(L, cs, vs, seens)
    BY <1>8 DEF e
  <2>. HIDE DEF ss
  <2>2. FieldTrace(L, cs, vs, Unseen(L)) /\ seens[Len(L)] = << >>
    BY <1>1, <2>1, StaysUnseen
  <2>. QED BY <2>2 DEF ss, e
<1>10. c \in Bytes
  <2>1. Len(L) \in Nat /\ FieldTrace(L, cs, vs, seens)
    BY <1>5, <1>8
  <2>. QED BY <2>1, FieldsRead
<1>11. SpeltEntry(txn, c, entry)
  BY <1>9 DEF SpeltEntry, L
<1>12. d = Rd(t, w, e, Append(out, entry))
  <2>1. p = Rd(t, w, e, out)
    BY <1>8, <1>9
  <2>. HIDE DEF p, w, d
  <2>2. Good(p) /\ p.val = w
    BY <2>1, RdIs
  <2>3. d = Push(p, entry)
    BY <1>3, <2>2 DEF PushEntry
  <2>4. Push(p, entry) = Rd(t, w, e, Append(out, entry))
    BY <2>1 DEF Push, Rd
  <2>. QED BY <2>3, <2>4
<1>. HIDE DEF w, entry, c
<1>13. EntryRead(txn, s, val, out, t, entry)
  BY <1>12 DEF EntryRead, e
<1>14. s = c \o t
  BY <1>8 DEF c
<1>. QED BY <1>10, <1>11, <1>13, <1>14 DEF EntrySplit

(* After an error no entry is read. *)
LEMMA EntryFails ==
  ASSUME NEW txn, txn.kind \in TransactionKinds, NEW r
  PROVE  Good(take_entry(r, txn)) => Good(r)
<1> DEFINE L == EntryLayout(txn)
           N == Len(L)
           f == ReadFields(r, L)
<1>1. L \in Seq(EntryFields)
  BY EntryLayoutIs
<1>. HIDE DEF L
<1>2. N \in Nat /\ \A n \in 1..N : L[n] \in Fields
  BY <1>1, LayoutFields
<1>3. /\ f[0] = Made(r, << >>) /\ take_fields(r, L) = f[N]
      /\ \A n \in 1..N : f[n] = add_field(f[n - 1], L[n])
  BY <1>2, ReadFieldsIs
<1>4. take_entry(r, txn) = PushEntry(f[N], txn)
  BY <1>3 DEF take_entry, L
<1>5. ASSUME Good(take_entry(r, txn)) PROVE Good(r)
  <2>. HIDE DEF f
  <2>1. Good(f[N])
    <3> DEFINE p == f[N]
    <3>. HIDE DEF p
    <3>1. ~Good(p) => PushEntry(p, txn) = p
      BY DEF PushEntry
    <3>. QED BY <1>4, <1>5, <3>1 DEF p
  <2>2. \A n \in 1..N : Good(f[n]) => Good(f[n - 1])
    BY <1>2, <1>3, AddFieldTaken
  <2>3. \A n \in 0..N : Good(f[n])
    BY <1>2, <2>1, <2>2, GoodBefore
  <2>4. Good(f[0])
    BY <1>2, <2>3
  <2>. QED BY <1>3, <2>4 DEF Made, Took, Good
<1>. QED BY <1>5

Known(txns) ==
  Len(txns) \in Nat /\ \A n \in 1..Len(txns) : txns[n].kind \in TransactionKinds

ReadingEntries(header, txns) ==
  LET read[n \in 0..Len(txns)] ==
        IF n = 0 THEN header ELSE take_entry(read[n - 1], txns[n])
  IN read

(* The loop of Sidecar::decode, one entry beside each transaction. *)
LEMMA ReadingEntriesIs ==
  ASSUME NEW header, NEW txns, Len(txns) \in Nat
  PROVE  LET f == ReadingEntries(header, txns)
         IN /\ f[0] = header
            /\ \A n \in 1..Len(txns) : f[n] = take_entry(f[n - 1], txns[n])
            /\ Good(header) /\ header.val = Len(txns) =>
                 EntriesOf(header, txns) = finish(f[Len(txns)])
            /\ Good(EntriesOf(header, txns)) => Good(header) /\ header.val = Len(txns)
<1> DEFINE Turn(n, x) == take_entry(x, txns[n])
           N == Len(txns)
           f == ReadingEntries(header, txns)
<1>1. \E g : Falls(Turn, g, N, header)
  <2>. HIDE DEF Turn, N
  <2>1. N \in Nat
    BY DEF N
  <2>. QED BY <2>1, FallsExists, SMTT(30)
<1>2. f = [n \in 0..N |-> IF n = 0 THEN header ELSE take_entry(f[n - 1], txns[n])]
  BY <1>1 DEF Falls, ReadingEntries
<1>3. Good(header) /\ header.val = N => EntriesOf(header, txns) = finish(f[N])
  BY DEF EntriesOf, ReadingEntries, LengthMismatch
<1>4. Good(EntriesOf(header, txns)) => Good(header) /\ header.val = N
  <2>1. ~Good(Fail(header, "SidecarLengthMismatch"))
    BY FailIs
  <2>2. ~Good(header) => EntriesOf(header, txns) = header
    BY DEF EntriesOf
  <2>3. Good(header) /\ header.val # N =>
          EntriesOf(header, txns) = Fail(header, "SidecarLengthMismatch")
    BY DEF EntriesOf, LengthMismatch
  <2>. QED BY <2>1, <2>2, <2>3
<1>. HIDE DEF f
<1>5. f[0] = header /\ \A n \in 1..N : f[n] = take_entry(f[n - 1], txns[n])
  BY <1>2
<1>. QED BY <1>3, <1>4, <1>5 DEF f

(* The bytes cs spell the entries es, one beside each transaction. *)
SidecarTrace(txns, es, cs) ==
  /\ Len(cs) = Len(txns)
  /\ \A n \in 1..Len(txns) : cs[n] \in Bytes /\ SpeltEntry(txns[n], cs[n], es[n])

(* Entries spelt one after another are read one after another. *)
LEMMA EntriesRead ==
  ASSUME NEW txns, Known(txns), NEW es, NEW cs, SidecarTrace(txns, es, cs), NEW t \in Bytes,
         NEW val
  PROVE  /\ \E w : ReadingEntries(Rd(Concat(cs) \o t, val, << >>, << >>), txns)[Len(txns)]
                     = Rd(t, w, << >>, First(es, Len(txns)))
         /\ Concat(cs) \in Bytes
<1> DEFINE j == Joint(cs)
           e == << >>
           N == Len(txns)
           R(u, n) == Rd(j[n] \o u, val, e, e)
           T == {n \in 0..N : \A u \in Bytes : \E w :
                   ReadingEntries(R(u, n), txns)[n] = Rd(u, w, e, First(es, n))}
<1>1. N \in Nat /\ Len(cs) = N /\ \A n \in 1..N : txns[n].kind \in TransactionKinds
  BY DEF SidecarTrace, Known
<1>2. j[0] = << >> /\ Concat(cs) = j[N] /\ \A n \in 1..N : j[n] = j[n - 1] \o cs[n]
  <2>. HIDE DEF N
  <2>. QED BY <1>1, JointIs
<1>3. \A n \in 1..N : cs[n] \in Bytes /\ SpeltEntry(txns[n], cs[n], es[n])
  BY DEF SidecarTrace
<1>4. Concat(cs) \in Bytes /\ \A n \in 0..N : j[n] \in Bytes
  <2>1. Len(cs) \in Nat /\ \A n \in 1..Len(cs) : cs[n] \in Bytes
    BY <1>1, <1>3
  <2>. HIDE DEF N
  <2>. QED BY <1>1, <2>1, JointBytes
<1>5. ASSUME NEW r
      PROVE  LET f == ReadingEntries(r, txns)
             IN f[0] = r /\ \A n \in 1..N : f[n] = take_entry(f[n - 1], txns[n])
  BY <1>1, ReadingEntriesIs
<1>. HIDE DEF j, e, N
<1>6. 0 \in T
  <2>1. ASSUME NEW u \in Bytes
        PROVE  \E w : ReadingEntries(R(u, 0), txns)[0] = Rd(u, w, e, First(es, 0))
    <3>1. << >> \o u = u
      BY EmptySeq DEF Bytes
    <3>2. R(u, 0) = Rd(u, val, e, e)
      BY <1>2, <3>1
    <3>3. ReadingEntries(R(u, 0), txns)[0] = Rd(u, val, e, e)
      BY <1>5, <3>2
    <3>4. First(es, 0) = e
      BY DEF First, e
    <3>. HIDE DEF R
    <3>5. ReadingEntries(R(u, 0), txns)[0] = Rd(u, val, e, First(es, 0))
      BY <3>3, <3>4
    <3>. QED BY <3>5
  <2>. HIDE DEF R
  <2>. QED BY <1>1, <2>1
<1>7. ASSUME NEW n \in 0..(N - 1), n \in T PROVE n + 1 \in T
  <2>1. n \in Nat /\ n + 1 \in 1..N /\ n + 1 \in 0..N /\ (n + 1) - 1 = n /\ n \in 0..N
    BY <1>1
  <2>2. ASSUME NEW u \in Bytes
        PROVE  \E w : ReadingEntries(R(u, n + 1), txns)[n + 1] = Rd(u, w, e, First(es, n + 1))
    <3> DEFINE c == cs[n + 1]
               m == n + 1
               x == c \o u
               txn == txns[m]
               entry == es[m]
               p == First(es, n)
    <3>1. c \in Bytes /\ SpeltEntry(txn, c, entry) /\ txn.kind \in TransactionKinds
      BY <1>1, <1>3, <2>1
    <3>2. j[n] \in Bytes
      BY <1>4, <2>1
    <3>3. j[m] = j[n] \o c
      <4>1. j[m] = j[m - 1] \o cs[m]
        BY <1>2, <2>1
      <4>. QED BY <2>1, <4>1
    <3>. HIDE DEF c
    <3>4. x \in Bytes
      BY <3>1, BytesJoined
    <3>5. (j[n] \o c) \o u = j[n] \o x
      BY <3>1, <3>2, Regrouped
    <3>6. R(u, m) = R(x, n)
      BY <3>3, <3>5
    <3>7. PICK v : ReadingEntries(R(x, n), txns)[n] = Rd(x, v, e, p)
      BY <1>7, <3>4
    <3>8. ReadingEntries(R(x, n), txns)[m] = take_entry(ReadingEntries(R(x, n), txns)[n], txn)
      <4>1. ReadingEntries(R(x, n), txns)[m] = take_entry(ReadingEntries(R(x, n), txns)[m - 1], txns[m])
        BY <1>5, <2>1
      <4>. HIDE DEF R
      <4>. QED BY <2>1, <4>1
    <3>. HIDE DEF R
    <3>9. \E w : take_entry(Rd(x, v, e, p), txn) = Rd(u, w, e, Append(p, entry))
      <4>. HIDE DEF p, txn, entry, m
      <4>1. EntryRead(txn, c \o u, v, p, u, entry)
        BY <3>1, EntryReads
      <4>. QED BY <4>1 DEF EntryRead, e
    <3>10. Append(p, entry) = First(es, m)
      BY <2>1, Grown
    <3>11. PICK w : take_entry(Rd(x, v, e, p), txn) = Rd(u, w, e, Append(p, entry))
      BY <3>9
    <3>12. ReadingEntries(R(u, m), txns)[m] = Rd(u, w, e, First(es, m))
      BY <3>6, <3>7, <3>8, <3>10, <3>11
    <3>. QED BY <3>12
  <2>. HIDE DEF R
  <2>. QED BY <2>1, <2>2
<1>. HIDE DEF T
<1>8. \A n \in 0..N : n \in T
  BY <1>1, <1>6, <1>7, UpTo
<1>9. \E w : ReadingEntries(R(t, N), txns)[N] = Rd(t, w, e, First(es, N))
  BY <1>1, <1>8 DEF T
<1>. QED BY <1>2, <1>4, <1>9 DEF e, N

EntriesSplit(txns, s, val) ==
  \E es, cs, w : \E t \in Bytes :
    /\ SidecarTrace(txns, es, cs) /\ s = Concat(cs) \o t
    /\ ReadingEntries(Rd(s, val, << >>, << >>), txns)[Len(txns)]
         = Rd(t, w, << >>, First(es, Len(txns)))

(* Entries that were read were spelt, one after another. *)
LEMMA EntriesTaken ==
  ASSUME NEW txns, Known(txns), NEW s \in Bytes, NEW val,
         Good(ReadingEntries(Rd(s, val, << >>, << >>), txns)[Len(txns)])
  PROVE  EntriesSplit(txns, s, val)
<1> DEFINE e == << >>
           N == Len(txns)
           r == Rd(s, val, e, e)
           f == ReadingEntries(r, txns)
           Sound(q) == q.rest \in Bytes /\ q = Rd(q.rest, q.val, e, q.out)
           T == {n \in 0..N : Sound(f[n])}
           Turn(n, c, entry) ==
             /\ c \in Bytes /\ f[n - 1].rest = c \o f[n].rest
             /\ SpeltEntry(txns[n], c, entry)
             /\ f[n].out = Append(f[n - 1].out, entry)
<1>1. N \in Nat /\ \A n \in 1..N : txns[n].kind \in TransactionKinds
  BY DEF Known
<1>2. f[0] = r /\ \A n \in 1..N : f[n] = take_entry(f[n - 1], txns[n])
  <2>. HIDE DEF r
  <2>. QED BY <1>1, ReadingEntriesIs
<1>3. \A n \in 0..N : Good(f[n])
  <2>1. \A n \in 1..N : Good(f[n]) => Good(f[n - 1])
    BY <1>1, <1>2, EntryFails
  <2>2. Good(f[N])
    OBVIOUS
  <2>. HIDE DEF f, N
  <2>. QED BY <1>1, <2>1, <2>2, GoodBefore
<1>. HIDE DEF f, e, N
<1>4. ASSUME NEW n \in 1..N, Sound(f[n - 1])
      PROVE  Sound(f[n]) /\ \E c, entry : Turn(n, c, entry)
  <2> DEFINE q == f[n - 1]
             w == q.val
             u == q.rest
             o == q.out
             txn == txns[n]
  <2>1. f[n] = take_entry(q, txn) /\ Good(f[n]) /\ txn.kind \in TransactionKinds
    BY <1>1, <1>2, <1>3
  <2>2. u \in Bytes /\ q = Rd(u, w, e, o)
    BY <1>4
  <2>. HIDE DEF q, w, u, o, txn
  <2>3. Good(take_entry(Rd(u, w, << >>, o), txn))
    BY <2>1, <2>2 DEF e
  <2>4. EntrySplit(txn, u, w, o)
    BY <2>1, <2>2, <2>3, EntryTaken
  <2>5. PICK c \in Bytes, t \in Bytes : \E entry :
           /\ u = c \o t /\ SpeltEntry(txn, c, entry) /\ EntryRead(txn, u, w, o, t, entry)
    BY <2>4 DEF EntrySplit
  <2>6. PICK entry : /\ u = c \o t /\ SpeltEntry(txn, c, entry)
                     /\ EntryRead(txn, u, w, o, t, entry)
    BY <2>5
  <2> DEFINE x == Append(o, entry)
  <2>7. PICK v : f[n] = Rd(t, v, e, x)
    BY <2>1, <2>2, <2>6 DEF EntryRead, e
  <2>. HIDE DEF x
  <2>8. f[n].rest = t /\ f[n].out = x /\ f[n].val = v
    <3>1. Rd(t, v, e, x).rest = t /\ Rd(t, v, e, x).out = x /\ Rd(t, v, e, x).val = v
      BY RdIs
    <3>. QED BY <2>7, <3>1
  <2>9. Sound(f[n])
    BY <2>6, <2>7, <2>8
  <2>10. Turn(n, c, entry)
    BY <2>6, <2>8 DEF u, w, o, q, x, txn
  <2>. QED BY <2>9, <2>10
<1>5. 0 \in T
  BY <1>1, <1>2, RdIs
<1>6. ASSUME NEW n \in 0..(N - 1), n \in T PROVE n + 1 \in T
  <2>1. n + 1 \in 1..N /\ n + 1 \in 0..N /\ (n + 1) - 1 = n
    BY <1>1
  <2>2. Sound(f[(n + 1) - 1])
    BY <1>6, <2>1
  <2>3. Sound(f[n + 1])
    BY <1>4, <2>1, <2>2
  <2>. QED BY <2>1, <2>3
<1>. HIDE DEF T
<1>7. \A n \in 0..N : Sound(f[n])
  <2>1. \A n \in 0..N : n \in T
    BY <1>1, <1>5, <1>6, UpTo
  <2>. QED BY <2>1 DEF T
<1>8. \A n \in 1..N : \E c, entry : Turn(n, c, entry)
  <2>1. ASSUME NEW n \in 1..N PROVE \E c, entry : Turn(n, c, entry)
    <3>1. n - 1 \in 0..N
      BY <1>1
    <3>2. Sound(f[n - 1])
      BY <1>7, <3>1
    <3>. HIDE DEF Sound, Turn
    <3>. QED BY <1>4, <3>2
  <2>. HIDE DEF Turn
  <2>. QED BY <2>1
<1> DEFINE cs == [n \in 1..N |-> CHOOSE c : \E entry : Turn(n, c, entry)]
           es == [n \in 1..N |-> CHOOSE entry : Turn(n, cs[n], entry)]
           outs == [n \in 0..N |-> f[n].out]
           rest == [n \in 0..N |-> f[n].rest]
<1>9. \A n \in 1..N : Turn(n, cs[n], es[n])
  <2>. HIDE DEF Turn
  <2>1. ASSUME NEW n \in 1..N PROVE Turn(n, cs[n], es[n])
    <3>1. \E c, v : Turn(n, c, v)
      BY <1>8
    <3>2. \E v : Turn(n, cs[n], v)
      BY <3>1
    <3>3. es[n] = CHOOSE v : Turn(n, cs[n], v)
      OBVIOUS
    <3>. HIDE DEF cs, es
    <3>. QED BY <3>2, <3>3
  <2>. HIDE DEF cs, es
  <2>. QED BY <2>1
<1>10. Len(cs) = N
  BY <1>1
<1>11. \A n \in 0..N : outs[n] = f[n].out /\ rest[n] = f[n].rest
  OBVIOUS
<1>. HIDE DEF cs, es, outs, rest
<1>12. /\ \A n \in 1..N : n \in 0..N /\ n - 1 \in 0..N
       /\ N \in 0..N /\ 0 \in 0..N
  BY <1>1
<1>13. outs[0] = e /\ rest[0] = s
  <2>1. r.out = e /\ r.rest = s
    BY RdIs
  <2>. HIDE DEF r
  <2>. QED BY <1>2, <1>11, <1>12, <2>1
<1>14. SidecarTrace(txns, es, cs)
  <2>1. \A n \in 1..N : cs[n] \in Bytes /\ SpeltEntry(txns[n], cs[n], es[n])
    BY <1>9
  <2>. QED BY <1>10, <2>1 DEF SidecarTrace, N
<1>15. s = Concat(cs) \o f[N].rest
  <2>1. \A n \in 0..N : rest[n] \in Bytes
    BY <1>7, <1>11
  <2>2. \A n \in 1..N : cs[n] \in Bytes /\ rest[n - 1] = cs[n] \o rest[n]
    BY <1>9, <1>11, <1>12
  <2>3. rest[0] = Concat(cs) \o rest[N]
    BY <1>1, <1>10, <2>1, <2>2, Chained
  <2>. QED BY <1>11, <1>12, <1>13, <2>3
<1>16. f[N].out = First(es, N)
  <2>1. \A n \in 1..N : outs[n] = Append(outs[n - 1], es[n])
    BY <1>9, <1>11, <1>12
  <2>2. outs[0] = << >>
    BY <1>13 DEF e
  <2>3. \A n \in 0..N : outs[n] = First(es, n)
    BY <1>1, <2>1, <2>2, Gathered
  <2>. QED BY <1>11, <1>12, <2>3
<1> DEFINE t == f[N].rest
           w == f[N].val
<1>17. f[N] = Rd(t, w, e, First(es, N)) /\ t \in Bytes
  <2>1. Sound(f[N])
    BY <1>7, <1>12
  <2>. QED BY <1>16, <2>1
<1>18. s = Concat(cs) \o t
  BY <1>15
<1>. HIDE DEF t, w, Sound, Step
<1>19. \E a, b, x : \E z \in Bytes :
         /\ SidecarTrace(txns, a, b) /\ s = Concat(b) \o z
         /\ f[N] = Rd(z, x, e, First(a, N))
  BY <1>14, <1>17, <1>18
<1>. QED BY <1>19 DEF EntriesSplit, f, e, N

(* The bytes s spell the entries es, one beside each transaction of txns. *)
SpeltSidecar(s, txns, es, a, cs) ==
  /\ SidecarTrace(txns, es, cs) /\ Number(a, Len(txns))
  /\ ~(Len(txns) * MIN_ENCODED_ENTRY_SIZE > Len(Concat(cs)))
  /\ s = (<<VERSION>> \o a) \o Concat(cs)

(* Sidecar::decode reads what spells a sidecar. *)
LEMMA SidecarReads ==
  ASSUME NEW s, NEW txns, Known(txns), NEW es, NEW a, NEW cs,
         SpeltSidecar(s, txns, es, a, cs)
  PROVE  /\ Good(Sidecar_decode(s, txns))
         /\ Sidecar_decode(s, txns).out = First(es, Len(txns))
<1> DEFINE stride == MIN_ENCODED_ENTRY_SIZE
           N == Len(txns)
           x == Concat(cs)
           h == <<VERSION>> \o a
           e == << >>
           r == Rd(x, N, e, e)
           f == ReadingEntries(r, txns)
           o == First(es, N)
<1>1. /\ SidecarTrace(txns, es, cs) /\ Number(a, N) /\ ~(N * stride > Len(x)) /\ s = h \o x
  BY DEF SpeltSidecar
<1>2. N \in Nat
  BY DEF Known
<1>3. x \in Bytes /\ \E w : f[N] = Rd(<< >>, w, e, o)
  <2>1. << >> \in Bytes
    BY NoBytes
  <2>2. x \in Bytes
    BY <1>1, <2>1, EntriesRead
  <2>3. \E w : ReadingEntries(Rd(x \o << >>, N, << >>, << >>), txns)[Len(txns)]
                     = Rd(<< >>, w, << >>, First(es, Len(txns)))
    BY <1>1, <2>1, EntriesRead
  <2>4. x \o << >> = x
    <3>. HIDE DEF x
    <3>. QED BY <2>2, EmptySeq DEF Bytes
  <2>. QED BY <2>2, <2>3, <2>4
<1>4. Header(s, stride) = r
  <2>. HIDE DEF x, N, e, stride
  <2>1. Header((<<VERSION>> \o a) \o x, stride) = Rd(x, N, << >>, << >>)
    BY <1>1, <1>3, HeaderReads
  <2>. QED BY <1>1, <2>1 DEF e
<1>5. Good(r) /\ r.val = N
  BY RdIs
<1>6. Sidecar_decode(s, txns) = finish(f[N])
  <2>1. Sidecar_decode(s, txns) = EntriesOf(r, txns)
    BY <1>4 DEF Sidecar_decode, Header
  <2>. HIDE DEF r
  <2>2. EntriesOf(r, txns) = finish(f[N])
    BY <1>2, <1>5, ReadingEntriesIs
  <2>. QED BY <2>1, <2>2
<1>7. PICK w : f[N] = Rd(e, w, e, o)
  BY <1>3
<1>. HIDE DEF f, o
<1>8. finish(Rd(e, w, e, o)) = Rd(e, w, e, o)
  BY FinishIs
<1>9. Sidecar_decode(s, txns) = Rd(e, w, e, o)
  BY <1>6, <1>7, <1>8
<1>10. Good(Rd(e, w, e, o)) /\ Rd(e, w, e, o).out = o
  BY RdIs
<1>. QED BY <1>9, <1>10 DEF o

SidecarSplit(s, txns) == \E es, a, cs : SpeltSidecar(s, txns, es, a, cs)

(* Bytes that Sidecar::decode accepts spell a sidecar, to the last of them. *)
LEMMA SidecarTaken ==
  ASSUME NEW txns, Known(txns), NEW s \in Bytes, Good(Sidecar_decode(s, txns))
  PROVE  SidecarSplit(s, txns)
<1> DEFINE stride == MIN_ENCODED_ENTRY_SIZE
           e == << >>
           header == Header(s, stride)
           N == Len(txns)
<1>1. Sidecar_decode(s, txns) = EntriesOf(header, txns)
  BY DEF Sidecar_decode, Header
<1>2. Good(header) /\ header.val = N /\ N \in Nat
  <2>1. N \in Nat
    BY DEF Known
  <2>. HIDE DEF header
  <2>. QED BY <1>1, <2>1, ReadingEntriesIs
<1>3. HeaderSplit(s, stride)
  BY <1>2, HeaderTaken
<1>4. PICK a \in Bytes, t \in Bytes : \E k :
    /\ s = (<<VERSION>> \o a) \o t /\ Number(a, k) /\ ~(k * stride > Len(t))
    /\ header = Rd(t, k, e, e)
  BY <1>3 DEF HeaderSplit
<1>5. PICK k :
    /\ s = (<<VERSION>> \o a) \o t /\ Number(a, k) /\ ~(k * stride > Len(t))
    /\ header = Rd(t, k, e, e)
  BY <1>4
<1>6. k = N
  <2>1. Rd(t, k, e, e).val = k
    BY RdIs
  <2>. HIDE DEF header, e
  <2>. QED BY <1>2, <1>5, <2>1
<1> DEFINE r == Rd(t, N, e, e)
           f == ReadingEntries(r, txns)
<1>7. header = r
  BY <1>5, <1>6
<1>8. EntriesOf(header, txns) = finish(f[N])
  <2>. HIDE DEF header, r
  <2>. QED BY <1>2, <1>7, ReadingEntriesIs
<1>9. Good(finish(f[N]))
  BY <1>1, <1>8
<1>10. Good(f[N])
  <2>. HIDE DEF f
  <2>1. ~Good(f[N]) => finish(f[N]) = f[N]
    BY DEF finish
  <2>. QED BY <1>9, <2>1
<1>11. EntriesSplit(txns, t, N)
  BY <1>2, <1>10, EntriesTaken
<1>. HIDE DEF header, stride
<1>12. PICK es, cs, w : \E z \in Bytes :
    /\ SidecarTrace(txns, es, cs) /\ t = Concat(cs) \o z
    /\ f[N] = Rd(z, w, e, First(es, N))
  BY <1>11 DEF EntriesSplit
<1>13. PICK z \in Bytes :
    /\ SidecarTrace(txns, es, cs) /\ t = Concat(cs) \o z
    /\ f[N] = Rd(z, w, e, First(es, N))
  BY <1>12
<1>14. z = << >>
  <2> DEFINE o == First(es, N)
  <2>1. f[N] = Rd(z, w, e, o)
    BY <1>13
  <2>. HIDE DEF f, o, e
  <2>2. Good(finish(Rd(z, w, e, o)))
    BY <1>9, <2>1
  <2>. QED BY <2>2, FinishIs
<1>15. Concat(cs) \in Bytes
  <2>1. SidecarTrace(txns, es, cs)
    BY <1>13
  <2>. QED BY <2>1, NoBytes, EntriesRead
<1>16. t = Concat(cs)
  <2> DEFINE x == Concat(cs)
  <2>1. t = x \o << >> /\ x \in Bytes
    BY <1>13, <1>14, <1>15
  <2>. HIDE DEF x
  <2>2. x \o << >> = x
    BY <2>1, EmptySeq DEF Bytes
  <2>. QED BY <2>1, <2>2 DEF x
<1>17. SpeltSidecar(s, txns, es, a, cs)
  BY <1>5, <1>6, <1>13, <1>16 DEF SpeltSidecar, stride
<1>. QED BY <1>17 DEF SidecarSplit

(* What an entry can hold. *)
Storable(txn, entry) ==
  \E vs : EntryTyped(txn, vs) /\ entry = EntryOf(txn, First(vs, Len(EntryLayout(txn))))

(* No field of a witness is spelt by no bytes. *)
LEMMA FieldThere ==
  ASSUME NEW field \in {"account", "siblings", "slot"}, NEW seen, NEW c, NEW v, NEW after,
         Spelt(field, seen, c, v, after)
  PROVE  Len(c) >= 1
<1>1. <<0>> \in Bytes /\ <<1>> \in Bytes /\ Len(<<0>>) = 1 /\ Len(<<1>>) = 1
  BY Tags
<1>2. CASE field = "account"
  <2>1. c = <<0>> \/ \E x \in Bytes : c = <<1>> \o x
    BY <1>2 DEF Spelt, SpeltAccount, Encodes, ABSENT, PRESENT
  <2>2. ASSUME NEW x \in Bytes, c = << 1 >> \o x PROVE Len(c) >= 1
    <3> DEFINE h == <<1>>
    <3>. HIDE DEF h
    <3>1. Len(h \o x) = Len(h) + Len(x) /\ Len(x) \in Nat
      BY <1>1, BytesJoined DEF h
    <3>. QED BY <1>1, <2>2, <3>1 DEF h
  <2>. QED BY <1>1, <2>1, <2>2
<1>3. CASE field = "siblings"
  <2>1. PICK a \in Bytes : Number(a, Len(v)) /\ c = a \o Concat(v) /\ v \in Seq(Word)
    BY <1>3 DEF Spelt, SpeltSiblings
  <2> DEFINE x == Concat(v)
  <2>2. x \in Bytes
    BY <2>1, WordsJoined
  <2>. HIDE DEF x
  <2>3. Len(a \o x) = Len(a) + Len(x) /\ Len(x) \in Nat /\ Len(a) \in Nat
    BY <2>2, BytesJoined
  <2>4. Len(a) >= 1
    BY <2>1 DEF Number
  <2>. QED BY <2>1, <2>3, <2>4 DEF x
<1>4. CASE field = "slot"
  <2> DEFINE x == v.address
             y == Account_encode(v.account)
  <2>1. c = <<0>> \/ (c = (<<1>> \o x) \o y /\ x \in Word /\ y \in Bytes)
    BY <1>4 DEF Spelt, SpeltSlot, Encodes, SLOT_OWN, SLOT_NEIGHBOR
  <2>. HIDE DEF x, y
  <2>2. ASSUME c = (<< 1 >> \o x) \o y, x \in Word, y \in Bytes PROVE Len(c) >= 1
    <3> DEFINE h == <<1>>
               z == h \o x
    <3>1. x \in Bytes
      BY <2>2, WordIs
    <3>. HIDE DEF h
    <3>2. Len(z) = Len(h) + Len(x) /\ Len(x) \in Nat /\ z \in Bytes
      BY <1>1, <3>1, BytesJoined DEF h
    <3>3. c = z \o y
      BY <2>2 DEF h
    <3>. HIDE DEF z
    <3>4. Len(z \o y) = Len(z) + Len(y) /\ Len(y) \in Nat
      BY <2>2, <3>2, BytesJoined
    <3>5. Len(h) = 1
      BY <1>1 DEF h
    <3>. QED BY <3>2, <3>3, <3>4, <3>5
  <2>. QED BY <1>1, <2>1, <2>2
<1>. QED BY <1>2, <1>3, <1>4

(* Three strings with something in each are three bytes. *)
LEMMA LastThree ==
  ASSUME NEW ds, Len(ds) \in Nat, Len(ds) >= 3, \A n \in 1..Len(ds) : ds[n] \in Bytes,
         \A n \in (Len(ds) - 2)..Len(ds) : Len(ds[n]) >= 1
  PROVE  Len(Concat(ds)) >= 3
<1> DEFINE N == Len(ds)
           j == Joint(ds)
<1>1. Concat(ds) = j[N] /\ \A n \in 1..N : j[n] = j[n - 1] \o ds[n]
  BY JointIs
<1>2. \A n \in 0..N : j[n] \in Bytes
  BY JointBytes
<1>. HIDE DEF j, N
<1>3. N \in Nat /\ N >= 3
  BY DEF N
<1>4. ASSUME NEW n \in (N - 2)..N PROVE Len(j[n]) >= Len(j[n - 1]) + 1 /\ Len(j[n - 1]) \in Nat
  <2> DEFINE a == j[n - 1]
             b == ds[n]
  <2>1. n \in 1..N /\ n - 1 \in 0..N
    BY <1>3
  <2>2. j[n] = a \o b /\ a \in Bytes /\ b \in Bytes /\ Len(b) >= 1
    BY <1>1, <1>2, <2>1 DEF N
  <2>. HIDE DEF a, b
  <2>3. Len(a \o b) = Len(a) + Len(b) /\ Len(a) \in Nat /\ Len(b) \in Nat
    BY <2>2, BytesJoined
  <2>4. Len(j[n]) >= Len(a) + 1 /\ Len(a) \in Nat
    BY <2>2, <2>3
  <2>. QED BY <2>4 DEF a
<1> DEFINE p == Len(j[N - 3])
           q == Len(j[N - 2])
           r == Len(j[N - 1])
           t == Len(j[N])
<1>5. p \in Nat /\ q >= p + 1 /\ r >= q + 1 /\ t >= r + 1
  <2>1. /\ N - 2 \in (N - 2)..N /\ N - 1 \in (N - 2)..N /\ N \in (N - 2)..N
        /\ (N - 2) - 1 = N - 3 /\ (N - 1) - 1 = N - 2
    BY <1>3
  <2>2. Len(j[N - 2]) >= Len(j[(N - 2) - 1]) + 1 /\ Len(j[(N - 2) - 1]) \in Nat
    BY <1>4, <2>1
  <2>3. Len(j[N - 1]) >= Len(j[(N - 1) - 1]) + 1
    BY <1>4, <2>1
  <2>4. Len(j[N]) >= Len(j[N - 1]) + 1
    BY <1>4, <2>1
  <2>. QED BY <2>1, <2>2, <2>3, <2>4
<1>6. q \in Nat /\ r \in Nat /\ t \in Nat
  <2>1. j[N - 2] \in Bytes /\ j[N - 1] \in Bytes /\ j[N] \in Bytes
    BY <1>2, <1>3
  <2>. QED BY <2>1, LenProperties DEF Bytes
<1>. HIDE DEF p, q, r, t
<1>7. t >= 3
  BY <1>5, <1>6
<1>. QED BY <1>1, <1>7 DEF t

(* What is shorter part by part is shorter. *)
LEMMA ShortsJoined ==
  ASSUME NEW N \in Nat, NEW ds, NEW cs, Len(ds) = N, Len(cs) = N,
         \A n \in 1..N : ds[n] \in Bytes /\ cs[n] \in Bytes /\ Short(ds[n], cs[n])
  PROVE  Short(Concat(ds), Concat(cs))
<1> DEFINE j == Joint(ds)
           k == Joint(cs)
           T == {n \in 0..N : Short(j[n], k[n])}
<1>1. j[0] = << >> /\ Concat(ds) = j[N] /\ \A n \in 1..N : j[n] = j[n - 1] \o ds[n]
  BY JointIs
<1>2. k[0] = << >> /\ Concat(cs) = k[N] /\ \A n \in 1..N : k[n] = k[n - 1] \o cs[n]
  BY JointIs
<1>3. \A n \in 0..N : j[n] \in Bytes
  BY JointBytes
<1>4. \A n \in 0..N : k[n] \in Bytes
  BY JointBytes
<1>. HIDE DEF j, k
<1>5. 0 \in T
  BY <1>1, <1>2 DEF Short
<1>6. ASSUME NEW n \in 0..(N - 1), n \in T PROVE n + 1 \in T
  <2> DEFINE a == j[n]
             b == k[n]
             d == ds[n + 1]
             c == cs[n + 1]
  <2>1. n + 1 \in 1..N /\ n + 1 \in 0..N /\ (n + 1) - 1 = n /\ n \in 0..N
    OBVIOUS
  <2>2. j[n + 1] = a \o d /\ k[n + 1] = b \o c
    <3>1. j[n + 1] = j[(n + 1) - 1] \o ds[n + 1] /\ k[n + 1] = k[(n + 1) - 1] \o cs[n + 1]
      BY <1>1, <1>2, <2>1
    <3>. QED BY <2>1, <3>1
  <2>3. a \in Bytes /\ b \in Bytes /\ d \in Bytes /\ c \in Bytes
    BY <1>3, <1>4, <2>1
  <2>4. Short(a, b) /\ Short(d, c)
    BY <1>6, <2>1
  <2>. HIDE DEF a, b, c, d
  <2>5. Short(a \o d, b \o c)
    BY <2>3, <2>4, ShortJoin
  <2>6. Short(j[n + 1], k[n + 1])
    BY <2>2, <2>5
  <2>. QED BY <2>1, <2>6
<1>. HIDE DEF T
<1>7. \A n \in 0..N : n \in T
  BY <1>5, <1>6, UpTo
<1>8. Short(j[N], k[N])
  BY <1>7 DEF T
<1>. QED BY <1>1, <1>2, <1>8

(* The bytes the fields of an entry are written as. *)
LEMMA EntryChunksAre ==
  ASSUME NEW txn, txn.kind \in TransactionKinds, NEW vs, EntryTyped(txn, vs)
  PROVE  LET L == EntryLayout(txn)
             ds == EntryChunks(L, vs)
         IN /\ Len(L) \in Nat /\ Len(ds) = Len(L)
            /\ \A n \in 1..Len(L) : /\ ds[n] = FieldBytes(L[n], vs[n]) /\ ds[n] \in Bytes
                                    /\ Spelt(L[n], << >>, ds[n], vs[n], << >>)
            /\ FieldTrace(L, ds, vs, Unseen(L)) /\ Concat(ds) \in Bytes
<1> DEFINE L == EntryLayout(txn)
           ds == EntryChunks(L, vs)
           N == Len(L)
<1>1. L \in Seq(EntryFields)
  BY EntryLayoutIs
<1>2. \A n \in 1..Len(L) : Typed(L[n], vs[n])
  BY DEF EntryTyped
<1>. HIDE DEF L
<1>3. FieldTrace(L, EntryChunks(L, vs), vs, Unseen(L))
  BY <1>1, <1>2, EntryTrace
<1>4. N \in Nat
  BY <1>1, LayoutFields
<1>5. Len(ds) = N /\ \A n \in 1..N : ds[n] = FieldBytes(L[n], vs[n])
  BY <1>4 DEF EntryChunks
<1>6. \A n \in 0..N : Unseen(L)[n] = << >>
  BY DEF Unseen
<1>. HIDE DEF ds
<1>7. \A n \in 1..N : ds[n] \in Bytes /\ Spelt(L[n], Unseen(L)[n - 1], ds[n], vs[n], Unseen(L)[n])
  BY <1>3 DEF FieldTrace, ds
<1>8. \A n \in 1..N : Unseen(L)[n - 1] = << >> /\ Unseen(L)[n] = << >>
  <2>1. \A n \in 1..N : n - 1 \in 0..N /\ n \in 0..N
    BY <1>4
  <2>. QED BY <1>6, <2>1
<1>9. Concat(ds) \in Bytes
  BY <1>4, <1>5, <1>7, JointBytes
<1>. QED BY <1>3, <1>4, <1>5, <1>7, <1>8, <1>9 DEF L, ds

(* Every entry that can be held is written as bytes that spell it, three of them
   at least. *)
LEMMA EntryWrites ==
  ASSUME NEW txn, txn.kind \in TransactionKinds, NEW entry, Storable(txn, entry)
  PROVE  /\ SpeltEntry(txn, put_entry(entry), entry) /\ put_entry(entry) \in Bytes
         /\ Len(put_entry(entry)) >= MIN_ENCODED_ENTRY_SIZE
<1>1. PICK vs : EntryTyped(txn, vs) /\ entry = EntryOf(txn, First(vs, Len(EntryLayout(txn))))
  BY DEF Storable
<1> DEFINE L == EntryLayout(txn)
           ds == EntryChunks(L, vs)
           N == Len(L)
           s == Signature(txn)
           m == Slots(txn)
<1>2. /\ N \in Nat /\ Len(ds) = N
      /\ \A n \in 1..N : ds[n] \in Bytes /\ Spelt(L[n], << >>, ds[n], vs[n], << >>)
      /\ FieldTrace(L, ds, vs, Unseen(L)) /\ Concat(ds) \in Bytes
  BY <1>1, EntryChunksAre
<1>3. put_entry(entry) = Concat(ds)
  BY <1>1, EntryPut
<1>4. SpeltEntry(txn, put_entry(entry), entry)
  BY <1>1, <1>2, <1>3 DEF SpeltEntry
<1>5. /\ m \in {1, 2, 3} /\ N = s + 3 * m /\ s \in {0, 3}
      /\ \A k \in 1..m : /\ L[s + 3 * k - 2] = "account" /\ L[s + 3 * k - 1] = "siblings"
                         /\ L[s + 3 * k] = "slot"
  BY EntryLayoutIs
<1>. HIDE DEF L, ds, s, m
<1>6. L[N - 2] = "account" /\ L[N - 1] = "siblings" /\ L[N] = "slot"
  <2>1. m \in 1..m
    BY <1>5
  <2>2. L[s + 3 * m - 2] = "account" /\ L[s + 3 * m - 1] = "siblings" /\ L[s + 3 * m] = "slot"
    BY <1>5, <2>1
  <2>. QED BY <1>5, <2>2
<1>7. N >= 3
  BY <1>5
<1>8. \A n \in (Len(ds) - 2)..Len(ds) : Len(ds[n]) >= 1
  <2>1. ASSUME NEW n \in (N - 2)..N PROVE Len(ds[n]) >= 1
    <3>1. n \in 1..N /\ (n = N - 2 \/ n = N - 1 \/ n = N)
      BY <1>2, <1>7, <2>1
    <3>2. L[n] \in {"account", "siblings", "slot"}
      BY <1>6, <3>1
    <3> DEFINE field == L[n]
               seen == << >>
               c == ds[n]
               v == vs[n]
    <3>3. Spelt(field, seen, c, v, seen) /\ field \in {"account", "siblings", "slot"}
      BY <1>2, <3>1, <3>2
    <3>. HIDE DEF field, seen, c, v
    <3>4. Len(c) >= 1
      BY <3>3, FieldThere
    <3>. QED BY <3>4 DEF c
  <2>. QED BY <1>2, <2>1
<1>9. Len(Concat(ds)) >= 3
  <2>1. Len(ds) \in Nat /\ Len(ds) >= 3 /\ \A n \in 1..Len(ds) : ds[n] \in Bytes
    BY <1>2, <1>7
  <2>. QED BY <1>8, <2>1, LastThree
<1>10. MIN_ENCODED_ENTRY_SIZE = 3
  BY DEF MIN_ENCODED_ENTRY_SIZE, MIN_ENCODED_WITNESS_SIZE
<1>. QED BY <1>2, <1>3, <1>4, <1>9, <1>10

(* However an entry was spelt, it can be held, and is written shorter, or just so. *)
LEMMA EntryShort ==
  ASSUME NEW txn, txn.kind \in TransactionKinds, NEW c, NEW entry, SpeltEntry(txn, c, entry)
  PROVE  Storable(txn, entry) /\ Short(put_entry(entry), c)
<1> DEFINE L == EntryLayout(txn)
           N == Len(L)
           e == << >>
           ss == Unseen(L)
<1>1. PICK cs, vs : FieldTrace(L, cs, vs, ss) /\ c = Concat(cs) /\ entry = EntryOf(txn, First(vs, N))
  BY DEF SpeltEntry
<1>2. L \in Seq(EntryFields)
  BY EntryLayoutIs
<1>3. \A n \in 0..N : ss[n] = e
  BY DEF Unseen
<1>4. e \in Seq(Word)
  OBVIOUS
<1>. HIDE DEF L, e, ss
<1>5. N \in Nat /\ \A n \in 1..N : L[n] \in EntryFields /\ L[n] \in Fields
  BY <1>2, LayoutFields
<1>6. Len(cs) = N /\ \A n \in 1..N : cs[n] \in Bytes /\ Spelt(L[n], ss[n - 1], cs[n], vs[n], ss[n])
  BY <1>1 DEF FieldTrace
<1>7. \A n \in 1..N : Spelt(L[n], e, cs[n], vs[n], e)
  <2>1. \A n \in 1..N : n - 1 \in 0..N /\ n \in 0..N
    BY <1>5
  <2>. QED BY <1>3, <1>6, <2>1
<1>8. \A n \in 1..N : Typed(L[n], vs[n])
  BY <1>4, <1>7, SpeltTyped
<1>9. EntryTyped(txn, vs)
  BY <1>8 DEF EntryTyped, L
<1>10. Storable(txn, entry)
  BY <1>1, <1>9 DEF Storable, L
<1> DEFINE ds == EntryChunks(L, vs)
<1>11. /\ Len(ds) = N
       /\ \A n \in 1..N : ds[n] = FieldBytes(L[n], vs[n]) /\ ds[n] \in Bytes
  BY <1>9, EntryChunksAre DEF L
<1>12. put_entry(entry) = Concat(ds)
  BY <1>1, <1>9, EntryPut DEF L
<1>. HIDE DEF ds
<1>13. ASSUME NEW n \in 1..N PROVE Short(ds[n], cs[n])
  <2> DEFINE field == L[n]
             d == cs[n]
             v == vs[n]
  <2>1. field \in Fields /\ field # "address"
    BY <1>5 DEF EntryFields
  <2>2. Spelt(field, e, d, v, e)
    BY <1>7
  <2>. HIDE DEF field, d, v
  <2>3. Short(FieldBytes(field, v), d)
    BY <1>4, <2>1, <2>2, FieldShort
  <2>4. ds[n] = FieldBytes(field, v)
    BY <1>11 DEF field, v
  <2>. QED BY <2>3, <2>4 DEF d
<1>14. Short(Concat(ds), Concat(cs))
  <2>1. \A n \in 1..N : ds[n] \in Bytes /\ cs[n] \in Bytes /\ Short(ds[n], cs[n])
    BY <1>6, <1>11, <1>13
  <2>. QED BY <1>5, <1>6, <1>11, <2>1, ShortsJoined
<1>. QED BY <1>1, <1>10, <1>12, <1>14

(* Entries that can be held, one beside each transaction. *)
AllStorable(txns, es) ==
  /\ Len(es) = Len(txns)
  /\ \A n \in 1..Len(txns) : Storable(txns[n], es[n])

Written(es) == [n \in 1..Len(es) |-> put_entry(es[n])]

(* Sidecar::encode writes the header, and the entries one after another. *)
LEMMA SidecarPut ==
  ASSUME NEW txns, Known(txns), NEW es, AllStorable(txns, es)
  PROVE  /\ SidecarTrace(txns, es, Written(es)) /\ Len(Written(es)) = Len(txns)
         /\ \A n \in 1..Len(txns) : /\ Written(es)[n] = put_entry(es[n])
                                    /\ Written(es)[n] \in Bytes
         /\ Len(txns) * MIN_ENCODED_ENTRY_SIZE <= Len(Concat(Written(es)))
         /\ Concat(Written(es)) \in Bytes
         /\ Sidecar_encode(es) = (<<VERSION>> \o put_varint(Len(txns))) \o Concat(Written(es))
<1> DEFINE N == Len(txns)
           ds == Written(es)
           m == MIN_ENCODED_ENTRY_SIZE
<1>1. N \in Nat /\ \A n \in 1..N : txns[n].kind \in TransactionKinds
  BY DEF Known
<1>2. Len(es) = N /\ \A n \in 1..N : Storable(txns[n], es[n])
  BY DEF AllStorable
<1>3. Len(ds) = N /\ \A n \in 1..N : ds[n] = put_entry(es[n])
  BY <1>1, <1>2 DEF Written
<1>4. Sidecar_encode(es) = (<<VERSION>> \o put_varint(N)) \o Concat(ds)
  BY <1>2 DEF Sidecar_encode, Written
<1>. HIDE DEF ds
<1>5. ASSUME NEW n \in 1..N
      PROVE  ds[n] \in Bytes /\ SpeltEntry(txns[n], ds[n], es[n]) /\ Len(ds[n]) >= m
  <2> DEFINE txn == txns[n]
             entry == es[n]
  <2>1. txn.kind \in TransactionKinds /\ Storable(txn, entry)
    BY <1>1, <1>2
  <2>. HIDE DEF txn, entry
  <2>2. SpeltEntry(txn, put_entry(entry), entry)
    BY <2>1, EntryWrites
  <2>3. put_entry(entry) \in Bytes /\ Len(put_entry(entry)) >= MIN_ENCODED_ENTRY_SIZE
    BY <2>1, EntryWrites
  <2>4. ds[n] = put_entry(entry)
    BY <1>3 DEF entry
  <2>. QED BY <2>2, <2>3, <2>4 DEF txn, entry
<1>6. SidecarTrace(txns, es, ds)
  BY <1>3, <1>5 DEF SidecarTrace
<1>7. m \in Nat
  BY DEF MIN_ENCODED_ENTRY_SIZE, MIN_ENCODED_WITNESS_SIZE
<1>. HIDE DEF m
<1>8. Len(ds) * m <= Len(Concat(ds))
  <2>1. Len(ds) \in Nat /\ \A n \in 1..Len(ds) : ds[n] \in Bytes /\ Len(ds[n]) >= m
    BY <1>1, <1>3, <1>5
  <2>. QED BY <1>7, <2>1, LongJoint
<1>9. Concat(ds) \in Bytes
  BY <1>1, <1>3, <1>5, JointBytes
<1>. QED BY <1>3, <1>4, <1>5, <1>6, <1>8, <1>9 DEF ds, m

(* Sidecar::decode of Sidecar::encode: a sidecar that was encoded decodes as what
   it was, beside the transactions it was made for. *)
LEMMA SidecarRoundTrip ==
  ASSUME NEW txns, Known(txns), Writable(Len(txns)), NEW S, NEW es \in Seq(S),
         AllStorable(txns, es)
  PROVE  /\ Good(Sidecar_decode(Sidecar_encode(es), txns))
         /\ Sidecar_decode(Sidecar_encode(es), txns).out = es
         /\ Sidecar_encode(es) \in Bytes
<1> DEFINE N == Len(txns)
           ds == Written(es)
           a == put_varint(N)
           s == Sidecar_encode(es)
           m == MIN_ENCODED_ENTRY_SIZE
           x == Concat(ds)
<1>1. /\ SidecarTrace(txns, es, ds) /\ N * m <= Len(x) /\ x \in Bytes
      /\ s = (<<VERSION>> \o a) \o x
  BY SidecarPut
<1>2. Number(a, N)
  BY DEF Writable
<1>3. N * m \in Nat /\ Len(x) \in Nat
  <2>1. N \in Nat /\ m \in Nat
    BY DEF Known, MIN_ENCODED_ENTRY_SIZE, MIN_ENCODED_WITNESS_SIZE
  <2>2. Len(x) \in Nat
    BY <1>1, LenProperties DEF Bytes
  <2>. QED BY <2>1, <2>2, Products
<1>4. ~(N * m > Len(x))
  BY <1>1, <1>3
<1>5. SpeltSidecar(s, txns, es, a, ds)
  BY <1>1, <1>2, <1>4 DEF SpeltSidecar
<1>6. Len(es) = N
  BY DEF AllStorable
<1>7. First(es, N) = es
  BY <1>6, FirstAll
<1>8. s \in Bytes
  <2> DEFINE v == <<VERSION>>
  <2>1. v \in Bytes /\ a \in Bytes
    BY <1>2, VersionIs DEF Number
  <2>. HIDE DEF v, a, x
  <2>2. v \o a \in Bytes
    BY <2>1, BytesJoined
  <2> DEFINE y == v \o a
  <2>3. y \in Bytes /\ s = y \o x
    BY <1>1, <2>2 DEF v
  <2>. HIDE DEF y, s
  <2>4. y \o x \in Bytes
    BY <1>1, <2>3, BytesJoined
  <2>. QED BY <2>3, <2>4
<1>. HIDE DEF s, a, ds
<1>9. Good(Sidecar_decode(s, txns))
  BY <1>5, SidecarReads
<1>10. Sidecar_decode(s, txns).out = First(es, N)
  BY <1>5, SidecarReads
<1>. QED BY <1>7, <1>8, <1>9, <1>10 DEF s

(* However a sidecar was spelt, it has an entry of the right shape for every
   transaction, all of which can be held, and they are encoded shorter, or just
   so. *)
LEMMA SidecarShort ==
  ASSUME NEW txns, Known(txns), NEW s \in Bytes, Good(Sidecar_decode(s, txns))
  PROVE  LET es == Sidecar_decode(s, txns).out
         IN /\ AllStorable(txns, es) /\ Short(Sidecar_encode(es), s)
<1>1. SidecarSplit(s, txns)
  BY SidecarTaken
<1>2. PICK all, a, cs : SpeltSidecar(s, txns, all, a, cs)
  BY <1>1 DEF SidecarSplit
<1> DEFINE N == Len(txns)
           es == First(all, N)
           x == Concat(cs)
<1>3. SidecarTrace(txns, all, cs) /\ Number(a, N) /\ s = (<<VERSION>> \o a) \o x
  BY <1>2 DEF SpeltSidecar
<1>4. /\ N \in Nat /\ \A n \in 1..N : txns[n].kind \in TransactionKinds
      /\ Len(cs) = N /\ \A n \in 1..N : cs[n] \in Bytes /\ SpeltEntry(txns[n], cs[n], all[n])
  BY <1>3 DEF SidecarTrace, Known
<1>5. Sidecar_decode(s, txns).out = es
  BY <1>2, SidecarReads
<1>6. Len(es) = N /\ \A n \in 1..N : es[n] = all[n]
  BY <1>4, FirstIs
<1>. HIDE DEF es
<1>7. ASSUME NEW n \in 1..N
      PROVE  Storable(txns[n], es[n]) /\ Short(put_entry(es[n]), cs[n])
  <2> DEFINE txn == txns[n]
             entry == es[n]
             c == cs[n]
  <2>1. txn.kind \in TransactionKinds /\ SpeltEntry(txn, c, entry)
    BY <1>4, <1>6
  <2>. HIDE DEF txn, entry, c
  <2>2. Storable(txn, entry) /\ Short(put_entry(entry), c)
    BY <2>1, EntryShort
  <2>. QED BY <2>2 DEF txn, entry, c
<1>8. AllStorable(txns, es)
  BY <1>6, <1>7 DEF AllStorable
<1> DEFINE ds == Written(es)
           y == Concat(ds)
           va == <<VERSION>> \o a
           vp == <<VERSION>> \o put_varint(N)
<1>9. /\ Len(ds) = N /\ \A n \in 1..N : ds[n] = put_entry(es[n]) /\ ds[n] \in Bytes
      /\ y \in Bytes /\ Sidecar_encode(es) = vp \o y
  BY <1>8, SidecarPut
<1>. HIDE DEF ds
<1>10. Short(y, x)
  <2>1. \A n \in 1..N : ds[n] \in Bytes /\ cs[n] \in Bytes /\ Short(ds[n], cs[n])
    BY <1>4, <1>7, <1>9
  <2>. QED BY <1>4, <1>9, <2>1, ShortsJoined
<1>11. x \in Bytes
  BY <1>4, JointBytes
<1>12. va \in Bytes /\ vp \in Bytes /\ Short(vp, va)
  <2>1. Number(put_varint(N), N) /\ (put_varint(N) = a \/ Len(put_varint(N)) < Len(a))
    BY <1>3, NumberShortest
  <2> DEFINE v == <<VERSION>>
             p == put_varint(N)
  <2>2. v \in Bytes /\ p \in Bytes /\ a \in Bytes /\ Short(p, a) /\ Short(v, v)
    BY <1>3, <2>1, VersionIs DEF Short, Number
  <2>. HIDE DEF v, p
  <2>3. Short(v \o p, v \o a)
    BY <2>2, ShortJoin
  <2>4. v \o p \in Bytes /\ v \o a \in Bytes
    BY <2>2, BytesJoined
  <2>. QED BY <2>3, <2>4 DEF v, p
<1>. HIDE DEF x, y, va, vp
<1>13. Short(vp \o y, va \o x)
  BY <1>9, <1>10, <1>11, <1>12, ShortJoin
<1>. QED BY <1>3, <1>5, <1>8, <1>9, <1>13 DEF va, vp, y

(* The shape of what can be held. *)
LEMMA StorableKind ==
  ASSUME NEW txn, txn.kind \in TransactionKinds, NEW entry, Storable(txn, entry)
  PROVE  KindsMatch(txn, entry)
<1>1. PICK vs : entry = EntryOf(txn, First(vs, Len(EntryLayout(txn))))
  BY DEF Storable
<1> DEFINE f == First(vs, Len(EntryLayout(txn)))
<1>. HIDE DEF f
<1>2. EntryOf(txn, f).kind = txn.kind /\ Len(EntryOf(txn, f).witnesses) = Slots(txn)
  BY EntryOfIs
<1>3. entry = EntryOf(txn, f)
  BY <1>1 DEF f
<1>. QED BY <1>2, <1>3 DEF KindsMatch, Slots

(* What was decoded as a batch is transactions of the four kinds, as many as the
   format can count. *)
LEMMA SpeltKind ==
  ASSUME NEW seen, NEW c, NEW txn, NEW after, SpeltTransaction(seen, c, txn, after)
  PROVE  txn.kind \in TransactionKinds
<1>1. PICK kind \in Kinds : \E vs :
        txn = TransactionOf(kind, First(vs, Len(TransactionLayout(kind))))
  BY DEF SpeltTransaction
<1>2. PICK vs : txn = TransactionOf(kind, First(vs, Len(TransactionLayout(kind))))
  BY <1>1
<1> DEFINE f == First(vs, Len(TransactionLayout(kind)))
<1>3. txn = TransactionOf(kind, f)
  BY <1>2
<1>. HIDE DEF f
<1>4. /\ TransactionOf(KIND_PAYMENT, f) = Payment(f[1], f[3], f[4], f[2])
      /\ TransactionOf(KIND_DEPOSIT, f) = Deposit(f[1], f[2])
      /\ TransactionOf(KIND_WITHDRAWAL, f) = Withdrawal(f[1], f[3], f[4], f[2])
      /\ TransactionOf(KIND_FORCED_WITHDRAWAL, f) = ForcedWithdrawal(f[1], f[2])
  BY TransactionIs
<1>5. kind \in {KIND_PAYMENT, KIND_DEPOSIT, KIND_WITHDRAWAL, KIND_FORCED_WITHDRAWAL}
  BY KindsAre
<1>. QED BY <1>3, <1>4, <1>5
     DEF Payment, Deposit, Withdrawal, ForcedWithdrawal, TransactionKinds

(* What Batch::decode accepts, Sidecar::decode can lay its entries beside. *)
LEMMA BatchKnown ==
  ASSUME NEW s \in Bytes, Good(Batch_decode(s))
  PROVE  Known(Batch_decode(s).out) /\ Writable(Len(Batch_decode(s).out))
<1>1. BatchSplit(s)
  BY BatchTaken
<1>2. PICK all, a, cs, seens, N : SpeltBatch(s, all, a, cs, seens, N)
  BY <1>1 DEF BatchSplit
<1> DEFINE txns == First(all, N)
<1>3. BatchTrace(all, cs, seens, N) /\ Number(a, N)
  BY <1>2 DEF SpeltBatch
<1>4. N \in Nat /\ \A n \in 1..N : SpeltTransaction(seens[n - 1], cs[n], all[n], seens[n])
  BY <1>3 DEF BatchTrace
<1>5. Len(txns) = N /\ \A n \in 1..N : txns[n] = all[n]
  BY <1>4, FirstIs
<1>6. Batch_decode(s).out = txns
  <2> DEFINE t == << >>
  <2>1. t \in Bytes /\ t = << >>
    BY NoBytes
  <2>. HIDE DEF t, txns
  <2>2. t = << >> => \E w : Batch_decode(s) = Rd(<< >>, w, seens[N], First(all, N))
    BY <1>2, <2>1, BatchReads
  <2>3. PICK w : Batch_decode(s) = Rd(<< >>, w, seens[N], First(all, N))
    BY <2>1, <2>2
  <2> DEFINE o == First(all, N)
             f == seens[N]
  <2>4. Batch_decode(s) = Rd(t, w, f, o)
    BY <2>1, <2>3
  <2>. HIDE DEF o, f
  <2>5. Rd(t, w, f, o).out = o
    BY RdIs
  <2>. QED BY <2>4, <2>5 DEF o, txns
<1>. HIDE DEF txns
<1>7. \A n \in 1..N : txns[n].kind \in TransactionKinds
  <2>1. \A n \in 1..N : all[n].kind \in TransactionKinds
    BY <1>4, SpeltKind
  <2>. QED BY <1>5, <2>1
<1>8. Number(put_varint(N), N)
  BY <1>3, NumberShortest
<1>. QED BY <1>4, <1>5, <1>6, <1>7, <1>8 DEF Known, Writable

(* What the types hold can be written. *)
LEMMA U64Written ==
  ASSUME NEW n \in U64
  PROVE  Writable(n)
BY NumberWritten DEF Writable, U64

(* Two values or four, each of its field's type. *)
Fit(layout, a, b, c, d) ==
  /\ Len(layout) \in {2, 4} /\ Typed(layout[1], a) /\ Typed(layout[2], b)
  /\ Len(layout) = 4 => Typed(layout[3], c) /\ Typed(layout[4], d)

Four(f, layout, a, b, c, d) ==
  f[1] = a /\ f[2] = b /\ (Len(layout) = 4 => f[3] = c /\ f[4] = d)

Holds(layout, a, b, c, d) ==
  \E vs : /\ \A n \in 1..Len(layout) : Typed(layout[n], vs[n])
          /\ Four(First(vs, Len(layout)), layout, a, b, c, d)

(* Values of their fields' types fill the layout of a transaction. *)
LEMMA FourTyped ==
  ASSUME NEW kind \in Kinds, NEW a, NEW b, NEW c, NEW d,
         Fit(TransactionLayout(kind), a, b, c, d)
  PROVE  Holds(TransactionLayout(kind), a, b, c, d)
<1> DEFINE L == TransactionLayout(kind)
           N == Len(L)
           vs == <<a, b, c, d>>
           f == First(vs, N)
<1>. HIDE DEF L
<1>1. N \in {2, 4} /\ Typed(L[1], a) /\ Typed(L[2], b) /\ (N = 4 => Typed(L[3], c) /\ Typed(L[4], d))
  BY DEF L, Fit
<1>2. vs[1] = a /\ vs[2] = b /\ vs[3] = c /\ vs[4] = d
  OBVIOUS
<1>. HIDE DEF vs
<1>3. \A n \in 1..N : f[n] = vs[n]
  BY DEF First
<1>. HIDE DEF f
<1>4. f[1] = a /\ f[2] = b /\ (N = 4 => f[3] = c /\ f[4] = d)
  <2>1. 1 \in 1..N /\ 2 \in 1..N /\ (N = 4 => 3 \in 1..N /\ 4 \in 1..N)
    BY <1>1
  <2>. QED BY <1>2, <1>3, <2>1
<1>. HIDE DEF N
<1>5. ASSUME NEW n \in 1..N PROVE Typed(L[n], vs[n])
  <2>1. n = 1 \/ n = 2 \/ (N = 4 /\ n = 3) \/ (N = 4 /\ n = 4)
    BY <1>1
  <2>. QED BY <1>1, <1>2, <2>1
<1>. QED BY <1>4, <1>5 DEF f, N, L, Holds, Four

(* Every Transaction of lib.rs can be written. *)
LEMMA TransactionTyped ==
  ASSUME NEW txn \in Transaction
  PROVE  Puttable(txn) /\ txn.kind \in TransactionKinds
<1>1. ASSUME NEW kind \in Kinds, NEW a, NEW b, NEW c, NEW d,
             Fit(TransactionLayout(kind), a, b, c, d),
             \A f : Four(f, TransactionLayout(kind), a, b, c, d) => txn = TransactionOf(kind, f)
      PROVE  Puttable(txn)
  <2> DEFINE L == TransactionLayout(kind)
  <2>1. Holds(L, a, b, c, d)
    BY <1>1, FourTyped
  <2>2. PICK vs : /\ \A n \in 1..Len(L) : Typed(L[n], vs[n])
                  /\ Four(First(vs, Len(L)), L, a, b, c, d)
    BY <2>1 DEF Holds
  <2>3. txn = TransactionOf(kind, First(vs, Len(L)))
    BY <1>1, <2>2
  <2>. QED BY <2>2, <2>3 DEF Puttable, ValuesOf
<1>2. \A v \in Word : Typed("address", v) /\ Typed("recipient", v)
  BY DEF Typed
<1>3. \A v \in U64 : Typed("number", v)
  BY U64Written DEF Typed
<1>4. /\ KIND_PAYMENT \in Kinds /\ KIND_DEPOSIT \in Kinds /\ KIND_WITHDRAWAL \in Kinds
      /\ KIND_FORCED_WITHDRAWAL \in Kinds
  BY DEF Kinds, KIND_PAYMENT, KIND_DEPOSIT, KIND_WITHDRAWAL, KIND_FORCED_WITHDRAWAL
<1>5. CASE txn \in [kind : {"PAY"}, sender : Word, destination : Word, amount : U64, fee : U64]
  <2> DEFINE a == txn.sender
             b == txn.fee
             c == txn.destination
             d == txn.amount
  <2>1. a \in Word /\ b \in U64 /\ c \in Word /\ d \in U64 /\ txn = Payment(a, c, d, b)
    BY <1>5 DEF Payment
  <2>2. txn.kind = "PAY"
    BY <1>5
  <2>. HIDE DEF a, b, c, d
  <2>3. Fit(TransactionLayout(KIND_PAYMENT), a, b, c, d)
    BY <1>2, <1>3, <2>1, LayoutIs DEF Fit
  <2>4. Len(TransactionLayout(KIND_PAYMENT)) = 4
    BY LayoutIs
  <2>5. \A f : Four(f, TransactionLayout(KIND_PAYMENT), a, b, c, d) => txn = TransactionOf(KIND_PAYMENT, f)
    BY <2>1, <2>4, TransactionIs DEF Four
  <2>6. Puttable(txn)
    BY <1>1, <1>4, <2>3, <2>5
  <2>. QED BY <2>2, <2>6 DEF TransactionKinds
<1>6. CASE txn \in [kind : {"WDR"}, sender : Word, destination : Word, amount : U64, fee : U64]
  <2> DEFINE a == txn.sender
             b == txn.fee
             c == txn.destination
             d == txn.amount
  <2>1. a \in Word /\ b \in U64 /\ c \in Word /\ d \in U64 /\ txn = Withdrawal(a, c, d, b)
    BY <1>6 DEF Withdrawal
  <2>2. txn.kind = "WDR"
    BY <1>6
  <2>. HIDE DEF a, b, c, d
  <2>3. Fit(TransactionLayout(KIND_WITHDRAWAL), a, b, c, d)
    BY <1>2, <1>3, <2>1, LayoutIs DEF Fit
  <2>4. Len(TransactionLayout(KIND_WITHDRAWAL)) = 4
    BY LayoutIs
  <2>5. \A f : Four(f, TransactionLayout(KIND_WITHDRAWAL), a, b, c, d) => txn = TransactionOf(KIND_WITHDRAWAL, f)
    BY <2>1, <2>4, TransactionIs DEF Four
  <2>6. Puttable(txn)
    BY <1>1, <1>4, <2>3, <2>5
  <2>. QED BY <2>2, <2>6 DEF TransactionKinds
<1>7. CASE txn \in [kind : {"deposit"}, sender : {ZERO_ADDRESS}, destination : Word,
                    amount : U64, fee : {0}]
  <2> DEFINE a == txn.destination
             b == txn.amount
  <2>1. a \in Word /\ b \in U64 /\ txn = Deposit(a, b)
    BY <1>7 DEF Deposit
  <2>2. txn.kind = "deposit"
    BY <1>7
  <2>. HIDE DEF a, b
  <2>3. Fit(TransactionLayout(KIND_DEPOSIT), a, b, a, a)
    BY <1>2, <1>3, <2>1, LayoutIs DEF Fit
  <2>5. \A f : Four(f, TransactionLayout(KIND_DEPOSIT), a, b, a, a) => txn = TransactionOf(KIND_DEPOSIT, f)
    BY <2>1, TransactionIs DEF Four
  <2>6. Puttable(txn)
    BY <1>1, <1>4, <2>3, <2>5
  <2>. QED BY <2>2, <2>6 DEF TransactionKinds
<1>8. CASE txn \in [kind : {"forced"}, sender : Word, destination : Word, amount : {0}, fee : {0}]
  <2> DEFINE a == txn.sender
             b == txn.destination
  <2>1. a \in Word /\ b \in Word /\ txn = ForcedWithdrawal(a, b)
    BY <1>8 DEF ForcedWithdrawal
  <2>2. txn.kind = "forced"
    BY <1>8
  <2>. HIDE DEF a, b
  <2>3. Fit(TransactionLayout(KIND_FORCED_WITHDRAWAL), a, b, a, a)
    BY <1>2, <2>1, LayoutIs DEF Fit
  <2>5. \A f : Four(f, TransactionLayout(KIND_FORCED_WITHDRAWAL), a, b, a, a) => txn = TransactionOf(KIND_FORCED_WITHDRAWAL, f)
    BY <2>1, TransactionIs DEF Four
  <2>6. Puttable(txn)
    BY <1>1, <1>4, <2>3, <2>5
  <2>. QED BY <2>2, <2>6 DEF TransactionKinds
<1>. QED BY <1>5, <1>6, <1>7, <1>8 DEF Transaction

(* So can an account, or none, *)
LEMMA AccountTyped ==
  ASSUME NEW v \in {NoAccount} \cup StoredAccount
  PROVE  Typed("account", v)
<1>1. CASE v = NoAccount
  BY <1>1 DEF Typed
<1>2. CASE v \in StoredAccount
  <2>1. v \in [nonce : 0..MAX_U64, amount : 0..MAX_U64, auth_address : Word]
    BY <1>2 DEF StoredAccount, U64
  <2>2. Encodes(v)
    BY <2>1, AccountWritten
  <2>. QED BY <2>2 DEF Typed
<1>. QED BY <1>1, <1>2

(* the siblings of a proof no longer than the tree is deep, *)
LEMMA SiblingsTyped ==
  ASSUME NEW v \in Seq(Word), Len(v) <= DEPTH
  PROVE  Typed("siblings", v)
<1>1. Len(v) \in 0..MAX_U64
  <2>1. Len(v) \in Nat
    BY LenProperties
  <2>. QED BY <2>1, Bases, CodecAssumption
<1>2. Writable(Len(v))
  BY <1>1, NumberWritten DEF Writable
<1>. QED BY <1>2 DEF Typed

(* a key or a signature, *)
LEMMA BufferTyped ==
  ASSUME NEW v \in Buffer
  PROVE  Typed("bytes", v)
<1>1. v \in Seq(Byte) /\ Len(v) <= MAX_U64
  BY DEF Buffer
<1>2. Len(v) \in Nat
  BY <1>1, LenProperties
<1>3. Len(v) \in 0..MAX_U64
  BY <1>1, <1>2, Bases
<1>4. Writable(Len(v))
  BY <1>3, NumberWritten DEF Writable
<1>. QED BY <1>1, <1>4 DEF Typed, Bytes

(* what a slot was found to hold, *)
LEMMA SlotTyped ==
  ASSUME NEW v \in Slot
  PROVE  Typed("slot", v)
<1>1. CASE v = OwnSlot
  BY <1>1 DEF Typed
<1>2. CASE v \in [address : Word, account : StoredAccount]
  <2>1. v.address \in Word /\ v.account \in StoredAccount
        /\ v = [address |-> v.address, account |-> v.account]
    BY <1>2
  <2>2. v.account \in [nonce : 0..MAX_U64, amount : 0..MAX_U64, auth_address : Word]
    BY <2>1 DEF StoredAccount, U64
  <2>3. Encodes(v.account)
    BY <2>2, AccountWritten
  <2>4. v # OwnSlot
    <3>1. "address" \in DOMAIN v
      BY <2>1
    <3>2. DOMAIN OwnSlot = {}
      BY DEF OwnSlot
    <3>. QED BY <3>1, <3>2
  <2>. QED BY <2>1, <2>3, <2>4 DEF Typed
<1>. QED BY <1>1, <1>2 DEF Slot

(* and a witness made of them. *)
LEMMA WitnessTyped ==
  ASSUME NEW w \in LeafWitness
  PROVE  /\ Typed("account", w.old_account) /\ Typed("siblings", w.siblings)
         /\ Typed("slot", w.slot)
         /\ w = [old_account |-> w.old_account, siblings |-> w.siblings, slot |-> w.slot]
<1>1. /\ w.old_account \in {NoAccount} \cup StoredAccount
      /\ w.siblings \in Seq(Word) /\ Len(w.siblings) <= DEPTH /\ w.slot \in Slot
      /\ w = [old_account |-> w.old_account, siblings |-> w.siblings, slot |-> w.slot]
  BY DEF LeafWitness
<1> DEFINE a == w.old_account
           b == w.siblings
           c == w.slot
<1>2. a \in {NoAccount} \cup StoredAccount /\ b \in Seq(Word) /\ Len(b) <= DEPTH /\ c \in Slot
  BY <1>1
<1>. HIDE DEF a, b, c
<1>3. Typed("account", a)
  BY <1>2, AccountTyped
<1>4. Typed("siblings", b)
  BY <1>2, SiblingsTyped
<1>5. Typed("slot", c)
  BY <1>2, SlotTyped
<1>. QED BY <1>1, <1>3, <1>4, <1>5 DEF a, b, c

(* The three fields of each of up to three witnesses, one after another. *)
Part(w, i) == IF i = 1 THEN w.old_account ELSE IF i = 2 THEN w.siblings ELSE w.slot

Laid(sig, s, ws) ==
  [n \in 1..(s + 9) |->
     IF n <= s THEN (IF n = 1 THEN sig.scheme ELSE IF n = 2 THEN sig.pub_key ELSE sig.sig)
     ELSE IF n <= s + 3 THEN Part(ws[1], n - s)
     ELSE IF n <= s + 6 THEN Part(ws[2], n - s - 3)
     ELSE Part(ws[3], n - s - 6)]

LaidOut(vs, sig, s, ws) ==
  /\ s = 3 => vs[1] = sig.scheme /\ vs[2] = sig.pub_key /\ vs[3] = sig.sig
  /\ \A m \in {1, 2, 3} : /\ vs[s + 3 * m - 2] = ws[m].old_account
                          /\ vs[s + 3 * m - 1] = ws[m].siblings
                          /\ vs[s + 3 * m] = ws[m].slot

(* Each value is at its field's place. *)
LEMMA LaidIs ==
  ASSUME NEW sig, NEW s \in {0, 3}, NEW ws
  PROVE  LaidOut(Laid(sig, s, ws), sig, s, ws)
BY DEF Laid, Part, LaidOut

(* An entry of its transaction's kind, with a witness for every slot that is
   written, can be written. *)
LEMMA SidecarTyped ==
  ASSUME NEW txn, txn.kind \in TransactionKinds, NEW entry \in TxnSidecar,
         KindsMatch(txn, entry)
  PROVE  Storable(txn, entry)
<1> DEFINE L == EntryLayout(txn)
           N == Len(L)
           s == Signature(txn)
           K == Slots(txn)
           ws == entry.witnesses
           vs == Laid(entry.sig, s, ws)
           f == First(vs, N)
<1>1. /\ K \in {1, 2, 3} /\ N = s + 3 * K /\ s \in {0, 3}
      /\ s = 3 => L[1] = "scheme" /\ L[2] = "bytes" /\ L[3] = "bytes"
      /\ s = 3 <=> txn.kind \in {"PAY", "WDR"}
      /\ \A m \in 1..K : /\ L[s + 3 * m - 2] = "account" /\ L[s + 3 * m - 1] = "siblings"
                         /\ L[s + 3 * m] = "slot"
  BY EntryLayoutIs
<1>2. /\ entry.kind = txn.kind /\ Len(ws) = K /\ ws \in Seq(LeafWitness)
  BY DEF KindsMatch, TxnSidecar, Slots
<1>3. \A m \in 1..K : ws[m] \in LeafWitness
  BY <1>2, ElementOfSeq
<1>4. /\ s = 3 => vs[1] = entry.sig.scheme /\ vs[2] = entry.sig.pub_key /\ vs[3] = entry.sig.sig
      /\ \A m \in {1, 2, 3} : /\ vs[s + 3 * m - 2] = ws[m].old_account
                              /\ vs[s + 3 * m - 1] = ws[m].siblings
                              /\ vs[s + 3 * m] = ws[m].slot
  <2> DEFINE sig == entry.sig
  <2>. HIDE DEF s, ws, sig
  <2>1. LaidOut(Laid(sig, s, ws), sig, s, ws)
    BY <1>1, LaidIs
  <2>. QED BY <2>1 DEF sig, LaidOut
<1>5. /\ s = 3 => /\ entry.sig.scheme \in Schemes
                  /\ entry.sig.pub_key \in Buffer /\ entry.sig.sig \in Buffer
                  /\ entry.sig = [scheme |-> entry.sig.scheme, pub_key |-> entry.sig.pub_key,
                                  sig |-> entry.sig.sig]
      /\ s = 0 => entry.sig = << >>
  BY <1>1, <1>2 DEF TxnSidecar, TransactionKinds
<1>6. entry = [kind |-> entry.kind, sig |-> entry.sig, witnesses |-> ws]
  BY DEF TxnSidecar
<1>7. EntryOf(txn, f) =
        [kind |-> txn.kind,
         sig |-> IF s = 0 THEN << >> ELSE [scheme |-> f[1], pub_key |-> f[2], sig |-> f[3]],
         witnesses |-> [i \in 1..K |->
           [old_account |-> f[(s + 3 * (i - 1)) + 1], siblings |-> f[(s + 3 * (i - 1)) + 2],
            slot |-> f[(s + 3 * (i - 1)) + 3]]]]
  BY DEF EntryOf, Signature, Slots
<1>8. \A n \in 1..N : f[n] = vs[n]
  BY DEF First
<1>. HIDE DEF L, N, s, K, vs, f, ws
<1>15. LaidOut(vs, entry.sig, s, ws)
  BY <1>4 DEF LaidOut
<1>16. ASSUME NEW m \in {1, 2, 3}
       PROVE  /\ vs[s + 3 * m - 2] = ws[m].old_account /\ vs[s + 3 * m - 1] = ws[m].siblings
              /\ vs[s + 3 * m] = ws[m].slot
  BY <1>15 DEF LaidOut
<1>9. ASSUME NEW n \in 1..N PROVE Typed(L[n], vs[n])
  <2>1. (s = 3 /\ n \in 1..3) \/ \E m \in 1..K : n \in {s + 3 * m - 2, s + 3 * m - 1, s + 3 * m}
    BY <1>1
  <2>2. CASE s = 3 /\ n \in 1..3
    <3>1. Typed("bytes", vs[2]) /\ Typed("bytes", vs[3])
      <4> DEFINE a == vs[2]
                 b == vs[3]
      <4>1. a \in Buffer /\ b \in Buffer
        BY <1>4, <1>5, <2>2
      <4>. HIDE DEF a, b
      <4>2. Typed("bytes", a) /\ Typed("bytes", b)
        BY <4>1, BufferTyped
      <4>. QED BY <4>2 DEF a, b
    <3>2. Typed("scheme", vs[1])
      BY <1>4, <1>5, <2>2 DEF Typed
    <3>3. n = 1 \/ n = 2 \/ n = 3
      BY <2>2
    <3>. QED BY <1>1, <2>2, <3>1, <3>2, <3>3
  <2>3. ASSUME NEW m \in 1..K, n \in {s + 3 * m - 2, s + 3 * m - 1, s + 3 * m}
        PROVE  Typed(L[n], vs[n])
    <3>1. m \in {1, 2, 3}
      BY <1>1
    <3> DEFINE w == ws[m]
    <3>2. w \in LeafWitness
      BY <1>3
    <3>3. /\ vs[s + 3 * m - 2] = w.old_account /\ vs[s + 3 * m - 1] = w.siblings
          /\ vs[s + 3 * m] = w.slot
      BY <1>4, <3>1
    <3>. HIDE DEF w
    <3>4. /\ Typed("account", w.old_account) /\ Typed("siblings", w.siblings)
          /\ Typed("slot", w.slot)
      BY <3>2, WitnessTyped
    <3>5. L[s + 3 * m - 2] = "account" /\ L[s + 3 * m - 1] = "siblings" /\ L[s + 3 * m] = "slot"
      BY <1>1
    <3>6. /\ Typed(L[s + 3 * m - 2], vs[s + 3 * m - 2])
          /\ Typed(L[s + 3 * m - 1], vs[s + 3 * m - 1]) /\ Typed(L[s + 3 * m], vs[s + 3 * m])
      BY <3>3, <3>4, <3>5
    <3>. QED BY <2>3, <3>6
  <2>. QED BY <2>1, <2>2, <2>3
<1>10. EntryTyped(txn, vs)
  BY <1>9 DEF EntryTyped, L, N
<1>11. ASSUME NEW i \in 1..K
       PROVE  [old_account |-> f[(s + 3 * (i - 1)) + 1], siblings |-> f[(s + 3 * (i - 1)) + 2],
               slot |-> f[(s + 3 * (i - 1)) + 3]] = ws[i]
  <2> DEFINE w == ws[i]
             at == s + 3 * i
  <2>1. /\ (s + 3 * (i - 1)) + 1 = at - 2 /\ (s + 3 * (i - 1)) + 2 = at - 1
        /\ (s + 3 * (i - 1)) + 3 = at
        /\ at - 2 \in 1..N /\ at - 1 \in 1..N /\ at \in 1..N /\ i \in {1, 2, 3}
    BY <1>1
  <2>2. vs[at - 2] = w.old_account /\ vs[at - 1] = w.siblings /\ vs[at] = w.slot
    <3>1. /\ vs[s + 3 * i - 2] = ws[i].old_account /\ vs[s + 3 * i - 1] = ws[i].siblings
          /\ vs[s + 3 * i] = ws[i].slot
      <4>1. i \in {1, 2, 3}
        BY <2>1
      <4>. QED BY <1>16, <4>1
    <3>2. s + 3 * i - 2 = at - 2 /\ s + 3 * i - 1 = at - 1
      BY <1>1, <2>1
    <3>. QED BY <3>1, <3>2
  <2>3. w \in LeafWitness
    BY <1>3
  <2>. HIDE DEF w, at
  <2>4. w = [old_account |-> w.old_account, siblings |-> w.siblings, slot |-> w.slot]
    BY <2>3, WitnessTyped
  <2>5. f[at - 2] = w.old_account /\ f[at - 1] = w.siblings /\ f[at] = w.slot
    BY <1>8, <2>1, <2>2
  <2>. QED BY <2>1, <2>4, <2>5 DEF w
<1> DEFINE back == [i \in 1..K |->
           [old_account |-> f[(s + 3 * (i - 1)) + 1], siblings |-> f[(s + 3 * (i - 1)) + 2],
            slot |-> f[(s + 3 * (i - 1)) + 3]]]
<1>12. back = ws
  <2>1. \A i \in 1..K : back[i] = ws[i]
    BY <1>11
  <2>2. ws = [i \in 1..K |-> ws[i]] /\ back = [i \in 1..K |-> back[i]]
    BY <1>2
  <2>. HIDE DEF back
  <2>. QED BY <2>1, <2>2
<1>13. (IF s = 0 THEN << >> ELSE [scheme |-> f[1], pub_key |-> f[2], sig |-> f[3]]) = entry.sig
  <2>1. CASE s = 0
    BY <1>5, <2>1
  <2>2. CASE s = 3
    <3>1. 1 \in 1..N /\ 2 \in 1..N /\ 3 \in 1..N
      BY <1>1, <2>2
    <3>2. f[1] = vs[1] /\ f[2] = vs[2] /\ f[3] = vs[3]
      BY <1>8, <3>1
    <3>. QED BY <1>4, <1>5, <2>2, <3>2
  <2>. QED BY <1>1, <2>1, <2>2
<1>14. entry = EntryOf(txn, f)
  <2>. HIDE DEF back
  <2> DEFINE sg == IF s = 0 THEN << >> ELSE [scheme |-> f[1], pub_key |-> f[2], sig |-> f[3]]
  <2>1. EntryOf(txn, f) = [kind |-> txn.kind, sig |-> sg, witnesses |-> back]
    BY <1>7 DEF back
  <2>2. sg = entry.sig
    BY <1>13
  <2>. HIDE DEF sg
  <2>. QED BY <1>2, <1>6, <1>12, <2>1, <2>2
<1>. QED BY <1>10, <1>14 DEF Storable, f, N, L

-----------------------------------------------------------------------------
(* What a run keeps. *)
Building == stage \in {"settled", "reported", "proved"}

Found == stage = "next" \/ Building => AllFound

Lists == (\E S : bought \in Seq(S)) /\ (\E S : emitted \in Seq(S))

Named == \A i \in 1..Len(bought) : bought[i].name \in DOMAIN BlocksOf

Files == artifacts = [n \in DOMAIN BlocksOf |-> artifacts[n]]

(* A proof is in hand from the network's answer to the file. *)
InHand ==
  /\ Building => Name \in DOMAIN BlocksOf
  /\ stage = "proved" =>
       proof # Nothing /\ proof.name = Name /\ proof.values = settlement.public_values
  /\ stage \in {"start", "next", "settled", "reported", "done"} => proof = Nothing

KeptSoFar ==
  /\ args \in Arguments /\ Found /\ Lists /\ Named /\ Files /\ InHand
  /\ PaidProofsKept

(* A record is not the empty list that stands for nothing. *)
LEMMA ProofIsSomething ==
  ASSUME NEW n, NEW v
  PROVE  [name |-> n, values |-> v] # Nothing
<1>1. "name" \in DOMAIN [name |-> n, values |-> v]
  OBVIOUS
<1>2. DOMAIN Nothing = {}
  BY DEF Nothing
<1> QED BY <1>1, <1>2

LEMMA FixtureIsSomething == Fixture # Nothing
<1>1. "name" \in DOMAIN Fixture
  BY DEF Fixture
<1>2. DOMAIN Nothing = {}
  BY DEF Nothing
<1> QED BY <1>1, <1>2

(* One more at the end of a list. *)
LEMMA Appended ==
  ASSUME NEW s, NEW x, \E S : s \in Seq(S)
  PROVE  /\ \E S : Append(s, x) \in Seq(S)
         /\ Len(s) \in Nat /\ Len(Append(s, x)) = Len(s) + 1
         /\ Append(s, x)[Len(s) + 1] = x
         /\ \A i \in 1..Len(s) : Append(s, x)[i] = s[i]
<1>1. PICK S : s \in Seq(S)
  OBVIOUS
<1>2. s \in Seq(S \cup {x})
  <2>1. Len(s) \in Nat /\ s \in [1..Len(s) -> S]
    BY <1>1, LenProperties
  <2>2. s \in [1..Len(s) -> S \cup {x}]
    BY <2>1
  <2> QED BY <2>1, <2>2, SeqDef
<1>3. /\ Append(s, x) \in Seq(S \cup {x}) /\ Len(s) \in Nat
      /\ Len(Append(s, x)) = Len(s) + 1 /\ Append(s, x)[Len(s) + 1] = x
      /\ \A i \in 1..Len(s) : Append(s, x)[i] = s[i]
  BY <1>2, AppendProperties, LenProperties
<1> QED BY <1>3

LEMMA KeptInit == Init => KeptSoFar
<1> SUFFICES ASSUME Init PROVE KeptSoFar
  OBVIOUS
<1>1. Lists
  BY EmptySeq DEF Init, Lists
<1>2. Files
  BY DEF Init, Files
<1>3. Len(bought) = 0
  BY DEF Init
<1>4. PaidProofsKept /\ Named
  BY <1>3 DEF PaidProofsKept, Named
<1> QED BY <1>1, <1>2, <1>4 DEF Init, KeptSoFar, Found, Building, InHand

(* The scenario a run turns to can be built. *)
LEMMA NameIsFound ==
  ASSUME KeptSoFar, stage = "next", Len(emitted) < Len(Selected)
  PROVE  Name \in DOMAIN BlocksOf
<1> DEFINE k == Len(emitted) + 1
<1>1. Len(emitted) \in Nat
  BY Appended DEF KeptSoFar, Lists
<1>2. args.names \in Seq(STRING) /\ AllScenarios \in Seq(DOMAIN BlocksOf)
  BY HostAssumption DEF KeptSoFar
<1>3. \A i \in 1..Len(AllScenarios) : AllScenarios[i] \in DOMAIN BlocksOf
  BY <1>2, ElementOfSeq
<1>4. CASE args.names = << >>
  <2>1. Selected = AllScenarios
    BY <1>4 DEF Selected
  <2>2. k \in 1..Len(AllScenarios)
    BY <1>1, <1>2, <2>1, LenProperties
  <2> QED BY <1>3, <2>1, <2>2 DEF Name
<1>5. CASE args.names # << >>
  <2>1. Selected = args.names
    BY <1>5 DEF Selected
  <2>2. k \in 1..Len(args.names)
    BY <1>1, <1>2, <2>1, LenProperties
  <2>3. find(args.names[k])
    BY <2>2 DEF KeptSoFar, Found, AllFound
  <2>4. args.names[k] \in DOMAIN BlocksOf
    BY <1>3, <2>3, HostAssumption DEF find
  <2> QED BY <2>1, <2>4 DEF Name
<1> QED BY <1>4, <1>5

(* Steps that buy nothing and write nothing. *)
LEMMA QuietKeeps ==
  ASSUME KeptSoFar, UNCHANGED <<args, proof, bought, artifacts>>, Found', InHand',
         \E S : emitted' \in Seq(S)
  PROVE  KeptSoFar'
BY DEF KeptSoFar, Lists, Named, Files, PaidProofsKept

(* A cut-short write spoils only the file of the scenario in hand. *)
LEMMA CutShortKeeps ==
  ASSUME KeptSoFar, stage = "proved", WriteCutShort,
         UNCHANGED <<args, proof, bought, emitted>>, Found', InHand'
  PROVE  KeptSoFar'
<1>1. /\ Files /\ Name \in DOMAIN BlocksOf /\ proof # Nothing /\ proof.name = Name
      /\ PaidProofsKept /\ Named
  BY DEF KeptSoFar, InHand, Building
<1>2. Files' /\ \A n \in DOMAIN BlocksOf \ {Name} : artifacts'[n] = artifacts[n]
  <2>1. CASE artifacts' = artifacts
    BY <1>1, <2>1 DEF Files
  <2>2. CASE artifacts' = [artifacts EXCEPT ![Name] = Nothing]
    BY <1>1, <2>2 DEF Files
  <2> QED BY <2>1, <2>2 DEF WriteCutShort
<1>3. PaidProofsKept'
  BY <1>1, <1>2 DEF PaidProofsKept, Named
<1> QED BY <1>2, <1>3 DEF KeptSoFar, Lists, Named

LEMMA StartKeeps ==
  ASSUME KeptSoFar, Start
  PROVE  KeptSoFar'
<1>1. /\ stage = "start" /\ UNCHANGED <<args, proof, bought, artifacts, emitted>>
      /\ stage' \in {"done", "failed", "next"} /\ (stage' = "next" => AllFound)
  BY DEF Start, SetUpFails, Stop
<1>2. Found' /\ InHand'
  BY <1>1 DEF KeptSoFar, Found, InHand, Building, AllFound
<1> QED BY <1>1, <1>2, QuietKeeps DEF KeptSoFar, Lists

LEMMA SettleKeeps ==
  ASSUME KeptSoFar, Settle
  PROVE  KeptSoFar'
<1>1. /\ stage = "next" /\ Len(emitted) < Len(Selected)
      /\ UNCHANGED <<args, proof, bought, artifacts, emitted>>
      /\ stage' \in {"failed", "settled"}
  BY DEF Settle, Stop
<1>2. Name' \in DOMAIN BlocksOf
  BY <1>1, NameIsFound DEF Name, Selected
<1>3. Found' /\ InHand'
  BY <1>1, <1>2 DEF KeptSoFar, Found, InHand, Building, AllFound
<1> QED BY <1>1, <1>3, QuietKeeps DEF KeptSoFar, Lists

LEMMA ReportKeeps ==
  ASSUME KeptSoFar, Report
  PROVE  KeptSoFar'
<1>1. /\ stage = "settled" /\ stage' \in {"reported", "failed"}
      /\ UNCHANGED <<args, settlement, proof, bought, artifacts, emitted>>
  BY DEF Report, Stop
<1>2. Found' /\ InHand'
  BY <1>1 DEF KeptSoFar, Found, InHand, Building, AllFound, Name, Selected
<1> QED BY <1>1, <1>2, QuietKeeps DEF KeptSoFar, Lists

(* The proof just bought is in hand, and all those before it are on disk. *)
LEMMA ProveKeeps ==
  ASSUME KeptSoFar, Prove
  PROVE  KeptSoFar'
<1>1. /\ stage \in {"settled", "reported"}
      /\ UNCHANGED <<args, settlement, artifacts, emitted>>
  BY DEF Prove, ReadyToProve
<1>2. Name' = Name /\ Name \in DOMAIN BlocksOf /\ proof = Nothing
  BY <1>1 DEF Name, Selected, KeptSoFar, InHand, Building
<1>3. CASE stage' = "failed" /\ UNCHANGED <<proof, bought>>
  <2>1. Found' /\ InHand'
    BY <1>3 DEF Found, InHand, Building
  <2> QED BY <1>1, <1>3, <2>1, QuietKeeps DEF KeptSoFar, Lists
<1>4. ASSUME NEW values, Accept(values), proof' = [name |-> Name, values |-> values],
             bought' = Append(bought, proof'), stage' = "proved"
      PROVE  KeptSoFar'
  <2>1. /\ proof' # Nothing /\ proof'.name = Name
        /\ proof'.values = settlement.public_values
    BY <1>4, ProofIsSomething DEF Accept, Agrees
  <2>2. Found' /\ InHand'
    BY <1>1, <1>2, <1>4, <2>1 DEF KeptSoFar, Found, InHand, Building, AllFound
  <2>3. /\ \E S : bought' \in Seq(S)
        /\ Len(bought) \in Nat /\ Len(bought') = Len(bought) + 1
        /\ bought'[Len(bought) + 1] = proof'
        /\ \A i \in 1..Len(bought) : bought'[i] = bought[i]
    <3>1. \E S : bought \in Seq(S)
      BY DEF KeptSoFar, Lists
    <3>2. /\ \E S : Append(bought, proof') \in Seq(S)
          /\ Len(bought) \in Nat /\ Len(Append(bought, proof')) = Len(bought) + 1
          /\ Append(bought, proof')[Len(bought) + 1] = proof'
          /\ \A i \in 1..Len(bought) : Append(bought, proof')[i] = bought[i]
      BY <3>1, Appended
    <3> QED BY <1>4, <3>2
  <2>4. \A i \in 1..Len(bought') : i \in 1..Len(bought) \/ i = Len(bought) + 1
    BY <2>3
  <2>5. Named'
    <3> SUFFICES ASSUME NEW i \in 1..Len(bought')
                 PROVE  bought'[i].name \in DOMAIN BlocksOf
      BY DEF Named
    <3>1. CASE i \in 1..Len(bought)
      BY <2>3, <3>1 DEF KeptSoFar, Named
    <3>2. CASE i = Len(bought) + 1
      BY <1>2, <2>1, <2>3, <3>2
    <3> QED BY <2>4, <3>1, <3>2
  <2>6. PaidProofsKept'
    <3> SUFFICES ASSUME NEW i \in 1..Len(bought')
                 PROVE  \/ proof' # Nothing /\ proof'.name = bought'[i].name
                        \/ LET kept == artifacts'[bought'[i].name]
                           IN /\ kept # Nothing /\ kept.name = bought'[i].name
                              /\ kept.proof.values = kept.settlement.public_values
      BY DEF PaidProofsKept
    <3>1. CASE i \in 1..Len(bought)
      BY <1>1, <1>2, <2>3, <3>1 DEF KeptSoFar, PaidProofsKept
    <3>2. CASE i = Len(bought) + 1
      BY <2>1, <2>3, <3>2
    <3> QED BY <2>4, <3>1, <3>2
  <2> QED BY <1>1, <2>2, <2>3, <2>5, <2>6 DEF KeptSoFar, Lists, Files
<1> QED BY <1>3, <1>4 DEF Prove, Stop

(* Once the file is written the proof in hand is kept like the others. *)
LEMMA KeepKeeps ==
  ASSUME KeptSoFar, Keep
  PROVE  KeptSoFar'
<1>1. /\ stage = "proved" /\ UNCHANGED <<args, settlement, bought>>
      /\ Files /\ Named /\ PaidProofsKept /\ Name \in DOMAIN BlocksOf
      /\ proof.name = Name /\ proof.values = settlement.public_values
  BY DEF Keep, KeptSoFar, InHand, Building
<1>2. CASE /\ artifacts' = [artifacts EXCEPT ![Name] = Fixture]
           /\ emitted' = Append(emitted, Fixture) /\ proof' = Nothing
           /\ stage' = "next"
  <2>1. Found' /\ InHand'
    BY <1>1, <1>2 DEF KeptSoFar, Found, InHand, Building, AllFound
  <2>2. \E S : emitted' \in Seq(S)
    BY <1>2, Appended DEF KeptSoFar, Lists
  <2>3. /\ Files' /\ artifacts'[Name] = Fixture
        /\ \A n \in DOMAIN BlocksOf \ {Name} : artifacts'[n] = artifacts[n]
    BY <1>1, <1>2 DEF Files
  <2>4. /\ Fixture # Nothing /\ Fixture.name = Name
        /\ Fixture.proof.values = Fixture.settlement.public_values
    BY <1>1, FixtureIsSomething DEF Fixture
  <2>5. ASSUME NEW i \in 1..Len(bought)
        PROVE  LET kept == artifacts'[bought[i].name]
               IN /\ kept # Nothing /\ kept.name = bought[i].name
                  /\ kept.proof.values = kept.settlement.public_values
    <3>1. CASE bought[i].name = Name
      BY <2>3, <2>4, <3>1
    <3>2. CASE bought[i].name # Name
      <4>1. artifacts'[bought[i].name] = artifacts[bought[i].name]
        BY <1>1, <2>3, <3>2 DEF Named
      <4> QED BY <1>1, <3>2, <4>1 DEF PaidProofsKept
    <3> QED BY <3>1, <3>2
  <2>6. PaidProofsKept'
    BY <1>1, <2>5 DEF PaidProofsKept
  <2> QED BY <1>1, <2>1, <2>2, <2>3, <2>6 DEF KeptSoFar, Lists, Named
<1>3. CASE WriteCutShort /\ stage' = "failed" /\ UNCHANGED <<emitted, proof>>
  <2>1. Found' /\ InHand'
    BY <1>3 DEF Found, InHand, Building
  <2> QED BY <1>1, <1>3, <2>1, CutShortKeeps
<1> QED BY <1>2, <1>3 DEF Keep, Stop

LEMMA EmitKeeps ==
  ASSUME KeptSoFar, Emit
  PROVE  KeptSoFar'
<1>1. /\ stage \in {"settled", "reported"} /\ stage' = "next"
      /\ emitted' = Append(emitted, Fixture)
      /\ UNCHANGED <<args, proof, bought, artifacts>>
  BY DEF Emit, ReadyToProve
<1>2. Found' /\ InHand'
  BY <1>1 DEF KeptSoFar, Found, InHand, Building, AllFound
<1>3. \E S : emitted' \in Seq(S)
  BY <1>1, Appended DEF KeptSoFar, Lists
<1> QED BY <1>1, <1>2, <1>3, QuietKeeps

LEMMA DocumentKeeps ==
  ASSUME KeptSoFar, Document
  PROVE  KeptSoFar'
<1>1. /\ stage = "next" /\ stage' \in {"done", "failed"}
      /\ UNCHANGED <<args, proof, bought, artifacts, emitted>>
  BY DEF Document, Stop
<1>2. Found' /\ InHand'
  BY <1>1 DEF KeptSoFar, Found, InHand, Building
<1> QED BY <1>1, <1>2, QuietKeeps DEF KeptSoFar, Lists

LEMMA KillKeeps ==
  ASSUME KeptSoFar, Kill
  PROVE  KeptSoFar'
<1>1. stage' = "killed" /\ UNCHANGED <<args, proof, bought, emitted>>
  BY DEF Kill
<1>2. Found' /\ InHand'
  BY <1>1 DEF Found, InHand, Building
<1>3. CASE stage = "proved"
  BY <1>1, <1>2, <1>3, CutShortKeeps DEF Kill
<1>4. CASE stage # "proved"
  BY <1>1, <1>2, <1>4, QuietKeeps DEF Kill, KeptSoFar, Lists
<1> QED BY <1>3, <1>4

LEMMA HandKeeps ==
  ASSUME KeptSoFar, Hand
  PROVE  KeptSoFar'
<1>1. stage' = "elsewhere" /\ UNCHANGED <<args, proof, bought, artifacts, emitted>>
  BY DEF Hand
<1>2. Found' /\ InHand'
  BY <1>1 DEF Found, InHand, Building
<1> QED BY <1>1, <1>2, QuietKeeps DEF KeptSoFar, Lists

(* No step of the host loses a proof it has kept. *)
LEMMA KeptStays == KeptSoFar /\ [Next]_vars => KeptSoFar'
<1> SUFFICES ASSUME KeptSoFar, [Next]_vars PROVE KeptSoFar'
  OBVIOUS
<1>1. CASE UNCHANGED vars
  BY <1>1 DEF vars, KeptSoFar, Found, Building, Lists, Named, Files, InHand,
              Name, Selected, AllFound, PaidProofsKept
<1> QED BY <1>1, StartKeeps, SettleKeeps, ReportKeeps, ProveKeeps, KeepKeeps,
           EmitKeeps, DocumentKeeps, KillKeeps, HandKeeps DEF Next

(* Wherever a run of the host ends, by an error of its own, of the network or
   of the file system, or by being killed, every proof it has paid for is on
   disk with the block it proves, but for the scenario in hand. *)
THEOREM ProofsAreKept == Spec => []PaidProofsKept
<1>1. KeptSoFar /\ [Next]_vars => KeptSoFar'
  BY KeptStays
<1>2. KeptSoFar => PaidProofsKept
  BY DEF KeptSoFar
<1> QED BY <1>1, <1>2, KeptInit, PTL DEF Spec

-----------------------------------------------------------------------------
(* The guest and the host, on one settlement. *)

(* A settlement that for_block returns carries what execute commits on its own
   fields, and those are what the guest is fed. *)
LEMMA SettlementIsExecuted ==
  ASSUME NEW b, for_block(b) # Nothing
  PROVE  guest_main(stdin_for(for_block(b))) = for_block(b).public_values
<1> DEFINE batch_bytes == Batch_encode(b.txns)
           sidecar_bytes == Sidecar_encode(b.entries)
           values == execute(Domain, b.old_root, b.old_inbox_chain, batch_bytes, sidecar_bytes)
           s == Collected(b, batch_bytes, sidecar_bytes, values, Batch_decode(batch_bytes).out)
<1>1. for_block(b) = s
  BY DEF for_block, Settled
<1>2. /\ s.domain = Domain /\ s.old_root = b.old_root
      /\ s.old_inbox_chain = b.old_inbox_chain /\ s.batch_bytes = batch_bytes
      /\ s.sidecar_bytes = sidecar_bytes /\ s.public_values = values
  BY DEF Collected
<1>. HIDE DEF s, batch_bytes, sidecar_bytes
<1>3. guest_main(stdin_for(s)) = values
  BY <1>2 DEF guest_main, stdin_for
<1>. QED BY <1>1, <1>2, <1>3

(* The guest, fed positionally by the host, commits the public values the host
   computed natively, for every block a scenario can build: a proof the host
   buys is refused only if the zkVM or the network has changed something. *)
THEOREM GuestAgreesWithHost == Spec => []GuestAgrees
<1>1. Init => GuestAgrees
  BY DEF Init, GuestAgrees
<1>2. GuestAgrees /\ [Next]_vars => GuestAgrees'
  <2> SUFFICES ASSUME GuestAgrees, [Next]_vars, stage' = "settled"
               PROVE  guest_main(stdin_for(settlement')) = settlement'.public_values
    BY DEF GuestAgrees
  <2>1. CASE UNCHANGED vars
    BY <2>1 DEF vars, GuestAgrees
  <2>2. CASE Settle
    <3>1. PICK b \in BlocksOf[Name] : settlement' = for_block(b)
      BY <2>2 DEF Settle
    <3>2. settlement' # Nothing
      BY <2>2 DEF Settle, Stop
    <3> QED BY <3>1, <3>2, SettlementIsExecuted
  <2>3. CASE Next /\ ~Settle
    BY <2>3 DEF Next, Start, SetUpFails, Report, Prove, Keep, Emit, Document, Kill, Hand, Stop
  <2> QED BY <2>1, <2>2, <2>3
<1> QED BY <1>1, <1>2, PTL DEF Spec

-----------------------------------------------------------------------------
(* A block, on the wire and off it. *)

(* The two wire halves of a block decode as what they were, and consist of what
   the codec can write. *)
LEMMA BlockRoundTrip ==
  ASSUME NEW b, IsBlock(b)
  PROVE  /\ Known(b.txns) /\ Writable(Len(b.txns)) /\ AllStorable(b.txns, b.entries)
         /\ Good(Batch_decode(Batch_encode(b.txns)))
         /\ Batch_decode(Batch_encode(b.txns)).out = b.txns
         /\ Batch_encode(b.txns) \in Bytes
         /\ Good(Sidecar_decode(Sidecar_encode(b.entries), b.txns))
         /\ Sidecar_decode(Sidecar_encode(b.entries), b.txns).out = b.entries
         /\ Sidecar_encode(b.entries) \in Bytes
<1> DEFINE txns == b.txns
           entries == b.entries
           N == Len(txns)
<1>1. /\ txns \in Seq(Transaction) /\ entries \in Seq(TxnSidecar)
      /\ Len(entries) = N /\ 2 * N <= MAX_U64
      /\ \A i \in 1..N : KindsMatch(txns[i], entries[i])
  BY DEF IsBlock
<1>. HIDE DEF txns, entries
<1>2. N \in Nat
  BY <1>1, LenProperties
<1>3. \A i \in 1..N : txns[i] \in Transaction /\ entries[i] \in TxnSidecar
  BY <1>1, ElementOfSeq
<1>4. \A i \in 1..N : Puttable(txns[i]) /\ txns[i].kind \in TransactionKinds
  BY <1>3, TransactionTyped
<1>5. Known(txns)
  BY <1>2, <1>4 DEF Known
<1>6. Writable(N)
  <2>1. N \in 0..MAX_U64
    BY <1>1, <1>2, Bases
  <2>. QED BY <2>1, NumberWritten DEF Writable
<1>7. ASSUME NEW i \in 1..N PROVE Storable(txns[i], entries[i])
  <2> DEFINE txn == txns[i]
             entry == entries[i]
  <2>1. txn.kind \in TransactionKinds /\ entry \in TxnSidecar /\ KindsMatch(txn, entry)
    BY <1>1, <1>3, <1>4
  <2>. HIDE DEF txn, entry
  <2>2. Storable(txn, entry)
    BY <2>1, SidecarTyped
  <2>. QED BY <2>2 DEF txn, entry
<1>8. AllStorable(txns, entries)
  BY <1>1, <1>7 DEF AllStorable
<1>9. /\ Good(Batch_decode(Batch_encode(txns)))
      /\ Batch_decode(Batch_encode(txns)).out = txns
      /\ Batch_encode(txns) \in Bytes
  BY <1>1, <1>4, BatchRoundTrip
<1>10. /\ Good(Sidecar_decode(Sidecar_encode(entries), txns))
       /\ Sidecar_decode(Sidecar_encode(entries), txns).out = entries
       /\ Sidecar_encode(entries) \in Bytes
  BY <1>1, <1>5, <1>6, <1>8, SidecarRoundTrip
<1>. QED BY <1>5, <1>6, <1>8, <1>9, <1>10 DEF txns, entries

(* A block that the types of lib.rs can hold survives the wire: Batch::decode
   reads back what Batch::encode wrote, and Sidecar::decode, beside the batch it
   belongs to, what Sidecar::encode wrote. *)
THEOREM BlocksSurviveTheWire ==
  ASSUME NEW b, IsBlock(b)
  PROVE  LET batch == Batch_decode(Batch_encode(b.txns))
             sidecar == Sidecar_decode(Sidecar_encode(b.entries), batch.out)
         IN Good(batch) /\ batch.out = b.txns /\ Good(sidecar) /\ sidecar.out = b.entries
<1> DEFINE txns == b.txns
           batch == Batch_decode(Batch_encode(txns))
           sidecar == Sidecar_decode(Sidecar_encode(b.entries), txns)
<1>1. Good(batch) /\ batch.out = txns /\ Good(sidecar) /\ sidecar.out = b.entries
  BY BlockRoundTrip
<1>. HIDE DEF batch, txns
<1>. QED BY <1>1 DEF sidecar, batch, txns

(* Settlement::for_block of a block goes by what the block says in memory. *)
LEMMA SettlesHonest ==
  ASSUME NEW b, IsBlock(b)
  PROVE  for_block(b) # Nothing <=> Honest(b)
<1> DEFINE txns == b.txns
           entries == b.entries
           bb == Batch_encode(txns)
           sb == Sidecar_encode(entries)
           landed == replay(b.old_root, b.old_inbox_chain, txns, entries)
           values == execute(Domain, b.old_root, b.old_inbox_chain, bb, sb)
           committed == public_values(Domain, b.old_root, bb, b.old_inbox_chain, landed)
           out == Collected(b, bb, sb, values, Batch_decode(bb).out)
<1>1. /\ Good(Batch_decode(bb)) /\ Batch_decode(bb).out = txns
      /\ Good(Sidecar_decode(sb, txns)) /\ Sidecar_decode(sb, txns).out = entries
  BY BlockRoundTrip
<1>2. for_block(b) = Settled(b, bb, sb, values)
  BY DEF for_block
<1>3. Settled(b, bb, sb, values) = IF LandsAsClaimed(b, values) THEN out ELSE Nothing
  BY DEF Settled
<1>4. out # Nothing
  <2>1. "domain" \in DOMAIN out
    BY DEF Collected
  <2>2. DOMAIN Nothing = {}
    BY DEF Nothing
  <2>. HIDE DEF out
  <2>. QED BY <2>1, <2>2
<1>5. committed # Nothing
  <2>1. "old_root" \in DOMAIN committed
    BY DEF public_values
  <2>2. DOMAIN Nothing = {}
    BY DEF Nothing
  <2>. HIDE DEF committed
  <2>. QED BY <2>1, <2>2
<1>6. /\ committed.new_root = landed.new_root
      /\ committed.new_inbox_chain = landed.new_inbox_chain
      /\ committed.withdrawal_chain = landed.withdrawal_chain
  BY DEF public_values
<1>7. values = Executed(Domain, b.old_root, b.old_inbox_chain, bb, Batch_decode(bb),
                        Sidecar_decode(sb, txns))
  BY <1>1 DEF execute
<1>8. values = IF Replays(txns, entries) THEN committed ELSE Nothing
  <2>. HIDE DEF values, bb, sb, txns, entries
  <2>. QED BY <1>1, <1>7 DEF Executed
<1>9. Honest(b) <=> /\ Replays(txns, entries)
                    /\ b.new_root = landed.new_root
                    /\ b.new_inbox_chain = landed.new_inbox_chain
                    /\ b.withdrawal_chain = landed.withdrawal_chain
  BY DEF Honest
<1>. HIDE DEF values, committed, landed, out
<1>10. LandsAsClaimed(b, values) <=> Honest(b)
  BY <1>5, <1>6, <1>8, <1>9 DEF LandsAsClaimed
<1>. QED BY <1>2, <1>3, <1>4, <1>10

(* The two folds of payment_rollup::execute. *)
Folding(anchor, txns, entries) ==
  LET folded[n \in 0..Len(txns)] ==
        IF n = 0 THEN [inbox |-> anchor, payouts |-> << >>]
        ELSE [inbox |-> NextInbox(txns[n], folded[n - 1].inbox),
              payouts |-> NextPayouts(txns[n], entries[n], folded[n - 1].payouts)]
  IN folded

IsFolded(f, root, anchor, txns, entries) ==
  /\ f[0].inbox = anchor /\ f[0].payouts = << >>
  /\ \A n \in 1..Len(txns) :
       /\ f[n].inbox = NextInbox(txns[n], f[n - 1].inbox)
       /\ f[n].payouts = NextPayouts(txns[n], entries[n], f[n - 1].payouts)
  /\ replay(root, anchor, txns, entries).new_inbox_chain = f[Len(txns)].inbox
  /\ replay(root, anchor, txns, entries).withdrawal_chain
       = withdrawal_chain(f[Len(txns)].payouts)

(* The loop of payment_rollup::execute, one transaction after another. *)
LEMMA FoldingIs ==
  ASSUME NEW root, NEW anchor, NEW txns, Len(txns) \in Nat, NEW entries
  PROVE  IsFolded(Folding(anchor, txns, entries), root, anchor, txns, entries)
<1> DEFINE Turn(n, x) == [inbox |-> NextInbox(txns[n], x.inbox),
                          payouts |-> NextPayouts(txns[n], entries[n], x.payouts)]
           base == [inbox |-> anchor, payouts |-> << >>]
           N == Len(txns)
           f == Folding(anchor, txns, entries)
<1>1. \E g : Falls(Turn, g, N, base)
  <2>. HIDE DEF Turn, N, base
  <2>1. N \in Nat
    BY DEF N
  <2>. QED BY <2>1, FallsExists, SMTT(30)
<1>2. f = [n \in 0..N |-> IF n = 0 THEN base ELSE Turn(n, f[n - 1])]
  BY <1>1 DEF Falls, Folding
<1>3. /\ replay(root, anchor, txns, entries).new_inbox_chain = f[N].inbox
      /\ replay(root, anchor, txns, entries).withdrawal_chain = withdrawal_chain(f[N].payouts)
  BY DEF replay, Folding
<1>. HIDE DEF f
<1>4. f[0] = base /\ \A n \in 1..N : f[n] = Turn(n, f[n - 1])
  <2>. HIDE DEF Turn, base
  <2>. QED BY <1>2
<1>5. f[0].inbox = anchor /\ f[0].payouts = << >>
  BY <1>4
<1>6. ASSUME NEW n \in 1..N
      PROVE  /\ f[n].inbox = NextInbox(txns[n], f[n - 1].inbox)
             /\ f[n].payouts = NextPayouts(txns[n], entries[n], f[n - 1].payouts)
  <2>1. f[n] = Turn(n, f[n - 1])
    BY <1>4
  <2>. QED BY <2>1
<1>. HIDE DEF Turn, base
<1>. QED BY <1>3, <1>5, <1>6 DEF f, IsFolded

(* The items Settlement::for_block lists, as far as the n-th transaction. *)
Item(txn) ==
  IF txn.kind = "deposit"
  THEN [kind |-> "d", address |-> txn.destination, recipient |-> NoRecipient,
        amount |-> txn.amount]
  ELSE [kind |-> "w", address |-> txn.sender, recipient |-> txn.destination, amount |-> 0]

Listing(txns) ==
  LET listed[n \in 0..Len(txns)] ==
        IF n = 0 THEN << >>
        ELSE IF txns[n].kind \in {"deposit", "forced"}
             THEN Append(listed[n - 1], Item(txns[n])) ELSE listed[n - 1]
  IN listed

(* The loop of Settlement::for_block that lists the inbox. *)
LEMMA ListingIs ==
  ASSUME NEW txns, Len(txns) \in Nat
  PROVE  LET f == Listing(txns)
         IN /\ f[0] = << >>
            /\ \A n \in 1..Len(txns) :
                 f[n] = IF txns[n].kind \in {"deposit", "forced"}
                        THEN Append(f[n - 1], Item(txns[n])) ELSE f[n - 1]
            /\ Inbox(txns) = f[Len(txns)]
<1> DEFINE Turn(n, x) == IF txns[n].kind \in {"deposit", "forced"}
                         THEN Append(x, Item(txns[n])) ELSE x
           N == Len(txns)
           f == Listing(txns)
<1>1. \E g : Falls(Turn, g, N, << >>)
  <2>. HIDE DEF Turn, N
  <2>1. N \in Nat
    BY DEF N
  <2>. QED BY <2>1, FallsExists, SMTT(30)
<1>2. f = [n \in 0..N |-> IF n = 0 THEN << >> ELSE Turn(n, f[n - 1])]
  BY <1>1 DEF Falls, Listing
<1>3. Inbox(txns) = f[N]
  BY DEF Inbox, InboxItems, Listing, Item
<1>. HIDE DEF f
<1>4. f[0] = << >> /\ \A n \in 1..N : f[n] = Turn(n, f[n - 1])
  <2>. HIDE DEF Turn
  <2>. QED BY <1>2
<1>. QED BY <1>3, <1>4 DEF f

(* The chain the batch folds to is the list of its items, in order. *)
LEMMA InboxInOrder ==
  ASSUME NEW root, NEW txns, Known(txns), NEW entries
  PROVE  replay(root, << >>, txns, entries).new_inbox_chain = << >> \o Inbox(txns)
<1> DEFINE N == Len(txns)
           f == Folding(<< >>, txns, entries)
           g == Listing(txns)
           T == {n \in 0..N : f[n].inbox = g[n] /\ \E S : g[n] \in Seq(S)}
<1>1. N \in Nat /\ \A n \in 1..N : txns[n].kind \in TransactionKinds
  BY DEF Known
<1>2. /\ f[0].inbox = << >>
      /\ \A n \in 1..N : f[n].inbox = NextInbox(txns[n], f[n - 1].inbox)
      /\ replay(root, << >>, txns, entries).new_inbox_chain = f[N].inbox
  <2> DEFINE e == << >>
  <2>1. Len(txns) \in Nat
    BY <1>1
  <2>. HIDE DEF N, e
  <2>2. IsFolded(Folding(e, txns, entries), root, e, txns, entries)
    BY <2>1, FoldingIs
  <2>. QED BY <2>2 DEF IsFolded, e, N
<1>3. /\ g[0] = << >>
      /\ \A n \in 1..N : g[n] = IF txns[n].kind \in {"deposit", "forced"}
                                THEN Append(g[n - 1], Item(txns[n])) ELSE g[n - 1]
      /\ Inbox(txns) = g[N]
  BY <1>1, ListingIs
<1>. HIDE DEF f, g, N
<1>4. 0 \in T
  <2>1. << >> \in Seq({})
    BY EmptySeq
  <2>2. 0 \in 0..N
    BY <1>1
  <2>. QED BY <1>2, <1>3, <2>1, <2>2
<1>5. ASSUME NEW n \in 0..(N - 1), n \in T PROVE n + 1 \in T
  <2> DEFINE txn == txns[n + 1]
             x == g[n]
  <2>1. n + 1 \in 1..N /\ n + 1 \in 0..N /\ (n + 1) - 1 = n
    BY <1>1
  <2>2. f[n].inbox = x /\ \E S : x \in Seq(S)
    BY <1>5
  <2>3. f[n + 1].inbox = NextInbox(txn, x)
    <3>1. f[n + 1].inbox = NextInbox(txns[n + 1], f[(n + 1) - 1].inbox)
      BY <1>2, <2>1
    <3>. QED BY <2>1, <2>2, <3>1
  <2>4. g[n + 1] = IF txn.kind \in {"deposit", "forced"} THEN Append(x, Item(txn)) ELSE x
    <3>1. g[n + 1] = IF txns[n + 1].kind \in {"deposit", "forced"}
                     THEN Append(g[(n + 1) - 1], Item(txns[n + 1])) ELSE g[(n + 1) - 1]
      BY <1>3, <2>1
    <3>. QED BY <2>1, <3>1
  <2>. HIDE DEF txn, x
  <2>5. NextInbox(txn, x) = IF txn.kind \in {"deposit", "forced"} THEN Append(x, Item(txn)) ELSE x
    BY DEF NextInbox, Item, accumulate_deposit, accumulate_request
  <2>6. \E S : g[n + 1] \in Seq(S)
    <3>1. \E S : Append(x, Item(txn)) \in Seq(S)
      BY <2>2, Appended
    <3>. QED BY <2>2, <2>4, <3>1
  <2>. QED BY <2>1, <2>3, <2>4, <2>5, <2>6
<1>. HIDE DEF T
<1>6. \A n \in 0..N : n \in T
  BY <1>1, <1>4, <1>5, UpTo
<1>7. f[N].inbox = g[N] /\ \E S : g[N] \in Seq(S)
  BY <1>1, <1>6 DEF T
<1> DEFINE x == g[N]
<1>8. << >> \o x = x
  <2>1. \E S : x \in Seq(S)
    BY <1>7
  <2>. HIDE DEF x
  <2>2. PICK S : x \in Seq(S)
    BY <2>1
  <2>. QED BY <2>2, ConcatEmptySeq
<1>. QED BY <1>2, <1>3, <1>7, <1>8

(* The chain the batch queues is that of the payouts read back out of it. *)
LEMMA PayoutsInOrder ==
  ASSUME NEW root, NEW anchor, NEW txns, Known(txns), NEW entries,
         \A n \in 1..Len(txns) : entries[n].kind = txns[n].kind
  PROVE  replay(root, anchor, txns, entries).withdrawal_chain
           = withdrawal_chain(withdrawal_payouts(txns, entries))
<1> DEFINE N == Len(txns)
           f == Folding(anchor, txns, entries)
<1>1. N \in Nat /\ \A n \in 1..N : txns[n].kind \in TransactionKinds
  BY DEF Known
<1>2. /\ f[0].payouts = << >>
      /\ \A n \in 1..N : f[n].payouts = NextPayouts(txns[n], entries[n], f[n - 1].payouts)
      /\ replay(root, anchor, txns, entries).withdrawal_chain = withdrawal_chain(f[N].payouts)
  <2>1. Len(txns) \in Nat
    BY <1>1
  <2>. HIDE DEF N
  <2>2. IsFolded(Folding(anchor, txns, entries), root, anchor, txns, entries)
    BY <2>1, FoldingIs
  <2>. QED BY <2>2 DEF IsFolded, N
<1>3. \E g : IsCollected(g, N, txns, entries) /\ withdrawal_payouts(txns, entries) = g[N]
  BY <1>1, PayoutsAre
<1>4. PICK g : IsCollected(g, N, txns, entries) /\ withdrawal_payouts(txns, entries) = g[N]
  BY <1>3
<1>5. g[0] = << >> /\ \A n \in 1..N : g[n] = Paying(g[n - 1], txns[n], entries[n])
  BY <1>1, <1>4 DEF IsCollected
<1> DEFINE T == {n \in 0..N : f[n].payouts = g[n] /\ \E S : g[n] \in Seq(S)}
<1>. HIDE DEF f, N
<1>6. 0 \in T
  <2>1. << >> \in Seq({})
    BY EmptySeq
  <2>2. 0 \in 0..N
    BY <1>1
  <2>. QED BY <1>2, <1>5, <2>1, <2>2
<1>7. ASSUME NEW n \in 0..(N - 1), n \in T PROVE n + 1 \in T
  <2> DEFINE txn == txns[n + 1]
             entry == entries[n + 1]
             x == g[n]
  <2>1. n + 1 \in 1..N /\ n + 1 \in 0..N /\ (n + 1) - 1 = n
    BY <1>1
  <2>2. f[n].payouts = x /\ \E S : x \in Seq(S)
    BY <1>7
  <2>3. f[n + 1].payouts = NextPayouts(txn, entry, x)
    <3>1. f[n + 1].payouts = NextPayouts(txns[n + 1], entries[n + 1], f[(n + 1) - 1].payouts)
      BY <1>2, <2>1
    <3>. QED BY <2>1, <2>2, <3>1
  <2>4. g[n + 1] = Paying(x, txn, entry)
    <3>1. g[n + 1] = Paying(g[(n + 1) - 1], txns[n + 1], entries[n + 1])
      BY <1>5, <2>1
    <3>. QED BY <2>1, <3>1
  <2>5. entry.kind = txn.kind
    BY <2>1 DEF N
  <2>. HIDE DEF txn, entry, x
  <2>6. PICK S : x \in Seq(S)
    BY <2>2
  <2>7. Paying(x, txn, entry) = NextPayouts(txn, entry, x)
        /\ \E Q : Paying(x, txn, entry) \in Seq(Q)
    <3>1. ASSUME NEW y PROVE x \o <<y>> = Append(x, y) /\ \E Q : Append(x, y) \in Seq(Q)
      <4>1. \E Q : Append(x, y) \in Seq(Q)
        BY <2>2, Appended
      <4>2. x \o <<y>> = Append(x, y)
        BY <2>6
      <4>. QED BY <4>1, <4>2
    <3>2. x \o << >> = x
      BY <2>6, ConcatEmptySeq
    <3> DEFINE balance == entry.witnesses[1].old_account.amount
               pay(amount) == [recipient |-> txn.destination, amount |-> amount]
    <3>. HIDE DEF balance
    <3>3. CASE txn.kind = "WDR"
      <4>1. PaidBy(txn, entry) = <<pay(txn.amount)>>
            /\ NextPayouts(txn, entry, x) = Append(x, pay(txn.amount))
        BY <3>3 DEF PaidBy, NextPayouts
      <4>. HIDE DEF pay
      <4>. QED BY <3>1, <4>1 DEF Paying
    <3>4. CASE txn.kind = "forced" /\ balance >= MIN_WITHDRAWAL
      <4>1. PaidBy(txn, entry) = <<pay(balance)>>
            /\ NextPayouts(txn, entry, x) = Append(x, pay(balance))
        BY <2>5, <3>4 DEF PaidBy, NextPayouts, balance
      <4>. HIDE DEF pay
      <4>. QED BY <3>1, <4>1 DEF Paying
    <3>5. CASE txn.kind # "WDR" /\ ~(txn.kind = "forced" /\ balance >= MIN_WITHDRAWAL)
      <4>1. PaidBy(txn, entry) = << >> /\ NextPayouts(txn, entry, x) = x
        BY <2>5, <3>5 DEF PaidBy, NextPayouts, balance
      <4>. QED BY <2>6, <3>2, <4>1 DEF Paying
    <3>. QED BY <3>3, <3>4, <3>5
  <2>. QED BY <2>1, <2>3, <2>4, <2>7
<1>. HIDE DEF T
<1>8. \A n \in 0..N : n \in T
  BY <1>1, <1>6, <1>7, UpTo
<1>9. f[N].payouts = g[N]
  BY <1>1, <1>8 DEF T
<1>. QED BY <1>2, <1>4, <1>9

(* The lists of a settlement are those its public values commit to. *)
LEMMA SettlesLists ==
  ASSUME NEW b, IsBlock(b), for_block(b) # Nothing, settles_from_genesis(for_block(b))
  PROVE  /\ for_block(b).public_values.new_inbox_chain
              = for_block(b).old_inbox_chain \o for_block(b).inbox
         /\ for_block(b).public_values.withdrawal_chain
              = withdrawal_chain(for_block(b).withdrawals)
<1> DEFINE txns == b.txns
           entries == b.entries
           bb == Batch_encode(txns)
           sb == Sidecar_encode(entries)
           root == b.old_root
           anchor == b.old_inbox_chain
           landed == replay(root, anchor, txns, entries)
           values == execute(Domain, root, anchor, bb, sb)
           out == Collected(b, bb, sb, values, txns)
<1>1. /\ Good(Batch_decode(bb)) /\ Batch_decode(bb).out = txns
      /\ Good(Sidecar_decode(sb, txns)) /\ Sidecar_decode(sb, txns).out = entries
      /\ Known(txns)
  BY BlockRoundTrip
<1>2. for_block(b) = Settled(b, bb, sb, values)
  BY DEF for_block
<1>3. Settled(b, bb, sb, values)
        = IF LandsAsClaimed(b, values) THEN Collected(b, bb, sb, values, Batch_decode(bb).out)
          ELSE Nothing
  BY DEF Settled
<1>4. values = Executed(Domain, root, anchor, bb, Batch_decode(bb), Sidecar_decode(sb, txns))
  BY <1>1 DEF execute
<1>5. \A i \in 1..Len(txns) : KindsMatch(txns[i], entries[i])
  BY DEF IsBlock
<1>6. \A i \in 1..Len(txns) : entries[i].kind = txns[i].kind
  BY <1>5 DEF KindsMatch
<1>. HIDE DEF values, bb, sb, txns, entries, root, anchor, landed
<1>7. for_block(b) = out /\ values # Nothing
  BY <1>1, <1>2, <1>3 DEF LandsAsClaimed
<1>8. values = public_values(Domain, root, bb, anchor, landed)
  BY <1>1, <1>4, <1>7 DEF Executed, landed
<1>9. /\ values.new_inbox_chain = landed.new_inbox_chain
      /\ values.withdrawal_chain = landed.withdrawal_chain
  BY <1>8 DEF public_values
<1>10. /\ out.old_inbox_chain = anchor /\ out.inbox = Inbox(txns)
       /\ out.withdrawals = withdrawal_payouts(txns, entries)
       /\ out.public_values = values
  BY <1>1 DEF Collected, anchor
<1>. HIDE DEF out
<1>11. anchor = << >>
  BY <1>7, <1>10 DEF settles_from_genesis, INBOX_CHAIN_GENESIS
<1>12. landed.new_inbox_chain = << >> \o Inbox(txns)
  <2>1. replay(root, << >>, txns, entries).new_inbox_chain = << >> \o Inbox(txns)
    BY <1>1, InboxInOrder
  <2>. QED BY <1>11, <2>1 DEF landed
<1>13. landed.withdrawal_chain = withdrawal_chain(withdrawal_payouts(txns, entries))
  <2>1. replay(root, anchor, txns, entries).withdrawal_chain
          = withdrawal_chain(withdrawal_payouts(txns, entries))
    BY <1>1, <1>6, PayoutsInOrder
  <2>. QED BY <2>1 DEF landed
<1>14. out.public_values.new_inbox_chain = out.old_inbox_chain \o out.inbox
  BY <1>9, <1>10, <1>11, <1>12
<1>15. out.public_values.withdrawal_chain = withdrawal_chain(out.withdrawals)
  BY <1>9, <1>10, <1>13
<1>. QED BY <1>7, <1>14, <1>15

-----------------------------------------------------------------------------
(* The block in hand is one a scenario builds, and the settlement is that of it;
   what ended the run is known. *)
InTheHand ==
  /\ why # "none" => stage = "failed"
  /\ stage = "settled" =>
       /\ IsBlock(block) /\ settlement = for_block(block) /\ settlement # Nothing
       /\ settles_from_genesis(settlement)
  /\ why = "for_block" => IsBlock(block) /\ for_block(block) = Nothing

(* No scenario is in hand before the first. *)
LEMMA InTheHandInit == Init => InTheHand
BY DEF Init, InTheHand

(* A scenario's block is built, and settles or ends the run. *)
LEMMA SettleInHand ==
  ASSUME KeptSoFar, InTheHand, Settle
  PROVE  InTheHand'
<1>1. PICK b \in BlocksOf[Name] : block' = b /\ settlement' = for_block(b)
  BY DEF Settle
<1>2. stage = "next" /\ Len(emitted) < Len(Selected)
  BY DEF Settle
<1>3. Name \in DOMAIN BlocksOf
  BY <1>2, NameIsFound
<1>4. IsBlock(block')
  BY <1>1, <1>3, HostAssumption
<1>5. why = "none"
  BY <1>2 DEF InTheHand
<1>6. \/ settlement' = Nothing /\ stage' = "failed" /\ why' = "for_block"
      \/ stage' = "failed" /\ why' = "genesis"
      \/ /\ settlement' # Nothing /\ settles_from_genesis(settlement')
         /\ stage' = "settled" /\ why' = why
  BY DEF Settle, Stop
<1>7. settlement' = for_block(block')
  BY <1>1
<1>8. CASE settlement' = Nothing /\ stage' = "failed" /\ why' = "for_block"
  BY <1>4, <1>7, <1>8 DEF InTheHand
<1>9. CASE stage' = "failed" /\ why' = "genesis"
  BY <1>9 DEF InTheHand
<1>10. CASE /\ settlement' # Nothing /\ settles_from_genesis(settlement')
            /\ stage' = "settled" /\ why' = why
  <2>1. settles_from_genesis(settlement)'
    BY <1>10 DEF settles_from_genesis
  <2>2. (why = "none")'
    BY <1>5, <1>10
  <2>. QED BY <1>4, <1>7, <1>10, <2>1, <2>2 DEF InTheHand
<1>. QED BY <1>6, <1>8, <1>9, <1>10

(* Every other step leaves the scenario behind, or the settlement as it is. *)
LEMMA OthersInHand ==
  ASSUME InTheHand, Start \/ Report \/ Prove \/ Keep \/ Emit \/ Document \/ Kill \/ Hand
  PROVE  InTheHand'
<1>1. stage # "failed" /\ why = "none"
  <2>1. stage # "failed"
    BY DEF Start, Report, Prove, ReadyToProve, Keep, Emit, Document, Kill, InProgress, Hand
  <2>. QED BY <2>1 DEF InTheHand
<1>2. stage' # "settled"
  BY DEF Start, SetUpFails, Stop, Report, Prove, Keep, Emit, Document, Kill, Hand
<1>3. why' = "none" \/ (stage' = "failed" /\ why' # "for_block")
  BY <1>1 DEF Start, SetUpFails, Stop, Report, Prove, Keep, Emit, Document, Kill, Hand
<1>. QED BY <1>2, <1>3 DEF InTheHand

(* InTheHand is inductive. *)
LEMMA InTheHandStays ==
  ASSUME KeptSoFar, InTheHand, [Next]_vars
  PROVE  InTheHand'
<1>1. CASE UNCHANGED vars
  BY <1>1 DEF vars, InTheHand, settles_from_genesis
<1>. QED BY <1>1, SettleInHand, OthersInHand DEF Next

(* The bytes of a settlement are the block's, encoded. *)
LEMMA SettledBytes ==
  ASSUME NEW b, for_block(b) # Nothing
  PROVE  /\ for_block(b).batch_bytes = Batch_encode(b.txns)
         /\ for_block(b).sidecar_bytes = Sidecar_encode(b.entries)
BY DEF for_block, Settled, Collected

(* What somebody else publishes and hands to a prover is bytes: those of a
   block, or any in which no more addresses fit than can be referred to. *)
Encoded(bytes) == \E b : IsBlock(b) /\ bytes = Batch_encode(b.txns)

HandedBytes ==
  handed # Nothing =>
    /\ handed.batch \in Bytes /\ handed.sidecar \in Bytes
    /\ Addressable(handed.batch) \/ Encoded(handed.batch)

(* Nothing has been handed over yet. *)
LEMMA HandedInit == Init => HandedBytes
BY DEF Init, HandedBytes

(* What is handed over is bytes, on either side. *)
LEMMA HandHands ==
  ASSUME InTheHand, Hand
  PROVE  HandedBytes'
<1> DEFINE bb == settlement.batch_bytes
           sb == settlement.sidecar_bytes
<1>1. /\ IsBlock(block) /\ settlement = for_block(block) /\ settlement # Nothing
  BY DEF InTheHand, Hand
<1>2. bb = Batch_encode(block.txns) /\ sb = Sidecar_encode(block.entries)
  BY <1>1, SettledBytes
<1>3. bb \in Bytes /\ sb \in Bytes
  BY <1>1, <1>2, BlockRoundTrip
<1>4. Encoded(bb)
  BY <1>1, <1>2 DEF Encoded
<1>5. CASE \E bytes : /\ bytes \in Seq(Byte) /\ Addressable(bytes)
                      /\ handed' = [batch |-> bytes, sidecar |-> sb]
  BY <1>3, <1>5 DEF HandedBytes, Bytes, Addressable
<1>6. CASE \E bytes : bytes \in Seq(Byte) /\ handed' = [batch |-> bb, sidecar |-> bytes]
  <2>1. PICK bytes : bytes \in Seq(Byte) /\ handed' = [batch |-> bb, sidecar |-> bytes]
    BY <1>6
  <2>2. bytes \in Bytes
    BY <2>1 DEF Bytes
  <2>. HIDE DEF bb
  <2>3. handed'.batch = bb /\ handed'.sidecar = bytes
    BY <2>1
  <2>4. Encoded(handed'.batch)
    BY <1>4, <2>3
  <2>5. Encoded(handed.batch)'
    BY <2>4 DEF Encoded
  <2>. QED BY <1>3, <2>2, <2>3, <2>5 DEF HandedBytes
<1>. QED BY <1>5, <1>6 DEF Hand

(* HandedBytes is inductive. *)
LEMMA HandedStays ==
  ASSUME InTheHand, HandedBytes, [Next]_vars
  PROVE  HandedBytes'
<1>1. CASE Hand
  BY <1>1, HandHands
<1>2. CASE UNCHANGED handed
  BY <1>2 DEF HandedBytes, Addressable, Encoded
<1>. QED BY <1>1, <1>2 DEF Next, vars, Start, Settle, Report, Prove, Keep, Emit, Document, Kill

HostInv == KeptSoFar /\ InTheHand /\ HandedBytes

(* The three hold throughout a run of the host. *)
LEMMA HostHolds == Spec => []HostInv
<1>1. Init => HostInv
  BY KeptInit, InTheHandInit, HandedInit DEF HostInv
<1>2. HostInv /\ [Next]_vars => HostInv'
  <2> SUFFICES ASSUME HostInv, [Next]_vars PROVE HostInv'
    OBVIOUS
  <2>. QED BY KeptStays, InTheHandStays, HandedStays DEF HostInv
<1>. QED BY <1>1, <1>2, PTL DEF Spec

(* Settlement::for_block goes by the bytes it wrote: it refuses no block that
   verifies in memory, since Batch::decode and Sidecar::decode read back the
   batch and the sidecar that were encoded, and takes none that claims a root or
   a chain other than the one the replay lands on. *)
THEOREM TrueBlocksSettle == Spec => []OnlyTrueBlocksSettle
<1>1. HostInv => OnlyTrueBlocksSettle
  BY SettlesHonest DEF HostInv, InTheHand, OnlyTrueBlocksSettle
<1>. QED BY <1>1, HostHolds, PTL

(* The inbox items and the payouts that a settlement lists for whoever drives L1
   are, in their order, what verify_batch folds into new_inbox_chain and
   withdrawal_chain. *)
THEOREM ListsAreCommitted == Spec => []ListsDriveL1
<1>1. HostInv => ListsDriveL1
  <2> SUFFICES ASSUME HostInv, stage = "settled" PROVE ListsDriveL1
    BY DEF ListsDriveL1
  <2>1. /\ IsBlock(block) /\ settlement = for_block(block) /\ settlement # Nothing
        /\ settles_from_genesis(settlement)
    BY DEF HostInv, InTheHand
  <2>2. /\ for_block(block).public_values.new_inbox_chain
              = for_block(block).old_inbox_chain \o for_block(block).inbox
         /\ for_block(block).public_values.withdrawal_chain
              = withdrawal_chain(for_block(block).withdrawals)
    BY <2>1, SettlesLists
  <2>. QED BY <2>1, <2>2 DEF ListsDriveL1
<1>. QED BY <1>1, HostHolds, PTL

(* Batch::decode takes other spellings than Batch::encode's, a longer varint or
   an address written out again; whatever it takes, Batch::encode writes a batch
   that reads the same and is no longer. *)
THEOREM EncodesShortest == Spec => []EncoderIsShortest
<1>1. HostInv => EncoderIsShortest
  <2> DEFINE s == handed.batch
             txns == Batch_decode(s).out
             again == Batch_encode(txns)
  <2> SUFFICES ASSUME HostInv, handed # Nothing, Good(Batch_decode(s))
               PROVE  /\ Good(Batch_decode(again)) /\ Batch_decode(again).out = txns
                      /\ again = s \/ Len(again) < Len(s)
    BY DEF EncoderIsShortest
  <2>1. s \in Bytes /\ (Addressable(s) \/ Encoded(s))
    BY DEF HostInv, HandedBytes
  <2>. HIDE DEF s
  <2>2. CASE Addressable(s)
    <3>1. Len(s) <= MAX_U64 * (WORD + 1)
      BY <2>2 DEF Addressable
    <3>2. Good(Batch_decode(again)) /\ Batch_decode(again).out = txns /\ Short(again, s)
      BY <2>1, <3>1, BatchShort
    <3>. QED BY <3>2 DEF Short
  <2>3. CASE Encoded(s)
    <3>1. PICK b : IsBlock(b) /\ s = Batch_encode(b.txns)
      BY <2>3 DEF Encoded
    <3>2. Good(Batch_decode(s)) /\ Batch_decode(s).out = b.txns
      BY <3>1, BlockRoundTrip
    <3>. QED BY <3>1, <3>2
  <2>. QED BY <2>1, <2>2, <2>3
<1>. QED BY <1>1, HostHolds, PTL

(* Batch::decode ends by refusing bytes left over (Reader::finish), and reads no
   further than it must: no part of a batch from its beginning is a batch. *)
THEOREM NothingGoesOn == Spec => []NoBatchWithinABatch
<1>1. HostInv => NoBatchWithinABatch
  <2> SUFFICES ASSUME HostInv, handed # Nothing, Good(Batch_decode(handed.batch)),
                      NEW n \in 0..(Len(handed.batch) - 1)
               PROVE  ~Good(Batch_decode(SubSeq(handed.batch, 1, n)))
    BY DEF NoBatchWithinABatch
  <2> DEFINE s == handed.batch
  <2>1. s \in Bytes /\ Good(Batch_decode(s)) /\ n \in 0..(Len(s) - 1)
    BY DEF HostInv, HandedBytes
  <2>. HIDE DEF s
  <2>2. ~Good(Batch_decode(SubSeq(s, 1, n)))
    BY <2>1, NothingWithin
  <2>. QED BY <2>2 DEF s
<1>. QED BY <1>1, HostHolds, PTL

(* Reader::take_address remembers what it reads and Reader::take_recipient does
   not: every address in the dictionary when Batch::decode ends is named as an
   address of the rollup by some transaction of the batch. *)
THEOREM NamespacesStayApart == Spec => []NamespacesApart
<1>1. HostInv => NamespacesApart
  <2> DEFINE s == handed.batch
             read == Batch_decode(s)
  <2> SUFFICES ASSUME HostInv, handed # Nothing, Good(read)
               PROVE  \A i \in 1..Len(read.seen) :
                        \E k \in 1..Len(read.out) : read.seen[i] \in Names(read.out[k])
    BY DEF NamespacesApart, Names
  <2>1. s \in Bytes
    BY DEF HostInv, HandedBytes
  <2>. HIDE DEF s
  <2>. QED BY <2>1, OnlyNames
<1>. QED BY <1>1, HostHolds, PTL

(* Sidecar::decode, given the decoded batch, yields an entry of the right kind
   for each of its transactions, or is rejected; and what it takes is never
   shorter than Sidecar::encode writes it. *)
THEOREM SidecarsLineUp == Spec => []SidecarLinesUp
<1>1. HostInv => SidecarLinesUp
  <2> DEFINE s == handed.batch
             c == handed.sidecar
             txns == Batch_decode(s).out
             read == Sidecar_decode(c, txns)
             again == Sidecar_encode(read.out)
  <2> SUFFICES ASSUME HostInv, handed # Nothing, Good(Batch_decode(s)), Good(read)
               PROVE  /\ Len(read.out) = Len(txns)
                      /\ \A i \in 1..Len(txns) : KindsMatch(txns[i], read.out[i])
                      /\ again = c \/ Len(again) < Len(c)
    BY DEF SidecarLinesUp
  <2>1. s \in Bytes /\ c \in Bytes
    BY DEF HostInv, HandedBytes
  <2>. HIDE DEF s, c
  <2>2. Known(txns)
    BY <2>1, BatchKnown
  <2>. HIDE DEF txns
  <2>3. AllStorable(txns, read.out) /\ Short(again, c)
    BY <2>1, <2>2, SidecarShort
  <2>4. Len(read.out) = Len(txns) /\ \A i \in 1..Len(txns) : Storable(txns[i], read.out[i])
    BY <2>3 DEF AllStorable
  <2>5. ASSUME NEW i \in 1..Len(txns) PROVE KindsMatch(txns[i], read.out[i])
    <3>1. txns[i].kind \in TransactionKinds /\ Storable(txns[i], read.out[i])
      BY <2>2, <2>4 DEF Known
    <3>. QED BY <3>1, StorableKind
  <2>. QED BY <2>3, <2>4, <2>5 DEF Short
<1>. QED BY <1>1, HostHolds, PTL
=============================================================================
