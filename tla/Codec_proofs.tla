---------------------------- MODULE Codec_proofs ----------------------------
(***************************************************************************)
(* The batch's half of the wire format, for every number of bits in a      *)
(* byte, size of an address and of a number, and every dictionary.         *)
(*                                                                         *)
(* For every field there is a predicate that says which bytes spell which  *)
(* value (Number, SpeltAddress, SpeltBytes, ...), and two lemmas: the      *)
(* reader reads what spells a value and leaves what follows, and when it   *)
(* succeeds it has read nothing else.  Fields make transactions, and       *)
(* transactions a batch, each by induction along the recursive function    *)
(* the loop is.  With that, what Batch::decode does is a matter of what    *)
(* its input spells: nothing a batch begins with is a batch                *)
(* (NothingWithin), the dictionary holds rollup addresses only             *)
(* (OnlyNames), what is encoded decodes as it was (BatchRoundTrip), and    *)
(* what decodes was spelt no shorter than it is encoded (BatchShort).  For *)
(* the last, writer and reader are followed side by side: Tidy relates     *)
(* their two dictionaries, and Step says that no field loses a byte.       *)
(***************************************************************************)
EXTENDS Codec, VerifyBatch_proofs

-----------------------------------------------------------------------------
(* Sequences taken apart and put together. *)

(* A sequence is what it begins with and what is left. *)
LEMMA Parts ==
  ASSUME NEW S, NEW s \in Seq(S), NEW n \in 0..Len(s)
  PROVE  /\ SubSeq(s, 1, n) \in Seq(S) /\ Len(SubSeq(s, 1, n)) = n
         /\ SubSeq(s, n + 1, Len(s)) \in Seq(S) /\ Len(SubSeq(s, n + 1, Len(s))) = Len(s) - n
         /\ s = SubSeq(s, 1, n) \o SubSeq(s, n + 1, Len(s))
         /\ \A i \in 1..n : SubSeq(s, 1, n)[i] = s[i]
<1>1. Len(s) \in Nat /\ n \in Nat /\ n <= Len(s) /\ \A i \in 1..Len(s) : s[i] \in S
  BY LenProperties, ElementOfSeq
<1>2. \A i \in 1..n : s[i] \in S
  BY <1>1
<1>3. \A i \in (n + 1)..Len(s) : s[i] \in S
  BY <1>1
<1>4. /\ SubSeq(s, 1, n) \in Seq(S) /\ Len(SubSeq(s, 1, n)) = n
      /\ \A i \in 1..n : SubSeq(s, 1, n)[i] = s[i]
  <2>1. /\ SubSeq(s, 1, n) \in Seq(S)
        /\ Len(SubSeq(s, 1, n)) = IF 1 <= n THEN n - 1 + 1 ELSE 0
        /\ \A i \in 1..(n - 1 + 1) : SubSeq(s, 1, n)[i] = s[1 + i - 1]
    BY <1>1, <1>2, SubSeqProperties
  <2>. QED BY <1>1, <2>1
<1>5. /\ SubSeq(s, n + 1, Len(s)) \in Seq(S)
      /\ Len(SubSeq(s, n + 1, Len(s))) = Len(s) - n
  <2>1. /\ SubSeq(s, n + 1, Len(s)) \in Seq(S)
        /\ Len(SubSeq(s, n + 1, Len(s)))
             = IF n + 1 <= Len(s) THEN Len(s) - (n + 1) + 1 ELSE 0
    BY <1>1, <1>3, SubSeqProperties
  <2>. QED BY <1>1, <2>1
<1>6. s = SubSeq(s, 1, n) \o SubSeq(s, n + 1, Len(s))
  <2>1. 1 \in 1..(Len(s) + 1) /\ n \in (1 - 1)..Len(s) /\ Len(s) \in n..Len(s)
    BY <1>1
  <2>2. SubSeq(s, 1, n) \o SubSeq(s, n + 1, Len(s)) = SubSeq(s, 1, Len(s))
    BY <2>1, ConcatAdjacentSubSeq
  <2>. QED BY <2>2, SubSeqFull
<1>. QED BY <1>4, <1>5, <1>6

(* What follows the same beginning is the same. *)
LEMMA Cancel ==
  ASSUME NEW S, NEW c \in Seq(S), NEW t \in Seq(S), NEW u \in Seq(S), c \o t = c \o u
  PROVE  t = u
<1>1. /\ Len(c) \in Nat /\ Len(t) \in Nat /\ Len(u) \in Nat
      /\ Len(c \o t) = Len(c) + Len(t) /\ Len(c \o u) = Len(c) + Len(u)
      /\ \A i \in 1..(Len(c) + Len(t)) : (c \o t)[i] = IF i <= Len(c) THEN c[i] ELSE t[i - Len(c)]
      /\ \A i \in 1..(Len(c) + Len(u)) : (c \o u)[i] = IF i <= Len(c) THEN c[i] ELSE u[i - Len(c)]
  BY ConcatProperties, LenProperties
<1> DEFINE s == c \o t
<1>. HIDE DEF s
<1>2. /\ Len(t) = Len(u)
      /\ \A i \in 1..(Len(c) + Len(t)) : s[i] = IF i <= Len(c) THEN c[i] ELSE t[i - Len(c)]
      /\ \A i \in 1..(Len(c) + Len(t)) : s[i] = IF i <= Len(c) THEN c[i] ELSE u[i - Len(c)]
  BY <1>1 DEF s
<1>3. ASSUME NEW i \in 1..Len(t) PROVE t[i] = u[i]
  <2>1. /\ Len(c) + i \in 1..(Len(c) + Len(t)) /\ ~(Len(c) + i <= Len(c))
        /\ Len(c) + i - Len(c) = i
    BY <1>1
  <2>. QED BY <1>2, <2>1
<1>. QED BY <1>2, <1>3, SeqEqual

(* A joint can be cut where it was joined. *)
LEMMA Joined ==
  ASSUME NEW S, NEW c \in Seq(S), NEW t \in Seq(S)
  PROVE  /\ c \o t \in Seq(S) /\ Len(c) \in Nat /\ Len(t) \in Nat
         /\ Len(c \o t) = Len(c) + Len(t)
         /\ \A i \in 1..Len(c) : (c \o t)[i] = c[i]
         /\ SubSeq(c \o t, 1, Len(c)) = c
         /\ SubSeq(c \o t, Len(c) + 1, Len(c \o t)) = t
<1> DEFINE s == c \o t
<1>1. /\ s \in Seq(S) /\ Len(c) \in Nat /\ Len(t) \in Nat /\ Len(s) = Len(c) + Len(t)
      /\ \A i \in 1..(Len(c) + Len(t)) : s[i] = IF i <= Len(c) THEN c[i] ELSE t[i - Len(c)]
  BY ConcatProperties, LenProperties
<1>. HIDE DEF s
<1>2. \A i \in 1..Len(c) : s[i] = c[i]
  BY <1>1
<1>3. Len(c) \in 0..Len(s)
  BY <1>1
<1>4. SubSeq(s, 1, Len(c)) = c
  <2>1. /\ SubSeq(s, 1, Len(c)) \in Seq(S) /\ Len(SubSeq(s, 1, Len(c))) = Len(c)
        /\ \A i \in 1..Len(c) : SubSeq(s, 1, Len(c))[i] = s[i]
    BY <1>1, <1>3, Parts
  <2>2. \A i \in 1..Len(c) : SubSeq(s, 1, Len(c))[i] = c[i]
    BY <1>2, <2>1
  <2>. QED BY <2>1, <2>2, SeqEqual
<1>5. SubSeq(s, Len(c) + 1, Len(s)) = t
  <2>1. /\ SubSeq(s, Len(c) + 1, Len(s)) \in Seq(S)
        /\ s = SubSeq(s, 1, Len(c)) \o SubSeq(s, Len(c) + 1, Len(s))
    BY <1>1, <1>3, Parts
  <2>2. c \o SubSeq(s, Len(c) + 1, Len(s)) = c \o t
    BY <1>4, <2>1 DEF s
  <2>. QED BY <2>1, <2>2, Cancel
<1>. QED BY <1>1, <1>2, <1>4, <1>5 DEF s

-----------------------------------------------------------------------------
(* The loops of the codec. *)

(* The powers of a base, one after another. *)
LEMMA PowersIs ==
  ASSUME NEW b, NEW len \in Nat
  PROVE  /\ Powers(b, len)[0] = 1
         /\ \A n \in 1..len : Powers(b, len)[n] = b * Powers(b, len)[n - 1]
<1> DEFINE Turn(n, x) == b * x
<1>1. \E f : Falls(Turn, f, len, 1)
  <2>. HIDE DEF Turn
  <2>. QED BY FallsExists
<1>2. Powers(b, len) = [n \in 0..len |-> IF n = 0 THEN 1 ELSE b * Powers(b, len)[n - 1]]
  BY <1>1 DEF Falls, Powers
<1> DEFINE f == Powers(b, len)
<1>. HIDE DEF f
<1>3. f = [n \in 0..len |-> IF n = 0 THEN 1 ELSE b * f[n - 1]]
  BY <1>2 DEF f
<1>4. f[0] = 1 /\ \A n \in 1..len : f[n] = b * f[n - 1]
  BY <1>3
<1>. QED BY <1>4 DEF f

(* A value shifted right, one digit after another. *)
LEMMA ShiftedIs ==
  ASSUME NEW v, NEW b, NEW len \in Nat
  PROVE  /\ Shifted(v, b, len)[0] = v
         /\ \A n \in 1..len : Shifted(v, b, len)[n] = Shifted(v, b, len)[n - 1] \div b
<1> DEFINE Turn(n, x) == x \div b
<1>1. \E f : Falls(Turn, f, len, v)
  <2>. HIDE DEF Turn
  <2>. QED BY FallsExists
<1>2. Shifted(v, b, len) = [n \in 0..len |-> IF n = 0 THEN v ELSE Shifted(v, b, len)[n - 1] \div b]
  BY <1>1 DEF Falls, Shifted
<1> DEFINE f == Shifted(v, b, len)
<1>. HIDE DEF f
<1>3. f = [n \in 0..len |-> IF n = 0 THEN v ELSE f[n - 1] \div b]
  BY <1>2 DEF f
<1>4. f[0] = v /\ \A n \in 1..len : f[n] = f[n - 1] \div b
  BY <1>3
<1>. QED BY <1>4 DEF f

(* The payloads Reader::varint adds up, one after another. *)
LEMMA PayloadsIs ==
  ASSUME NEW c, NEW size \in Nat
  PROVE  /\ Payloads(c, size)[0] = 0
         /\ \A n \in 1..size :
              Payloads(c, size)[n] = Payload(c[size - n + 1]) + BASE * Payloads(c, size)[n - 1]
<1> DEFINE Turn(n, x) == Payload(c[size - n + 1]) + BASE * x
<1>1. \E f : Falls(Turn, f, size, 0)
  <2>. HIDE DEF Turn
  <2>. QED BY FallsExists
<1>2. Payloads(c, size) = [n \in 0..size |-> IF n = 0 THEN 0
          ELSE Payload(c[size - n + 1]) + BASE * Payloads(c, size)[n - 1]]
  BY <1>1 DEF Falls, Payloads
<1> DEFINE f == Payloads(c, size)
<1>. HIDE DEF f
<1>3. f = [n \in 0..size |-> IF n = 0 THEN 0 ELSE Payload(c[size - n + 1]) + BASE * f[n - 1]]
  BY <1>2 DEF f
<1>4. f[0] = 0 /\ \A n \in 1..size : f[n] = Payload(c[size - n + 1]) + BASE * f[n - 1]
  BY <1>3
<1>. QED BY <1>4 DEF f

-----------------------------------------------------------------------------
(* Arithmetic of digits. *)

Weight(b, n) == Powers(b, n)[n]
Left(v, b, n) == Shifted(v, b, n)[n]

(* What a digit at the n-th place is worth. *)
LEMMA WeightIs ==
  ASSUME NEW b
  PROVE  /\ Weight(b, 0) = 1
         /\ \A n \in Nat : Weight(b, n + 1) = b * Weight(b, n)
<1>1. Weight(b, 0) = 1
  BY PowersIs DEF Weight
<1>2. ASSUME NEW n \in Nat PROVE Weight(b, n + 1) = b * Weight(b, n)
  <2> DEFINE f == Powers(b, n)
             g == Powers(b, n + 1)
  <2>1. f[0] = 1 /\ \A m \in 1..n : f[m] = b * f[m - 1]
    BY PowersIs
  <2>2. g[0] = 1 /\ \A m \in 1..(n + 1) : g[m] = b * g[m - 1]
    BY PowersIs
  <2>. HIDE DEF f, g
  <2>3. \A m \in 1..n : g[m - 1] = f[m - 1] => g[m] = f[m]
    BY <2>1, <2>2
  <2>4. g[n] = f[n]
    BY <2>1, <2>2, <2>3, FallsAgree
  <2>5. g[n + 1] = b * g[n + 1 - 1] /\ n + 1 - 1 = n
    BY <2>2
  <2>6. g[n + 1] = b * f[n]
    BY <2>4, <2>5
  <2>. QED BY <2>6 DEF Weight, f, g
<1>. QED BY <1>1, <1>2

(* What put_varint and to_be_bytes have left to write: all of the value at first, *)
LEMMA LeftBegins ==
  ASSUME NEW v, NEW b
  PROVE  Left(v, b, 0) = v
BY ShiftedIs DEF Left

(* after n digits the same however many there are, *)
LeftOf(v, b, len) == \A n \in 0..len : Shifted(v, b, len)[n] = Left(v, b, n)

LEMMA LeftCut ==
  ASSUME NEW v, NEW b, NEW len \in Nat
  PROVE  LeftOf(v, b, len)
<1> SUFFICES ASSUME NEW n \in 0..len PROVE Shifted(v, b, len)[n] = Left(v, b, n)
  BY DEF LeftOf
<1> DEFINE f == Shifted(v, b, n)
           g == Shifted(v, b, len)
<1>1. f[0] = v /\ \A m \in 1..n : f[m] = f[m - 1] \div b
  BY ShiftedIs
<1>2. g[0] = v /\ \A m \in 1..len : g[m] = g[m - 1] \div b
  BY ShiftedIs
<1>. HIDE DEF f, g
<1>3. \A m \in 1..n : g[m - 1] = f[m - 1] => g[m] = f[m]
  BY <1>1, <1>2
<1>4. n \in Nat
  OBVIOUS
<1>5. g[n] = f[n]
  BY <1>1, <1>2, <1>3, <1>4, FallsAgree
<1>. QED BY <1>5 DEF Left, f, g

(* and one digit less each time. *)
Halving(v, b) == \A n \in Nat : Left(v, b, n + 1) = Left(v, b, n) \div b

LEMMA LeftHalves ==
  ASSUME NEW v, NEW b
  PROVE  Halving(v, b)
<1> SUFFICES ASSUME NEW n \in Nat PROVE Left(v, b, n + 1) = Left(v, b, n) \div b
  BY DEF Halving
<1> DEFINE g == Shifted(v, b, n + 1)
<1>1. \A m \in 1..(n + 1) : g[m] = g[m - 1] \div b
  BY ShiftedIs
<1>2. n + 1 \in Nat /\ n \in 0..(n + 1) /\ n + 1 \in 1..(n + 1) /\ (n + 1) - 1 = n
  OBVIOUS
<1>3. LeftOf(v, b, n + 1)
  BY <1>2, LeftCut
<1>4. g[n] = Left(v, b, n)
  BY <1>2, <1>3 DEF LeftOf
<1>5. g[n + 1] = Left(v, b, n + 1)
  BY DEF Left
<1>. HIDE DEF g
<1>. QED BY <1>1, <1>2, <1>4, <1>5

(* The bases of the two notations, and the sizes of the format, in numbers. *)
LEMMA Bases ==
  /\ BASE \in Nat /\ BASE >= 2 /\ 2 * BASE \in Nat /\ 2 * BASE >= 2
  /\ WORD \in Nat /\ WORD >= 1 /\ U64_SIZE \in Nat /\ U64_SIZE >= 1
  /\ MAX_U64 \in Nat /\ MAX_U64 >= 1 /\ DEPTH \in Nat
BY CodecAssumption, MaxU64Assumption

(* Products of natural numbers. *)
LEMMA Products ==
  ASSUME NEW a \in Nat, NEW b \in Nat, NEW c \in Nat
  PROVE  /\ a * b \in Nat /\ a * b = b * a /\ (a * b) * c = a * (b * c)
         /\ b <= c => a * b <= a * c /\ b * a <= c * a
         /\ a >= 1 => b <= a * b
<1>1. a * b \in Nat
  OBVIOUS
<1>2. a * b = b * a
  OBVIOUS
<1>3. b <= c => a * b <= a * c
  OBVIOUS
<1>4. b <= c => b * a <= c * a
  OBVIOUS
<1>5. a >= 1 => b <= a * b
  <2>1. ASSUME NEW x \in Nat, x <= a PROVE x * b <= a * b
    BY <2>1
  <2>2. 1 * b = b
    OBVIOUS
  <2>. QED BY <2>1, <2>2
<1>6. (a * b) * c = a * (b * c)
  OBVIOUS
<1>. QED BY <1>1, <1>2, <1>3, <1>4, <1>5, <1>6

(* A weight moved from one side of a product to the other. *)
LEMMA Regroup ==
  ASSUME NEW b \in Nat, NEW y \in Nat, NEW w \in Nat, NEW x \in Nat, b * y <= x
  PROVE  y * (b * w) <= x * w
<1>1. b * y \in Nat
  OBVIOUS
<1>2. (b * y) * w <= x * w
  BY <1>1, Products, Zenon
<1>3. (b * y) * w = y * (b * w)
  OBVIOUS
<1>. QED BY <1>2, <1>3

(* Dividing by a base, and composing again. *)
LEMMA Divide ==
  ASSUME NEW b \in Nat, b >= 2, NEW v \in Nat
  PROVE  /\ v \div b \in Nat /\ v % b \in Nat /\ v % b < b
         /\ v = (v % b) + b * (v \div b) /\ v % b <= v
         /\ v \div b <= v /\ (v >= 1 => v \div b < v)
<1> DEFINE q == v \div b
           d == v % b
<1>1. q \in Nat /\ d \in Nat /\ d < b /\ v = b * q + d
  OBVIOUS
<1>2. b * q \in Nat
  BY <1>1
<1>. HIDE DEF q, d
<1>3. 2 * q <= b * q
  BY <1>1, <1>2
<1>4. v = d + b * q /\ d <= v
  BY <1>1, <1>2
<1>5. q <= v /\ (v >= 1 => q < v)
  BY <1>1, <1>2, <1>3
<1>. QED BY <1>1, <1>4, <1>5 DEF q, d

(* A number put together from a quotient and a remainder comes apart again. *)
LEMMA Compose ==
  ASSUME NEW b \in Nat, b >= 2, NEW q \in Nat, NEW d \in Nat, d < b
  PROVE  (d + b * q) \div b = q /\ (d + b * q) % b = d
OBVIOUS

(* A quotient is the most that fits. *)
LEMMA Fits ==
  ASSUME NEW w \in Nat, w >= 1, NEW d \in Nat, NEW m \in Nat, d * w <= m
  PROVE  d <= m \div w
<1> DEFINE q == m \div w
<1>1. q \in Nat /\ m < w * (q + 1)
  <2>1. q \in Nat /\ m % w < w /\ m % w \in Nat /\ m = w * q + (m % w)
    OBVIOUS
  <2>2. w * q \in Nat /\ w * (q + 1) = w * q + w
    BY <2>1
  <2>. HIDE DEF q
  <2>. QED BY <2>1, <2>2
<1>. HIDE DEF q
<1>2. ASSUME q + 1 <= d PROVE FALSE
  <2>1. q + 1 \in Nat
    BY <1>1
  <2>2. w * (q + 1) <= w * d /\ w * d = d * w /\ w * d \in Nat /\ w * (q + 1) \in Nat
    BY <1>2, <2>1
  <2>. QED BY <1>1, <2>2
<1>3. d <= q
  BY <1>1, <1>2
<1>. QED BY <1>3 DEF q

(* Every place has a weight. *)
LEMMA WeightPositive ==
  ASSUME NEW b \in Nat, b >= 2
  PROVE  \A n \in Nat : Weight(b, n) \in Nat /\ Weight(b, n) >= 1
<1> DEFINE T == {n \in Nat : Weight(b, n) \in Nat /\ Weight(b, n) >= 1}
<1>1. 0 \in T
  BY WeightIs
<1>2. ASSUME NEW n \in T PROVE n + 1 \in T
  <2>1. n \in Nat /\ Weight(b, n) \in Nat /\ Weight(b, n) >= 1
        /\ Weight(b, n + 1) = b * Weight(b, n)
    BY WeightIs
  <2>2. ASSUME NEW w \in Nat, w >= 1 PROVE b * w \in Nat /\ b * w >= 1
    <3>1. b >= 1
      OBVIOUS
    <3>2. b * w \in Nat /\ w <= b * w
      BY <3>1, Products, Zenon
    <3>. QED BY <2>2, <3>2
  <2>. QED BY <2>1, <2>2
<1>3. T = Nat
  <2>1. T \subseteq Nat
    OBVIOUS
  <2>. HIDE DEF T
  <2>. QED BY <1>1, <1>2, <2>1, Induction
<1>. QED BY <1>3

(* What is left of a value after n digits: no more than it holds, and nothing in
   the end. *)
LEMMA LeftFits ==
  ASSUME NEW b \in Nat, b >= 2, NEW v \in Nat
  PROVE  \A n \in Nat : /\ Left(v, b, n) \in Nat
                        /\ Left(v, b, n) * Weight(b, n) <= v
                        /\ Left(v, b, n) = 0 \/ Left(v, b, n) + n <= v
<1> DEFINE Holds(n) == /\ Left(v, b, n) \in Nat
                       /\ Left(v, b, n) * Weight(b, n) <= v
                       /\ Left(v, b, n) = 0 \/ Left(v, b, n) + n <= v
           T == {n \in Nat : Holds(n)}
<1>1. 0 \in T
  <2>1. Left(v, b, 0) = v /\ Weight(b, 0) = 1
    BY LeftBegins, WeightIs
  <2>. QED BY <2>1
<1>2. ASSUME NEW n \in T PROVE n + 1 \in T
  <2> DEFINE x == Left(v, b, n)
             y == Left(v, b, n + 1)
             w == Weight(b, n)
  <2>1. n \in Nat /\ x \in Nat /\ x * w <= v /\ (x = 0 \/ x + n <= v)
    OBVIOUS
  <2>2. y = x \div b /\ Weight(b, n + 1) = b * w /\ w \in Nat
    <3>1. y = x \div b
      <4>1. Halving(v, b)
        BY LeftHalves
      <4>. QED BY <2>1, <4>1 DEF Halving
    <3>2. Weight(b, n + 1) = b * w
      <4>1. \A m \in Nat : Weight(b, m + 1) = b * Weight(b, m)
        BY WeightIs
      <4>. QED BY <2>1, <4>1
    <3>3. w \in Nat
      BY <2>1, WeightPositive
    <3>. QED BY <3>1, <3>2, <3>3
  <2>. HIDE DEF x, y, w
  <2>3. y \in Nat /\ x % b \in Nat /\ x = (x % b) + b * y /\ y <= x /\ (x >= 1 => y < x)
    BY <2>1, <2>2, Divide
  <2>4. y * (b * w) <= x * w
    <3>1. b * y \in Nat /\ b * y <= x
      BY <2>3
    <3>. QED BY <2>1, <2>2, <2>3, <3>1, Regroup
  <2>5. y * (b * w) \in Nat /\ x * w \in Nat
    BY <2>1, <2>2, <2>3
  <2>6. y * (b * w) <= v
    <3> DEFINE p == y * (b * w)
               q == x * w
    <3>1. p \in Nat /\ q \in Nat /\ p <= q /\ q <= v
      <4>1. p \in Nat /\ q \in Nat
        BY <2>5
      <4>2. p <= q
        BY <2>4
      <4>3. q <= v
        BY <2>1
      <4>. QED BY <4>1, <4>2, <4>3
    <3>. HIDE DEF p, q
    <3>2. p <= v
      BY <3>1
    <3>. QED BY <3>2 DEF p
  <2>7. y = 0 \/ y + (n + 1) <= v
    BY <2>1, <2>3
  <2>. QED BY <2>1, <2>2, <2>3, <2>6, <2>7 DEF y
<1>3. T = Nat
  <2>1. T \subseteq Nat
    OBVIOUS
  <2>. HIDE DEF T
  <2>. QED BY <1>1, <1>2, <2>1, Induction
<1>. QED BY <1>3

Bytes == Seq(Byte)

(* Reader::varint's overflow check, by the weight of the place. *)
LEMMA OverflowsIs ==
  ASSUME NEW c, NEW i \in Nat \ {0}
  PROVE  Overflows(c, i) <=>
           \/ Weight(BASE, i - 1) > MAX_U64
           \/ Payload(c[i]) > MAX_U64 \div Weight(BASE, i - 1)
BY DEF Overflows, Weight

(* A byte carries a payload below BASE. *)
LEMMA PayloadIs ==
  ASSUME NEW x \in Byte
  PROVE  Payload(x) \in Nat /\ Payload(x) < BASE /\ x = Payload(x) + (IF x < BASE THEN 0 ELSE BASE)
BY Bases DEF Payload, Byte

(* What a varint of the format spells: every byte but the last asks for another,
   and each payload fits a u64 at its place. *)
Number(c, v) ==
  /\ c \in Bytes /\ Len(c) >= 1
  /\ c[Len(c)] < BASE /\ \A i \in 1..(Len(c) - 1) : ~(c[i] < BASE)
  /\ \A i \in 1..Len(c) : ~Overflows(c, i)
  /\ v = Payloads(c, Len(c))[Len(c)]

(* The number is that of the bytes read, whatever follows them. *)
LEMMA SamePayloads ==
  ASSUME NEW c, NEW d, NEW size \in Nat, \A i \in 1..size : c[i] = d[i]
  PROVE  Payloads(c, size)[size] = Payloads(d, size)[size]
<1> DEFINE f == Payloads(c, size)
           g == Payloads(d, size)
<1>1. f[0] = 0 /\ \A n \in 1..size : f[n] = Payload(c[size - n + 1]) + BASE * f[n - 1]
  BY PayloadsIs
<1>2. g[0] = 0 /\ \A n \in 1..size : g[n] = Payload(d[size - n + 1]) + BASE * g[n - 1]
  BY PayloadsIs
<1>. HIDE DEF f, g
<1>3. ASSUME NEW n \in 1..size, f[n - 1] = g[n - 1] PROVE f[n] = g[n]
  <2>1. size - n + 1 \in 1..size
    OBVIOUS
  <2>. QED BY <1>1, <1>2, <1>3, <2>1
<1>4. f[size] = g[size]
  BY <1>1, <1>2, <1>3, FallsAgree
<1>. QED BY <1>4 DEF f, g

(* Reader::varint reads what Number says, and leaves the rest. *)
LEMMA VarintReads ==
  ASSUME NEW c, NEW v, Number(c, v), NEW t \in Bytes, NEW r, Good(r), r.rest = c \o t
  PROVE  varint(r) = Took(r, v, t)
<1> DEFINE s == c \o t
           k == Len(c)
<1>0. /\ c[k] < BASE /\ \A i \in 1..(k - 1) : ~(c[i] < BASE)
      /\ \A i \in 1..k : ~Overflows(c, i)
      /\ v = Payloads(c, k)[k]
  BY DEF Number
<1>1. /\ c \in Bytes /\ k \in Nat /\ k >= 1 /\ s \in Bytes /\ Len(s) \in Nat /\ k <= Len(s)
      /\ \A i \in 1..k : s[i] = c[i]
      /\ SubSeq(s, k + 1, Len(s)) = t
  <2>1. c \in Seq(Byte) /\ t \in Seq(Byte) /\ k >= 1
    BY DEF Number, Bytes
  <2>2. c \o t \in Seq(Byte) /\ Len(c) \in Nat /\ Len(t) \in Nat
    BY <2>1, Joined
  <2>3. Len(c \o t) = Len(c) + Len(t)
    BY <2>1, Joined
  <2>4. \A i \in 1..Len(c) : (c \o t)[i] = c[i]
    BY <2>1, Joined
  <2>5. SubSeq(c \o t, Len(c) + 1, Len(c \o t)) = t
    BY <2>1, Joined
  <2>. QED BY <2>1, <2>2, <2>3, <2>4, <2>5 DEF Bytes
<1>. HIDE DEF s, k
<1>2. \A i \in 1..k : ~Overflows(s, i)
  <2> SUFFICES ASSUME NEW i \in 1..k PROVE ~Overflows(s, i)
    OBVIOUS
  <2>1. ~Overflows(c, i)
    BY <1>0
  <2>2. s[i] = c[i]
    BY <1>1
  <2>. QED BY <2>1, <2>2 DEF Overflows
<1>3. s[k] < BASE /\ \A i \in 1..(k - 1) : ~(s[i] < BASE)
  BY <1>0, <1>1
<1>4. EndsFirst(s, k) /\ k \in 1..Len(s)
  BY <1>1, <1>2, <1>3 DEF EndsFirst, Ends
<1>5. ASSUME NEW i \in 1..Len(s), EndsFirst(s, i) PROVE i = k
  <2>1. ~(i < k)
    <3>1. i < k => i \in 1..(k - 1)
      BY <1>1
    <3>2. i \in 1..(k - 1) => ~Ends(s, i)
      BY <1>4 DEF EndsFirst
    <3>. QED BY <1>5, <3>1, <3>2 DEF EndsFirst
  <2>2. ~(k < i)
    <3>1. k < i => k \in 1..(i - 1)
      BY <1>1
    <3>2. k \in 1..(i - 1) => ~Ends(s, k)
      BY <1>5 DEF EndsFirst
    <3>. QED BY <1>4, <3>1, <3>2 DEF EndsFirst
  <2>. QED BY <1>1, <2>1, <2>2
<1>6. (CHOOSE i \in 1..Len(s) : EndsFirst(s, i)) = k
  <2>. HIDE DEF EndsFirst
  <2>. QED BY <1>4, <1>5, Zenon
<1>7. ~(\A i \in 1..Len(s) : ~Ends(s, i))
  BY <1>4 DEF EndsFirst
<1>8. r.rest = s
  BY DEF s
<1>9. varint(r) = varintOf(r, k)
  BY <1>6, <1>7, <1>8 DEF varint
<1>10. Payloads(s, k)[k] = v
  BY <1>0, <1>1, SamePayloads
<1>11. ~Overflows(s, k)
  BY <1>1, <1>2
<1>. QED BY <1>1, <1>8, <1>9, <1>10, <1>11 DEF varintOf

(* And nothing else. *)
LEMMA VarintTakes ==
  ASSUME NEW r, Good(r), r.rest \in Bytes, Good(varint(r))
  PROVE  \E c, v : \E t \in Bytes :
           Number(c, v) /\ r.rest = c \o t /\ varint(r) = Took(r, v, t)
<1> DEFINE s == r.rest
           N == Len(s)
           k == CHOOSE i \in 1..N : EndsFirst(s, i)
<1>. HIDE DEF s
<1>1. s \in Bytes /\ N \in Nat
  BY LenProperties DEF s, Bytes
<1>2. ~(\A i \in 1..N : ~Ends(s, i))
  BY DEF varint, Good, Fail, s
<1>3. \E i \in 1..N : EndsFirst(s, i)
  <2>1. PICK x \in 1..N : Ends(s, x)
    BY <1>2
  <2> DEFINE T == {i \in 1..N : Ends(s, i)}
  <2>2. T \subseteq Nat /\ T # {}
    BY <2>1
  <2>3. PICK m \in T : \A j \in T : m <= j
    <3>. HIDE DEF T
    <3>. QED BY <2>2, LeastNumber
  <2>4. m \in 1..N /\ Ends(s, m)
    OBVIOUS
  <2>5. ASSUME NEW j \in 1..(m - 1) PROVE ~Ends(s, j)
    <3>1. j \in 1..N /\ ~(m <= j)
      BY <1>1, <2>4
    <3>. QED BY <2>3, <3>1
  <2>. QED BY <2>4, <2>5 DEF EndsFirst
<1>4. k \in 1..N /\ EndsFirst(s, k)
  <2>. HIDE DEF N
  <2>. QED BY <1>3, Zenon
<1>5. varint(r) = varintOf(r, k)
  BY <1>2 DEF varint, s
<1>. HIDE DEF k
<1>6. /\ ~Overflows(s, k)
      /\ varint(r) = Took(r, Payloads(s, k)[k], SubSeq(s, k + 1, N))
  BY <1>5 DEF varintOf, Good, Fail, s
<1> DEFINE c == SubSeq(s, 1, k)
           t == SubSeq(s, k + 1, N)
<1>7. /\ k \in 0..N /\ c \in Bytes /\ Len(c) = k /\ t \in Bytes /\ s = c \o t
      /\ \A i \in 1..k : c[i] = s[i]
  <2>1. k \in 0..Len(s) /\ s \in Seq(Byte)
    BY <1>1, <1>4 DEF Bytes
  <2>2. SubSeq(s, 1, k) \in Seq(Byte) /\ Len(SubSeq(s, 1, k)) = k
    BY <2>1, Parts
  <2>3. SubSeq(s, k + 1, Len(s)) \in Seq(Byte)
    BY <2>1, Parts
  <2>4. s = SubSeq(s, 1, k) \o SubSeq(s, k + 1, Len(s))
    BY <2>1, Parts
  <2>5. \A i \in 1..k : SubSeq(s, 1, k)[i] = s[i]
    BY <2>1, Parts
  <2>. QED BY <2>1, <2>2, <2>3, <2>4, <2>5 DEF Bytes
<1>. HIDE DEF c, t, N
<1>8. Number(c, Payloads(s, k)[k])
  <2>1. k \in Nat /\ k >= 1
    BY <1>4
  <2>2. \A i \in 1..(k - 1) : ~Ends(s, i)
    BY <1>4 DEF EndsFirst
  <2>3. s[k] < BASE
    BY <1>4, <1>6 DEF EndsFirst, Ends
  <2>4. \A i \in 1..k : ~Overflows(s, i)
    BY <1>6, <2>1, <2>2 DEF Ends
  <2>5. \A i \in 1..k : ~Overflows(c, i)
    BY <1>7, <2>4 DEF Overflows
  <2>6. \A i \in 1..(k - 1) : ~(s[i] < BASE)
    BY <2>2 DEF Ends
  <2>7. Payloads(c, k)[k] = Payloads(s, k)[k]
    BY <1>7, <2>1, SamePayloads
  <2>8. c[k] < BASE /\ \A i \in 1..(k - 1) : ~(c[i] < BASE)
    BY <1>7, <2>1, <2>3, <2>6
  <2>. QED BY <1>7, <2>1, <2>5, <2>7, <2>8 DEF Number
<1>9. /\ r.rest = c \o t
      /\ varint(r) = Took(r, Payloads(s, k)[k], t)
  BY <1>6, <1>7 DEF s, t, N
<1>. QED BY <1>7, <1>8, <1>9

-----------------------------------------------------------------------------
(* put_varint: as many digits as the value needs. *)

Size(v) == CHOOSE n \in 1..(v + 1) :
             Left(v, BASE, n) = 0 /\ \A m \in 1..(n - 1) : Left(v, BASE, m) # 0

Digit(v, i) == Left(v, BASE, i - 1) % BASE

(* put_varint stops at the first place with nothing left above it. *)
LEMMA SizeIs ==
  ASSUME NEW v \in Nat
  PROVE  /\ Size(v) \in 1..(v + 1) /\ Left(v, BASE, Size(v)) = 0
         /\ \A m \in 1..(Size(v) - 1) : Left(v, BASE, m) # 0
         /\ put_varint(v) = [i \in 1..Size(v) |->
                               Digit(v, i) + (IF i < Size(v) THEN BASE ELSE 0)]
<1> DEFINE N == v + 1
           Done(n) == Left(v, BASE, n) = 0 /\ \A m \in 1..(n - 1) : Left(v, BASE, m) # 0
           T == {n \in 1..N : Left(v, BASE, n) = 0}
<1>1. N \in T
  <2>1. N \in Nat /\ Left(v, BASE, N) \in Nat
        /\ (Left(v, BASE, N) = 0 \/ Left(v, BASE, N) + N <= v)
    <3>1. N \in Nat
      OBVIOUS
    <3>. HIDE DEF N
    <3>. QED BY <3>1, Bases, LeftFits
  <2>. QED BY <2>1
<1>2. T \subseteq Nat /\ T # {}
  <2>1. T \subseteq Nat
    OBVIOUS
  <2>. HIDE DEF T
  <2>. QED BY <1>1, <2>1
<1>3. \E n \in 1..N : Done(n)
  <2>1. PICK n \in T : \A j \in T : n <= j
    <3>. HIDE DEF T
    <3>. QED BY <1>2, LeastNumber
  <2>2. n \in 1..N /\ Left(v, BASE, n) = 0
    OBVIOUS
  <2>3. ASSUME NEW m \in 1..(n - 1) PROVE Left(v, BASE, m) # 0
    <3>1. m \in 1..N /\ ~(n <= m)
      BY <2>2
    <3>. QED BY <2>1, <3>1
  <2>. QED BY <2>2, <2>3
<1>4. Size(v) \in 1..N /\ Done(Size(v))
  BY <1>3, Zenon DEF Size
<1>5. put_varint(v) = [i \in 1..Size(v) |->
                         Digit(v, i) + (IF i < Size(v) THEN BASE ELSE 0)]
  <2> DEFINE left == Shifted(v, BASE, v + 1)
             Same(n) == left[n] = 0 /\ \A m \in 1..(n - 1) : left[m] # 0
             size == CHOOSE n \in 1..(v + 1) : Same(n)
  <2>1. \A n \in 0..(v + 1) : left[n] = Left(v, BASE, n)
    <3>1. v + 1 \in Nat
      OBVIOUS
    <3>2. LeftOf(v, BASE, v + 1)
      BY <3>1, LeftCut
    <3>. QED BY <3>2 DEF LeftOf
  <2>. HIDE DEF left
  <2>2. ASSUME NEW n \in 1..(v + 1) PROVE Same(n) <=> Done(n)
    <3>1. n \in 0..(v + 1) /\ \A m \in 1..(n - 1) : m \in 0..(v + 1)
      OBVIOUS
    <3>. QED BY <2>1, <3>1
  <2>3. size = Size(v)
    <3>. HIDE DEF Same, Done
    <3>1. size = CHOOSE n \in 1..(v + 1) : Done(n)
      BY <2>2, Zenon
    <3>. QED BY <3>1 DEF Size, Done
  <2>4. put_varint(v) = [i \in 1..size |-> (left[i - 1] % BASE) + (IF i < size THEN BASE ELSE 0)]
    BY DEF put_varint, left
  <2>. HIDE DEF size
  <2>5. \A i \in 1..Size(v) : left[i - 1] = Left(v, BASE, i - 1)
    <3>1. \A i \in 1..Size(v) : i - 1 \in 0..(v + 1)
      BY <1>4
    <3>. QED BY <2>1, <3>1
  <2>. QED BY <2>3, <2>4, <2>5 DEF Digit
<1>. QED BY <1>4, <1>5

(* A digit put_varint writes, and what it is worth. *)
LEMMA DigitIs ==
  ASSUME NEW v \in Nat, NEW i \in Nat \ {0}
  PROVE  /\ Digit(v, i) \in Nat /\ Digit(v, i) < BASE
         /\ Left(v, BASE, i - 1) = Digit(v, i) + BASE * Left(v, BASE, i)
         /\ Digit(v, i) * Weight(BASE, i - 1) <= v
<1> DEFINE x == Left(v, BASE, i - 1)
           w == Weight(BASE, i - 1)
<1>1. i - 1 \in Nat /\ (i - 1) + 1 = i
  OBVIOUS
<1>2. x \in Nat /\ x * w <= v /\ w \in Nat
  <2>1. /\ \A n \in Nat : Left(v, BASE, n) \in Nat /\ Left(v, BASE, n) * Weight(BASE, n) <= v
        /\ \A n \in Nat : Weight(BASE, n) \in Nat
    BY Bases, LeftFits, WeightPositive
  <2>. QED BY <1>1, <2>1
<1>3. Left(v, BASE, i) = x \div BASE
  <2>1. Halving(v, BASE)
    BY LeftHalves
  <2>2. Left(v, BASE, (i - 1) + 1) = Left(v, BASE, i - 1) \div BASE
    BY <1>1, <2>1 DEF Halving
  <2>. QED BY <1>1, <2>2
<1>. HIDE DEF x, w
<1>4. /\ x % BASE \in Nat /\ x % BASE < BASE
      /\ x = (x % BASE) + BASE * (x \div BASE) /\ x % BASE <= x
  BY <1>2, Bases, Divide
<1>5. (x % BASE) * w <= v
  <2>1. (x % BASE) * w <= x * w
    BY <1>2, <1>4, Products, Zenon
  <2> DEFINE p == (x % BASE) * w
             q == x * w
  <2>2. p \in Nat /\ q \in Nat /\ p <= q /\ q <= v
    <3>1. p \in Nat
      BY <1>2, <1>4, Products, Zenon
    <3>2. q \in Nat
      BY <1>2
    <3>. QED BY <1>2, <2>1, <3>1, <3>2
  <2>. HIDE DEF p, q
  <2>3. p <= v
    BY <2>2
  <2>. QED BY <2>3 DEF p
<1>. QED BY <1>3, <1>4, <1>5 DEF Digit, x, w

(* The bytes of put_varint: each asks for another but the last, and they add up to
   the value. *)
LEMMA Digits ==
  ASSUME NEW v \in Nat
  PROVE  /\ put_varint(v) \in Bytes /\ Len(put_varint(v)) = Size(v)
         /\ Size(v) \in Nat /\ Size(v) >= 1
         /\ \A i \in 1..Size(v) : /\ Payload(put_varint(v)[i]) = Digit(v, i)
                                  /\ put_varint(v)[i] < BASE <=> i = Size(v)
         /\ Payloads(put_varint(v), Size(v))[Size(v)] = v
<1> DEFINE c == put_varint(v)
           k == Size(v)
<1>1. /\ k \in 1..(v + 1) /\ Left(v, BASE, k) = 0
      /\ c = [i \in 1..k |-> Digit(v, i) + (IF i < k THEN BASE ELSE 0)]
  BY SizeIs
<1>. HIDE DEF c, k
<1>2. k \in Nat /\ k >= 1
  BY <1>1
<1>3. ASSUME NEW i \in 1..k
      PROVE  c[i] \in Byte /\ Payload(c[i]) = Digit(v, i) /\ (c[i] < BASE <=> i = k)
  <2>1. Digit(v, i) \in Nat /\ Digit(v, i) < BASE
    BY <1>2, DigitIs
  <2>2. c[i] = Digit(v, i) + (IF i < k THEN BASE ELSE 0)
    BY <1>1
  <2>. QED BY <1>2, <2>1, <2>2, Bases DEF Byte, Payload
<1>4. c \in Bytes /\ Len(c) = k
  <2>1. c = [i \in 1..k |-> c[i]]
    BY <1>1
  <2>2. \A i \in 1..k : c[i] \in Byte
    BY <1>3
  <2>. QED BY <1>2, <2>1, <2>2 DEF Bytes
<1>5. Payloads(c, k)[k] = v
  <2> DEFINE f == Payloads(c, k)
             g == [n \in 0..k |-> Left(v, BASE, k - n)]
  <2>1. f[0] = 0 /\ \A n \in 1..k : f[n] = Payload(c[k - n + 1]) + BASE * f[n - 1]
    BY <1>2, PayloadsIs
  <2>. HIDE DEF f
  <2>2. f[0] = g[0]
    BY <1>1, <1>2, <2>1
  <2>3. ASSUME NEW n \in 1..k, f[n - 1] = g[n - 1] PROVE f[n] = g[n]
    <3> DEFINE i == k - n + 1
    <3>1. i \in 1..k /\ i - 1 = k - n /\ k - (n - 1) = i /\ n - 1 \in 0..k /\ n \in 0..k
      BY <1>2
    <3>. HIDE DEF i
    <3>2. g[n - 1] = Left(v, BASE, i) /\ g[n] = Left(v, BASE, i - 1)
      BY <3>1
    <3>3. Left(v, BASE, i - 1) = Digit(v, i) + BASE * Left(v, BASE, i)
      BY <1>2, <3>1, DigitIs
    <3>4. Payload(c[i]) = Digit(v, i)
      BY <1>3, <3>1
    <3>5. f[n] = Payload(c[i]) + BASE * f[n - 1]
      BY <2>1 DEF i
    <3>. QED BY <2>3, <3>2, <3>3, <3>4, <3>5
  <2>4. f[k] = g[k]
    <3>. HIDE DEF g
    <3>. QED BY <1>2, <2>2, <2>3, FallsAgree
  <2>5. g[k] = Left(v, BASE, 0)
    BY <1>2
  <2>. QED BY <2>4, <2>5, LeftBegins DEF f
<1>. QED BY <1>2, <1>3, <1>4, <1>5 DEF c, k

(* Every u64 is written as a number that reads as itself. *)
LEMMA NumberWritten ==
  ASSUME NEW v \in 0..MAX_U64
  PROVE  Number(put_varint(v), v)
<1> DEFINE c == put_varint(v)
           k == Size(v)
<1>1. v \in Nat /\ v <= MAX_U64 /\ MAX_U64 \in Nat /\ MAX_U64 >= 1
  BY Bases
<1>2. /\ c \in Bytes /\ Len(c) = k /\ k \in Nat /\ k >= 1
      /\ \A i \in 1..k : Payload(c[i]) = Digit(v, i) /\ (c[i] < BASE <=> i = k)
      /\ Payloads(c, k)[k] = v
  BY <1>1, Digits
<1>3. \A m \in 1..(k - 1) : Left(v, BASE, m) # 0
  BY <1>1, SizeIs
<1>. HIDE DEF c, k
<1>4. ASSUME NEW i \in 1..k PROVE ~Overflows(c, i)
  <2> DEFINE w == Weight(BASE, i - 1)
             x == Left(v, BASE, i - 1)
  <2>1. i - 1 \in Nat /\ i \in Nat \ {0}
    BY <1>2
  <2>2. w \in Nat /\ w >= 1
    <3>1. \A n \in Nat : Weight(BASE, n) \in Nat /\ Weight(BASE, n) >= 1
      BY Bases, WeightPositive
    <3>. QED BY <2>1, <3>1
  <2>3. x \in Nat /\ x * w <= v
    <3>1. \A n \in Nat : Left(v, BASE, n) \in Nat /\ Left(v, BASE, n) * Weight(BASE, n) <= v
      BY <1>1, Bases, LeftFits
    <3>. QED BY <2>1, <3>1
  <2>4. w <= MAX_U64
    <3>1. CASE i = 1
      <4>1. i - 1 = 0
        BY <3>1
      <4>2. w = 1
        BY <4>1, WeightIs
      <4>. QED BY <1>1, <4>2
    <3>2. CASE i # 1
      <4>1. i - 1 \in 1..(k - 1)
        BY <1>2, <3>2
      <4>2. x >= 1
        BY <1>3, <2>3, <4>1
      <4>. HIDE DEF w, x
      <4>3. w <= x * w
        BY <2>2, <2>3, <4>2, Products, Zenon
      <4>4. x * w \in Nat
        BY <2>2, <2>3
      <4>. QED BY <1>1, <2>2, <2>3, <4>3, <4>4
    <3>. QED BY <3>1, <3>2
  <2>5. Digit(v, i) \in Nat /\ Digit(v, i) * w <= v
    BY <1>1, <2>1, DigitIs
  <2>. HIDE DEF w, x
  <2>6. Digit(v, i) * w <= MAX_U64
    <3> DEFINE p == Digit(v, i) * w
    <3>1. p \in Nat /\ p <= v
      BY <2>2, <2>5
    <3>. HIDE DEF p
    <3>2. p <= MAX_U64
      BY <1>1, <3>1
    <3>. QED BY <3>2 DEF p
  <2>7. Digit(v, i) <= MAX_U64 \div w
    BY <1>1, <2>2, <2>5, <2>6, Fits
  <2>8. MAX_U64 \div w \in Nat
    BY <1>1, <2>2
  <2>9. ~(w > MAX_U64) /\ ~(Digit(v, i) > MAX_U64 \div w)
    BY <1>1, <2>2, <2>4, <2>5, <2>7, <2>8
  <2>10. Payload(c[i]) = Digit(v, i)
    BY <1>2
  <2>. QED BY <2>1, <2>9, <2>10, OverflowsIs DEF w
<1>5. c[k] < BASE /\ \A i \in 1..(k - 1) : ~(c[i] < BASE)
  <2>1. k \in 1..k /\ \A i \in 1..(k - 1) : i \in 1..k /\ i # k
    BY <1>2
  <2>. QED BY <1>2, <2>1
<1>6. Number(c, v)
  BY <1>2, <1>4, <1>5 DEF Number
<1>. QED BY <1>6 DEF c

(* Induction as far as N. *)
LEMMA UpTo ==
  ASSUME NEW N \in Nat, NEW T, 0 \in T, \A n \in 0..(N - 1) : n \in T => n + 1 \in T
  PROVE  \A n \in 0..N : n \in T
<1> DEFINE U == {n \in Nat : n <= N => n \in T}
<1>1. 0 \in U
  OBVIOUS
<1>2. ASSUME NEW n \in U PROVE n + 1 \in U
  <2>1. n \in Nat /\ (n <= N => n \in T)
    OBVIOUS
  <2>2. n + 1 <= N => n \in 0..(N - 1)
    BY <2>1
  <2>. QED BY <2>1, <2>2
<1>3. U \subseteq Nat
  OBVIOUS
<1>4. U = Nat
  <2>. HIDE DEF U
  <2>. QED BY <1>1, <1>2, <1>3, Induction
<1>. QED BY <1>4

(* However a number is spelt, it was written shorter, or just so. *)
LEMMA NumberShortest ==
  ASSUME NEW c, NEW v, Number(c, v)
  PROVE  /\ v \in Nat /\ Number(put_varint(v), v)
         /\ Len(put_varint(v)) <= Len(c)
         /\ put_varint(v) = c \/ Len(put_varint(v)) < Len(c)
<1> DEFINE k == Len(c)
           f == Payloads(c, k)
           p == put_varint(v)
           m == Size(v)
<1>1. /\ c \in Bytes /\ k \in Nat /\ k >= 1 /\ v = f[k]
      /\ c[k] < BASE /\ \A i \in 1..(k - 1) : ~(c[i] < BASE)
      /\ \A i \in 1..k : ~Overflows(c, i)
  <2>1. c \in Bytes /\ k \in Nat
    BY LenProperties DEF Number, Bytes
  <2>. QED BY <2>1 DEF Number
<1>2. \A i \in 1..k : c[i] \in Byte
  BY <1>1, ElementOfSeq DEF Bytes
<1>3. f[0] = 0 /\ \A n \in 1..k : f[n] = Payload(c[k - n + 1]) + BASE * f[n - 1]
  BY <1>1, PayloadsIs
<1>. HIDE DEF k, f, p, m
<1>4. ASSUME NEW i \in 1..k
      PROVE  Payload(c[i]) \in Nat /\ Payload(c[i]) < BASE
             /\ c[i] = Payload(c[i]) + (IF c[i] < BASE THEN 0 ELSE BASE)
  BY <1>2, PayloadIs
<1>5. \A n \in 0..k : f[n] \in Nat
  <2> DEFINE T == {n \in 0..k : f[n] \in Nat}
  <2>1. 0 \in T
    BY <1>1, <1>3
  <2>2. ASSUME NEW n \in 0..(k - 1), n \in T PROVE n + 1 \in T
    <3>1. n + 1 \in 1..k /\ k - (n + 1) + 1 \in 1..k /\ n + 1 - 1 = n /\ f[n] \in Nat
      BY <1>1, <2>2
    <3>2. f[n + 1] = Payload(c[k - (n + 1) + 1]) + BASE * f[n]
      BY <1>3, <3>1
    <3>3. Payload(c[k - (n + 1) + 1]) \in Nat
      BY <1>4, <3>1
    <3>4. BASE * f[n] \in Nat
      BY <3>1, Bases
    <3>5. f[n + 1] \in Nat
      BY <3>2, <3>3, <3>4
    <3>. QED BY <3>1, <3>5
  <2>3. \A n \in 0..k : n \in T
    <3>. HIDE DEF T
    <3>. QED BY <1>1, <2>1, <2>2, UpTo
  <2>. QED BY <2>3
<1>6. v \in Nat
  BY <1>1, <1>5
<1>7. ASSUME NEW i \in 1..k
      PROVE  f[k - i + 1] \div BASE = f[k - i] /\ f[k - i + 1] % BASE = Payload(c[i])
  <2> DEFINE n == k - i
  <2>1. n \in 0..k /\ n + 1 \in 1..k /\ k - (n + 1) + 1 = i /\ n + 1 - 1 = n
    BY <1>1
  <2>. HIDE DEF n
  <2>2. f[n + 1] = Payload(c[i]) + BASE * f[n]
    BY <1>3, <2>1
  <2>3. f[n] \in Nat /\ Payload(c[i]) \in Nat /\ Payload(c[i]) < BASE
    BY <1>4, <1>5, <2>1
  <2>4. f[n + 1] \div BASE = f[n] /\ f[n + 1] % BASE = Payload(c[i])
    <3>1. \A q, d \in Nat : d < BASE =>
            (d + BASE * q) \div BASE = q /\ (d + BASE * q) % BASE = d
      BY Bases, Compose
    <3>. QED BY <2>2, <2>3, <3>1
  <2>. QED BY <2>4 DEF n
<1>8. \A n \in 0..k : Left(v, BASE, n) = f[k - n]
  <2> DEFINE T == {n \in 0..k : Left(v, BASE, n) = f[k - n]}
  <2>1. 0 \in T
    BY <1>1, LeftBegins
  <2>2. ASSUME NEW n \in 0..(k - 1), n \in T PROVE n + 1 \in T
    <3>1. n \in Nat /\ n + 1 \in 1..k /\ k - (n + 1) + 1 = k - n /\ Left(v, BASE, n) = f[k - n]
      BY <1>1, <2>2
    <3>2. Left(v, BASE, n + 1) = Left(v, BASE, n) \div BASE
      <4>1. Halving(v, BASE)
        BY LeftHalves
      <4>. QED BY <3>1, <4>1 DEF Halving
    <3>3. f[k - (n + 1) + 1] \div BASE = f[k - (n + 1)]
      BY <1>7, <3>1
    <3>4. Left(v, BASE, n + 1) = f[k - (n + 1)]
      BY <3>1, <3>2, <3>3
    <3>. QED BY <3>1, <3>4
  <2>3. \A n \in 0..k : n \in T
    <3>. HIDE DEF T
    <3>. QED BY <1>1, <2>1, <2>2, UpTo
  <2>. QED BY <2>3
<1>9. ASSUME NEW i \in 1..k PROVE Digit(v, i) = Payload(c[i])
  <2>1. i - 1 \in 0..k /\ k - (i - 1) = k - i + 1
    BY <1>1
  <2>2. Left(v, BASE, i - 1) = f[k - i + 1]
    BY <1>8, <2>1
  <2>. QED BY <1>7, <2>2 DEF Digit
<1>10. /\ p \in Bytes /\ Len(p) = m /\ m \in Nat /\ m >= 1
       /\ \A i \in 1..m : Payload(p[i]) = Digit(v, i) /\ (p[i] < BASE <=> i = m)
       /\ Payloads(p, m)[m] = v
  BY <1>6, Digits DEF p, m
<1>11. m <= k
  <2>1. Left(v, BASE, k) = 0
    <3>1. k \in 0..k /\ k - k = 0
      BY <1>1
    <3>. QED BY <1>3, <1>8, <3>1
  <2>2. \A n \in 1..(m - 1) : Left(v, BASE, n) # 0
    BY <1>6, SizeIs DEF m
  <2>3. k < m => k \in 1..(m - 1)
    BY <1>1, <1>10
  <2>. QED BY <1>1, <1>10, <2>1, <2>2, <2>3
<1>12. \A i \in 1..m : i \in 1..k /\ Payload(p[i]) = Payload(c[i])
  <2>1. \A i \in 1..m : i \in 1..k
    BY <1>1, <1>10, <1>11
  <2>. QED BY <1>9, <1>10, <2>1
<1>13. \A i \in 1..m : ~Overflows(p, i)
  BY <1>1, <1>12 DEF Overflows
<1>14. p[m] < BASE /\ \A i \in 1..(m - 1) : ~(p[i] < BASE)
  <2>1. m \in 1..m /\ \A i \in 1..(m - 1) : i \in 1..m /\ i # m
    BY <1>10
  <2>. QED BY <1>10, <2>1
<1>15. Number(p, v)
  BY <1>10, <1>13, <1>14 DEF Number
<1>16. ASSUME m = k PROVE p = c
  <2>1. ASSUME NEW i \in 1..k PROVE p[i] = c[i]
    <3>1. p[i] \in Byte
      BY <1>10, <1>16, ElementOfSeq DEF Bytes
    <3>2. p[i] = Payload(p[i]) + (IF p[i] < BASE THEN 0 ELSE BASE)
      BY <3>1, PayloadIs
    <3>3. c[i] = Payload(c[i]) + (IF c[i] < BASE THEN 0 ELSE BASE)
      BY <1>4
    <3>4. p[i] < BASE <=> i = k
      BY <1>10, <1>16
    <3>5. c[i] < BASE <=> i = k
      <4>1. i # k => i \in 1..(k - 1)
        BY <1>1
      <4>. QED BY <1>1, <4>1
    <3>6. Payload(p[i]) = Payload(c[i])
      BY <1>12, <1>16
    <3>. QED BY <3>2, <3>3, <3>4, <3>5, <3>6
  <2>2. Len(p) = Len(c)
    BY <1>10, <1>16 DEF k
  <2>3. \A i \in 1..Len(p) : p[i] = c[i]
    BY <2>1, <2>2 DEF k
  <2>. QED BY <1>1, <1>10, <2>2, <2>3, SeqEqual DEF Bytes
<1>17. p = c \/ m < k
  BY <1>1, <1>10, <1>11, <1>16
<1>. QED BY <1>1, <1>6, <1>10, <1>11, <1>15, <1>17 DEF p, k

(* A smaller number is not written longer. *)
LEMMA SmallerIsShorter ==
  ASSUME NEW p \in Nat, NEW q \in Nat, p <= q
  PROVE  Len(put_varint(p)) <= Len(put_varint(q))
<1> DEFINE k == Size(q)
<1>1. /\ Len(put_varint(p)) = Size(p) /\ Len(put_varint(q)) = k
      /\ k \in Nat /\ k >= 1 /\ Left(q, BASE, k) = 0
      /\ Size(p) \in Nat /\ \A m \in 1..(Size(p) - 1) : Left(p, BASE, m) # 0
  <2>1. Len(put_varint(p)) = Size(p) /\ Size(p) \in Nat
    BY Digits
  <2>2. Len(put_varint(q)) = k /\ k \in Nat /\ k >= 1
    BY Digits
  <2>3. Left(q, BASE, k) = 0
    BY SizeIs
  <2>4. \A m \in 1..(Size(p) - 1) : Left(p, BASE, m) # 0
    BY SizeIs
  <2>. QED BY <2>1, <2>2, <2>3, <2>4
<1>. HIDE DEF k
<1>2. \A n \in 0..k : Left(p, BASE, n) <= Left(q, BASE, n)
  <2> DEFINE T == {n \in 0..k : Left(p, BASE, n) <= Left(q, BASE, n)}
  <2>1. 0 \in T
    <3>1. Left(p, BASE, 0) = p /\ Left(q, BASE, 0) = q
      BY LeftBegins
    <3>. QED BY <1>1, <3>1
  <2>2. ASSUME NEW n \in 0..(k - 1), n \in T PROVE n + 1 \in T
    <3> DEFINE x == Left(p, BASE, n)
               y == Left(q, BASE, n)
    <3>1. n \in Nat /\ n + 1 \in 0..k
      BY <1>1
    <3>2. x \in Nat /\ y \in Nat
      <4>1. \A i \in Nat : Left(p, BASE, i) \in Nat
        BY Bases, LeftFits
      <4>2. \A i \in Nat : Left(q, BASE, i) \in Nat
        BY Bases, LeftFits
      <4>. QED BY <3>1, <4>1, <4>2
    <3>3. x <= y
      BY <2>2
    <3>4. Left(p, BASE, n + 1) = x \div BASE
      <4>1. Halving(p, BASE)
        BY LeftHalves
      <4>. QED BY <3>1, <4>1 DEF Halving
    <3>5. Left(q, BASE, n + 1) = y \div BASE
      <4>1. Halving(q, BASE)
        BY LeftHalves
      <4>. QED BY <3>1, <4>1 DEF Halving
    <3>. HIDE DEF x, y
    <3>6. x \div BASE <= y \div BASE
      BY <3>2, <3>3, Bases
    <3>. QED BY <3>1, <3>4, <3>5, <3>6
  <2>3. \A n \in 0..k : n \in T
    <3>. HIDE DEF T
    <3>. QED BY <1>1, <2>1, <2>2, UpTo
  <2>. QED BY <2>3
<1>3. Left(p, BASE, k) = 0
  <2>1. Left(p, BASE, k) <= 0
    <3>1. k \in 0..k
      BY <1>1
    <3>. QED BY <1>1, <1>2, <3>1
  <2>2. Left(p, BASE, k) \in Nat
    BY <1>1, Bases, LeftFits
  <2>. QED BY <2>1, <2>2
<1>4. ~(k < Size(p))
  <2>1. k < Size(p) => k \in 1..(Size(p) - 1)
    BY <1>1
  <2>. QED BY <1>1, <1>3, <2>1
<1>. QED BY <1>1, <1>4

(* A string cut in three. *)
LEMMA Whole ==
  ASSUME NEW S, NEW s \in Seq(S), NEW x \in Nat, NEW y \in Nat, NEW z \in Nat,
         Len(s) = x + y + z
  PROVE  SubSeq(s, 1, x) \o SubSeq(s, x + 1, x + y) \o SubSeq(s, x + y + 1, x + y + z) = s
<1>1. SubSeq(s, 1, x) \o SubSeq(s, x + 1, x + y) = SubSeq(s, 1, x + y)
  <2>1. 1 \in 1..(Len(s) + 1) /\ x \in (1 - 1)..Len(s) /\ x + y \in x..Len(s)
    OBVIOUS
  <2>. QED BY <2>1, ConcatAdjacentSubSeq
<1>2. SubSeq(s, 1, x + y) \o SubSeq(s, x + y + 1, x + y + z) = SubSeq(s, 1, x + y + z)
  <2>1. 1 \in 1..(Len(s) + 1) /\ x + y \in (1 - 1)..Len(s) /\ x + y + z \in (x + y)..Len(s)
    OBVIOUS
  <2>. QED BY <2>1, ConcatAdjacentSubSeq
<1>3. SubSeq(s, 1, x + y + z) = s
  BY SubSeqFull
<1>. QED BY <1>1, <1>2, <1>3, Zenon

(* The three parts are as long as they were cut. *)
LEMMA Thirds ==
  ASSUME NEW S, NEW s \in Seq(S), NEW x \in Nat, NEW y \in Nat, NEW z \in Nat,
         Len(s) = x + y + z
  PROVE  /\ SubSeq(s, 1, x) \in Seq(S) /\ Len(SubSeq(s, 1, x)) = x
         /\ SubSeq(s, x + 1, x + y) \in Seq(S) /\ Len(SubSeq(s, x + 1, x + y)) = y
         /\ SubSeq(s, x + y + 1, x + y + z) \in Seq(S)
         /\ Len(SubSeq(s, x + y + 1, x + y + z)) = z
<1>1. \A i \in 1..Len(s) : s[i] \in S
  BY ElementOfSeq
<1>2. SubSeq(s, 1, x) \in Seq(S) /\ Len(SubSeq(s, 1, x)) = x
  <2>1. x \in 0..Len(s)
    OBVIOUS
  <2>. QED BY <2>1, Parts
<1>3. SubSeq(s, x + 1, x + y) \in Seq(S) /\ Len(SubSeq(s, x + 1, x + y)) = y
  <2>1. x + 1 \in Int /\ x + y \in Int /\ \A i \in (x + 1)..(x + y) : s[i] \in S
    BY <1>1
  <2>2. /\ SubSeq(s, x + 1, x + y) \in Seq(S)
        /\ Len(SubSeq(s, x + 1, x + y)) = IF x + 1 <= x + y THEN x + y - (x + 1) + 1 ELSE 0
    BY <2>1, SubSeqProperties
  <2>. QED BY <2>2
<1>4. SubSeq(s, x + y + 1, x + y + z) \in Seq(S) /\ Len(SubSeq(s, x + y + 1, x + y + z)) = z
  <2>1. x + y + 1 \in Int /\ x + y + z \in Int /\ \A i \in (x + y + 1)..(x + y + z) : s[i] \in S
    BY <1>1
  <2>2. /\ SubSeq(s, x + y + 1, x + y + z) \in Seq(S)
        /\ Len(SubSeq(s, x + y + 1, x + y + z))
             = IF x + y + 1 <= x + y + z THEN x + y + z - (x + y + 1) + 1 ELSE 0
    BY <2>1, SubSeqProperties
  <2>. QED BY <2>2
<1>. QED BY <1>2, <1>3, <1>4

(* What is in the middle of a string. *)
LEMMA Split ==
  ASSUME NEW S, NEW p \in Seq(S), NEW q \in Seq(S), NEW u \in Seq(S), NEW v \in Seq(S)
  PROVE  p \o q = u \o v /\ Len(p) = Len(u) => p = u /\ q = v
<1>1. SubSeq(p \o q, 1, Len(p)) = p /\ SubSeq(p \o q, Len(p) + 1, Len(p \o q)) = q
  BY Joined
<1>2. SubSeq(u \o v, 1, Len(u)) = u /\ SubSeq(u \o v, Len(u) + 1, Len(u \o v)) = v
  BY Joined
<1>. QED BY <1>1, <1>2

(* Three strings joined can be cut where they were joined. *)
LEMMA Middle ==
  ASSUME NEW S, NEW a \in Seq(S), NEW b \in Seq(S), NEW c \in Seq(S)
  PROVE  /\ SubSeq(a \o b \o c, 1, Len(a)) = a
         /\ SubSeq(a \o b \o c, Len(a) + 1, Len(a) + Len(b)) = b
         /\ SubSeq(a \o b \o c, Len(a) + Len(b) + 1, Len(a) + Len(b) + Len(c)) = c
         /\ a \o b \o c \in Seq(S) /\ Len(a \o b \o c) = Len(a) + Len(b) + Len(c)
<1> DEFINE ab == a \o b
           s == ab \o c
<1>1. ab \in Seq(S) /\ Len(a) \in Nat /\ Len(b) \in Nat /\ Len(ab) = Len(a) + Len(b)
  BY Joined
<1>2. s \in Seq(S) /\ Len(c) \in Nat /\ Len(s) = Len(a) + Len(b) + Len(c)
  <2>1. s \in Seq(S) /\ Len(c) \in Nat /\ Len(s) = Len(ab) + Len(c)
    <3>. HIDE DEF ab
    <3>. QED BY <1>1, Joined
  <2>. QED BY <1>1, <2>1
<1>. HIDE DEF s
<1> DEFINE x == Len(a)
           y == Len(b)
           z == Len(c)
           a1 == SubSeq(s, 1, x)
           b1 == SubSeq(s, x + 1, x + y)
           c1 == SubSeq(s, x + y + 1, x + y + z)
<1>3. /\ s = a1 \o b1 \o c1 /\ a1 \in Seq(S) /\ Len(a1) = x /\ b1 \in Seq(S) /\ Len(b1) = y
      /\ c1 \in Seq(S)
  <2>1. s \in Seq(S) /\ x \in Nat /\ y \in Nat /\ z \in Nat /\ Len(s) = x + y + z
    BY <1>1, <1>2
  <2>. HIDE DEF x, y, z, ab
  <2>2. SubSeq(s, 1, x) \o SubSeq(s, x + 1, x + y) \o SubSeq(s, x + y + 1, x + y + z) = s
    <3>1. \A u, v, w \in Nat : Len(s) = u + v + w =>
            SubSeq(s, 1, u) \o SubSeq(s, u + 1, u + v) \o SubSeq(s, u + v + 1, u + v + w) = s
      BY <2>1, Whole
    <3>. QED BY <2>1, <3>1, Zenon
  <2>3. a1 \in Seq(S) /\ Len(a1) = x
    BY <2>1, Thirds
  <2>4. b1 \in Seq(S) /\ Len(b1) = y
    BY <2>1, Thirds
  <2>5. c1 \in Seq(S)
    BY <2>1, Thirds
  <2>. QED BY <2>2, <2>3, <2>4, <2>5
<1>. HIDE DEF a1, b1, c1
<1>4. a1 \o b1 \in Seq(S) /\ Len(a1 \o b1) = Len(ab)
  <2>1. a1 \o b1 \in Seq(S) /\ Len(a1 \o b1) = Len(a1) + Len(b1)
    BY <1>3, Joined, Zenon
  <2>. QED BY <1>1, <1>3, <2>1, Zenon
<1>5. a1 \o b1 = ab /\ c1 = c
  <2>1. (a1 \o b1) \o c1 = ab \o c
    BY <1>3 DEF s
  <2>. HIDE DEF ab
  <2>. QED BY <1>1, <1>3, <1>4, <2>1, Split
<1>6. a1 = a /\ b1 = b
  BY <1>3, <1>5, Split
<1>. QED BY <1>2, <1>5, <1>6 DEF s, a1, b1, c1

(* A varint of a u64 is no longer than an address. *)
LEMMA ReferenceFits ==
  ASSUME NEW p \in 0..MAX_U64
  PROVE  Len(put_varint(p)) <= WORD
<1>1. p \in Nat /\ p <= MAX_U64 /\ WORD \in Nat /\ WORD >= 1 /\ MAX_U64 \in Nat
  BY Bases
<1>2. MAX_U64 < Weight(BASE, WORD)
  BY CodecAssumption DEF Weight
<1>3. Weight(BASE, WORD) \in Nat
  BY <1>1, Bases, WeightPositive
<1>4. Left(p, BASE, WORD) \in Nat /\ Left(p, BASE, WORD) * Weight(BASE, WORD) <= p
  BY <1>1, Bases, LeftFits
<1>5. Left(p, BASE, WORD) = 0
  <2> DEFINE x == Left(p, BASE, WORD)
             w == Weight(BASE, WORD)
  <2>1. x \in Nat /\ w \in Nat /\ x * w <= p /\ p < w
    BY <1>1, <1>2, <1>3, <1>4
  <2>. HIDE DEF x, w
  <2>2. x >= 1 => w <= x * w
    BY <2>1, Products, Zenon
  <2>3. x * w \in Nat
    BY <2>1
  <2>. QED BY <1>1, <2>1, <2>2, <2>3 DEF x
<1>6. /\ Len(put_varint(p)) = Size(p) /\ Size(p) \in Nat
      /\ \A m \in 1..(Size(p) - 1) : Left(p, BASE, m) # 0
  <2>1. Len(put_varint(p)) = Size(p) /\ Size(p) \in Nat
    BY <1>1, Digits
  <2>2. \A m \in 1..(Size(p) - 1) : Left(p, BASE, m) # 0
    BY <1>1, SizeIs
  <2>. QED BY <2>1, <2>2
<1>7. WORD < Size(p) => WORD \in 1..(Size(p) - 1)
  BY <1>1, <1>6
<1>. QED BY <1>1, <1>5, <1>6, <1>7

-----------------------------------------------------------------------------
(* Big-endian numbers, and accounts. *)

(* u64::to_be_bytes, by what is left of the value. *)
LEMMA ToBeIs ==
  /\ \A v : to_be_bytes(v) = [i \in 1..U64_SIZE |-> Left(v, 2 * BASE, U64_SIZE - i) % (2 * BASE)]
<1>1. ASSUME NEW v
      PROVE  to_be_bytes(v) = [i \in 1..U64_SIZE |-> Left(v, 2 * BASE, U64_SIZE - i) % (2 * BASE)]
  <2> DEFINE left == Shifted(v, 2 * BASE, U64_SIZE)
  <2>1. to_be_bytes(v) = [i \in 1..U64_SIZE |-> left[U64_SIZE - i] % (2 * BASE)]
    BY DEF to_be_bytes
  <2>2. \A n \in 0..U64_SIZE : left[n] = Left(v, 2 * BASE, n)
    <3>1. U64_SIZE \in Nat
      BY Bases
    <3>2. LeftOf(v, 2 * BASE, U64_SIZE)
      BY <3>1, LeftCut
    <3>. QED BY <3>2 DEF LeftOf
  <2>. HIDE DEF left
  <2>3. \A i \in 1..U64_SIZE : left[U64_SIZE - i] = Left(v, 2 * BASE, U64_SIZE - i)
    <3>1. \A i \in 1..U64_SIZE : U64_SIZE - i \in 0..U64_SIZE
      BY Bases
    <3>. QED BY <2>2, <3>1
  <2>. QED BY <2>1, <2>3
<1>. QED BY <1>1

ReadSoFar(bytes) ==
  LET read[n \in 0..U64_SIZE] ==
        IF n = 0 THEN 0 ELSE (2 * BASE * read[n - 1]) + bytes[n]
  IN read

(* u64::from_be_bytes, one byte after another. *)
LEMMA ReadIs ==
  ASSUME NEW c
  PROVE  /\ ReadSoFar(c)[0] = 0 /\ from_be_bytes(c) = ReadSoFar(c)[U64_SIZE]
         /\ \A n \in 1..U64_SIZE : ReadSoFar(c)[n] = (2 * BASE * ReadSoFar(c)[n - 1]) + c[n]
<1> DEFINE Turn(n, x) == (2 * BASE * x) + c[n]
<1>1. \E f : Falls(Turn, f, U64_SIZE, 0)
  <2>1. U64_SIZE \in Nat
    BY Bases
  <2>. HIDE DEF Turn
  <2>. QED BY <2>1, FallsExists, SMTT(30)
<1>2. ReadSoFar(c) = [n \in 0..U64_SIZE |-> IF n = 0 THEN 0 ELSE (2 * BASE * ReadSoFar(c)[n - 1]) + c[n]]
  BY <1>1 DEF Falls, ReadSoFar
<1>3. from_be_bytes(c) = ReadSoFar(c)[U64_SIZE]
  BY DEF from_be_bytes, ReadSoFar
<1> DEFINE f == ReadSoFar(c)
<1>. HIDE DEF f
<1>4. f = [n \in 0..U64_SIZE |-> IF n = 0 THEN 0 ELSE (2 * BASE * f[n - 1]) + c[n]]
  BY <1>2 DEF f
<1>5. f[0] = 0 /\ \A n \in 1..U64_SIZE : f[n] = (2 * BASE * f[n - 1]) + c[n]
  BY <1>4, Bases
<1>. QED BY <1>3, <1>5 DEF f

(* What is written reads as itself. *)
LEMMA BeReads ==
  ASSUME NEW v \in 0..MAX_U64
  PROVE  /\ to_be_bytes(v) \in Bytes /\ Len(to_be_bytes(v)) = U64_SIZE
         /\ from_be_bytes(to_be_bytes(v)) = v
<1> DEFINE b == 2 * BASE
           c == to_be_bytes(v)
           f == ReadSoFar(c)
<1>1. v \in Nat /\ v <= MAX_U64 /\ MAX_U64 \in Nat /\ b \in Nat /\ b >= 2
      /\ U64_SIZE \in Nat /\ U64_SIZE >= 1
  BY Bases
<1>2. c = [i \in 1..U64_SIZE |-> Left(v, b, U64_SIZE - i) % b]
  BY ToBeIs
<1>3. /\ f[0] = 0 /\ from_be_bytes(c) = f[U64_SIZE]
      /\ \A n \in 1..U64_SIZE : f[n] = (b * f[n - 1]) + c[n]
  BY ReadIs
<1>4. Byte = 0..(b - 1)
  BY DEF Byte
<1>5. MAX_U64 + 1 = Weight(b, U64_SIZE)
  BY CodecAssumption DEF Weight
<1>. HIDE DEF b, c, f
<1>6. \A n \in Nat : Left(v, b, n) \in Nat /\ Left(v, b, n) * Weight(b, n) <= v
  BY <1>1, LeftFits
<1>7. \A n \in Nat : Left(v, b, n + 1) = Left(v, b, n) \div b
  <2>1. Halving(v, b)
    BY LeftHalves
  <2>. QED BY <2>1 DEF Halving
<1>8. \A n \in Nat : /\ Left(v, b, n) % b \in 0..(b - 1)
                     /\ Left(v, b, n) = (Left(v, b, n) % b) + b * Left(v, b, n + 1)
  <2>1. \A x \in Nat : /\ x % b \in Nat /\ x % b < b /\ x = (x % b) + b * (x \div b)
    BY <1>1, Divide
  <2>2. \A x \in Nat : x % b \in 0..(b - 1)
    BY <1>1, <2>1
  <2>. QED BY <1>6, <1>7, <2>1, <2>2
<1>9. c \in Bytes /\ Len(c) = U64_SIZE
  <2>1. \A i \in 1..U64_SIZE : U64_SIZE - i \in Nat
    BY <1>1
  <2>2. \A i \in 1..U64_SIZE : c[i] \in Byte
    BY <1>2, <1>4, <1>8, <2>1
  <2>3. c = [i \in 1..U64_SIZE |-> c[i]]
    BY <1>2
  <2>. QED BY <1>1, <2>2, <2>3 DEF Bytes
<1>10. Left(v, b, U64_SIZE) = 0
  <2> DEFINE x == Left(v, b, U64_SIZE)
             w == Weight(b, U64_SIZE)
  <2>1. x \in Nat /\ w \in Nat /\ x * w <= v /\ v < w
    BY <1>1, <1>5, <1>6
  <2>. HIDE DEF x, w
  <2>2. x >= 1 => w <= x * w
    BY <2>1, Products, Zenon
  <2>3. x * w \in Nat
    BY <2>1
  <2>. QED BY <1>1, <2>1, <2>2, <2>3 DEF x
<1>11. f[U64_SIZE] = Left(v, b, 0)
  <2> DEFINE g == [n \in 0..U64_SIZE |-> Left(v, b, U64_SIZE - n)]
  <2>1. f[0] = g[0]
    BY <1>1, <1>3, <1>10
  <2>2. ASSUME NEW n \in 1..U64_SIZE, f[n - 1] = g[n - 1] PROVE f[n] = g[n]
    <3> DEFINE k == U64_SIZE - n
    <3>1. k \in Nat /\ U64_SIZE - (n - 1) = k + 1 /\ n - 1 \in 0..U64_SIZE /\ n \in 0..U64_SIZE
      BY <1>1
    <3>2. g[n - 1] = Left(v, b, k + 1) /\ g[n] = Left(v, b, k) /\ c[n] = Left(v, b, k) % b
      BY <1>2, <3>1
    <3>. HIDE DEF k, g
    <3>3. f[n] = (b * Left(v, b, k + 1)) + (Left(v, b, k) % b)
      BY <1>3, <2>2, <3>2
    <3>4. Left(v, b, k) = (Left(v, b, k) % b) + b * Left(v, b, k + 1)
      BY <1>8, <3>1
    <3>5. Left(v, b, k + 1) \in Nat /\ Left(v, b, k) % b \in Nat
      BY <1>1, <1>6, <1>8, <3>1
    <3>6. b * Left(v, b, k + 1) \in Nat
      BY <1>1, <3>5
    <3>. QED BY <3>2, <3>3, <3>4, <3>5, <3>6
  <2>3. f[U64_SIZE] = g[U64_SIZE]
    <3>. HIDE DEF g
    <3>. QED BY <1>1, <2>1, <2>2, FallsAgree
  <2>. QED BY <1>1, <2>3
<1>12. Left(v, b, 0) = v
  BY LeftBegins
<1>. QED BY <1>3, <1>9, <1>11, <1>12 DEF c

(* What is read is written as it was. *)
LEMMA BeWrites ==
  ASSUME NEW c \in Bytes, Len(c) = U64_SIZE
  PROVE  from_be_bytes(c) \in Nat /\ to_be_bytes(from_be_bytes(c)) = c
<1> DEFINE b == 2 * BASE
           f == ReadSoFar(c)
           k == U64_SIZE
           v == from_be_bytes(c)
           d == to_be_bytes(v)
<1>1. b \in Nat /\ b >= 2 /\ k \in Nat /\ k >= 1
  BY Bases
<1>2. d = [i \in 1..k |-> Left(v, b, k - i) % b]
  BY ToBeIs
<1>3. /\ f[0] = 0 /\ v = f[k]
      /\ \A n \in 1..k : f[n] = (b * f[n - 1]) + c[n]
  BY ReadIs
<1>4. Byte = 0..(b - 1)
  BY DEF Byte
<1>5. \A i \in 1..k : c[i] \in Nat /\ c[i] < b
  <2>1. \A i \in 1..k : c[i] \in Byte
    BY ElementOfSeq DEF Bytes
  <2>. QED BY <1>1, <1>4, <2>1
<1>. HIDE DEF b, f, k, v, d
<1>6. \A n \in 0..k : f[n] \in Nat
  <2> DEFINE T == {n \in 0..k : f[n] \in Nat}
  <2>1. 0 \in T
    BY <1>1, <1>3
  <2>2. ASSUME NEW n \in 0..(k - 1), n \in T PROVE n + 1 \in T
    <3>1. n + 1 \in 1..k /\ n + 1 - 1 = n /\ f[n] \in Nat /\ c[n + 1] \in Nat
      BY <1>1, <1>5, <2>2
    <3>2. f[n + 1] = (b * f[n]) + c[n + 1]
      BY <1>3, <3>1
    <3>3. b * f[n] \in Nat
      BY <1>1, <3>1
    <3>4. f[n + 1] \in Nat
      BY <3>1, <3>2, <3>3
    <3>. QED BY <3>1, <3>4
  <2>3. \A n \in 0..k : n \in T
    <3>. HIDE DEF T
    <3>. QED BY <1>1, <2>1, <2>2, UpTo
  <2>. QED BY <2>3
<1>7. ASSUME NEW n \in 1..k
      PROVE  f[n] \div b = f[n - 1] /\ f[n] % b = c[n]
  <2>1. n - 1 \in 0..k
    BY <1>1
  <2>2. f[n - 1] \in Nat /\ c[n] \in Nat /\ c[n] < b
    BY <1>5, <1>6, <2>1
  <2>3. f[n] = c[n] + b * f[n - 1]
    <3>1. b * f[n - 1] \in Nat
      BY <1>1, <2>2
    <3>. QED BY <1>3, <2>2, <3>1
  <2>4. \A q, x \in Nat : x < b => (x + b * q) \div b = q /\ (x + b * q) % b = x
    BY <1>1, Compose
  <2>. QED BY <2>2, <2>3, <2>4
<1>8. \A n \in 0..k : Left(v, b, n) = f[k - n]
  <2> DEFINE T == {n \in 0..k : Left(v, b, n) = f[k - n]}
  <2>1. 0 \in T
    <3>1. Left(v, b, 0) = v /\ k - 0 = k
      BY <1>1, LeftBegins
    <3>. QED BY <1>1, <1>3, <3>1
  <2>2. ASSUME NEW n \in 0..(k - 1), n \in T PROVE n + 1 \in T
    <3>1. n \in Nat /\ n + 1 \in 0..k /\ k - n \in 1..k /\ k - n - 1 = k - (n + 1)
          /\ Left(v, b, n) = f[k - n]
      BY <1>1, <2>2
    <3>2. Left(v, b, n + 1) = Left(v, b, n) \div b
      <4>1. Halving(v, b)
        BY LeftHalves
      <4>. QED BY <3>1, <4>1 DEF Halving
    <3>3. f[k - n] \div b = f[k - (n + 1)]
      BY <1>7, <3>1
    <3>4. Left(v, b, n + 1) = f[k - (n + 1)]
      BY <3>1, <3>2, <3>3
    <3>. QED BY <3>1, <3>4
  <2>3. \A n \in 0..k : n \in T
    <3>. HIDE DEF T
    <3>. QED BY <1>1, <2>1, <2>2, UpTo
  <2>. QED BY <2>3
<1>9. ASSUME NEW i \in 1..k PROVE d[i] = c[i]
  <2>1. k - i \in 0..k /\ k - (k - i) = i
    BY <1>1
  <2>2. Left(v, b, k - i) = f[i]
    BY <1>8, <2>1
  <2>3. d[i] = Left(v, b, k - i) % b
    BY <1>2
  <2>. QED BY <1>7, <2>2, <2>3
<1>10. d = c
  <2>1. c = [i \in 1..k |-> c[i]]
    <3>1. DOMAIN c = 1..k /\ c = [i \in DOMAIN c |-> c[i]]
      BY LenProperties, Zenon DEF Bytes, k
    <3>. QED BY <3>1
  <2>2. d = [i \in 1..k |-> d[i]]
    BY <1>2
  <2>3. [i \in 1..k |-> d[i]] = [i \in 1..k |-> c[i]]
    BY <1>9
  <2>. QED BY <2>1, <2>2, <2>3
<1>11. v \in Nat
  <2>1. k \in 0..k
    BY <1>1
  <2>. QED BY <1>3, <1>6, <2>1
<1>. QED BY <1>10, <1>11 DEF d, v

(* Words are the byte strings of an address's length. *)
LEMMA WordIs ==
  /\ \A c \in Word : c \in Bytes /\ Len(c) = WORD
  /\ \A c \in Bytes : Len(c) = WORD => c \in Word
<1>1. WORD \in Nat
  BY Bases
<1>2. ASSUME NEW c \in Word PROVE c \in Bytes /\ Len(c) = WORD
  BY <1>1 DEF Word, Bytes
<1>3. ASSUME NEW c \in Bytes, Len(c) = WORD PROVE c \in Word
  <2>1. c \in [1..Len(c) -> Byte]
    BY LenProperties DEF Bytes
  <2>. QED BY <1>3, <2>1 DEF Word
<1>. QED BY <1>2, <1>3

(* An account that its bytes bring back. *)
Encodes(a) ==
  /\ Account_encode(a) \in Bytes /\ Len(Account_encode(a)) = ENCODED_ACCOUNT_SIZE
  /\ Account_decode(Account_encode(a)) = a /\ a # NoAccount

(* An encoded account is two numbers and an address. *)
LEMMA SizeOfAccount ==
  /\ ENCODED_ACCOUNT_SIZE = U64_SIZE + U64_SIZE + WORD /\ ENCODED_ACCOUNT_SIZE \in Nat
  /\ U64_SIZE + U64_SIZE = 2 * U64_SIZE
BY Bases DEF ENCODED_ACCOUNT_SIZE

(* An account is never taken for none. *)
LEMMA NotAbsent ==
  ASSUME NEW a, a.auth_address \in Word
  PROVE  a # NoAccount
BY CodecAssumption DEF NoAccount

(* Account::encode is undone by Account::decode. *)
LEMMA AccountWritten ==
  ASSUME NEW a \in [nonce : 0..MAX_U64, amount : 0..MAX_U64, auth_address : Word]
  PROVE  Encodes(a)
<1> DEFINE x == to_be_bytes(a.nonce)
           y == to_be_bytes(a.amount)
           z == a.auth_address
           u == U64_SIZE
           s == x \o y \o z
<1>1. /\ x \in Bytes /\ Len(x) = u /\ from_be_bytes(x) = a.nonce
      /\ y \in Bytes /\ Len(y) = u /\ from_be_bytes(y) = a.amount
      /\ z \in Bytes /\ Len(z) = WORD /\ z \in Word
  <2>1. a.nonce \in 0..MAX_U64 /\ a.amount \in 0..MAX_U64 /\ a.auth_address \in Word
    OBVIOUS
  <2>2. x \in Bytes /\ Len(x) = u /\ from_be_bytes(x) = a.nonce
    BY <2>1, BeReads
  <2>3. y \in Bytes /\ Len(y) = u /\ from_be_bytes(y) = a.amount
    BY <2>1, BeReads
  <2>4. z \in Bytes /\ Len(z) = WORD
    BY <2>1, WordIs
  <2>. QED BY <2>1, <2>2, <2>3, <2>4
<1>2. a = [nonce |-> a.nonce, amount |-> a.amount, auth_address |-> z]
  OBVIOUS
<1>3. Account_encode(a) = s
  BY DEF Account_encode
<1>. HIDE DEF x, y, z, u
<1>4. /\ SubSeq(s, 1, Len(x)) = x
      /\ SubSeq(s, Len(x) + 1, Len(x) + Len(y)) = y
      /\ SubSeq(s, Len(x) + Len(y) + 1, Len(x) + Len(y) + Len(z)) = z
      /\ s \in Bytes /\ Len(s) = Len(x) + Len(y) + Len(z)
  <2>1. x \in Seq(Byte) /\ y \in Seq(Byte) /\ z \in Seq(Byte)
    BY <1>1 DEF Bytes
  <2>2. SubSeq(s, 1, Len(x)) = x
    BY <2>1, Middle
  <2>3. SubSeq(s, Len(x) + 1, Len(x) + Len(y)) = y
    BY <2>1, Middle
  <2>4. SubSeq(s, Len(x) + Len(y) + 1, Len(x) + Len(y) + Len(z)) = z
    BY <2>1, Middle
  <2>5. s \in Seq(Byte) /\ Len(s) = Len(x) + Len(y) + Len(z)
    BY <2>1, Middle
  <2>. QED BY <2>2, <2>3, <2>4, <2>5 DEF Bytes
<1>. HIDE DEF s
<1>5. Account_decode(s) = [nonce |-> from_be_bytes(x), amount |-> from_be_bytes(y), auth_address |-> z]
  <2>1. u + u = 2 * u /\ ENCODED_ACCOUNT_SIZE = u + u + WORD
    BY SizeOfAccount DEF u
  <2>2. SubSeq(s, 1, u) = x /\ SubSeq(s, u + 1, 2 * u) = y
        /\ SubSeq(s, 2 * u + 1, ENCODED_ACCOUNT_SIZE) = z
    BY <1>1, <1>4, <2>1
  <2>. QED BY <2>2 DEF Account_decode, u
<1>6. Len(s) = ENCODED_ACCOUNT_SIZE
  BY <1>1, <1>4, SizeOfAccount DEF u
<1>7. Account_decode(s) = a
  BY <1>1, <1>2, <1>5
<1>8. a # NoAccount
  BY <1>1, NotAbsent DEF z
<1>. QED BY <1>3, <1>4, <1>6, <1>7, <1>8 DEF Encodes

(* Account::decode is undone by Account::encode: every byte of an encoded account
   tells. *)
LEMMA AccountRead ==
  ASSUME NEW c \in Bytes, Len(c) = ENCODED_ACCOUNT_SIZE
  PROVE  Account_encode(Account_decode(c)) = c /\ Encodes(Account_decode(c))
<1> DEFINE u == U64_SIZE
           x == SubSeq(c, 1, u)
           y == SubSeq(c, u + 1, u + u)
           z == SubSeq(c, u + u + 1, u + u + WORD)
           a == Account_decode(c)
<1>1. u \in Nat /\ WORD \in Nat /\ Len(c) = u + u + WORD /\ u + u = 2 * u
      /\ ENCODED_ACCOUNT_SIZE = u + u + WORD
  BY Bases, SizeOfAccount
<1>2. a = [nonce |-> from_be_bytes(x), amount |-> from_be_bytes(y), auth_address |-> z]
  BY <1>1 DEF Account_decode
<1>. HIDE DEF u
<1>3. /\ x \in Bytes /\ Len(x) = u /\ y \in Bytes /\ Len(y) = u
      /\ z \in Bytes /\ Len(z) = WORD
  BY <1>1, Thirds DEF Bytes
<1>4. x \o y \o z = c
  BY <1>1, Whole DEF Bytes
<1>. HIDE DEF x, y, z, a
<1>5. to_be_bytes(from_be_bytes(x)) = x /\ to_be_bytes(from_be_bytes(y)) = y
  BY <1>3, BeWrites DEF u
<1>6. a.nonce = from_be_bytes(x) /\ a.amount = from_be_bytes(y) /\ a.auth_address = z
  BY <1>2
<1>7. Account_encode(a) = c
  BY <1>4, <1>5, <1>6 DEF Account_encode
<1>8. a # NoAccount
  <2>1. z \in Word
    BY <1>3, WordIs
  <2>. QED BY <1>6, <2>1, NotAbsent
<1>9. Account_decode(Account_encode(a)) = a
  BY <1>7 DEF a
<1>. QED BY <1>7, <1>8, <1>9 DEF Encodes, a

-----------------------------------------------------------------------------
(* Strings joined, and cut in words. *)

Joint(strings) ==
  LET joined[n \in 0..Len(strings)] ==
        IF n = 0 THEN << >> ELSE joined[n - 1] \o strings[n]
  IN joined

(* A joint, one string after another. *)
LEMMA JointIs ==
  ASSUME NEW s, Len(s) \in Nat
  PROVE  /\ Joint(s)[0] = << >> /\ Concat(s) = Joint(s)[Len(s)]
         /\ \A n \in 1..Len(s) : Joint(s)[n] = Joint(s)[n - 1] \o s[n]
<1> DEFINE Turn(n, x) == x \o s[n]
           N == Len(s)
<1>1. \E f : Falls(Turn, f, N, << >>)
  <2>. HIDE DEF Turn, N
  <2>1. N \in Nat
    BY DEF N
  <2>. QED BY <2>1, FallsExists, SMTT(30)
<1>2. Joint(s) = [n \in 0..N |-> IF n = 0 THEN << >> ELSE Joint(s)[n - 1] \o s[n]]
  BY <1>1 DEF Falls, Joint
<1>3. Concat(s) = Joint(s)[N]
  BY DEF Concat, Joint
<1> DEFINE f == Joint(s)
<1>. HIDE DEF f
<1>4. f = [n \in 0..N |-> IF n = 0 THEN << >> ELSE f[n - 1] \o s[n]]
  BY <1>2 DEF f
<1>5. f[0] = << >> /\ \A n \in 1..N : f[n] = f[n - 1] \o s[n]
  BY <1>4
<1>. QED BY <1>3, <1>5 DEF f

(* No bytes are a byte string. *)
LEMMA NoBytes == << >> \in Bytes /\ Len(<< >>) = 0
BY EmptySeq DEF Bytes

(* The joint of strings is a string. *)
LEMMA JointBytes ==
  ASSUME NEW s, Len(s) \in Nat, \A n \in 1..Len(s) : s[n] \in Bytes
  PROVE  Concat(s) \in Bytes /\ \A n \in 0..Len(s) : Joint(s)[n] \in Bytes
<1> DEFINE N == Len(s)
           f == Joint(s)
           T == {n \in 0..N : f[n] \in Bytes}
<1>1. f[0] = << >> /\ Concat(s) = f[N] /\ \A n \in 1..N : f[n] = f[n - 1] \o s[n]
  BY JointIs
<1>2. N \in Nat /\ \A n \in 1..N : s[n] \in Bytes
  OBVIOUS
<1>. HIDE DEF f, N
<1>3. 0 \in T
  BY <1>1, <1>2, NoBytes
<1>4. ASSUME NEW n \in 0..(N - 1), n \in T PROVE n + 1 \in T
  <2>1. n + 1 \in 1..N /\ (n + 1) - 1 = n /\ f[n] \in Bytes
    BY <1>2, <1>4
  <2>2. f[n + 1] = f[n] \o s[n + 1] /\ s[n + 1] \in Bytes
    <3>1. f[n + 1] = f[(n + 1) - 1] \o s[n + 1]
      BY <1>1, <2>1
    <3>. QED BY <1>2, <2>1, <3>1
  <2>3. f[n + 1] \in Bytes
    BY <2>1, <2>2 DEF Bytes
  <2>. QED BY <2>1, <2>3
<1>5. \A n \in 0..N : n \in T
  <2>. HIDE DEF T
  <2>. QED BY <1>2, <1>3, <1>4, UpTo
<1>6. N \in 0..N
  BY <1>2
<1>. QED BY <1>1, <1>5, <1>6 DEF f, N

(* How many words there are in so many bytes. *)
LEMMA Multiples ==
  /\ \A n \in Nat : /\ n * WORD \in Nat /\ (n + 1) * WORD = n * WORD + WORD
                    /\ (n * WORD) \div WORD = n
  /\ 0 * WORD = 0
  /\ \A m, n \in Nat : m <= n => m * WORD <= n * WORD
<1>1. WORD \in Nat /\ WORD >= 1
  BY Bases
<1>2. ASSUME NEW n \in Nat
      PROVE n * WORD \in Nat /\ (n + 1) * WORD = n * WORD + WORD
  BY <1>1
<1>3. ASSUME NEW n \in Nat PROVE (n * WORD) \div WORD = n
  BY <1>1
<1>4. 0 * WORD = 0
  BY <1>1
<1>5. \A m, n \in Nat : m <= n => m * WORD <= n * WORD
  BY <1>1, Products, Zenon
<1>. QED BY <1>2, <1>3, <1>4, <1>5

(* Words joined are cut again where they were joined: the siblings of a witness need
   no separators. *)
LEMMA WordsJoined ==
  ASSUME NEW v \in Seq(Word)
  PROVE  /\ Concat(v) \in Bytes /\ Len(Concat(v)) = Len(v) * WORD
         /\ Words(Concat(v)) = v
<1> DEFINE k == Len(v)
           f == Joint(v)
           Place(n, i) == SubSeq(f[n], (i - 1) * WORD + 1, i * WORD)
           T == {n \in 0..k : /\ f[n] \in Bytes /\ Len(f[n]) = n * WORD
                              /\ \A i \in 1..n : Place(n, i) = v[i]}
<1>1. k \in Nat /\ \A i \in 1..k : v[i] \in Word
  BY ElementOfSeq, LenProperties
<1>2. f[0] = << >> /\ Concat(v) = f[k] /\ \A n \in 1..k : f[n] = f[n - 1] \o v[n]
  BY <1>1, JointIs
<1>3. WORD \in Nat /\ WORD >= 1
  BY Bases
<1>. HIDE DEF k, f
<1>4. 0 \in T
  <2>1. f[0] \in Bytes /\ Len(f[0]) = 0 * WORD
    BY <1>2, NoBytes, Multiples
  <2>2. \A i \in 1..0 : Place(0, i) = v[i]
    OBVIOUS
  <2>. HIDE DEF Place
  <2>. QED BY <1>1, <2>1, <2>2
<1>5. ASSUME NEW n \in 0..(k - 1), n \in T PROVE n + 1 \in T
  <2> DEFINE p == f[n]
             q == v[n + 1]
  <2>1. /\ n \in Nat /\ n + 1 \in 1..k /\ (n + 1) - 1 = n
        /\ p \in Bytes /\ Len(p) = n * WORD /\ \A i \in 1..n : Place(n, i) = v[i]
    BY <1>1, <1>5
  <2>2. f[n + 1] = p \o q /\ q \in Bytes /\ Len(q) = WORD
    <3>1. f[n + 1] = f[(n + 1) - 1] \o v[n + 1]
      BY <1>2, <2>1
    <3>2. v[n + 1] \in Word
      BY <1>1, <2>1
    <3>3. q \in Bytes /\ Len(q) = WORD
      BY <3>2, WordIs
    <3>. QED BY <2>1, <3>1, <3>3
  <2>3. /\ p \o q \in Bytes /\ Len(p \o q) = Len(p) + Len(q)
        /\ SubSeq(p \o q, Len(p) + 1, Len(p \o q)) = q
    <3>1. p \in Seq(Byte) /\ q \in Seq(Byte)
      BY <2>1, <2>2 DEF Bytes
    <3>. HIDE DEF p, q
    <3>2. p \o q \in Seq(Byte) /\ Len(p \o q) = Len(p) + Len(q)
      BY <3>1, Joined
    <3>3. SubSeq(p \o q, Len(p) + 1, Len(p \o q)) = q
      BY <3>1, Joined
    <3>. QED BY <3>2, <3>3 DEF Bytes
  <2>4. n * WORD \in Nat /\ (n + 1) * WORD = n * WORD + WORD
    BY <2>1, Multiples
  <2>5. Place(n + 1, n + 1) = q
    <3>1. ((n + 1) - 1) * WORD + 1 = Len(p) + 1 /\ (n + 1) * WORD = Len(p \o q)
      BY <2>1, <2>2, <2>3, <2>4
    <3>2. Place(n + 1, n + 1) = SubSeq(p \o q, Len(p) + 1, Len(p \o q))
      <4>1. Place(n + 1, n + 1) = SubSeq(f[n + 1], ((n + 1) - 1) * WORD + 1, (n + 1) * WORD)
        OBVIOUS
      <4>. HIDE DEF Place, p, q
      <4>. QED BY <2>2, <3>1, <4>1
    <3>. QED BY <2>3, <3>2
  <2>6. ASSUME NEW i \in 1..n PROVE Place(n + 1, i) = Place(n, i)
    <3> DEFINE x == (i - 1) * WORD + 1
               y == i * WORD
    <3>1. x \in Nat /\ y \in Nat /\ x >= 1 /\ y = x - 1 + WORD /\ y <= n * WORD
      <4>1. i - 1 \in Nat /\ i - 1 + 1 = i /\ i \in Nat /\ i <= n
        BY <2>1
      <4>2. (i - 1) * WORD \in Nat /\ (i - 1 + 1) * WORD = (i - 1) * WORD + WORD
        BY <4>1, Multiples
      <4>3. i * WORD <= n * WORD
        BY <2>1, <4>1, Multiples
      <4>. QED BY <1>3, <4>1, <4>2, <4>3
    <3>. HIDE DEF x, y, p, q
    <3>2. x \in 1..Len(p) + 1 /\ y \in x - 1..Len(p) /\ x \in 1..Len(p) /\ y \in x..Len(p)
      BY <1>3, <2>1, <2>4, <3>1
    <3>3. SubSeq(p \o q, x, y) = SubSeq(p, x, y)
      <4>1. p \in Seq(Byte) /\ q \in Seq(Byte) /\ x \in 1..Len(p) /\ y \in 1..Len(p)
        BY <2>1, <2>2, <3>1, <3>2 DEF Bytes
      <4>. QED BY <4>1, SubSeqOfConcat1
    <3>. QED BY <2>2, <3>3 DEF x, y, p
  <2>7. \A i \in 1..(n + 1) : Place(n + 1, i) = v[i]
    <3>1. \A i \in 1..(n + 1) : i \in 1..n \/ i = n + 1
      BY <2>1
    <3>. HIDE DEF Place
    <3>. QED BY <2>1, <2>5, <2>6, <3>1
  <2>8. f[n + 1] \in Bytes /\ Len(f[n + 1]) = (n + 1) * WORD
    BY <2>1, <2>2, <2>3, <2>4
  <2>. HIDE DEF Place
  <2>. QED BY <2>1, <2>7, <2>8
<1>6. \A n \in 0..k : n \in T
  <2>. HIDE DEF T
  <2>. QED BY <1>1, <1>4, <1>5, UpTo
<1>7. f[k] \in Bytes /\ Len(f[k]) = k * WORD /\ \A i \in 1..k : Place(k, i) = v[i]
  <2>1. k \in T
    BY <1>1, <1>6
  <2>. QED BY <2>1
<1>8. Words(f[k]) = v
  <2>1. (k * WORD) \div WORD = k
    BY <1>1, Multiples
  <2>2. Words(f[k]) = [i \in 1..k |-> Place(k, i)]
    BY <1>7, <2>1 DEF Words
  <2>3. v = [i \in 1..k |-> v[i]]
    BY DEF k
  <2>. HIDE DEF Place
  <2>. QED BY <1>7, <2>2, <2>3
<1>. QED BY <1>2, <1>7, <1>8 DEF k

(* And a string cut in words is those words joined. *)
LEMMA WordsCut ==
  ASSUME NEW k \in Nat, NEW c \in Bytes, Len(c) = k * WORD
  PROVE  Words(c) \in Seq(Word) /\ Len(Words(c)) = k /\ Concat(Words(c)) = c
<1> DEFINE v == Words(c)
           f == Joint(v)
           Place(i) == SubSeq(c, (i - 1) * WORD + 1, i * WORD)
           T == {n \in 0..k : f[n] = SubSeq(c, 1, n * WORD)}
<1>1. WORD \in Nat /\ WORD >= 1
  BY Bases
<1>2. ASSUME NEW n \in 0..(k - 1)
      PROVE  /\ n \in Nat /\ n + 1 \in 1..k /\ n * WORD \in Nat
             /\ (n + 1) * WORD = n * WORD + WORD /\ (n + 1) * WORD <= Len(c)
             /\ Place(n + 1) = SubSeq(c, n * WORD + 1, n * WORD + WORD)
  <2>1. n \in Nat /\ n + 1 \in 1..k /\ (n + 1) - 1 = n /\ n + 1 \in Nat /\ n + 1 <= k
    OBVIOUS
  <2>2. n * WORD \in Nat /\ (n + 1) * WORD = n * WORD + WORD
    BY <2>1, Multiples
  <2>3. (n + 1) * WORD <= k * WORD
    BY <2>1, Multiples
  <2>4. Place(n + 1) = SubSeq(c, n * WORD + 1, n * WORD + WORD)
    <3>1. Place(n + 1) = SubSeq(c, ((n + 1) - 1) * WORD + 1, (n + 1) * WORD)
      OBVIOUS
    <3>2. (n + 1) - 1 = n
      BY <2>1
    <3>. HIDE DEF Place
    <3>. QED BY <2>2, <3>1, <3>2
  <2>. QED BY <2>1, <2>2, <2>3, <2>4
<1>3. v = [i \in 1..k |-> Place(i)]
  <2>1. (k * WORD) \div WORD = k
    BY Multiples
  <2>. QED BY <2>1 DEF Words
<1>. HIDE DEF v, f, Place
<1>4. ASSUME NEW i \in 1..k PROVE v[i] \in Word
  <2>1. i - 1 \in 0..(k - 1) /\ i - 1 + 1 = i
    OBVIOUS
  <2> DEFINE x == (i - 1) * WORD
  <2>2. x \in Nat /\ x + WORD <= Len(c) /\ Place(i) = SubSeq(c, x + 1, x + WORD)
    BY <1>2, <2>1
  <2>. HIDE DEF x
  <2>3. \A j \in 1..Len(c) : c[j] \in Byte
    BY ElementOfSeq DEF Bytes
  <2>4. x + 1 \in Int /\ x + WORD \in Int /\ \A j \in (x + 1)..(x + WORD) : c[j] \in Byte
    BY <1>1, <2>2, <2>3
  <2> DEFINE m == x + 1
             n == x + WORD
  <2>5. m \in Int /\ n \in Int /\ (\A j \in m..n : c[j] \in Byte) /\ m <= n /\ n - m + 1 = WORD
    BY <1>1, <2>2, <2>4
  <2>. HIDE DEF m, n
  <2>6. SubSeq(c, m, n) \in Seq(Byte) /\ Len(SubSeq(c, m, n)) = WORD
    <3>1. /\ SubSeq(c, m, n) \in Seq(Byte)
          /\ Len(SubSeq(c, m, n)) = IF m <= n THEN n - m + 1 ELSE 0
      BY <2>5, SubSeqProperties
    <3>. QED BY <2>5, <3>1
  <2>. QED BY <1>3, <2>2, <2>6, WordIs DEF Bytes, m, n
<1>5. v \in Seq(Word) /\ Len(v) = k
  <2>1. v = [i \in 1..k |-> v[i]]
    BY <1>3
  <2>. QED BY <1>4, <2>1
<1>6. f[0] = << >> /\ Concat(v) = f[k] /\ \A n \in 1..k : f[n] = f[n - 1] \o v[n]
  <2>1. Len(v) \in Nat
    BY <1>5
  <2>2. /\ f[0] = << >> /\ Concat(v) = f[Len(v)]
        /\ \A n \in 1..Len(v) : f[n] = f[n - 1] \o v[n]
    BY <2>1, JointIs DEF f
  <2>. QED BY <1>5, <2>2
<1>7. 0 \in T
  <2>1. SubSeq(c, 1, 0) = << >>
    BY SubSeqEmpty
  <2>2. 0 * WORD = 0
    BY Multiples
  <2>3. f[0] = SubSeq(c, 1, 0 * WORD) /\ 0 \in 0..k
    BY <1>6, <2>1, <2>2
  <2>. QED BY <2>3
<1>8. ASSUME NEW n \in 0..(k - 1), n \in T PROVE n + 1 \in T
  <2> DEFINE x == n * WORD
             y == (n + 1) * WORD
  <2>1. n + 1 \in 1..k /\ (n + 1) - 1 = n /\ x \in Nat /\ y = x + WORD /\ y <= Len(c)
        /\ Place(n + 1) = SubSeq(c, x + 1, x + WORD)
    BY <1>2
  <2>2. f[n] = SubSeq(c, 1, x)
    BY <1>8
  <2>. HIDE DEF x, y
  <2>3. f[n + 1] = f[n] \o v[n + 1] /\ v[n + 1] = Place(n + 1)
    <3>1. f[n + 1] = f[(n + 1) - 1] \o v[n + 1]
      BY <1>5, <1>6, <2>1
    <3>2. v[n + 1] = Place(n + 1)
      BY <1>3, <2>1
    <3>. QED BY <2>1, <3>1, <3>2
  <2>4. SubSeq(c, 1, x) \o SubSeq(c, x + 1, y) = SubSeq(c, 1, y)
    <3>1. 1 \in 1..(Len(c) + 1) /\ x \in (1 - 1)..Len(c) /\ y \in x..Len(c)
      BY <1>1, <2>1
    <3>. QED BY <3>1, ConcatAdjacentSubSeq DEF Bytes
  <2>5. f[n + 1] = SubSeq(c, 1, y)
    BY <2>1, <2>2, <2>3, <2>4
  <2>. QED BY <2>1, <2>5 DEF y
<1>9. \A n \in 0..k : n \in T
  <2>. HIDE DEF T
  <2>. QED BY <1>7, <1>8, UpTo
<1>10. f[k] = SubSeq(c, 1, k * WORD)
  <2>1. k \in T
    BY <1>9
  <2>. QED BY <2>1
<1>11. SubSeq(c, 1, k * WORD) = c
  BY SubSeqFull DEF Bytes
<1>. QED BY <1>5, <1>6, <1>10, <1>11 DEF v

-----------------------------------------------------------------------------
(* Readers in which nothing has gone wrong. *)

Rd(rest, val, seen, out) ==
  [val |-> val, rest |-> rest, seen |-> seen, out |-> out, err |-> "none"]

(* What becomes of such a reader: it moves on, or holds another value. *)
LEMMA RdIs ==
  ASSUME NEW s, NEW val, NEW seen, NEW out
  PROVE  /\ Good(Rd(s, val, seen, out)) /\ Rd(s, val, seen, out).rest = s
         /\ Rd(s, val, seen, out).val = val /\ Rd(s, val, seen, out).seen = seen
         /\ Rd(s, val, seen, out).out = out
         /\ \A v, t : Took(Rd(s, val, seen, out), v, t) = Rd(t, v, seen, out)
         /\ \A v : Made(Rd(s, val, seen, out), v) = Rd(s, v, seen, out)
BY DEF Rd, Good, Took, Made

(* A reader that has failed is not good. *)
LEMMA FailIs ==
  ASSUME NEW r, NEW e, e # "none"
  PROVE  ~Good(Fail(r, e))
BY DEF Fail, Good

(* Byte strings joined are a byte string. *)
LEMMA BytesJoined ==
  ASSUME NEW c \in Bytes, NEW t \in Bytes
  PROVE  /\ c \o t \in Bytes /\ Len(c) \in Nat /\ Len(t) \in Nat
         /\ Len(c \o t) = Len(c) + Len(t)
BY Joined DEF Bytes

(* Byte strings can be joined from either end. *)
LEMMA Regrouped ==
  ASSUME NEW a \in Bytes, NEW b \in Bytes, NEW t \in Bytes
  PROVE  (a \o b) \o t = a \o (b \o t)
BY ConcatAssociative DEF Bytes

Regroups(a, b, t) == (a \o b) \o t = a \o (b \o t)

(* The same, by name. *)
LEMMA RegroupedSo ==
  ASSUME NEW a \in Bytes, NEW b \in Bytes, NEW t \in Bytes
  PROVE  Regroups(a, b, t)
BY Regrouped DEF Regroups

(* Reader::varint. *)
LEMMA NumberRead ==
  ASSUME NEW c, NEW v, Number(c, v), NEW t \in Bytes, NEW val, NEW seen, NEW out
  PROVE  varint(Rd(c \o t, val, seen, out)) = Rd(t, v, seen, out)
<1> DEFINE s == c \o t
           r == Rd(s, val, seen, out)
<1>1. Good(r) /\ r.rest = s /\ \A x, y : Took(r, x, y) = Rd(y, x, seen, out)
  <2>. HIDE DEF s
  <2>. QED BY RdIs
<1>. HIDE DEF r
<1>2. r.rest = c \o t
  BY <1>1
<1>3. varint(r) = Took(r, v, t)
  BY <1>1, <1>2, VarintReads
<1>. QED BY <1>1, <1>3 DEF r

(* Reader::varint, when it succeeds, has read a number and left what follows it. *)
LEMMA NumberTaken ==
  ASSUME NEW s \in Bytes, NEW val, NEW seen, NEW out, Good(varint(Rd(s, val, seen, out)))
  PROVE  \E c, t \in Bytes : \E v :
           /\ s = c \o t /\ Number(c, v)
           /\ varint(Rd(s, val, seen, out)) = Rd(t, v, seen, out)
<1> DEFINE r == Rd(s, val, seen, out)
<1>1. Good(r) /\ r.rest = s /\ \A x, y : Took(r, x, y) = Rd(y, x, seen, out)
  BY RdIs
<1>2. Good(varint(r))
  OBVIOUS
<1>. HIDE DEF r
<1>3. PICK c, v : \E t \in Bytes : Number(c, v) /\ r.rest = c \o t /\ varint(r) = Took(r, v, t)
  BY <1>1, <1>2, VarintTakes
<1>4. PICK t \in Bytes : Number(c, v) /\ r.rest = c \o t /\ varint(r) = Took(r, v, t)
  BY <1>3
<1>5. c \in Bytes
  BY <1>4 DEF Number
<1>6. s = c \o t /\ Number(c, v) /\ varint(r) = Rd(t, v, seen, out)
  BY <1>1, <1>4
<1>. QED BY <1>5, <1>6 DEF r

(* Reader::take. *)
LEMMA TakeReads ==
  ASSUME NEW c \in Bytes, NEW t \in Bytes, NEW val, NEW seen, NEW out
  PROVE  take(Rd(c \o t, val, seen, out), Len(c)) = Rd(t, c, seen, out)
<1> DEFINE s == c \o t
           r == Rd(s, val, seen, out)
<1>1. /\ Len(c) \in Nat /\ Len(t) \in Nat /\ Len(s) = Len(c) + Len(t)
      /\ SubSeq(s, 1, Len(c)) = c /\ SubSeq(s, Len(c) + 1, Len(s)) = t
  BY Joined DEF Bytes
<1>. HIDE DEF s
<1>2. Good(r) /\ r.rest = s /\ \A x, y : Took(r, x, y) = Rd(y, x, seen, out)
  BY RdIs
<1>. HIDE DEF r
<1>3. ~(Len(r.rest) < Len(c))
  BY <1>1, <1>2
<1>4. take(r, Len(c)) = Took(r, SubSeq(s, 1, Len(c)), SubSeq(s, Len(c) + 1, Len(s)))
  BY <1>2, <1>3 DEF take
<1>. QED BY <1>1, <1>2, <1>4 DEF r, s

TakeSplit(s, len, val, seen, out) ==
  \E c, t \in Bytes : /\ s = c \o t /\ Len(c) = len
                      /\ take(Rd(s, val, seen, out), len) = Rd(t, c, seen, out)

(* Reader::take, when it succeeds, has read as many bytes as it was asked for. *)
LEMMA TakeTaken ==
  ASSUME NEW s \in Bytes, NEW len \in Nat, NEW val, NEW seen, NEW out,
         Good(take(Rd(s, val, seen, out), len))
  PROVE  TakeSplit(s, len, val, seen, out)
<1> DEFINE r == Rd(s, val, seen, out)
           c == SubSeq(s, 1, len)
           t == SubSeq(s, len + 1, Len(s))
<1>1. Good(r) /\ r.rest = s /\ \A x, y : Took(r, x, y) = Rd(y, x, seen, out)
  BY RdIs
<1>2. Good(take(r, len))
  OBVIOUS
<1>. HIDE DEF r
<1>3. ~(Len(s) < len)
  BY <1>1, <1>2, FailIs DEF take
<1>4. take(r, len) = Took(r, c, t)
  BY <1>1, <1>3 DEF take
<1>5. Len(s) \in Nat
  BY LenProperties DEF Bytes
<1>6. len \in 0..Len(s)
  BY <1>3, <1>5
<1>7. c \in Bytes /\ t \in Bytes /\ Len(c) = len /\ s = c \o t
  <2>1. s \in Seq(Byte)
    BY DEF Bytes
  <2>2. SubSeq(s, 1, len) \in Seq(Byte) /\ Len(SubSeq(s, 1, len)) = len
    BY <1>6, <2>1, Parts
  <2>3. SubSeq(s, len + 1, Len(s)) \in Seq(Byte)
    BY <1>6, <2>1, Parts
  <2>4. s = SubSeq(s, 1, len) \o SubSeq(s, len + 1, Len(s))
    BY <1>6, <2>1, Parts
  <2>. QED BY <2>2, <2>3, <2>4 DEF Bytes
<1>. HIDE DEF c, t
<1>8. take(r, len) = Rd(t, c, seen, out)
  BY <1>1, <1>4
<1>. QED BY <1>7, <1>8 DEF r, TakeSplit

(* A string of one byte is that byte. *)
LEMMA Single ==
  ASSUME NEW c \in Bytes, Len(c) = 1
  PROVE  c[1] \in Byte /\ c = <<c[1]>>
<1>1. c[1] \in Byte
  BY ElementOfSeq DEF Bytes
<1> DEFINE d == <<c[1]>>
<1>2. d \in Seq(Byte) /\ Len(d) = 1 /\ d[1] = c[1]
  BY <1>1
<1>. HIDE DEF d
<1>3. Len(c) = Len(d) /\ \A i \in 1..Len(c) : c[i] = d[i]
  BY <1>2
<1>4. c = d
  BY <1>2, <1>3, SeqEqual DEF Bytes
<1>. QED BY <1>1, <1>4 DEF d

(* Reader::byte. *)
LEMMA ByteReads ==
  ASSUME NEW x \in Byte, NEW t \in Bytes, NEW val, NEW seen, NEW out
  PROVE  byte(Rd(<<x>> \o t, val, seen, out)) = Rd(t, x, seen, out) /\ <<x>> \in Bytes
<1> DEFINE c == <<x>>
<1>1. c \in Bytes /\ Len(c) = 1 /\ c[1] = x
  BY DEF Bytes
<1>. HIDE DEF c
<1>2. take(Rd(c \o t, val, seen, out), 1) = Rd(t, c, seen, out)
  <2>1. c \in Bytes
    BY <1>1
  <2>2. take(Rd(c \o t, val, seen, out), Len(c)) = Rd(t, c, seen, out)
    BY <2>1, TakeReads
  <2>. QED BY <1>1, <2>2, Zenon
<1>3. /\ Good(Rd(t, c, seen, out)) /\ Rd(t, c, seen, out).val = c
      /\ \A v : Made(Rd(t, c, seen, out), v) = Rd(t, v, seen, out)
  BY RdIs
<1>4. byte(Rd(c \o t, val, seen, out)) = Rd(t, x, seen, out)
  BY <1>1, <1>2, <1>3 DEF byte, FirstByte
<1>. QED BY <1>1, <1>4 DEF c

ByteSplit(s, val, seen, out) ==
  \E x \in Byte : \E t \in Bytes :
    s = <<x>> \o t /\ byte(Rd(s, val, seen, out)) = Rd(t, x, seen, out)

(* Reader::byte, when it succeeds, has read one byte. *)
LEMMA ByteTaken ==
  ASSUME NEW s \in Bytes, NEW val, NEW seen, NEW out, Good(byte(Rd(s, val, seen, out)))
  PROVE  ByteSplit(s, val, seen, out)
<1> DEFINE r == Rd(s, val, seen, out)
<1>1. Good(take(r, 1))
  <2>. HIDE DEF r
  <2>1. ~Good(take(r, 1)) => byte(r) = take(r, 1)
    BY DEF byte, FirstByte
  <2>. QED BY <2>1 DEF r
<1>2. PICK c, t \in Bytes : s = c \o t /\ Len(c) = 1 /\ take(r, 1) = Rd(t, c, seen, out)
  <2>1. 1 \in Nat /\ Good(take(Rd(s, val, seen, out), 1))
    BY <1>1
  <2> DEFINE n == 1
  <2>. HIDE DEF n
  <2>2. n \in Nat /\ Good(take(Rd(s, val, seen, out), n))
    BY <2>1 DEF n
  <2>3. TakeSplit(s, n, val, seen, out)
    BY <2>2, TakeTaken
  <2>. QED BY <2>3 DEF n, TakeSplit
<1>3. c[1] \in Byte /\ c = <<c[1]>>
  BY <1>2, Single
<1>4. /\ Good(Rd(t, c, seen, out)) /\ Rd(t, c, seen, out).val = c
      /\ \A v : Made(Rd(t, c, seen, out), v) = Rd(t, v, seen, out)
  BY RdIs
<1>5. byte(r) = Rd(t, c[1], seen, out)
  <2>. HIDE DEF r
  <2>. QED BY <1>2, <1>4 DEF byte, FirstByte
<1>6. s = <<c[1]>> \o t
  BY <1>2, <1>3
<1>. QED BY <1>3, <1>5, <1>6 DEF ByteSplit

(* Reader::count: a number that what follows could hold. *)
LEMMA CountReads ==
  ASSUME NEW c, NEW v, Number(c, v), NEW t \in Bytes, NEW stride, ~(v * stride > Len(t)),
         NEW val, NEW seen, NEW out
  PROVE  count(Rd(c \o t, val, seen, out), stride) = Rd(t, v, seen, out)
<1>1. varint(Rd(c \o t, val, seen, out)) = Rd(t, v, seen, out)
  BY NumberRead
<1>2. Good(Rd(t, v, seen, out)) /\ Rd(t, v, seen, out).val = v /\ Rd(t, v, seen, out).rest = t
  BY RdIs
<1>. QED BY <1>1, <1>2 DEF count, Plausible

(* Reader::count, when it succeeds, has read a number that what follows could hold. *)
LEMMA CountTaken ==
  ASSUME NEW s \in Bytes, NEW stride, NEW val, NEW seen, NEW out,
         Good(count(Rd(s, val, seen, out), stride))
  PROVE  \E c, t \in Bytes : \E v :
           /\ s = c \o t /\ Number(c, v) /\ ~(v * stride > Len(t))
           /\ count(Rd(s, val, seen, out), stride) = Rd(t, v, seen, out)
<1> DEFINE r == Rd(s, val, seen, out)
<1>1. Good(varint(r))
  <2>. HIDE DEF r
  <2>1. ~Good(varint(r)) => count(r, stride) = varint(r)
    BY DEF count, Plausible
  <2>. QED BY <2>1 DEF r
<1>2. PICK c, t \in Bytes : \E v : s = c \o t /\ Number(c, v) /\ varint(r) = Rd(t, v, seen, out)
  BY <1>1, NumberTaken
<1>3. PICK v : s = c \o t /\ Number(c, v) /\ varint(r) = Rd(t, v, seen, out)
  BY <1>2
<1>4. Good(count(r, stride))
  OBVIOUS
<1> DEFINE q == Rd(t, v, seen, out)
<1>5. Good(q) /\ q.val = v /\ q.rest = t
  BY RdIs
<1>. HIDE DEF q, r
<1>6. ~(v * stride > Len(t)) /\ count(r, stride) = q
  <2>1. count(r, stride) = IF v * stride > Len(t) THEN Fail(q, "ImplausibleLength") ELSE q
    BY <1>3, <1>5 DEF count, Plausible, q
  <2>2. ~Good(Fail(q, "ImplausibleLength"))
    BY FailIs
  <2>. QED BY <1>4, <2>1, <2>2
<1>. QED BY <1>3, <1>6 DEF q, r

-----------------------------------------------------------------------------
(* The fields: which bytes spell what, that the reader reads those, and that it
   reads no others. *)

SpeltAddress(seen, c, v, after) ==
  \/ /\ v \in Word /\ after = Append(seen, v)
     /\ \E a \in Bytes : Number(a, 0) /\ c = a \o v
  \/ /\ after = seen
     /\ \E k \in 1..Len(seen) : Number(c, k) /\ v = seen[k]

(* DictionaryReader::take reads a literal behind a zero, which joins the dictionary, or
   a reference to what is there already. *)
LEMMA AddressReads ==
  ASSUME NEW seen, Len(seen) \in Nat, NEW c, NEW v, NEW after, SpeltAddress(seen, c, v, after),
         NEW t \in Bytes, NEW val, NEW out
  PROVE  DictionaryReader_take(Rd(c \o t, val, seen, out)) = Rd(t, v, after, out)
<1> DEFINE r == Rd(c \o t, val, seen, out)
<1>1. ASSUME v \in Word, after = Append(seen, v), NEW a \in Bytes, Number(a, 0), c = a \o v
      PROVE  DictionaryReader_take(r) = Rd(t, v, after, out)
  <2> DEFINE u == v \o t
             q == Rd(u, 0, seen, out)
             p == Rd(t, v, seen, out)
  <2>1. v \in Bytes /\ Len(v) = WORD
    BY <1>1, WordIs
  <2>2. c \o t = a \o u
    BY <1>1, <2>1, Regrouped
  <2>3. u \in Bytes
    BY <2>1, BytesJoined
  <2>4. take(q, WORD) = p
    <3>1. take(Rd(v \o t, 0, seen, out), Len(v)) = Rd(t, v, seen, out)
      BY <2>1, TakeReads
    <3>. QED BY <2>1, <3>1
  <2>. HIDE DEF u
  <2>5. varint(r) = q
    <3>1. varint(Rd(a \o u, val, seen, out)) = Rd(u, 0, seen, out)
      BY <1>1, <2>3, NumberRead
    <3>. QED BY <2>2, <3>1
  <2>6. Good(q) /\ q.val = 0
    BY RdIs
  <2>7. Remember(p) = Rd(t, v, after, out)
    BY <1>1 DEF Remember, Rd, Good
  <2>. HIDE DEF q, p, r
  <2>. QED BY <2>4, <2>5, <2>6, <2>7 DEF DictionaryReader_take, Resolve
<1>2. ASSUME after = seen, NEW k \in 1..Len(seen), Number(c, k), v = seen[k]
      PROVE  DictionaryReader_take(r) = Rd(t, v, after, out)
  <2> DEFINE q == Rd(t, k, seen, out)
  <2>1. varint(r) = q
    BY <1>2, NumberRead
  <2>2. Good(q) /\ q.val = k /\ q.seen = seen /\ Made(q, v) = Rd(t, v, seen, out)
    BY RdIs
  <2>3. k # 0 /\ ~(k > Len(seen))
    OBVIOUS
  <2>. HIDE DEF q, r
  <2>. QED BY <1>2, <2>1, <2>2, <2>3 DEF DictionaryReader_take, Resolve
<1>. QED BY <1>1, <1>2 DEF SpeltAddress

(* And nothing else: a reference past the end of the dictionary is an error. *)
LEMMA AddressTaken ==
  ASSUME NEW seen, Len(seen) \in Nat, NEW s \in Bytes, NEW val, NEW out,
         Good(DictionaryReader_take(Rd(s, val, seen, out)))
  PROVE  \E c, t \in Bytes : \E v, after :
           /\ s = c \o t /\ SpeltAddress(seen, c, v, after)
           /\ DictionaryReader_take(Rd(s, val, seen, out)) = Rd(t, v, after, out)
<1> DEFINE r == Rd(s, val, seen, out)
           d == DictionaryReader_take(r)
<1>1. Good(d)
  OBVIOUS
<1>2. Good(varint(r))
  <2>. HIDE DEF r
  <2>1. ~Good(varint(r)) => d = varint(r)
    BY DEF DictionaryReader_take, Resolve
  <2>. QED BY <1>1, <2>1
<1>3. PICK a, u \in Bytes : \E k : s = a \o u /\ Number(a, k) /\ varint(r) = Rd(u, k, seen, out)
  BY <1>2, NumberTaken
<1>4. PICK k : s = a \o u /\ Number(a, k) /\ varint(r) = Rd(u, k, seen, out)
  BY <1>3
<1> DEFINE q == Rd(u, k, seen, out)
<1>5. Good(q) /\ q.val = k /\ q.seen = seen /\ \A v : Made(q, v) = Rd(u, v, seen, out)
  BY RdIs
<1>6. k \in Nat
  BY <1>4, NumberShortest
<1>7. d = IF k = 0 THEN Remember(take(q, WORD))
          ELSE IF k > Len(seen) THEN Fail(q, "UnknownAddressRef") ELSE Made(q, seen[k])
  <2>. HIDE DEF q, r
  <2>. QED BY <1>4, <1>5 DEF DictionaryReader_take, Resolve, q
<1>8. CASE k = 0
  <2>1. Good(take(q, WORD))
    <3>. HIDE DEF q
    <3>1. ~Good(take(q, WORD)) => Remember(take(q, WORD)) = take(q, WORD)
      BY DEF Remember
    <3>. QED BY <1>1, <1>7, <1>8, <3>1
  <2>2. WORD \in Nat
    BY Bases
  <2>3. PICK v, t \in Bytes : u = v \o t /\ Len(v) = WORD /\ take(q, WORD) = Rd(t, v, seen, out)
    <3>1. TakeSplit(u, WORD, k, seen, out)
      BY <2>1, <2>2, TakeTaken DEF q
    <3>. QED BY <3>1 DEF TakeSplit, q
  <2>4. v \in Word
    BY <2>3, WordIs
  <2>5. Remember(Rd(t, v, seen, out)) = Rd(t, v, Append(seen, v), out)
    BY DEF Remember, Rd, Good
  <2>6. d = Rd(t, v, Append(seen, v), out)
    <3>. HIDE DEF q, d, r
    <3>. QED BY <1>7, <1>8, <2>3, <2>5
  <2> DEFINE c == a \o v
  <2>7. c \in Bytes /\ s = c \o t
    <3>1. (a \o v) \o t = a \o (v \o t)
      BY <2>3, Regrouped
    <3>2. a \o v \in Bytes
      BY <2>3, BytesJoined
    <3>. QED BY <1>4, <2>3, <3>1, <3>2
  <2>8. SpeltAddress(seen, c, v, Append(seen, v))
    BY <1>4, <1>8, <2>4 DEF SpeltAddress
  <2>. HIDE DEF c, d
  <2>9. \E w, after : SpeltAddress(seen, c, w, after) /\ d = Rd(t, w, after, out)
    BY <2>6, <2>8
  <2>. QED BY <2>3, <2>7, <2>9 DEF d
<1>9. CASE k # 0
  <2>1. ~(k > Len(seen)) /\ d = Made(q, seen[k])
    <3>1. ~Good(Fail(q, "UnknownAddressRef"))
      BY FailIs
    <3>. HIDE DEF q, d
    <3>. QED BY <1>1, <1>7, <1>9, <3>1
  <2>2. k \in 1..Len(seen)
    BY <1>6, <1>9, <2>1
  <2>3. d = Rd(u, seen[k], seen, out)
    BY <1>5, <2>1
  <2>4. SpeltAddress(seen, a, seen[k], seen)
    BY <1>4, <2>2 DEF SpeltAddress
  <2>. HIDE DEF d
  <2>5. \E w, after : SpeltAddress(seen, a, w, after) /\ d = Rd(u, w, after, out)
    BY <2>3, <2>4
  <2>. QED BY <1>4, <2>5 DEF d
<1>. QED BY <1>8, <1>9

SpeltBytes(c, v) == v \in Bytes /\ \E a \in Bytes : Number(a, Len(v)) /\ c = a \o v

(* take_bytes reads a length and so many bytes. *)
LEMMA BytesRead ==
  ASSUME NEW c, NEW v, SpeltBytes(c, v), NEW t \in Bytes, NEW val, NEW seen, NEW out
  PROVE  take_bytes(Rd(c \o t, val, seen, out)) = Rd(t, v, seen, out)
<1> DEFINE r == Rd(c \o t, val, seen, out)
<1>1. PICK a \in Bytes : Number(a, Len(v)) /\ c = a \o v /\ v \in Bytes
  BY DEF SpeltBytes
<1> DEFINE u == v \o t
           q == Rd(u, Len(v), seen, out)
<1>2. c \o t = a \o u
  BY <1>1, Regrouped
<1>3. u \in Bytes /\ ~(Len(v) * 1 > Len(u))
  BY <1>1, BytesJoined
<1>4. take(q, Len(v)) = Rd(t, v, seen, out)
  BY <1>1, TakeReads
<1>. HIDE DEF u
<1>5. count(r, 1) = q
  <2> DEFINE k == Len(v)
             n == 1
  <2>1. Number(a, k) /\ ~(k * n > Len(u))
    BY <1>1, <1>3
  <2>. HIDE DEF k, n
  <2>2. u \in Bytes
    BY <1>3
  <2>3. count(Rd(a \o u, val, seen, out), n) = Rd(u, k, seen, out)
    BY <2>1, <2>2, CountReads
  <2>. QED BY <1>2, <2>3 DEF k, n
<1>6. Good(q) /\ q.val = Len(v)
  BY RdIs
<1>. HIDE DEF q, r
<1>7. take_bytes(r) = take(q, Len(v))
  BY <1>5, <1>6 DEF take_bytes, takeCounted
<1>. QED BY <1>4, <1>7 DEF r

(* And nothing else. *)
LEMMA BytesTaken ==
  ASSUME NEW s \in Bytes, NEW val, NEW seen, NEW out,
         Good(take_bytes(Rd(s, val, seen, out)))
  PROVE  \E c, t \in Bytes : \E v :
           /\ s = c \o t /\ SpeltBytes(c, v)
           /\ take_bytes(Rd(s, val, seen, out)) = Rd(t, v, seen, out)
<1> DEFINE r == Rd(s, val, seen, out)
           d == take_bytes(r)
<1>1. Good(d)
  OBVIOUS
<1>2. Good(count(r, 1))
  <2>. HIDE DEF r
  <2>1. ~Good(count(r, 1)) => d = count(r, 1)
    BY DEF take_bytes, takeCounted
  <2>. QED BY <1>1, <2>1
<1>3. PICK a, u \in Bytes : \E k : s = a \o u /\ Number(a, k) /\ count(r, 1) = Rd(u, k, seen, out)
  BY <1>2, CountTaken
<1>4. PICK k : s = a \o u /\ Number(a, k) /\ count(r, 1) = Rd(u, k, seen, out)
  BY <1>3
<1> DEFINE q == Rd(u, k, seen, out)
<1>5. Good(q) /\ q.val = k
  BY RdIs
<1>6. k \in Nat
  BY <1>4, NumberShortest
<1>7. d = take(q, k)
  <2>. HIDE DEF q, r
  <2>. QED BY <1>4, <1>5 DEF take_bytes, takeCounted, q
<1>8. PICK v, t \in Bytes : u = v \o t /\ Len(v) = k /\ take(q, k) = Rd(t, v, seen, out)
  <2>1. Good(take(Rd(u, k, seen, out), k))
    BY <1>1, <1>7
  <2>2. TakeSplit(u, k, k, seen, out)
    BY <1>6, <2>1, TakeTaken
  <2>. QED BY <1>1, <2>2 DEF TakeSplit
<1> DEFINE c == a \o v
<1>9. c \in Bytes /\ s = c \o t
  <2>1. (a \o v) \o t = a \o (v \o t)
    <3>1. a \in Bytes /\ v \in Bytes /\ t \in Bytes
      BY <1>3, <1>8
    <3>2. Regroups(a, v, t)
      BY <3>1, RegroupedSo
    <3>. QED BY <3>2 DEF Regroups
  <2>2. a \o v \in Bytes
    BY <1>8, BytesJoined
  <2>. QED BY <1>4, <1>8, <2>1, <2>2
<1>10. SpeltBytes(c, v)
  BY <1>4, <1>8 DEF SpeltBytes
<1>. HIDE DEF c, d
<1>11. d = Rd(t, v, seen, out)
  BY <1>7, <1>8
<1>. QED BY <1>8, <1>9, <1>10, <1>11 DEF d

SpeltScheme(c, v) == v \in Schemes /\ c = IdentifierOf[v]

(* The identifiers of the schemes are of one length, and no two are the same. *)
LEMMA SchemesAre ==
  /\ \A v \in Schemes : IdentifierOf[v] \in Bytes /\ Len(IdentifierOf[v]) = SCHEME_SIZE
  /\ \A v, w \in Schemes : IdentifierOf[v] = IdentifierOf[w] => v = w
  /\ SCHEME_SIZE \in Nat
<1>1. \A v \in Schemes : IdentifierOf[v] \in Bytes /\ Len(IdentifierOf[v]) = SCHEME_SIZE
  BY CodecAssumption DEF Bytes
<1>2. \A v, w \in Schemes : IdentifierOf[v] = IdentifierOf[w] => v = w
  BY CodecAssumption
<1>3. "man" \in Schemes
  BY DEF Schemes
<1>4. SCHEME_SIZE \in Nat
  BY <1>1, <1>3, LenProperties DEF Bytes
<1>. QED BY <1>1, <1>2, <1>4

(* take_scheme reads the identifier of a scheme. *)
LEMMA SchemeRead ==
  ASSUME NEW c, NEW v, SpeltScheme(c, v), NEW t \in Bytes, NEW val, NEW seen, NEW out
  PROVE  take_scheme(Rd(c \o t, val, seen, out)) = Rd(t, v, seen, out) /\ c \in Bytes
<1> DEFINE r == Rd(c \o t, val, seen, out)
           q == Rd(t, c, seen, out)
<1>1. c \in Bytes /\ Len(c) = SCHEME_SIZE /\ v \in Schemes /\ c = IdentifierOf[v]
  BY SchemesAre DEF SpeltScheme
<1>2. take(r, SCHEME_SIZE) = q
  <2>1. take(Rd(c \o t, val, seen, out), Len(c)) = Rd(t, c, seen, out)
    BY <1>1, TakeReads
  <2>. QED BY <1>1, <2>1
<1>3. {w \in Schemes : IdentifierOf[w] = c} = {v}
  BY <1>1, SchemesAre
<1>4. Good(q) /\ q.val = c /\ \A x : Made(q, x) = Rd(t, x, seen, out)
  BY RdIs
<1>5. (CHOOSE w \in {v} : TRUE) = v /\ {v} # {}
  OBVIOUS
<1>. HIDE DEF q, r
<1>6. NamedScheme(q) = Made(q, v)
  BY <1>3, <1>4, <1>5 DEF NamedScheme
<1>. QED BY <1>1, <1>2, <1>4, <1>6 DEF take_scheme, r

(* And nothing else: an identifier no scheme has is an error. *)
LEMMA SchemeTaken ==
  ASSUME NEW s \in Bytes, NEW val, NEW seen, NEW out,
         Good(take_scheme(Rd(s, val, seen, out)))
  PROVE  \E c, t \in Bytes : \E v :
           /\ s = c \o t /\ SpeltScheme(c, v)
           /\ take_scheme(Rd(s, val, seen, out)) = Rd(t, v, seen, out)
<1> DEFINE r == Rd(s, val, seen, out)
           d == take_scheme(r)
<1>1. Good(d) /\ SCHEME_SIZE \in Nat
  BY SchemesAre
<1>2. Good(take(r, SCHEME_SIZE))
  <2>. HIDE DEF r
  <2>1. ~Good(take(r, SCHEME_SIZE)) => d = take(r, SCHEME_SIZE)
    BY DEF take_scheme, NamedScheme
  <2>. QED BY <1>1, <2>1
<1>3. PICK c, t \in Bytes : s = c \o t /\ take(r, SCHEME_SIZE) = Rd(t, c, seen, out)
  <2> DEFINE n == SCHEME_SIZE
  <2>1. n \in Nat /\ Good(take(Rd(s, val, seen, out), n))
    BY <1>1, <1>2
  <2>. HIDE DEF n
  <2>2. TakeSplit(s, n, val, seen, out)
    BY <2>1, TakeTaken
  <2>. QED BY <2>2 DEF n, TakeSplit
<1> DEFINE q == Rd(t, c, seen, out)
           named == {w \in Schemes : IdentifierOf[w] = c}
           v == CHOOSE w \in named : TRUE
<1>4. Good(q) /\ q.val = c /\ \A x : Made(q, x) = Rd(t, x, seen, out)
  BY RdIs
<1>5. d = IF named = {} THEN Fail(q, "UnknownScheme") ELSE Made(q, v)
  <2>. HIDE DEF q, r
  <2>. QED BY <1>3, <1>4 DEF take_scheme, NamedScheme, q
<1>6. named # {}
  <2>1. ~Good(Fail(q, "UnknownScheme"))
    BY FailIs
  <2>. HIDE DEF q, d, named
  <2>. QED BY <1>1, <1>5, <2>1
<1>7. v \in named
  BY <1>6
<1>8. SpeltScheme(c, v)
  BY <1>7 DEF SpeltScheme
<1>. HIDE DEF v, named, d
<1>9. d = Rd(t, v, seen, out)
  BY <1>4, <1>5, <1>6
<1>. QED BY <1>3, <1>8, <1>9 DEF d

SpeltRecipient(c, v) == v \in Word /\ c = v

(* take_recipient reads an L1 address, which joins no dictionary. *)
LEMMA RecipientRead ==
  ASSUME NEW c, NEW v, SpeltRecipient(c, v), NEW t \in Bytes, NEW val, NEW seen, NEW out
  PROVE  take_recipient(Rd(c \o t, val, seen, out)) = Rd(t, v, seen, out) /\ c \in Bytes
<1>1. c \in Bytes /\ Len(c) = WORD /\ v = c
  BY WordIs DEF SpeltRecipient
<1>2. take(Rd(c \o t, val, seen, out), Len(c)) = Rd(t, c, seen, out)
  BY <1>1, TakeReads
<1>. QED BY <1>1, <1>2 DEF take_recipient

(* And nothing else. *)
LEMMA RecipientTaken ==
  ASSUME NEW s \in Bytes, NEW val, NEW seen, NEW out,
         Good(take_recipient(Rd(s, val, seen, out)))
  PROVE  \E c, t \in Bytes : \E v :
           /\ s = c \o t /\ SpeltRecipient(c, v)
           /\ take_recipient(Rd(s, val, seen, out)) = Rd(t, v, seen, out)
<1>1. WORD \in Nat /\ Good(take(Rd(s, val, seen, out), WORD))
  BY Bases DEF take_recipient
<1>2. PICK c, t \in Bytes : /\ s = c \o t /\ Len(c) = WORD
                            /\ take(Rd(s, val, seen, out), WORD) = Rd(t, c, seen, out)
  <2>1. TakeSplit(s, WORD, val, seen, out)
    BY <1>1, TakeTaken
  <2>. QED BY <2>1 DEF TakeSplit
<1>3. SpeltRecipient(c, c)
  BY <1>2, WordIs DEF SpeltRecipient
<1>4. take_recipient(Rd(s, val, seen, out)) = Rd(t, c, seen, out)
  BY <1>2 DEF take_recipient
<1>. QED BY <1>2, <1>3, <1>4

SpeltAccount(c, v) ==
  \/ v = NoAccount /\ c = <<ABSENT>>
  \/ Encodes(v) /\ c = <<PRESENT>> \o Account_encode(v)

(* The tags of the format are bytes. *)
LEMMA Tags == 0 \in Byte /\ 1 \in Byte /\ <<0>> \in Bytes /\ <<1>> \in Bytes
<1>1. 0 \in Byte /\ 1 \in Byte
  BY Bases DEF Byte
<1>. QED BY <1>1 DEF Bytes

(* take_account reads an encoded account. *)
LEMMA EncodedAccountRead ==
  ASSUME NEW v, Encodes(v), NEW t \in Bytes, NEW val, NEW seen, NEW out
  PROVE  take_account(Rd(Account_encode(v) \o t, val, seen, out)) = Rd(t, v, seen, out)
<1> DEFINE c == Account_encode(v)
           r == Rd(c \o t, val, seen, out)
           q == Rd(t, c, seen, out)
<1>1. c \in Bytes /\ Len(c) = ENCODED_ACCOUNT_SIZE /\ Account_decode(c) = v
  BY DEF Encodes
<1>. HIDE DEF c
<1>2. take(r, ENCODED_ACCOUNT_SIZE) = q
  <2>1. take(Rd(c \o t, val, seen, out), Len(c)) = Rd(t, c, seen, out)
    BY <1>1, TakeReads
  <2>. QED BY <1>1, <2>1
<1>3. Good(q) /\ q.val = c /\ \A x : Made(q, x) = Rd(t, x, seen, out)
  BY RdIs
<1>. HIDE DEF q, r
<1>4. take_account(r) = Rd(t, v, seen, out)
  BY <1>1, <1>2, <1>3 DEF take_account, AccountOf
<1>. QED BY <1>4 DEF r, c

(* And nothing else. *)
LEMMA EncodedAccountTaken ==
  ASSUME NEW s \in Bytes, NEW val, NEW seen, NEW out,
         Good(take_account(Rd(s, val, seen, out)))
  PROVE  \E t \in Bytes : \E v :
           /\ Encodes(v) /\ s = Account_encode(v) \o t
           /\ take_account(Rd(s, val, seen, out)) = Rd(t, v, seen, out)
<1> DEFINE r == Rd(s, val, seen, out)
           n == ENCODED_ACCOUNT_SIZE
<1>1. Good(take(r, n))
  <2>. HIDE DEF r
  <2>1. ~Good(take(r, n)) => take_account(r) = take(r, n)
    BY DEF take_account, AccountOf
  <2>. QED BY <2>1 DEF r
<1>2. n \in Nat
  BY SizeOfAccount
<1>3. PICK c, t \in Bytes : s = c \o t /\ Len(c) = n /\ take(r, n) = Rd(t, c, seen, out)
  <2>1. Good(take(Rd(s, val, seen, out), n))
    BY <1>1
  <2>. HIDE DEF n
  <2>2. TakeSplit(s, n, val, seen, out)
    BY <1>2, <2>1, TakeTaken
  <2>. QED BY <2>2 DEF TakeSplit
<1> DEFINE v == Account_decode(c)
           q == Rd(t, c, seen, out)
<1>4. Account_encode(v) = c /\ Encodes(v)
  BY <1>3, AccountRead
<1>5. Good(q) /\ q.val = c /\ \A x : Made(q, x) = Rd(t, x, seen, out)
  BY RdIs
<1>6. take_account(r) = Made(q, v)
  <2>. HIDE DEF r, q, n
  <2>. QED BY <1>3, <1>5 DEF take_account, AccountOf, n, q
<1>. HIDE DEF v
<1>. QED BY <1>3, <1>4, <1>5, <1>6

(* take_optional_account reads a tag, and an account behind the one that says so. *)
LEMMA OptionalAccountRead ==
  ASSUME NEW c, NEW v, SpeltAccount(c, v), NEW t \in Bytes, NEW val, NEW seen, NEW out
  PROVE  /\ take_optional_account(Rd(c \o t, val, seen, out)) = Rd(t, v, seen, out)
         /\ c \in Bytes
<1> DEFINE r == Rd(c \o t, val, seen, out)
<1>1. CASE v = NoAccount /\ c = <<ABSENT>>
  <2> DEFINE q == Rd(t, ABSENT, seen, out)
  <2>1. byte(r) = q /\ c \in Bytes
    BY <1>1, Tags, ByteReads DEF ABSENT
  <2>2. Good(q) /\ q.val = ABSENT /\ Made(q, v) = Rd(t, v, seen, out)
    BY RdIs
  <2>4. ABSENT # PRESENT
    BY DEF ABSENT, PRESENT
  <2>. HIDE DEF q, r
  <2>3. take_optional_account(r) = Rd(t, v, seen, out)
    BY <1>1, <2>1, <2>2, <2>4 DEF take_optional_account, TaggedAccount
  <2>. QED BY <2>1, <2>3 DEF r
<1>2. CASE Encodes(v) /\ c = <<PRESENT>> \o Account_encode(v)
  <2> DEFINE a == Account_encode(v)
             u == a \o t
             q == Rd(u, PRESENT, seen, out)
  <2>1. a \in Bytes
    BY <1>2 DEF Encodes
  <2>2. PRESENT \in Byte /\ <<PRESENT>> \in Bytes /\ PRESENT # ABSENT
    BY Tags DEF PRESENT, ABSENT
  <2>3. c \o t = <<PRESENT>> \o u /\ u \in Bytes /\ c \in Bytes
    <3> DEFINE p == <<PRESENT>>
    <3>1. c = p \o a
      BY <1>2
    <3>2. p \in Bytes
      BY <2>2
    <3>. HIDE DEF p, a
    <3>3. (p \o a) \o t = p \o (a \o t)
      BY <2>1, <3>2, Regrouped
    <3>4. p \o a \in Bytes /\ a \o t \in Bytes
      BY <2>1, <3>2, BytesJoined
    <3>. QED BY <3>1, <3>3, <3>4 DEF p
  <2>4. take_account(q) = Rd(t, v, seen, out)
    BY <1>2, EncodedAccountRead
  <2>. HIDE DEF u
  <2>5. byte(r) = q
    <3>1. byte(Rd(<<PRESENT>> \o u, val, seen, out)) = Rd(u, PRESENT, seen, out)
      BY <2>2, <2>3, ByteReads
    <3>. QED BY <2>3, <3>1
  <2>6. Good(q) /\ q.val = PRESENT
    BY RdIs
  <2>. HIDE DEF q, r
  <2>7. take_optional_account(r) = Rd(t, v, seen, out)
    BY <2>2, <2>4, <2>5, <2>6 DEF take_optional_account, TaggedAccount
  <2>. QED BY <2>3, <2>7 DEF r
<1>. QED BY <1>1, <1>2 DEF SpeltAccount

(* And nothing else: any other tag is an error. *)
LEMMA OptionalAccountTaken ==
  ASSUME NEW s \in Bytes, NEW val, NEW seen, NEW out,
         Good(take_optional_account(Rd(s, val, seen, out)))
  PROVE  \E c, t \in Bytes : \E v :
           /\ s = c \o t /\ SpeltAccount(c, v)
           /\ take_optional_account(Rd(s, val, seen, out)) = Rd(t, v, seen, out)
<1> DEFINE r == Rd(s, val, seen, out)
           d == take_optional_account(r)
<1>1. Good(d)
  OBVIOUS
<1>2. Good(byte(r))
  <2>. HIDE DEF r
  <2>1. ~Good(byte(r)) => d = byte(r)
    BY DEF take_optional_account, TaggedAccount
  <2>. QED BY <1>1, <2>1
<1>3. PICK x \in Byte : \E u \in Bytes : s = <<x>> \o u /\ byte(r) = Rd(u, x, seen, out)
  <2>1. Good(byte(Rd(s, val, seen, out)))
    BY <1>2
  <2>2. ByteSplit(s, val, seen, out)
    BY <2>1, ByteTaken
  <2>. QED BY <2>2 DEF ByteSplit
<1>4. PICK u \in Bytes : s = <<x>> \o u /\ byte(r) = Rd(u, x, seen, out)
  BY <1>3
<1> DEFINE q == Rd(u, x, seen, out)
<1>5. Good(q) /\ q.val = x /\ \A v : Made(q, v) = Rd(u, v, seen, out)
  BY RdIs
<1>6. d = CASE x = ABSENT -> Made(q, NoAccount)
            [] x = PRESENT -> take_account(q)
            [] OTHER -> Fail(q, "UnknownPresenceTag")
  <2>. HIDE DEF q, r
  <2>. QED BY <1>4, <1>5 DEF take_optional_account, TaggedAccount, q
<1>7. ABSENT # PRESENT
  BY DEF ABSENT, PRESENT
<1>8. CASE x = ABSENT
  <2>1. d = Rd(u, NoAccount, seen, out)
    <3>. HIDE DEF d, q
    <3>. QED BY <1>5, <1>6, <1>7, <1>8
  <2>2. SpeltAccount(<<x>>, NoAccount)
    BY <1>8 DEF SpeltAccount
  <2>3. <<x>> \in Bytes
    BY DEF Bytes
  <2>. HIDE DEF d
  <2>. QED BY <1>4, <2>1, <2>2, <2>3 DEF d
<1>9. CASE x = PRESENT
  <2>1. d = take_account(q)
    <3>. HIDE DEF d, q
    <3>. QED BY <1>6, <1>7, <1>9
  <2>2. Good(take_account(Rd(u, x, seen, out)))
    BY <1>1, <2>1
  <2>3. PICK t \in Bytes : \E v : /\ Encodes(v) /\ u = Account_encode(v) \o t
                                 /\ take_account(Rd(u, x, seen, out)) = Rd(t, v, seen, out)
    BY <2>2, EncodedAccountTaken
  <2>4. PICK v : /\ Encodes(v) /\ u = Account_encode(v) \o t
                 /\ take_account(Rd(u, x, seen, out)) = Rd(t, v, seen, out)
    BY <2>3
  <2> DEFINE p == <<x>>
             a == Account_encode(v)
             c == p \o a
  <2>5. p \in Bytes /\ a \in Bytes
    BY <2>4 DEF Bytes, Encodes
  <2>6. SpeltAccount(c, v)
    BY <1>9, <2>4 DEF SpeltAccount
  <2>7. s = p \o (a \o t)
    BY <1>4, <2>4
  <2>. HIDE DEF p, a
  <2>8. (p \o a) \o t = p \o (a \o t)
    BY <2>5, Regrouped
  <2>9. p \o a \in Bytes
    BY <2>5, BytesJoined
  <2>10. d = Rd(t, v, seen, out)
    BY <2>1, <2>4
  <2>. HIDE DEF d
  <2>11. s = c \o t /\ c \in Bytes
    BY <2>7, <2>8, <2>9
  <2>. QED BY <2>6, <2>10, <2>11 DEF d
<1>10. CASE x # ABSENT /\ x # PRESENT
  <2>1. ~Good(Fail(q, "UnknownPresenceTag"))
    BY FailIs
  <2>. HIDE DEF q, d
  <2>. QED BY <1>1, <1>6, <1>10, <2>1
<1>. QED BY <1>8, <1>9, <1>10

SpeltSiblings(c, v) ==
  /\ v \in Seq(Word) /\ Len(v) <= DEPTH
  /\ \E a \in Bytes : Number(a, Len(v)) /\ c = a \o Concat(v)

(* take_siblings reads a count and as many digests, DEPTH at the most. *)
LEMMA SiblingsRead ==
  ASSUME NEW c, NEW v, SpeltSiblings(c, v), NEW t \in Bytes, NEW val, NEW seen, NEW out
  PROVE  /\ take_siblings(Rd(c \o t, val, seen, out)) = Rd(t, v, seen, out)
         /\ c \in Bytes
<1> DEFINE r == Rd(c \o t, val, seen, out)
           k == Len(v)
           x == Concat(v)
           u == x \o t
           q == Rd(u, k, seen, out)
           p == Rd(t, x, seen, out)
<1>1. PICK a \in Bytes : Number(a, k) /\ c = a \o x /\ v \in Seq(Word) /\ ~(k > DEPTH)
  <2>1. v \in Seq(Word) /\ Len(v) <= DEPTH /\ \E a \in Bytes : Number(a, Len(v)) /\ c = a \o x
    BY DEF SpeltSiblings
  <2>2. Len(v) \in Nat /\ DEPTH \in Nat
    BY <2>1, CodecAssumption, LenProperties
  <2>. QED BY <2>1, <2>2
<1>2. x \in Bytes /\ Len(x) = k * WORD /\ Words(x) = v
  BY <1>1, WordsJoined
<1>3. k \in Nat /\ k * WORD \in Nat
  BY <1>1, Multiples, LenProperties
<1>. HIDE DEF k, x
<1>4. c \o t = a \o u /\ c \in Bytes
  <2>1. (a \o x) \o t = a \o (x \o t)
    BY <1>2, Regrouped
  <2>2. a \o x \in Bytes
    BY <1>2, BytesJoined
  <2>. QED BY <1>1, <2>1, <2>2
<1>5. u \in Bytes /\ ~(k * WORD > Len(u))
  BY <1>2, <1>3, BytesJoined
<1>6. take(q, k * WORD) = p
  <2>1. take(Rd(x \o t, k, seen, out), Len(x)) = Rd(t, x, seen, out)
    BY <1>2, TakeReads
  <2>. QED BY <1>2, <2>1
<1>. HIDE DEF u
<1>7. count(r, WORD) = q
  <2>1. count(Rd(a \o u, val, seen, out), WORD) = Rd(u, k, seen, out)
    BY <1>1, <1>5, CountReads
  <2>. QED BY <1>4, <2>1
<1>8. Good(q) /\ q.val = k
  BY RdIs
<1>9. Good(p) /\ p.val = x /\ \A w : Made(p, w) = Rd(t, w, seen, out)
  BY RdIs
<1>. HIDE DEF q, p, r
<1>10. take_siblings(r) = Cut(p)
  BY <1>1, <1>6, <1>7, <1>8 DEF take_siblings, SiblingsOf
<1>11. Cut(p) = Rd(t, v, seen, out)
  BY <1>2, <1>9 DEF Cut
<1>. QED BY <1>4, <1>10, <1>11 DEF r

(* And nothing else: more siblings than the tree is deep are an error. *)
LEMMA SiblingsTaken ==
  ASSUME NEW s \in Bytes, NEW val, NEW seen, NEW out,
         Good(take_siblings(Rd(s, val, seen, out)))
  PROVE  \E c, t \in Bytes : \E v :
           /\ s = c \o t /\ SpeltSiblings(c, v)
           /\ take_siblings(Rd(s, val, seen, out)) = Rd(t, v, seen, out)
<1> DEFINE r == Rd(s, val, seen, out)
           d == take_siblings(r)
<1>1. Good(d)
  OBVIOUS
<1>2. Good(count(r, WORD))
  <2>. HIDE DEF r
  <2>1. ~Good(count(r, WORD)) => d = count(r, WORD)
    BY DEF take_siblings, SiblingsOf
  <2>. QED BY <1>1, <2>1
<1>3. PICK a, u \in Bytes : \E k : s = a \o u /\ Number(a, k) /\ count(r, WORD) = Rd(u, k, seen, out)
  BY <1>2, CountTaken
<1>4. PICK k : s = a \o u /\ Number(a, k) /\ count(r, WORD) = Rd(u, k, seen, out)
  BY <1>3
<1> DEFINE q == Rd(u, k, seen, out)
           n == k * WORD
<1>5. Good(q) /\ q.val = k
  BY RdIs
<1>6. k \in Nat
  BY <1>4, NumberShortest
<1>7. d = IF k > DEPTH THEN Fail(q, "ProofTooDeep") ELSE Cut(take(q, n))
  <2>. HIDE DEF q, r
  <2>. QED BY <1>4, <1>5 DEF take_siblings, SiblingsOf, q
<1>8. ~(k > DEPTH)
  <2>1. ~Good(Fail(q, "ProofTooDeep"))
    BY FailIs
  <2>. HIDE DEF q, d, n
  <2>. QED BY <1>1, <1>7, <2>1
<1>9. Good(take(q, n))
  <2>. HIDE DEF q, n, d
  <2>1. ~Good(take(q, n)) => Cut(take(q, n)) = take(q, n)
    BY DEF Cut
  <2>. QED BY <1>1, <1>7, <1>8, <2>1
<1>10. n \in Nat
  BY <1>6, Multiples
<1>11. PICK x, t \in Bytes : u = x \o t /\ Len(x) = n /\ take(q, n) = Rd(t, x, seen, out)
  <2>1. Good(take(Rd(u, k, seen, out), n))
    BY <1>9
  <2>. HIDE DEF n
  <2>2. TakeSplit(u, n, k, seen, out)
    BY <1>10, <2>1, TakeTaken
  <2>. QED BY <2>2 DEF TakeSplit
<1> DEFINE v == Words(x)
           p == Rd(t, x, seen, out)
           c == a \o x
<1>12. v \in Seq(Word) /\ Len(v) = k /\ Concat(v) = x
  BY <1>6, <1>11, WordsCut
<1>13. Good(p) /\ p.val = x /\ \A w : Made(p, w) = Rd(t, w, seen, out)
  BY RdIs
<1>14. d = Made(p, v)
  <2>. HIDE DEF q, d, n, p
  <2>1. take(q, n) = p
    BY <1>11 DEF p
  <2>. QED BY <1>7, <1>8, <1>13, <2>1 DEF Cut
<1>. HIDE DEF v
<1>15. d = Rd(t, v, seen, out)
  BY <1>13, <1>14
<1>16. SpeltSiblings(c, v)
  <2>1. Len(v) <= DEPTH
    BY <1>6, <1>8, <1>12, CodecAssumption
  <2>. QED BY <1>4, <1>12, <2>1 DEF SpeltSiblings
<1>17. c \in Bytes /\ s = c \o t
  <2>1. (a \o x) \o t = a \o (x \o t)
    <3>1. a \in Bytes /\ x \in Bytes /\ t \in Bytes
      BY <1>3, <1>11
    <3>. QED BY <3>1, Regrouped
  <2>2. a \o x \in Bytes
    BY <1>11, BytesJoined
  <2>. QED BY <1>4, <1>11, <2>1, <2>2
<1>. HIDE DEF c, d
<1>. QED BY <1>11, <1>15, <1>16, <1>17 DEF d

SpeltSlot(c, v) ==
  \/ v = OwnSlot /\ c = <<SLOT_OWN>>
  \/ /\ v.address \in Word /\ Encodes(v.account) /\ v # OwnSlot
     /\ v = [address |-> v.address, account |-> v.account]
     /\ c = <<SLOT_NEIGHBOR>> \o v.address \o Account_encode(v.account)

(* An address and an account beside each other. *)
LEMMA NeighborJoined ==
  ASSUME NEW a \in Word, NEW b, Encodes(b)
  PROVE  /\ a \o Account_encode(b) \in Bytes
         /\ Len(a \o Account_encode(b)) = WORD + ENCODED_ACCOUNT_SIZE
         /\ Neighbor_decode(a \o Account_encode(b)) = [address |-> a, account |-> b]
<1> DEFINE e == Account_encode(b)
           c == a \o e
<1>1. a \in Bytes /\ Len(a) = WORD
  BY WordIs
<1>2. e \in Bytes /\ Len(e) = ENCODED_ACCOUNT_SIZE /\ Account_decode(e) = b
  BY DEF Encodes
<1>. HIDE DEF e
<1>3. /\ c \in Bytes /\ Len(c) = Len(a) + Len(e)
      /\ SubSeq(c, 1, Len(a)) = a /\ SubSeq(c, Len(a) + 1, Len(c)) = e
  BY <1>1, <1>2, Joined DEF Bytes
<1>. HIDE DEF c
<1>4. Neighbor_decode(c) = [address |-> a, account |-> b]
  BY <1>1, <1>2, <1>3 DEF Neighbor_decode
<1>. QED BY <1>1, <1>2, <1>3, <1>4 DEF c, e

(* What is read as a neighbor is written as it was. *)
LEMMA NeighborCut ==
  ASSUME NEW c \in Bytes, Len(c) = WORD + ENCODED_ACCOUNT_SIZE
  PROVE  LET v == Neighbor_decode(c)
         IN /\ v.address \in Word /\ Encodes(v.account)
            /\ c = v.address \o Account_encode(v.account)
<1> DEFINE a == SubSeq(c, 1, WORD)
           e == SubSeq(c, WORD + 1, Len(c))
           n == WORD
<1>1. n \in Nat /\ ENCODED_ACCOUNT_SIZE \in Nat
  BY Bases, SizeOfAccount
<1>2. n \in 0..Len(c)
  BY <1>1
<1>3. /\ a \in Bytes /\ e \in Bytes /\ Len(a) = n /\ Len(e) = Len(c) - n
      /\ c = a \o e
  <2>1. c \in Seq(Byte)
    BY DEF Bytes
  <2>2. SubSeq(c, 1, n) \in Seq(Byte) /\ Len(SubSeq(c, 1, n)) = n
    BY <1>2, <2>1, Parts
  <2>3. /\ SubSeq(c, n + 1, Len(c)) \in Seq(Byte)
        /\ Len(SubSeq(c, n + 1, Len(c))) = Len(c) - n
    BY <1>2, <2>1, Parts
  <2>4. c = SubSeq(c, 1, n) \o SubSeq(c, n + 1, Len(c))
    BY <1>2, <2>1, Parts
  <2>. QED BY <2>2, <2>3, <2>4 DEF Bytes
<1>4. a \in Word
  BY <1>3, WordIs
<1>5. Len(e) = ENCODED_ACCOUNT_SIZE
  BY <1>1, <1>3
<1>6. Account_encode(Account_decode(e)) = e /\ Encodes(Account_decode(e))
  BY <1>3, <1>5, AccountRead
<1> DEFINE v == Neighbor_decode(c)
<1>7. v.address = a /\ v.account = Account_decode(e)
  BY DEF Neighbor_decode
<1>. HIDE DEF v, a, e
<1>. QED BY <1>3, <1>4, <1>6, <1>7 DEF v

(* take_slot reads a tag, and a neighbor behind the one that says so. *)
LEMMA SlotRead ==
  ASSUME NEW c, NEW v, SpeltSlot(c, v), NEW t \in Bytes, NEW val, NEW seen, NEW out
  PROVE  take_slot(Rd(c \o t, val, seen, out)) = Rd(t, v, seen, out) /\ c \in Bytes
<1> DEFINE r == Rd(c \o t, val, seen, out)
<1>1. SLOT_OWN \in Byte /\ SLOT_NEIGHBOR \in Byte /\ SLOT_OWN # SLOT_NEIGHBOR
  BY Tags DEF SLOT_OWN, SLOT_NEIGHBOR
<1>2. CASE v = OwnSlot /\ c = <<SLOT_OWN>>
  <2> DEFINE q == Rd(t, SLOT_OWN, seen, out)
  <2>1. byte(r) = q /\ c \in Bytes
    BY <1>1, <1>2, ByteReads
  <2>2. Good(q) /\ q.val = SLOT_OWN /\ Made(q, v) = Rd(t, v, seen, out)
    BY RdIs
  <2>. HIDE DEF q, r
  <2>3. take_slot(r) = Rd(t, v, seen, out)
    BY <1>1, <1>2, <2>1, <2>2 DEF take_slot, SlotOf
  <2>. QED BY <2>1, <2>3 DEF r
<1>3. ASSUME v.address \in Word, Encodes(v.account),
             v = [address |-> v.address, account |-> v.account],
             c = <<SLOT_NEIGHBOR>> \o v.address \o Account_encode(v.account)
      PROVE  take_slot(r) = Rd(t, v, seen, out) /\ c \in Bytes
  <2> DEFINE h == <<SLOT_NEIGHBOR>>
             a == v.address
             e == Account_encode(v.account)
             x == a \o e
             u == x \o t
             q == Rd(u, SLOT_NEIGHBOR, seen, out)
             p == Rd(t, x, seen, out)
             n == WORD + ENCODED_ACCOUNT_SIZE
  <2>1. x \in Bytes /\ Len(x) = n /\ Neighbor_decode(x) = v
    BY <1>3, NeighborJoined
  <2>2. h \in Bytes /\ a \in Bytes /\ e \in Bytes
    BY <1>1, <1>3, WordIs DEF Bytes, Encodes
  <2>3. c = (h \o a) \o e
    BY <1>3
  <2>. HIDE DEF h, a, e
  <2>4. (h \o a) \o e = h \o (a \o e)
    BY <2>2, Regrouped
  <2>5. c = h \o x
    BY <2>3, <2>4
  <2>. HIDE DEF x, n
  <2>6. c \o t = h \o u /\ c \in Bytes /\ u \in Bytes
    <3>0. Regroups(h, x, t)
      BY <2>1, <2>2, RegroupedSo
    <3>1. (h \o x) \o t = h \o (x \o t)
      BY <3>0 DEF Regroups
    <3>2. h \o x \in Bytes /\ x \o t \in Bytes
      BY <2>1, <2>2, BytesJoined
    <3>. QED BY <2>5, <3>1, <3>2
  <2>7. take(q, n) = p
    <3>1. take(Rd(x \o t, SLOT_NEIGHBOR, seen, out), Len(x)) = Rd(t, x, seen, out)
      BY <2>1, TakeReads
    <3>. QED BY <2>1, <3>1
  <2>. HIDE DEF u
  <2>8. byte(r) = q
    <3>1. byte(Rd(<<SLOT_NEIGHBOR>> \o u, val, seen, out)) = Rd(u, SLOT_NEIGHBOR, seen, out)
      BY <1>1, <2>6, ByteReads
    <3>. QED BY <2>6, <3>1 DEF h
  <2>9. Good(q) /\ q.val = SLOT_NEIGHBOR
    BY RdIs
  <2>10. Good(p) /\ p.val = x /\ \A w : Made(p, w) = Rd(t, w, seen, out)
    BY RdIs
  <2>. HIDE DEF q, p, r
  <2>11. take_slot(r) = NeighborOf(p)
    BY <1>1, <2>7, <2>8, <2>9 DEF take_slot, SlotOf, n
  <2>12. NeighborOf(p) = Rd(t, v, seen, out)
    BY <2>1, <2>10 DEF NeighborOf
  <2>. QED BY <2>6, <2>11, <2>12
<1>. QED BY <1>2, <1>3 DEF SpeltSlot

(* And nothing else: any other tag is an error. *)
LEMMA SlotTaken ==
  ASSUME NEW s \in Bytes, NEW val, NEW seen, NEW out,
         Good(take_slot(Rd(s, val, seen, out)))
  PROVE  \E c, t \in Bytes : \E v :
           /\ s = c \o t /\ SpeltSlot(c, v)
           /\ take_slot(Rd(s, val, seen, out)) = Rd(t, v, seen, out)
<1> DEFINE r == Rd(s, val, seen, out)
           d == take_slot(r)
<1>1. Good(d)
  OBVIOUS
<1>2. Good(byte(r))
  <2>. HIDE DEF r
  <2>1. ~Good(byte(r)) => d = byte(r)
    BY DEF take_slot, SlotOf
  <2>. QED BY <1>1, <2>1
<1>3. PICK x \in Byte : \E u \in Bytes : s = <<x>> \o u /\ byte(r) = Rd(u, x, seen, out)
  <2>1. Good(byte(Rd(s, val, seen, out)))
    BY <1>2
  <2>2. ByteSplit(s, val, seen, out)
    BY <2>1, ByteTaken
  <2>. QED BY <2>2 DEF ByteSplit
<1>4. PICK u \in Bytes : s = <<x>> \o u /\ byte(r) = Rd(u, x, seen, out)
  BY <1>3
<1> DEFINE q == Rd(u, x, seen, out)
           n == WORD + ENCODED_ACCOUNT_SIZE
<1>5. Good(q) /\ q.val = x /\ \A v : Made(q, v) = Rd(u, v, seen, out)
  BY RdIs
<1>6. d = CASE x = SLOT_OWN -> Made(q, OwnSlot)
            [] x = SLOT_NEIGHBOR -> NeighborOf(take(q, n))
            [] OTHER -> Fail(q, "UnknownSlotKind")
  <2>. HIDE DEF q, r
  <2>. QED BY <1>4, <1>5 DEF take_slot, SlotOf, q
<1>7. SLOT_OWN # SLOT_NEIGHBOR
  BY DEF SLOT_OWN, SLOT_NEIGHBOR
<1>8. CASE x = SLOT_OWN
  <2>1. d = Rd(u, OwnSlot, seen, out)
    <3>. HIDE DEF d, q, n
    <3>. QED BY <1>5, <1>6, <1>7, <1>8
  <2>2. SpeltSlot(<<x>>, OwnSlot)
    BY <1>8 DEF SpeltSlot
  <2>3. <<x>> \in Bytes
    BY DEF Bytes
  <2>. HIDE DEF d
  <2>. QED BY <1>4, <2>1, <2>2, <2>3 DEF d
<1>9. CASE x = SLOT_NEIGHBOR
  <2>1. d = NeighborOf(take(q, n))
    <3>. HIDE DEF d, q, n
    <3>. QED BY <1>6, <1>7, <1>9
  <2>2. Good(take(q, n))
    <3>. HIDE DEF q, n, d
    <3>1. ~Good(take(q, n)) => NeighborOf(take(q, n)) = take(q, n)
      BY DEF NeighborOf
    <3>. QED BY <1>1, <2>1, <3>1
  <2>3. n \in Nat
    BY Bases, SizeOfAccount
  <2>4. PICK y, t \in Bytes : u = y \o t /\ Len(y) = n /\ take(q, n) = Rd(t, y, seen, out)
    <3>1. Good(take(Rd(u, x, seen, out), n))
      BY <2>2
    <3>. HIDE DEF n
    <3>2. TakeSplit(u, n, x, seen, out)
      BY <2>3, <3>1, TakeTaken
    <3>. QED BY <3>2 DEF TakeSplit
  <2> DEFINE v == Neighbor_decode(y)
             p == Rd(t, y, seen, out)
             h == <<x>>
             c == h \o y
  <2>5. v.address \in Word /\ Encodes(v.account) /\ y = v.address \o Account_encode(v.account)
    BY <2>4, NeighborCut
  <2>6. Good(p) /\ p.val = y /\ \A w : Made(p, w) = Rd(t, w, seen, out)
    BY RdIs
  <2>7. d = Rd(t, v, seen, out)
    <3>1. take(q, n) = p
      BY <2>4
    <3>. HIDE DEF q, n, d, p, v
    <3>2. d = Made(p, v)
      BY <2>1, <2>6, <3>1 DEF NeighborOf, v
    <3>. QED BY <2>6, <3>2
  <2>8. v # OwnSlot /\ v = [address |-> v.address, account |-> v.account]
    BY DEF Neighbor_decode, OwnSlot
  <2>9. h \in Bytes
    BY DEF Bytes
  <2>10. s = h \o (y \o t)
    BY <1>4, <2>4
  <2>11. c = (h \o v.address) \o Account_encode(v.account)
    <3>1. v.address \in Bytes /\ Account_encode(v.account) \in Bytes
      BY <2>5, WordIs DEF Encodes
    <3>. HIDE DEF h, v
    <3>2. (h \o v.address) \o Account_encode(v.account) = h \o (v.address \o Account_encode(v.account))
      <4>1. Regroups(h, v.address, Account_encode(v.account))
        BY <2>9, <3>1, RegroupedSo
      <4>. QED BY <4>1 DEF Regroups
    <3>. QED BY <2>5, <3>2
  <2>12. SpeltSlot(c, v)
    <3>. HIDE DEF v, c
    <3>. QED BY <1>9, <2>5, <2>8, <2>11 DEF SpeltSlot
  <2>13. s = c \o t /\ c \in Bytes
    <3>. HIDE DEF h
    <3>0. Regroups(h, y, t)
      BY <2>4, <2>9, RegroupedSo
    <3>1. (h \o y) \o t = h \o (y \o t)
      BY <3>0 DEF Regroups
    <3>2. h \o y \in Bytes
      BY <2>4, <2>9, BytesJoined
    <3>. QED BY <2>10, <3>1, <3>2
  <2>. HIDE DEF d, c, v
  <2>. QED BY <2>4, <2>7, <2>12, <2>13 DEF d
<1>10. CASE x # SLOT_OWN /\ x # SLOT_NEIGHBOR
  <2>1. ~Good(Fail(q, "UnknownSlotKind"))
    BY FailIs
  <2>. HIDE DEF q, d, n
  <2>. QED BY <1>1, <1>6, <1>10, <2>1
<1>. QED BY <1>8, <1>9, <1>10

-----------------------------------------------------------------------------
(* Any field. *)

Fields == {"address", "number", "recipient", "scheme", "bytes", "account", "siblings",
           "slot"}

(* The bytes c spell v where the dictionary holds `seen', and leave `after' in it. *)
Spelt(field, seen, c, v, after) ==
  \/ field = "address" /\ SpeltAddress(seen, c, v, after)
  \/ /\ after = seen
     /\ \/ field = "number" /\ Number(c, v)
        \/ field = "recipient" /\ SpeltRecipient(c, v)
        \/ field = "scheme" /\ SpeltScheme(c, v)
        \/ field = "bytes" /\ SpeltBytes(c, v)
        \/ field = "account" /\ SpeltAccount(c, v)
        \/ field = "siblings" /\ SpeltSiblings(c, v)
        \/ field = "slot" /\ SpeltSlot(c, v)

(* Which read a field asks for. *)
LEMMA FieldIs ==
  ASSUME NEW r
  PROVE  /\ take_field(r, "address") = DictionaryReader_take(r)
         /\ take_field(r, "number") = varint(r)
         /\ take_field(r, "recipient") = take_recipient(r)
         /\ take_field(r, "scheme") = take_scheme(r)
         /\ take_field(r, "bytes") = take_bytes(r)
         /\ take_field(r, "account") = take_optional_account(r)
         /\ take_field(r, "siblings") = take_siblings(r)
         /\ take_field(r, "slot") = take_slot(r)
BY DEF take_field

(* A dictionary of addresses stays one. *)
LEMMA SpeltDictionary ==
  ASSUME NEW seen \in Seq(Word), NEW c, NEW v, NEW after, SpeltAddress(seen, c, v, after)
  PROVE  c \in Bytes /\ v \in Word /\ after \in Seq(Word)
<1>1. ASSUME v \in Word, after = Append(seen, v), NEW a \in Bytes, c = a \o v
      PROVE  c \in Bytes /\ after \in Seq(Word)
  <2>1. v \in Bytes
    BY <1>1, WordIs
  <2>2. a \o v \in Bytes
    BY <2>1, BytesJoined
  <2>3. Append(seen, v) \in Seq(Word)
    BY <1>1
  <2>. QED BY <1>1, <2>2, <2>3
<1>2. ASSUME NEW k \in 1..Len(seen), Number(c, k), v = seen[k]
      PROVE  c \in Bytes /\ v \in Word
  <2>1. c \in Bytes
    BY <1>2 DEF Number
  <2>2. seen[k] \in Word
    BY ElementOfSeq
  <2>. QED BY <1>2, <2>1, <2>2
<1>. QED BY <1>1, <1>2 DEF SpeltAddress

(* Every field reads what spells it, and leaves what follows. *)
LEMMA FieldReads ==
  ASSUME NEW field, NEW seen \in Seq(Word), NEW c, NEW v, NEW after,
         Spelt(field, seen, c, v, after), NEW t \in Bytes, NEW val, NEW out
  PROVE  /\ take_field(Rd(c \o t, val, seen, out), field) = Rd(t, v, after, out)
         /\ c \in Bytes /\ after \in Seq(Word)
<1> DEFINE r == Rd(c \o t, val, seen, out)
           Read == /\ take_field(r, field) = Rd(t, v, after, out)
                   /\ c \in Bytes /\ after \in Seq(Word)
<1>1. CASE field = "address" /\ SpeltAddress(seen, c, v, after)
  <2>1. c \in Bytes /\ after \in Seq(Word)
    BY <1>1, SpeltDictionary
  <2>2. Len(seen) \in Nat
    BY LenProperties
  <2>3. DictionaryReader_take(r) = Rd(t, v, after, out)
    BY <1>1, <2>2, AddressReads
  <2>. QED BY <1>1, <2>1, <2>3, FieldIs
<1>2. CASE after = seen /\ field = "number" /\ Number(c, v)
  <2>1. varint(r) = Rd(t, v, seen, out)
    BY <1>2, NumberRead
  <2>. QED BY <1>2, <2>1, FieldIs DEF Number
<1>3. CASE after = seen /\ field = "recipient" /\ SpeltRecipient(c, v)
  <2>1. take_recipient(r) = Rd(t, v, seen, out) /\ c \in Bytes
    BY <1>3, RecipientRead
  <2>. QED BY <1>3, <2>1, FieldIs
<1>4. CASE after = seen /\ field = "scheme" /\ SpeltScheme(c, v)
  <2>1. take_scheme(r) = Rd(t, v, seen, out) /\ c \in Bytes
    BY <1>4, SchemeRead
  <2>. QED BY <1>4, <2>1, FieldIs
<1>5. CASE after = seen /\ field = "bytes" /\ SpeltBytes(c, v)
  <2>1. take_bytes(r) = Rd(t, v, seen, out)
    BY <1>5, BytesRead
  <2>2. c \in Bytes
    <3>1. PICK a \in Bytes : c = a \o v /\ v \in Bytes
      BY <1>5 DEF SpeltBytes
    <3>2. a \o v \in Bytes
      BY <3>1, BytesJoined
    <3>. QED BY <3>1, <3>2
  <2>. QED BY <1>5, <2>1, <2>2, FieldIs
<1>6. CASE after = seen /\ field = "account" /\ SpeltAccount(c, v)
  <2>1. take_optional_account(r) = Rd(t, v, seen, out) /\ c \in Bytes
    BY <1>6, OptionalAccountRead
  <2>. QED BY <1>6, <2>1, FieldIs
<1>7. CASE after = seen /\ field = "siblings" /\ SpeltSiblings(c, v)
  <2>1. take_siblings(r) = Rd(t, v, seen, out) /\ c \in Bytes
    BY <1>7, SiblingsRead
  <2>. QED BY <1>7, <2>1, FieldIs
<1>8. CASE after = seen /\ field = "slot" /\ SpeltSlot(c, v)
  <2>1. take_slot(r) = Rd(t, v, seen, out) /\ c \in Bytes
    BY <1>8, SlotRead
  <2>. QED BY <1>8, <2>1, FieldIs
<1>. QED BY <1>1, <1>2, <1>3, <1>4, <1>5, <1>6, <1>7, <1>8 DEF Spelt

FieldSplit(field, s, val, seen, out) ==
  \E c, t \in Bytes : \E v, after :
    /\ s = c \o t /\ Spelt(field, seen, c, v, after)
    /\ take_field(Rd(s, val, seen, out), field) = Rd(t, v, after, out)

(* And nothing else. *)
LEMMA FieldTaken ==
  ASSUME NEW field \in Fields, NEW seen \in Seq(Word), NEW s \in Bytes, NEW val, NEW out,
         Good(take_field(Rd(s, val, seen, out), field))
  PROVE  FieldSplit(field, s, val, seen, out)
<1> DEFINE r == Rd(s, val, seen, out)
<1>1. CASE field = "address"
  <2>1. Good(DictionaryReader_take(r)) /\ Len(seen) \in Nat
    BY <1>1, FieldIs, LenProperties
  <2>2. PICK c, t \in Bytes : \E v, after :
          /\ s = c \o t /\ SpeltAddress(seen, c, v, after)
          /\ DictionaryReader_take(r) = Rd(t, v, after, out)
    BY <2>1, AddressTaken
  <2>3. PICK v, after : /\ s = c \o t /\ SpeltAddress(seen, c, v, after)
                        /\ DictionaryReader_take(r) = Rd(t, v, after, out)
    BY <2>2
  <2>4. Spelt(field, seen, c, v, after) /\ take_field(r, field) = Rd(t, v, after, out)
    BY <1>1, <2>3, FieldIs DEF Spelt
  <2>. HIDE DEF r
  <2>5. \E w, z : Spelt(field, seen, c, w, z) /\ take_field(r, field) = Rd(t, w, z, out)
    BY <2>4
  <2>. QED BY <2>3, <2>5 DEF FieldSplit, r
<1>2. ASSUME NEW c \in Bytes, NEW t \in Bytes, NEW v, s = c \o t,
             Spelt(field, seen, c, v, seen), take_field(r, field) = Rd(t, v, seen, out)
      PROVE  FieldSplit(field, s, val, seen, out)
  <2>. HIDE DEF r
  <2>1. \E w, z : Spelt(field, seen, c, w, z) /\ take_field(r, field) = Rd(t, w, z, out)
    BY <1>2
  <2>. QED BY <1>2, <2>1 DEF FieldSplit, r
<1>3. CASE field = "number"
  <2>1. Good(varint(r))
    BY <1>3, FieldIs
  <2>2. PICK c, t \in Bytes : \E v : s = c \o t /\ Number(c, v) /\ varint(r) = Rd(t, v, seen, out)
    BY <2>1, NumberTaken
  <2>3. PICK v : s = c \o t /\ Number(c, v) /\ varint(r) = Rd(t, v, seen, out)
    BY <2>2
  <2>4. Spelt(field, seen, c, v, seen) /\ take_field(r, field) = Rd(t, v, seen, out)
    BY <1>3, <2>3, FieldIs DEF Spelt
  <2>. QED BY <1>2, <2>3, <2>4
<1>4. CASE field = "recipient"
  <2>1. Good(take_recipient(r))
    BY <1>4, FieldIs
  <2>2. PICK c, t \in Bytes : \E v : /\ s = c \o t /\ SpeltRecipient(c, v)
                                    /\ take_recipient(r) = Rd(t, v, seen, out)
    BY <2>1, RecipientTaken
  <2>3. PICK v : s = c \o t /\ SpeltRecipient(c, v) /\ take_recipient(r) = Rd(t, v, seen, out)
    BY <2>2
  <2>4. Spelt(field, seen, c, v, seen) /\ take_field(r, field) = Rd(t, v, seen, out)
    BY <1>4, <2>3, FieldIs DEF Spelt
  <2>. QED BY <1>2, <2>3, <2>4
<1>5. CASE field = "scheme"
  <2>1. Good(take_scheme(r))
    BY <1>5, FieldIs
  <2>2. PICK c, t \in Bytes : \E v : /\ s = c \o t /\ SpeltScheme(c, v)
                                    /\ take_scheme(r) = Rd(t, v, seen, out)
    BY <2>1, SchemeTaken
  <2>3. PICK v : s = c \o t /\ SpeltScheme(c, v) /\ take_scheme(r) = Rd(t, v, seen, out)
    BY <2>2
  <2>4. Spelt(field, seen, c, v, seen) /\ take_field(r, field) = Rd(t, v, seen, out)
    BY <1>5, <2>3, FieldIs DEF Spelt
  <2>. QED BY <1>2, <2>3, <2>4
<1>6. CASE field = "bytes"
  <2>1. Good(take_bytes(r))
    BY <1>6, FieldIs
  <2>2. PICK c, t \in Bytes : \E v : /\ s = c \o t /\ SpeltBytes(c, v)
                                    /\ take_bytes(r) = Rd(t, v, seen, out)
    BY <2>1, BytesTaken
  <2>3. PICK v : s = c \o t /\ SpeltBytes(c, v) /\ take_bytes(r) = Rd(t, v, seen, out)
    BY <2>2
  <2>4. Spelt(field, seen, c, v, seen) /\ take_field(r, field) = Rd(t, v, seen, out)
    BY <1>6, <2>3, FieldIs DEF Spelt
  <2>. QED BY <1>2, <2>3, <2>4
<1>7. CASE field = "account"
  <2>1. Good(take_optional_account(r))
    BY <1>7, FieldIs
  <2>2. PICK c, t \in Bytes : \E v : /\ s = c \o t /\ SpeltAccount(c, v)
                                    /\ take_optional_account(r) = Rd(t, v, seen, out)
    BY <2>1, OptionalAccountTaken
  <2>3. PICK v : /\ s = c \o t /\ SpeltAccount(c, v)
                 /\ take_optional_account(r) = Rd(t, v, seen, out)
    BY <2>2
  <2>4. Spelt(field, seen, c, v, seen) /\ take_field(r, field) = Rd(t, v, seen, out)
    BY <1>7, <2>3, FieldIs DEF Spelt
  <2>. QED BY <1>2, <2>3, <2>4
<1>8. CASE field = "siblings"
  <2>1. Good(take_siblings(r))
    BY <1>8, FieldIs
  <2>2. PICK c, t \in Bytes : \E v : /\ s = c \o t /\ SpeltSiblings(c, v)
                                    /\ take_siblings(r) = Rd(t, v, seen, out)
    BY <2>1, SiblingsTaken
  <2>3. PICK v : s = c \o t /\ SpeltSiblings(c, v) /\ take_siblings(r) = Rd(t, v, seen, out)
    BY <2>2
  <2>4. Spelt(field, seen, c, v, seen) /\ take_field(r, field) = Rd(t, v, seen, out)
    BY <1>8, <2>3, FieldIs DEF Spelt
  <2>. QED BY <1>2, <2>3, <2>4
<1>9. CASE field = "slot"
  <2>1. Good(take_slot(r))
    BY <1>9, FieldIs
  <2>2. PICK c, t \in Bytes : \E v : /\ s = c \o t /\ SpeltSlot(c, v)
                                    /\ take_slot(r) = Rd(t, v, seen, out)
    BY <2>1, SlotTaken
  <2>3. PICK v : s = c \o t /\ SpeltSlot(c, v) /\ take_slot(r) = Rd(t, v, seen, out)
    BY <2>2
  <2>4. Spelt(field, seen, c, v, seen) /\ take_field(r, field) = Rd(t, v, seen, out)
    BY <1>9, <2>3, FieldIs DEF Spelt
  <2>. QED BY <1>2, <2>3, <2>4
<1>. QED BY <1>1, <1>3, <1>4, <1>5, <1>6, <1>7, <1>8, <1>9 DEF Fields

(* A reader with an error stays as it is. *)
LEMMA FieldFails ==
  ASSUME NEW field \in Fields, NEW r, ~Good(r)
  PROVE  take_field(r, field) = r
<1>1. varint(r) = r /\ \A n : take(r, n) = r
  BY DEF varint, take
<1>2. byte(r) = r
  BY <1>1 DEF byte, FirstByte
<1>3. \A n : count(r, n) = r
  BY <1>1 DEF count, Plausible
<1>4. take_field(r, "address") = r
  BY <1>1, FieldIs DEF DictionaryReader_take, Resolve
<1>5. take_field(r, "number") = r /\ take_field(r, "recipient") = r
  BY <1>1, FieldIs DEF take_recipient
<1>6. take_field(r, "scheme") = r
  BY <1>1, FieldIs DEF take_scheme, NamedScheme
<1>7. take_field(r, "bytes") = r
  BY <1>3, FieldIs DEF take_bytes, takeCounted
<1>8. take_field(r, "account") = r
  BY <1>2, FieldIs DEF take_optional_account, TaggedAccount
<1>9. take_field(r, "siblings") = r
  BY <1>3, FieldIs DEF take_siblings, SiblingsOf
<1>10. take_field(r, "slot") = r
  BY <1>2, FieldIs DEF take_slot, SlotOf
<1>. QED BY <1>4, <1>5, <1>6, <1>7, <1>8, <1>9, <1>10 DEF Fields

-----------------------------------------------------------------------------
(* One read after another. *)

First(f, n) == [i \in 1..n |-> f[i]]

(* The first n values, and one more. *)
LEMMA Grown ==
  ASSUME NEW f, NEW n \in Nat
  PROVE  Append(First(f, n), f[n + 1]) = First(f, n + 1) /\ First(f, 0) = << >>
<1> DEFINE S == {f[i] : i \in 1..(n + 1)}
           a == First(f, n)
           b == First(f, n + 1)
           x == f[n + 1]
<1>1. a \in Seq(S) /\ Len(a) = n /\ \A i \in 1..n : a[i] = f[i]
  BY DEF First
<1>2. b \in Seq(S) /\ Len(b) = n + 1 /\ \A i \in 1..(n + 1) : b[i] = f[i]
  BY DEF First
<1>3. x \in S
  OBVIOUS
<1>4. First(f, 0) = << >>
  BY DEF First
<1>. HIDE DEF a, b, S
<1>5. /\ Append(a, x) \in Seq(S) /\ Len(Append(a, x)) = n + 1
      /\ \A i \in 1..n : Append(a, x)[i] = a[i] /\ Append(a, x)[n + 1] = x
  BY <1>1, <1>3, AppendProperties
<1>6. \A i \in 1..(n + 1) : Append(a, x)[i] = b[i]
  BY <1>1, <1>2, <1>5
<1>7. Append(a, x) = b
  BY <1>2, <1>5, <1>6, SeqEqual
<1>. QED BY <1>4, <1>7 DEF a, b

(* Values appended one after another are the first so many. *)
LEMMA Gathered ==
  ASSUME NEW N \in Nat, NEW vals, NEW vs, vals[0] = << >>,
         \A n \in 1..N : vals[n] = Append(vals[n - 1], vs[n])
  PROVE  \A n \in 0..N : vals[n] = First(vs, n)
<1> DEFINE T == {n \in 0..N : vals[n] = First(vs, n)}
<1>1. 0 \in T
  BY Grown
<1>2. ASSUME NEW n \in 0..(N - 1), n \in T PROVE n + 1 \in T
  <2>1. n \in Nat /\ n + 1 \in 1..N /\ n + 1 \in 0..N /\ (n + 1) - 1 = n
    OBVIOUS
  <2>2. vals[n + 1] = Append(vals[(n + 1) - 1], vs[n + 1])
    BY <2>1
  <2>3. vals[n + 1] = Append(First(vs, n), vs[n + 1])
    BY <1>2, <2>1, <2>2
  <2>. QED BY <2>1, <2>3, Grown
<1>. HIDE DEF T
<1>3. \A n \in 0..N : n \in T
  BY <1>1, <1>2, UpTo
<1>. QED BY <1>3 DEF T

(* What each read takes off the front, joined, was in front. *)
LEMMA Chained ==
  ASSUME NEW N \in Nat, NEW cs, Len(cs) = N, NEW rest, \A n \in 0..N : rest[n] \in Bytes,
         \A n \in 1..N : cs[n] \in Bytes /\ rest[n - 1] = cs[n] \o rest[n]
  PROVE  /\ Concat(cs) \in Bytes /\ rest[0] = Concat(cs) \o rest[N]
<1> DEFINE f == Joint(cs)
           T == {n \in 0..N : rest[0] = f[n] \o rest[n]}
<1>1. f[0] = << >> /\ Concat(cs) = f[N] /\ \A n \in 1..N : f[n] = f[n - 1] \o cs[n]
  BY JointIs
<1>2. Concat(cs) \in Bytes /\ \A n \in 0..N : f[n] \in Bytes
  BY JointBytes
<1>. HIDE DEF f
<1>3. 0 \in T
  <2> DEFINE x == rest[0]
  <2>1. x \in Bytes /\ 0 \in 0..N
    OBVIOUS
  <2>. HIDE DEF x
  <2>2. << >> \o x = x
    BY <2>1, EmptySeq DEF Bytes
  <2>3. x = f[0] \o x
    BY <1>1, <2>2
  <2>. QED BY <2>1, <2>3 DEF x
<1>4. ASSUME NEW n \in 0..(N - 1), n \in T PROVE n + 1 \in T
  <2>1. n + 1 \in 1..N /\ n + 1 \in 0..N /\ (n + 1) - 1 = n /\ n \in 0..N
    OBVIOUS
  <2>2. f[n + 1] = f[(n + 1) - 1] \o cs[n + 1] /\ rest[(n + 1) - 1] = cs[n + 1] \o rest[n + 1]
    BY <1>1, <2>1
  <2>3. f[n] \in Bytes /\ cs[n + 1] \in Bytes /\ rest[n + 1] \in Bytes
    BY <1>2, <2>1
  <2> DEFINE a == f[n]
             b == cs[n + 1]
             c == rest[n + 1]
  <2>4. (a \o b) \o c = a \o (b \o c)
    <3>. HIDE DEF a, b, c
    <3>1. a \in Bytes /\ b \in Bytes /\ c \in Bytes
      BY <2>3 DEF a, b, c
    <3>. QED BY <3>1, Regrouped
  <2>. QED BY <1>4, <2>1, <2>2, <2>4
<1>. HIDE DEF T
<1>5. \A n \in 0..N : n \in T
  BY <1>3, <1>4, UpTo
<1>6. N \in T
  BY <1>5
<1>7. rest[0] = f[N] \o rest[N]
  BY <1>6 DEF T
<1>. QED BY <1>1, <1>2, <1>7

(* A reader that is still good at the end was good all along. *)
LEMMA GoodBefore ==
  ASSUME NEW N \in Nat, NEW f, \A n \in 1..N : Good(f[n]) => Good(f[n - 1]), Good(f[N])
  PROVE  \A n \in 0..N : Good(f[n])
<1> DEFINE T == {n \in 0..N : Good(f[N - n])}
<1>1. 0 \in T
  OBVIOUS
<1>2. ASSUME NEW n \in 0..(N - 1), n \in T PROVE n + 1 \in T
  <2>1. N - n \in 1..N /\ N - (n + 1) = (N - n) - 1 /\ n + 1 \in 0..N
    OBVIOUS
  <2>2. Good(f[N - n])
    BY <1>2
  <2>3. Good(f[(N - n) - 1])
    BY <2>1, <2>2
  <2>. QED BY <2>1, <2>3
<1>. HIDE DEF T
<1>3. \A n \in 0..N : n \in T
  BY <1>1, <1>2, UpTo
<1>4. ASSUME NEW n \in 0..N PROVE Good(f[n])
  <2>1. N - n \in 0..N /\ N - (N - n) = n
    OBVIOUS
  <2>2. N - n \in T
    BY <1>3, <2>1
  <2>. QED BY <2>1, <2>2 DEF T
<1>. QED BY <1>4

-----------------------------------------------------------------------------
(* The fields of a transaction or of a sidecar entry. *)

ReadFields(r, layout) ==
  LET read[n \in 0..Len(layout)] ==
        IF n = 0 THEN Made(r, << >>)
        ELSE add_field(read[n - 1], layout[n])
  IN read

(* take_fields, one field after another. *)
LEMMA ReadFieldsIs ==
  ASSUME NEW r, NEW layout, Len(layout) \in Nat
  PROVE  LET f == ReadFields(r, layout)
         IN /\ f[0] = Made(r, << >>) /\ take_fields(r, layout) = f[Len(layout)]
            /\ \A n \in 1..Len(layout) : f[n] = add_field(f[n - 1], layout[n])
<1> DEFINE Turn(n, x) == add_field(x, layout[n])
           N == Len(layout)
           base == Made(r, << >>)
           f == ReadFields(r, layout)
<1>1. \E g : Falls(Turn, g, N, base)
  <2>. HIDE DEF Turn, N, base
  <2>1. N \in Nat
    BY DEF N
  <2>. QED BY <2>1, FallsExists, SMTT(30)
<1>2. f = [n \in 0..N |-> IF n = 0 THEN base ELSE add_field(f[n - 1], layout[n])]
  BY <1>1 DEF Falls, ReadFields
<1>3. take_fields(r, layout) = f[N]
  BY DEF take_fields, ReadFields
<1>. HIDE DEF f, base
<1>4. f[0] = base /\ \A n \in 1..N : f[n] = add_field(f[n - 1], layout[n])
  BY <1>2
<1>. QED BY <1>3, <1>4 DEF f, base

(* One more field read adds one more value. *)
LEMMA AddFieldReads ==
  ASSUME NEW field, NEW seen \in Seq(Word), NEW c, NEW v, NEW after,
         Spelt(field, seen, c, v, after), NEW t \in Bytes, NEW val, NEW out
  PROVE  add_field(Rd(c \o t, val, seen, out), field) = Rd(t, Append(val, v), after, out)
<1> DEFINE r == Rd(c \o t, val, seen, out)
           q == Rd(t, v, after, out)
<1>1. take_field(r, field) = q
  BY FieldReads
<1>2. r.val = val /\ q.val = v /\ \A x : Made(q, x) = Rd(t, x, after, out)
  BY RdIs
<1>. HIDE DEF r, q
<1>3. add_field(r, field) = Rd(t, Append(val, v), after, out)
  BY <1>1, <1>2 DEF add_field, Collect
<1>. QED BY <1>3 DEF r

(* A field is only read while nothing has gone wrong. *)
LEMMA AddFieldTaken ==
  ASSUME NEW field \in Fields, NEW r
  PROVE  /\ Good(add_field(r, field)) => Good(r)
         /\ Good(add_field(r, field)) => Good(take_field(r, field))
<1>1. Good(add_field(r, field)) => Good(take_field(r, field))
  BY DEF add_field, Collect, Made, Took, Good
<1>2. ~Good(r) => ~Good(take_field(r, field))
  BY FieldFails
<1>. QED BY <1>1, <1>2

(* The bytes cs spell the values vs of a layout's fields, one after another. *)
FieldTrace(layout, cs, vs, seens) ==
  /\ Len(cs) = Len(layout)
  /\ \A n \in 0..Len(layout) : seens[n] \in Seq(Word)
  /\ \A n \in 1..Len(layout) :
       cs[n] \in Bytes /\ Spelt(layout[n], seens[n - 1], cs[n], vs[n], seens[n])

(* Fields spelt one after another are read one after another. *)
LEMMA FieldsRead ==
  ASSUME NEW layout, Len(layout) \in Nat, NEW cs, NEW vs, NEW seens,
         FieldTrace(layout, cs, vs, seens), NEW t \in Bytes, NEW val, NEW out
  PROVE  /\ take_fields(Rd(Concat(cs) \o t, val, seens[0], out), layout)
              = Rd(t, First(vs, Len(layout)), seens[Len(layout)], out)
         /\ Concat(cs) \in Bytes
<1> DEFINE N == Len(layout)
           j == Joint(cs)
           R(u, n) == Rd(j[n] \o u, val, seens[0], out)
           T == {n \in 0..N : \A u \in Bytes :
                   ReadFields(R(u, n), layout)[n] = Rd(u, First(vs, n), seens[n], out)}
<1>1. N \in Nat /\ Len(cs) = N
  BY DEF FieldTrace
<1>2. j[0] = << >> /\ Concat(cs) = j[N] /\ \A n \in 1..N : j[n] = j[n - 1] \o cs[n]
  BY <1>1, JointIs
<1>3. Concat(cs) \in Bytes /\ \A n \in 0..N : j[n] \in Bytes
  <2>1. \A n \in 1..Len(cs) : cs[n] \in Bytes
    BY DEF FieldTrace
  <2>2. Len(cs) \in Nat
    BY <1>1
  <2>. QED BY <1>1, <2>1, <2>2, JointBytes
<1>4. \A n \in 0..N : seens[n] \in Seq(Word)
  BY DEF FieldTrace
<1>5. \A n \in 1..N : cs[n] \in Bytes /\ Spelt(layout[n], seens[n - 1], cs[n], vs[n], seens[n])
  BY DEF FieldTrace
<1>6. \A r : LET f == ReadFields(r, layout)
             IN /\ f[0] = Made(r, << >>) /\ take_fields(r, layout) = f[N]
                /\ \A n \in 1..N : f[n] = add_field(f[n - 1], layout[n])
  BY ReadFieldsIs
<1>. HIDE DEF N, j
<1>7. 0 \in T
  <2>1. ASSUME NEW u \in Bytes
        PROVE  ReadFields(R(u, 0), layout)[0] = Rd(u, First(vs, 0), seens[0], out)
    <3>1. << >> \o u = u
      BY EmptySeq DEF Bytes
    <3>2. R(u, 0) = Rd(u, val, seens[0], out)
      BY <1>2, <3>1
    <3>3. ReadFields(R(u, 0), layout)[0] = Made(Rd(u, val, seens[0], out), << >>)
      BY <1>6, <3>2
    <3>4. First(vs, 0) = << >>
      BY DEF First
    <3>. QED BY <3>3, <3>4, RdIs
  <2>. QED BY <1>1, <2>1
<1>8. ASSUME NEW n \in 0..(N - 1), n \in T PROVE n + 1 \in T
  <2>1. n \in Nat /\ n + 1 \in 1..N /\ n + 1 \in 0..N /\ (n + 1) - 1 = n /\ n \in 0..N
    BY <1>1
  <2>2. ASSUME NEW u \in Bytes
        PROVE  ReadFields(R(u, n + 1), layout)[n + 1] = Rd(u, First(vs, n + 1), seens[n + 1], out)
    <3> DEFINE c == cs[n + 1]
               m == n + 1
               x == c \o u
               field == layout[m]
    <3>1. c \in Bytes /\ Spelt(field, seens[n], c, vs[m], seens[m])
      <4>1. cs[m] \in Bytes /\ Spelt(layout[m], seens[m - 1], cs[m], vs[m], seens[m])
        BY <1>5, <2>1
      <4>. QED BY <2>1, <4>1
    <3>2. seens[n] \in Seq(Word) /\ j[n] \in Bytes
      BY <1>3, <1>4, <2>1
    <3>3. j[m] = j[n] \o c
      <4>1. j[m] = j[m - 1] \o cs[m]
        BY <1>2, <2>1
      <4>. QED BY <2>1, <4>1
    <3>. HIDE DEF c
    <3>4. x \in Bytes
      BY <3>1, BytesJoined
    <3>5. (j[n] \o c) \o u = j[n] \o x
      BY <3>1, <3>2, Regrouped
    <3>6. R(u, m) = R(x, n)
      BY <3>3, <3>5
    <3>7. ReadFields(R(x, n), layout)[n] = Rd(x, First(vs, n), seens[n], out)
      BY <1>8, <3>4
    <3>. HIDE DEF R
    <3>8. ReadFields(R(x, n), layout)[m] = add_field(ReadFields(R(x, n), layout)[n], field)
      <4>1. ReadFields(R(x, n), layout)[m] = add_field(ReadFields(R(x, n), layout)[m - 1], layout[m])
        BY <1>6, <2>1
      <4>. QED BY <2>1, <4>1
    <3>9. add_field(Rd(x, First(vs, n), seens[n], out), field)
            = Rd(u, Append(First(vs, n), vs[m]), seens[m], out)
      <4> DEFINE p == First(vs, n)
                 sn == seens[n]
                 sm == seens[m]
                 w == vs[m]
      <4>1. sn \in Seq(Word) /\ Spelt(field, sn, c, w, sm)
        BY <3>1, <3>2
      <4>. HIDE DEF p, sn, sm, w, field, m
      <4>2. add_field(Rd(c \o u, p, sn, out), field) = Rd(u, Append(p, w), sm, out)
        BY <4>1, AddFieldReads
      <4>. QED BY <4>2 DEF p, sn, sm, w, m
    <3>10. Append(First(vs, n), vs[m]) = First(vs, m)
      BY <2>1, Grown
    <3>. QED BY <3>6, <3>7, <3>8, <3>9, <3>10
  <2>. HIDE DEF R
  <2>. QED BY <2>1, <2>2
<1>. HIDE DEF T
<1>9. \A n \in 0..N : n \in T
  BY <1>1, <1>7, <1>8, UpTo
<1>10. ReadFields(R(t, N), layout)[N] = Rd(t, First(vs, N), seens[N], out)
  BY <1>1, <1>9 DEF T
<1>11. take_fields(R(t, N), layout) = ReadFields(R(t, N), layout)[N]
  BY <1>6
<1>. QED BY <1>2, <1>3, <1>10, <1>11 DEF N

(* What the reader has read by the n-th field: a reader like any other. *)
FieldStep(field, s, val, seen, out) ==
  \E c, t \in Bytes : \E v : \E after \in Seq(Word) :
    /\ s = c \o t /\ Spelt(field, seen, c, v, after)
    /\ add_field(Rd(s, val, seen, out), field) = Rd(t, Append(val, v), after, out)

(* One more field read has read what spells a value of it. *)
LEMMA FieldsStep ==
  ASSUME NEW field \in Fields, NEW s \in Bytes, NEW val, NEW seen \in Seq(Word), NEW out,
         Good(add_field(Rd(s, val, seen, out), field))
  PROVE  FieldStep(field, s, val, seen, out)
<1> DEFINE r == Rd(s, val, seen, out)
<1>1. Good(take_field(r, field))
  <2>. HIDE DEF r
  <2>1. Good(add_field(r, field))
    BY DEF r
  <2>. QED BY <2>1, AddFieldTaken
<1>2. FieldSplit(field, s, val, seen, out)
  BY <1>1, FieldTaken
<1>3. PICK c, t \in Bytes : \E v, after : s = c \o t /\ Spelt(field, seen, c, v, after)
  BY <1>2 DEF FieldSplit
<1>4. PICK v, after : s = c \o t /\ Spelt(field, seen, c, v, after)
  BY <1>3
<1>5. add_field(Rd(c \o t, val, seen, out), field) = Rd(t, Append(val, v), after, out)
  BY <1>4, AddFieldReads
<1>6. after \in Seq(Word)
  BY <1>4, FieldReads
<1>7. add_field(r, field) = Rd(t, Append(val, v), after, out)
  BY <1>4, <1>5
<1>. HIDE DEF r
<1>8. \E w : \E z \in Seq(Word) : /\ Spelt(field, seen, c, w, z)
                                  /\ add_field(r, field) = Rd(t, Append(val, w), z, out)
  BY <1>4, <1>6, <1>7
<1>. QED BY <1>4, <1>8 DEF r, FieldStep

FieldsSplit(layout, s, val, seen, out) ==
  \E cs, vs, seens : \E t \in Bytes :
    /\ seens[0] = seen /\ FieldTrace(layout, cs, vs, seens) /\ s = Concat(cs) \o t
    /\ take_fields(Rd(s, val, seen, out), layout)
         = Rd(t, First(vs, Len(layout)), seens[Len(layout)], out)

(* Fields that were read were spelt, one after another. *)
LEMMA FieldsTaken ==
  ASSUME NEW layout, Len(layout) \in Nat, \A n \in 1..Len(layout) : layout[n] \in Fields,
         NEW seen \in Seq(Word), NEW s \in Bytes, NEW val, NEW out,
         Good(take_fields(Rd(s, val, seen, out), layout))
  PROVE  FieldsSplit(layout, s, val, seen, out)
<1> DEFINE N == Len(layout)
           r == Rd(s, val, seen, out)
           f == ReadFields(r, layout)
           Sound(q) == q.rest \in Bytes /\ q.seen \in Seq(Word)
                         /\ q = Rd(q.rest, q.val, q.seen, out)
           T == {n \in 0..N : Sound(f[n])}
           Step(n, c, v) ==
             /\ c \in Bytes /\ f[n - 1].rest = c \o f[n].rest
             /\ Spelt(layout[n], f[n - 1].seen, c, v, f[n].seen)
             /\ f[n].val = Append(f[n - 1].val, v)
<1>1. N \in Nat /\ \A n \in 1..N : layout[n] \in Fields
  OBVIOUS
<1>2. /\ f[0] = Rd(s, << >>, seen, out) /\ take_fields(r, layout) = f[N]
      /\ \A n \in 1..N : f[n] = add_field(f[n - 1], layout[n])
  <2>1. /\ f[0] = Made(r, << >>) /\ take_fields(r, layout) = f[N]
        /\ \A n \in 1..N : f[n] = add_field(f[n - 1], layout[n])
    BY ReadFieldsIs
  <2>. QED BY <2>1, RdIs
<1>3. \A n \in 0..N : Good(f[n])
  <2>1. \A n \in 1..N : Good(f[n]) => Good(f[n - 1])
    BY <1>1, <1>2, AddFieldTaken
  <2>2. Good(f[N])
    BY <1>2
  <2>. HIDE DEF f, N
  <2>. QED BY <1>1, <2>1, <2>2, GoodBefore
<1>. HIDE DEF f, N
<1>4. ASSUME NEW n \in 1..N, Sound(f[n - 1])
      PROVE  Sound(f[n]) /\ \E c, v : Step(n, c, v)
  <2> DEFINE q == f[n - 1]
             field == layout[n]
             w == q.val
             sn == q.seen
             u == q.rest
  <2>1. field \in Fields /\ f[n] = add_field(q, field) /\ Good(f[n])
    BY <1>1, <1>2, <1>3
  <2>2. u \in Bytes /\ sn \in Seq(Word) /\ q = Rd(u, w, sn, out)
    BY <1>4
  <2>. HIDE DEF q, field, w, sn, u
  <2>3. Good(add_field(Rd(u, w, sn, out), field))
    BY <2>1, <2>2
  <2>4. FieldStep(field, u, w, sn, out)
    BY <2>1, <2>2, <2>3, FieldsStep
  <2>5. PICK c \in Bytes, t \in Bytes : \E v : \E after \in Seq(Word) :
           /\ u = c \o t /\ Spelt(field, sn, c, v, after)
           /\ f[n] = Rd(t, Append(w, v), after, out)
    BY <2>1, <2>2, <2>4 DEF FieldStep
  <2>6. PICK v : \E after \in Seq(Word) :
           /\ u = c \o t /\ Spelt(field, sn, c, v, after)
           /\ f[n] = Rd(t, Append(w, v), after, out)
    BY <2>5
  <2>7. PICK after \in Seq(Word) :
           /\ u = c \o t /\ Spelt(field, sn, c, v, after)
           /\ f[n] = Rd(t, Append(w, v), after, out)
    BY <2>6
  <2>8. f[n].rest = t /\ f[n].seen = after /\ f[n].val = Append(w, v)
    <3>1. f[n] = Rd(t, Append(w, v), after, out)
      BY <2>7
    <3> DEFINE x == Append(w, v)
    <3>. HIDE DEF x
    <3>2. f[n] = Rd(t, x, after, out)
      BY <3>1 DEF x
    <3>3. /\ Rd(t, x, after, out).rest = t /\ Rd(t, x, after, out).seen = after
          /\ Rd(t, x, after, out).val = x
      BY RdIs
    <3>. QED BY <3>2, <3>3 DEF x
  <2>9. Sound(f[n])
    BY <2>7, <2>8
  <2>10. Step(n, c, v)
    BY <2>7, <2>8 DEF u, w, sn, field, q
  <2>. QED BY <2>9, <2>10
<1>5. 0 \in T
  BY <1>1, <1>2, RdIs
<1>6. ASSUME NEW n \in 0..(N - 1), n \in T PROVE n + 1 \in T
  <2>1. n + 1 \in 1..N /\ n + 1 \in 0..N /\ (n + 1) - 1 = n
    BY <1>1
  <2>2. Sound(f[(n + 1) - 1])
    BY <1>6, <2>1
  <2>3. Sound(f[n + 1])
    BY <1>4, <2>1, <2>2
  <2>. QED BY <2>1, <2>3
<1>. HIDE DEF T
<1>7. \A n \in 0..N : Sound(f[n])
  <2>1. \A n \in 0..N : n \in T
    BY <1>1, <1>5, <1>6, UpTo
  <2>. QED BY <2>1 DEF T
<1>8. \A n \in 1..N : \E c, v : Step(n, c, v)
  <2>1. ASSUME NEW n \in 1..N PROVE \E c, v : Step(n, c, v)
    <3>1. n - 1 \in 0..N
      BY <1>1
    <3>2. Sound(f[n - 1])
      BY <1>7, <3>1
    <3>. HIDE DEF Sound, Step
    <3>. QED BY <1>4, <3>2
  <2>. HIDE DEF Step
  <2>. QED BY <2>1
<1> DEFINE cs == [n \in 1..N |-> CHOOSE c : \E v : Step(n, c, v)]
           vs == [n \in 1..N |-> CHOOSE v : Step(n, cs[n], v)]
           seens == [n \in 0..N |-> f[n].seen]
           vals == [n \in 0..N |-> f[n].val]
           rest == [n \in 0..N |-> f[n].rest]
<1>9. \A n \in 1..N : Step(n, cs[n], vs[n])
  <2>. HIDE DEF Step
  <2>1. ASSUME NEW n \in 1..N PROVE Step(n, cs[n], vs[n])
    <3>1. \E c, v : Step(n, c, v)
      BY <1>8
    <3>2. \E v : Step(n, cs[n], v)
      BY <3>1
    <3>3. vs[n] = CHOOSE v : Step(n, cs[n], v)
      OBVIOUS
    <3>. HIDE DEF cs, vs
    <3>. QED BY <3>2, <3>3
  <2>. HIDE DEF cs, vs
  <2>. QED BY <2>1
<1>10. Len(cs) = N
  BY <1>1
<1>11. DOMAIN seens = 0..N /\ \A n \in 0..N : /\ seens[n] = f[n].seen /\ vals[n] = f[n].val
                                           /\ rest[n] = f[n].rest
  OBVIOUS
<1>. HIDE DEF cs, vs, seens, vals, rest
<1>12. \A n \in 1..N : n \in 0..N /\ n - 1 \in 0..N
  BY <1>1
<1>13. FieldTrace(layout, cs, vs, seens)
  <2>1. \A n \in 0..N : seens[n] \in Seq(Word)
    BY <1>7, <1>11
  <2>2. \A n \in 1..N : cs[n] \in Bytes /\ Spelt(layout[n], seens[n - 1], cs[n], vs[n], seens[n])
    BY <1>9, <1>11, <1>12
  <2>. QED BY <1>10, <2>1, <2>2 DEF FieldTrace, N
<1>14. s = Concat(cs) \o f[N].rest
  <2>1. \A n \in 0..N : rest[n] \in Bytes
    BY <1>7, <1>11
  <2>2. \A n \in 1..N : cs[n] \in Bytes /\ rest[n - 1] = cs[n] \o rest[n]
    BY <1>9, <1>11, <1>12
  <2>3. rest[0] = Concat(cs) \o rest[N]
    BY <1>1, <1>10, <2>1, <2>2, Chained
  <2>4. rest[0] = s /\ rest[N] = f[N].rest
    BY <1>1, <1>2, <1>11, RdIs
  <2>. QED BY <2>3, <2>4
<1>15. f[N].val = First(vs, N)
  <2>1. vals[0] = << >> /\ \A n \in 1..N : vals[n] = Append(vals[n - 1], vs[n])
    <3>1. vals[0] = << >>
      BY <1>1, <1>2, <1>11, RdIs
    <3>2. \A n \in 1..N : vals[n] = Append(vals[n - 1], vs[n])
      BY <1>9, <1>11, <1>12
    <3>. QED BY <3>1, <3>2
  <2>2. \A n \in 0..N : vals[n] = First(vs, n)
    BY <1>1, <2>1, Gathered
  <2>. QED BY <1>1, <1>11, <2>2
<1>16. /\ f[N] = Rd(f[N].rest, First(vs, N), seens[N], out) /\ f[N].rest \in Bytes
       /\ seens[0] = seen
  <2>1. f[N].rest \in Bytes /\ f[N] = Rd(f[N].rest, f[N].val, f[N].seen, out)
    BY <1>1, <1>7
  <2>2. seens[N] = f[N].seen /\ seens[0] = seen
    BY <1>1, <1>2, <1>11, RdIs
  <2>. QED BY <1>15, <2>1, <2>2
<1> DEFINE t == f[N].rest
<1>. HIDE DEF Sound, Step
<1>17. take_fields(r, layout) = Rd(t, First(vs, N), seens[N], out) /\ t \in Bytes
  BY <1>2, <1>16
<1>18. s = Concat(cs) \o t
  BY <1>14
<1>. HIDE DEF t, r
<1>19. \E a, b, g : \E z \in Bytes :
         /\ g[0] = seen /\ FieldTrace(layout, a, b, g) /\ s = Concat(a) \o z
         /\ take_fields(r, layout) = Rd(z, First(b, N), g[N], out)
  BY <1>13, <1>16, <1>17, <1>18
<1>. QED BY <1>19 DEF FieldsSplit, N, r

-----------------------------------------------------------------------------
(* Transactions. *)

(* The four kinds of transaction, by their byte. *)
LEMMA KindsAre ==
  /\ \A kind \in Kinds : kind \in {KIND_PAYMENT, KIND_DEPOSIT, KIND_WITHDRAWAL,
                                   KIND_FORCED_WITHDRAWAL}
  /\ \A kind \in Kinds : kind \in Byte
BY Bases DEF Kinds, Byte, KIND_PAYMENT, KIND_DEPOSIT, KIND_WITHDRAWAL, KIND_FORCED_WITHDRAWAL

(* The fields take_transaction reads for each of them. *)
LEMMA LayoutIs ==
  /\ TransactionLayout(KIND_PAYMENT) = <<"address", "number", "address", "number">>
  /\ TransactionLayout(KIND_DEPOSIT) = <<"address", "number">>
  /\ TransactionLayout(KIND_WITHDRAWAL) = <<"address", "number", "recipient", "number">>
  /\ TransactionLayout(KIND_FORCED_WITHDRAWAL) = <<"address", "recipient">>
BY DEF TransactionLayout, KIND_PAYMENT, KIND_DEPOSIT, KIND_WITHDRAWAL, KIND_FORCED_WITHDRAWAL

(* A layout is a sequence of fields. *)
LEMMA Layouts ==
  ASSUME NEW kind \in Kinds
  PROVE  /\ Len(TransactionLayout(kind)) \in Nat
         /\ \A n \in 1..Len(TransactionLayout(kind)) : TransactionLayout(kind)[n] \in Fields
<1> DEFINE N == Len(TransactionLayout(kind))
<1>1. CASE kind = KIND_PAYMENT
  BY <1>1, LayoutIs DEF Fields
<1>2. CASE kind = KIND_DEPOSIT
  BY <1>2, LayoutIs DEF Fields
<1>3. CASE kind = KIND_WITHDRAWAL
  BY <1>3, LayoutIs DEF Fields
<1>4. CASE kind = KIND_FORCED_WITHDRAWAL
  BY <1>4, LayoutIs DEF Fields
<1>. QED BY <1>1, <1>2, <1>3, <1>4, KindsAre

(* The bytes c spell txn where the dictionary holds `seen'. *)
SpeltTransaction(seen, c, txn, after) ==
  \E kind \in Kinds : \E cs, vs, seens :
    /\ FieldTrace(TransactionLayout(kind), cs, vs, seens)
    /\ seens[0] = seen /\ seens[Len(TransactionLayout(kind))] = after
    /\ c = <<kind>> \o Concat(cs)
    /\ txn = TransactionOf(kind, First(vs, Len(TransactionLayout(kind))))

TransactionRead(s, val, seen, out, t, txn, after) ==
  \E w : take_transaction(Rd(s, val, seen, out)) = Rd(t, w, after, Append(out, txn))

(* take_transaction reads what spells a transaction, and leaves what follows. *)
LEMMA TransactionReads ==
  ASSUME NEW seen, NEW c, NEW txn, NEW after, SpeltTransaction(seen, c, txn, after),
         NEW t \in Bytes, NEW val, NEW out
  PROVE  /\ TransactionRead(c \o t, val, seen, out, t, txn, after)
         /\ c \in Bytes /\ after \in Seq(Word)
<1>1. PICK kind \in Kinds : \E cs, vs, seens :
        /\ FieldTrace(TransactionLayout(kind), cs, vs, seens)
        /\ seens[0] = seen /\ seens[Len(TransactionLayout(kind))] = after
        /\ c = <<kind>> \o Concat(cs)
        /\ txn = TransactionOf(kind, First(vs, Len(TransactionLayout(kind))))
  BY DEF SpeltTransaction
<1> DEFINE layout == TransactionLayout(kind)
           N == Len(layout)
<1>2. PICK cs, vs, seens :
        /\ FieldTrace(layout, cs, vs, seens) /\ seens[0] = seen /\ seens[N] = after
        /\ c = <<kind>> \o Concat(cs) /\ txn = TransactionOf(kind, First(vs, N))
  BY <1>1
<1>3. N \in Nat /\ kind \in Byte
  BY Layouts, KindsAre
<1> DEFINE x == Concat(cs)
           u == x \o t
           h == <<kind>>
           r == Rd(c \o t, val, seen, out)
           q == Rd(u, kind, seen, out)
           w == First(vs, N)
           p == Rd(t, w, after, out)
<1>. HIDE DEF layout
<1>4. take_fields(q, layout) = p /\ x \in Bytes
  <2>1. Len(layout) \in Nat /\ FieldTrace(layout, cs, vs, seens)
    BY <1>2, <1>3
  <2>2. take_fields(Rd(Concat(cs) \o t, kind, seens[0], out), layout)
              = Rd(t, First(vs, Len(layout)), seens[Len(layout)], out)
    BY <2>1, FieldsRead
  <2>3. Concat(cs) \in Bytes
    BY <2>1, FieldsRead
  <2>. QED BY <1>2, <2>2, <2>3
<1>5. h \in Bytes
  BY <1>3 DEF Bytes
<1>6. c = h \o x
  BY <1>2
<1>. HIDE DEF x, w
<1>7. c \o t = <<kind>> \o u /\ u \in Bytes /\ c \in Bytes
  <2>. HIDE DEF h
  <2>1. (h \o x) \o t = h \o (x \o t)
    BY <1>4, <1>5, Regrouped
  <2>2. h \o x \in Bytes /\ x \o t \in Bytes
    BY <1>4, <1>5, BytesJoined
  <2>. QED BY <1>6, <2>1, <2>2 DEF h
<1>. HIDE DEF u
<1>8. byte(r) = q
  <2>1. byte(Rd(<<kind>> \o u, val, seen, out)) = Rd(u, kind, seen, out)
    BY <1>3, <1>7, ByteReads
  <2>. QED BY <1>7, <2>1
<1>9. Good(q) /\ q.val = kind /\ Good(p) /\ p.val = w
  BY RdIs
<1>10. Push(p, txn) = Rd(t, w, after, Append(out, txn))
  BY DEF Push, Rd
<1>. HIDE DEF q, r, p
<1>11. take_transaction(r) = Push(p, txn)
  BY <1>2, <1>4, <1>8, <1>9 DEF take_transaction, TransactionAfter, PushTransaction, layout, w
<1>12. take_transaction(r) = Rd(t, w, after, Append(out, txn))
  BY <1>10, <1>11
<1>13. after \in Seq(Word)
  BY <1>2, <1>3 DEF FieldTrace
<1>. QED BY <1>7, <1>12, <1>13 DEF TransactionRead, r

TransactionSplit(s, val, seen, out) ==
  \E c, t \in Bytes : \E txn : \E after \in Seq(Word) :
    /\ s = c \o t /\ SpeltTransaction(seen, c, txn, after)
    /\ TransactionRead(s, val, seen, out, t, txn, after)

(* After an error no transaction is read. *)
LEMMA TransactionFails ==
  ASSUME NEW r, ~Good(r)
  PROVE  ~Good(take_transaction(r))
BY DEF take_transaction, TransactionAfter, byte, FirstByte, take

(* And nothing else: an unknown kind is an error. *)
LEMMA TransactionTaken ==
  ASSUME NEW seen \in Seq(Word), NEW s \in Bytes, NEW val, NEW out,
         Good(take_transaction(Rd(s, val, seen, out)))
  PROVE  TransactionSplit(s, val, seen, out)
<1> DEFINE r == Rd(s, val, seen, out)
           d == take_transaction(r)
<1>1. Good(d)
  OBVIOUS
<1>2. Good(byte(r))
  <2>. HIDE DEF r
  <2>1. ~Good(byte(r)) => d = byte(r)
    BY DEF take_transaction, TransactionAfter
  <2>. QED BY <1>1, <2>1
<1>3. PICK x \in Byte : \E u \in Bytes : s = <<x>> \o u /\ byte(r) = Rd(u, x, seen, out)
  <2>1. Good(byte(Rd(s, val, seen, out)))
    BY <1>2
  <2>2. ByteSplit(s, val, seen, out)
    BY <2>1, ByteTaken
  <2>. QED BY <2>2 DEF ByteSplit
<1>4. PICK u \in Bytes : s = <<x>> \o u /\ byte(r) = Rd(u, x, seen, out)
  BY <1>3
<1> DEFINE q == Rd(u, x, seen, out)
           layout == TransactionLayout(x)
           N == Len(layout)
           p == take_fields(q, layout)
<1>5. Good(q) /\ q.val = x
  BY RdIs
<1>6. d = IF x \notin Kinds THEN Fail(q, "UnknownTransactionKind") ELSE PushTransaction(p, x)
  <2>. HIDE DEF q, r
  <2>. QED BY <1>4, <1>5 DEF take_transaction, TransactionAfter, q
<1>7. x \in Kinds
  <2>1. ~Good(Fail(q, "UnknownTransactionKind"))
    BY FailIs
  <2>. HIDE DEF q, d, p
  <2>. QED BY <1>1, <1>6, <2>1
<1>8. Good(p)
  <2>. HIDE DEF p, d
  <2>1. ~Good(p) => PushTransaction(p, x) = p
    BY DEF PushTransaction
  <2>. QED BY <1>1, <1>6, <1>7, <2>1
<1>9. FieldsSplit(layout, u, x, seen, out)
  <2>1. Len(layout) \in Nat /\ \A n \in 1..Len(layout) : layout[n] \in Fields
    BY <1>7, Layouts
  <2>2. Good(take_fields(Rd(u, x, seen, out), layout))
    BY <1>8
  <2>. HIDE DEF layout
  <2>. QED BY <2>1, <2>2, FieldsTaken
<1>10. PICK cs, vs, seens : \E t \in Bytes :
         /\ seens[0] = seen /\ FieldTrace(layout, cs, vs, seens) /\ u = Concat(cs) \o t
         /\ p = Rd(t, First(vs, N), seens[N], out)
  BY <1>9 DEF FieldsSplit
<1>11. PICK t \in Bytes :
         /\ seens[0] = seen /\ FieldTrace(layout, cs, vs, seens) /\ u = Concat(cs) \o t
         /\ p = Rd(t, First(vs, N), seens[N], out)
  BY <1>10
<1> DEFINE w == First(vs, N)
           txn == TransactionOf(x, w)
           after == seens[N]
           y == Concat(cs)
           h == <<x>>
           c == h \o y
<1>12. after \in Seq(Word) /\ N \in Nat
  <2>1. N \in Nat
    BY <1>7, Layouts
  <2>. QED BY <1>11, <2>1 DEF FieldTrace
<1>13. y \in Bytes
  <2>1. Len(layout) \in Nat /\ FieldTrace(layout, cs, vs, seens)
    BY <1>11, <1>12
  <2>. HIDE DEF layout
  <2>. QED BY <2>1, FieldsRead
<1>14. c \in Bytes /\ s = c \o t
  <2>1. h \in Bytes
    BY DEF Bytes
  <2>2. s = h \o (y \o t)
    BY <1>4, <1>11
  <2>. HIDE DEF h, y
  <2>3. (h \o y) \o t = h \o (y \o t)
    BY <1>13, <2>1, Regrouped
  <2>4. h \o y \in Bytes
    BY <1>13, <2>1, BytesJoined
  <2>. QED BY <2>2, <2>3, <2>4
<1>15. SpeltTransaction(seen, c, txn, after)
  BY <1>7, <1>11 DEF SpeltTransaction
<1>16. d = Rd(t, w, after, Append(out, txn))
  <2>1. p = Rd(t, w, after, out)
    BY <1>11
  <2>. HIDE DEF p, w, after, d
  <2>2. Good(p) /\ p.val = w
    BY <2>1, RdIs
  <2>3. d = Push(p, txn)
    BY <1>6, <1>7, <2>2 DEF PushTransaction
  <2>4. Push(p, txn) = Rd(t, w, after, Append(out, txn))
    BY <2>1 DEF Push, Rd
  <2>. QED BY <2>3, <2>4
<1>. HIDE DEF w, txn, after, c
<1>17. TransactionRead(s, val, seen, out, t, txn, after)
  BY <1>16 DEF TransactionRead
<1>. QED BY <1>12, <1>14, <1>15, <1>17 DEF TransactionSplit

-----------------------------------------------------------------------------
(* Batches: the header, and the transactions one after another. *)

Header(s, stride) == count(expect_version(Reader(s)), stride)

(* Reader::new has read nothing. *)
LEMMA ReaderIs ==
  ASSUME NEW s
  PROVE  Reader(s) = Rd(s, << >>, << >>, << >>)
BY DEF Reader, Rd

(* The version is a byte. *)
LEMMA VersionIs == VERSION \in Byte /\ <<VERSION>> \in Bytes
BY Tags DEF VERSION

(* The header is the version and the number of what follows. *)
LEMMA HeaderReads ==
  ASSUME NEW a, NEW k, Number(a, k), NEW stride, NEW t \in Bytes, ~(k * stride > Len(t))
  PROVE  /\ Header((<<VERSION>> \o a) \o t, stride) = Rd(t, k, << >>, << >>)
         /\ <<VERSION>> \o a \in Bytes
<1> DEFINE h == <<VERSION>>
           u == a \o t
           s == (h \o a) \o t
           e == << >>
           r == Reader(s)
           q == Rd(u, VERSION, e, e)
<1>1. h \in Bytes /\ a \in Bytes
  BY VersionIs DEF Number
<1>2. s = <<VERSION>> \o u /\ u \in Bytes /\ h \o a \in Bytes
  <2>. HIDE DEF h
  <2>1. (h \o a) \o t = h \o (a \o t)
    BY <1>1, Regrouped
  <2>2. h \o a \in Bytes /\ a \o t \in Bytes
    BY <1>1, BytesJoined
  <2>. QED BY <2>1, <2>2 DEF h
<1>3. count(q, stride) = Rd(t, k, e, e)
  <2>. HIDE DEF e
  <2>. QED BY CountReads
<1>4. r = Rd(s, e, e, e)
  BY ReaderIs
<1>. HIDE DEF s, u, e
<1>5. byte(r) = q
  <2>1. byte(Rd(<<VERSION>> \o u, e, e, e)) = Rd(u, VERSION, e, e)
    BY <1>2, VersionIs, ByteReads
  <2>. QED BY <1>2, <1>4, <2>1
<1>6. Good(q) /\ q.val = VERSION
  BY RdIs
<1>. HIDE DEF q, r
<1>7. expect_version(r) = q
  BY <1>5, <1>6 DEF expect_version, IsVersion
<1>. QED BY <1>2, <1>3, <1>7 DEF Header, r, s, e, h

HeaderSplit(s, stride) ==
  \E a, t \in Bytes : \E k :
    /\ s = (<<VERSION>> \o a) \o t /\ Number(a, k) /\ ~(k * stride > Len(t))
    /\ Header(s, stride) = Rd(t, k, << >>, << >>)

(* And nothing else: another version, or a count that the bytes left over cannot hold,
   is an error. *)
LEMMA HeaderTaken ==
  ASSUME NEW s \in Bytes, NEW stride, Good(Header(s, stride))
  PROVE  HeaderSplit(s, stride)
<1> DEFINE e == << >>
           r == Rd(s, e, e, e)
           b == byte(r)
<1>1. Reader(s) = r
  BY ReaderIs
<1>. HIDE DEF e
<1>2. Good(expect_version(r))
  <2>. HIDE DEF r
  <2>1. ~Good(expect_version(r)) => ~Good(count(expect_version(r), stride))
    BY DEF count, Plausible, varint
  <2>. QED BY <1>1, <2>1 DEF Header
<1>3. Good(b) /\ b.val = VERSION /\ expect_version(r) = b
  <2>1. ~Good(Fail(b, "UnsupportedVersion"))
    BY FailIs
  <2>. HIDE DEF b
  <2>2. expect_version(r) = IsVersion(b)
    BY DEF expect_version, b
  <2>. QED BY <1>2, <2>1, <2>2 DEF IsVersion
<1>4. PICK x \in Byte : \E u \in Bytes : s = <<x>> \o u /\ b = Rd(u, x, e, e)
  <2>1. Good(byte(Rd(s, e, e, e)))
    BY <1>3
  <2>2. ByteSplit(s, e, e, e)
    BY <2>1, ByteTaken
  <2>. QED BY <2>2 DEF ByteSplit
<1>5. PICK u \in Bytes : s = <<x>> \o u /\ b = Rd(u, x, e, e)
  BY <1>4
<1>6. x = VERSION
  BY <1>3, <1>5, RdIs
<1>7. Header(s, stride) = count(Rd(u, x, e, e), stride)
  BY <1>1, <1>3, <1>5 DEF Header
<1>8. PICK a, t \in Bytes : \E k :
           /\ u = a \o t /\ Number(a, k) /\ ~(k * stride > Len(t))
           /\ count(Rd(u, x, e, e), stride) = Rd(t, k, e, e)
  <2>1. Good(count(Rd(u, x, e, e), stride))
    BY <1>7
  <2>. QED BY <2>1, CountTaken
<1>9. PICK k :
           /\ u = a \o t /\ Number(a, k) /\ ~(k * stride > Len(t))
           /\ count(Rd(u, x, e, e), stride) = Rd(t, k, e, e)
  BY <1>8
<1> DEFINE h == <<VERSION>>
<1>10. s = h \o (a \o t)
  BY <1>5, <1>6, <1>9
<1>11. h \in Bytes
  BY VersionIs
<1>12. Header(s, stride) = Rd(t, k, << >>, << >>)
  BY <1>7, <1>9 DEF e
<1>13. s = (h \o a) \o t
  <2>. HIDE DEF h
  <2>1. (h \o a) \o t = h \o (a \o t)
    BY <1>11, Regrouped
  <2>. QED BY <1>10, <2>1
<1>. HIDE DEF r, b
<1>14. \E m : /\ Number(a, m) /\ ~(m * stride > Len(t))
              /\ Header(s, stride) = Rd(t, m, << >>, << >>)
  BY <1>9, <1>12
<1>. QED BY <1>13, <1>14 DEF HeaderSplit

Reading(header) ==
  LET read[n \in 0..header.val] ==
        IF n = 0 THEN header ELSE take_transaction(read[n - 1])
  IN read

(* The loop of Batch::decode, one transaction after another. *)
LEMMA ReadingIs ==
  ASSUME NEW header, header.val \in Nat
  PROVE  LET f == Reading(header)
         IN /\ f[0] = header
            /\ \A n \in 1..header.val : f[n] = take_transaction(f[n - 1])
            /\ Good(header) => TransactionsOf(header) = finish(f[header.val])
            /\ ~Good(header) => TransactionsOf(header) = header
<1> DEFINE Turn(n, x) == take_transaction(x)
           N == header.val
           f == Reading(header)
<1>1. \E g : Falls(Turn, g, N, header)
  <2>. HIDE DEF Turn, N
  <2>1. N \in Nat
    BY DEF N
  <2>. QED BY <2>1, FallsExists, SMTT(30)
<1>2. f = [n \in 0..N |-> IF n = 0 THEN header ELSE take_transaction(f[n - 1])]
  BY <1>1 DEF Falls, Reading
<1>3. Good(header) => TransactionsOf(header) = finish(f[N])
  BY DEF TransactionsOf, Reading
<1>4. ~Good(header) => TransactionsOf(header) = header
  BY DEF TransactionsOf
<1>. HIDE DEF f
<1>5. f[0] = header /\ \A n \in 1..N : f[n] = take_transaction(f[n - 1])
  BY <1>2
<1>. QED BY <1>3, <1>4, <1>5 DEF f

(* The bytes cs spell the transactions txns, one after another. *)
BatchTrace(txns, cs, seens, N) ==
  /\ N \in Nat /\ Len(cs) = N /\ seens[0] = << >>
  /\ \A n \in 0..N : seens[n] \in Seq(Word)
  /\ \A n \in 1..N : cs[n] \in Bytes /\ SpeltTransaction(seens[n - 1], cs[n], txns[n], seens[n])

(* Transactions spelt one after another are read one after another. *)
LEMMA TransactionsRead ==
  ASSUME NEW txns, NEW cs, NEW seens, NEW N, BatchTrace(txns, cs, seens, N), NEW t \in Bytes
  PROVE  /\ \E w : Reading(Rd(Concat(cs) \o t, N, << >>, << >>))[N]
                     = Rd(t, w, seens[N], First(txns, N))
         /\ Concat(cs) \in Bytes
<1> DEFINE j == Joint(cs)
           e == << >>
           R(u, n) == Rd(j[n] \o u, N, e, e)
           T == {n \in 0..N : \A u \in Bytes : \E w :
                   Reading(R(u, n))[n] = Rd(u, w, seens[n], First(txns, n))}
<1>1. N \in Nat /\ Len(cs) = N /\ seens[0] = e
  BY DEF BatchTrace
<1>2. j[0] = << >> /\ Concat(cs) = j[N] /\ \A n \in 1..N : j[n] = j[n - 1] \o cs[n]
  BY <1>1, JointIs
<1>3. Concat(cs) \in Bytes /\ \A n \in 0..N : j[n] \in Bytes
  <2>1. \A n \in 1..Len(cs) : cs[n] \in Bytes
    BY DEF BatchTrace
  <2>2. Len(cs) \in Nat
    BY <1>1
  <2>. QED BY <1>1, <2>1, <2>2, JointBytes
<1>4. \A n \in 0..N : seens[n] \in Seq(Word)
  BY DEF BatchTrace
<1>5. \A n \in 1..N : cs[n] \in Bytes /\ SpeltTransaction(seens[n - 1], cs[n], txns[n], seens[n])
  BY DEF BatchTrace
<1>. HIDE DEF j, e
<1>6. ASSUME NEW s
      PROVE  LET f == Reading(Rd(s, N, e, e))
             IN /\ f[0] = Rd(s, N, e, e)
                /\ \A n \in 1..N : f[n] = take_transaction(f[n - 1])
  <2> DEFINE r == Rd(s, N, e, e)
  <2>1. r.val = N
    BY RdIs
  <2>. HIDE DEF r
  <2>. QED BY <1>1, <2>1, ReadingIs DEF r
<1>7. 0 \in T
  <2>1. ASSUME NEW u \in Bytes
        PROVE  \E w : Reading(R(u, 0))[0] = Rd(u, w, seens[0], First(txns, 0))
    <3>1. << >> \o u = u
      BY EmptySeq DEF Bytes
    <3>2. R(u, 0) = Rd(u, N, e, e)
      BY <1>2, <3>1
    <3>3. Reading(R(u, 0))[0] = Rd(u, N, e, e)
      BY <1>6, <3>2
    <3>4. First(txns, 0) = e
      BY DEF First, e
    <3>. HIDE DEF R
    <3>5. Reading(R(u, 0))[0] = Rd(u, N, seens[0], First(txns, 0))
      BY <1>1, <3>3, <3>4
    <3>. QED BY <3>5
  <2>. HIDE DEF R
  <2>. QED BY <1>1, <2>1
<1>8. ASSUME NEW n \in 0..(N - 1), n \in T PROVE n + 1 \in T
  <2>1. n \in Nat /\ n + 1 \in 1..N /\ n + 1 \in 0..N /\ (n + 1) - 1 = n /\ n \in 0..N
    BY <1>1
  <2>2. ASSUME NEW u \in Bytes
        PROVE  \E w : Reading(R(u, n + 1))[n + 1] = Rd(u, w, seens[n + 1], First(txns, n + 1))
    <3> DEFINE c == cs[n + 1]
               m == n + 1
               x == c \o u
               txn == txns[m]
               p == First(txns, n)
    <3>1. c \in Bytes /\ SpeltTransaction(seens[n], c, txn, seens[m])
      <4>1. cs[m] \in Bytes /\ SpeltTransaction(seens[m - 1], cs[m], txns[m], seens[m])
        BY <1>5, <2>1
      <4>. QED BY <2>1, <4>1
    <3>2. j[n] \in Bytes
      BY <1>3, <2>1
    <3>3. j[m] = j[n] \o c
      <4>1. j[m] = j[m - 1] \o cs[m]
        BY <1>2, <2>1
      <4>. QED BY <2>1, <4>1
    <3>. HIDE DEF c
    <3>4. x \in Bytes
      BY <3>1, BytesJoined
    <3>5. (j[n] \o c) \o u = j[n] \o x
      BY <3>1, <3>2, Regrouped
    <3>6. R(u, m) = R(x, n)
      BY <3>3, <3>5
    <3>7. PICK v : Reading(R(x, n))[n] = Rd(x, v, seens[n], p)
      BY <1>8, <3>4
    <3>8. Reading(R(x, n))[m] = take_transaction(Reading(R(x, n))[n])
      <4>1. Reading(R(x, n))[m] = take_transaction(Reading(R(x, n))[m - 1])
        BY <1>6, <2>1
      <4>. HIDE DEF R
      <4>. QED BY <2>1, <4>1
    <3>. HIDE DEF R
    <3>9. \E w : take_transaction(Rd(x, v, seens[n], p)) = Rd(u, w, seens[m], Append(p, txn))
      <4> DEFINE sn == seens[n]
                 sm == seens[m]
      <4>1. SpeltTransaction(sn, c, txn, sm)
        BY <3>1
      <4>. HIDE DEF p, sn, sm, txn, m
      <4>2. TransactionRead(c \o u, v, sn, p, u, txn, sm)
        BY <4>1, TransactionReads
      <4>. QED BY <4>2 DEF TransactionRead, sn, sm
    <3>10. Append(p, txn) = First(txns, m)
      BY <2>1, Grown
    <3>11. PICK w : take_transaction(Rd(x, v, seens[n], p)) = Rd(u, w, seens[m], Append(p, txn))
      BY <3>9
    <3>12. Reading(R(u, m))[m] = Rd(u, w, seens[m], First(txns, m))
      BY <3>6, <3>7, <3>8, <3>10, <3>11
    <3>. QED BY <3>12
  <2>. HIDE DEF R
  <2>. QED BY <2>1, <2>2
<1>. HIDE DEF T
<1>9. \A n \in 0..N : n \in T
  BY <1>1, <1>7, <1>8, UpTo
<1>10. \E w : Reading(R(t, N))[N] = Rd(t, w, seens[N], First(txns, N))
  BY <1>1, <1>9 DEF T
<1>. QED BY <1>2, <1>3, <1>10 DEF e

TransactionsSplit(header) ==
  \E txns, cs, seens, w : \E t \in Bytes :
    /\ BatchTrace(txns, cs, seens, header.val) /\ header.rest = Concat(cs) \o t
    /\ Reading(header)[header.val] = Rd(t, w, seens[header.val], First(txns, header.val))

(* Transactions that were read were spelt, one after another. *)
LEMMA TransactionsTaken ==
  ASSUME NEW s \in Bytes, NEW N \in Nat,
         Good(Reading(Rd(s, N, << >>, << >>))[N])
  PROVE  TransactionsSplit(Rd(s, N, << >>, << >>))
<1> DEFINE e == << >>
           r == Rd(s, N, e, e)
           f == Reading(r)
           Sound(q) == q.rest \in Bytes /\ q.seen \in Seq(Word)
                         /\ q = Rd(q.rest, q.val, q.seen, q.out)
           T == {n \in 0..N : Sound(f[n])}
           Step(n, c, txn) ==
             /\ c \in Bytes /\ f[n - 1].rest = c \o f[n].rest
             /\ SpeltTransaction(f[n - 1].seen, c, txn, f[n].seen)
             /\ f[n].out = Append(f[n - 1].out, txn)
<1>1. e \in Seq(Word)
  OBVIOUS
<1>. HIDE DEF e
<1>2. f[0] = r /\ \A n \in 1..N : f[n] = take_transaction(f[n - 1])
  <2>1. r.val = N
    BY RdIs
  <2>. HIDE DEF r
  <2>. QED BY <2>1, ReadingIs
<1>3. \A n \in 0..N : Good(f[n])
  <2>1. \A n \in 1..N : Good(f[n]) => Good(f[n - 1])
    BY <1>2, TransactionFails
  <2>2. Good(f[N])
    BY DEF e
  <2>. HIDE DEF f
  <2>. QED BY <2>1, <2>2, GoodBefore
<1>. HIDE DEF f
<1>4. ASSUME NEW n \in 1..N, Sound(f[n - 1])
      PROVE  Sound(f[n]) /\ \E c, txn : Step(n, c, txn)
  <2> DEFINE q == f[n - 1]
             w == q.val
             sn == q.seen
             u == q.rest
             o == q.out
  <2>1. f[n] = take_transaction(q) /\ Good(f[n])
    BY <1>2, <1>3
  <2>2. u \in Bytes /\ sn \in Seq(Word) /\ q = Rd(u, w, sn, o)
    BY <1>4
  <2>. HIDE DEF q, w, sn, u, o
  <2>3. Good(take_transaction(Rd(u, w, sn, o)))
    BY <2>1, <2>2
  <2>4. TransactionSplit(u, w, sn, o)
    BY <2>2, <2>3, TransactionTaken
  <2>5. PICK c \in Bytes, t \in Bytes : \E txn : \E after \in Seq(Word) :
           /\ u = c \o t /\ SpeltTransaction(sn, c, txn, after)
           /\ TransactionRead(u, w, sn, o, t, txn, after)
    BY <2>4 DEF TransactionSplit
  <2>6. PICK txn : \E after \in Seq(Word) :
           /\ u = c \o t /\ SpeltTransaction(sn, c, txn, after)
           /\ TransactionRead(u, w, sn, o, t, txn, after)
    BY <2>5
  <2>7. PICK after \in Seq(Word) :
           /\ u = c \o t /\ SpeltTransaction(sn, c, txn, after)
           /\ TransactionRead(u, w, sn, o, t, txn, after)
    BY <2>6
  <2> DEFINE x == Append(o, txn)
  <2>8. PICK v : f[n] = Rd(t, v, after, x)
    BY <2>1, <2>2, <2>7 DEF TransactionRead
  <2>. HIDE DEF x
  <2>9. f[n].rest = t /\ f[n].seen = after /\ f[n].out = x /\ f[n].val = v
    <3>1. /\ Rd(t, v, after, x).rest = t /\ Rd(t, v, after, x).seen = after
          /\ Rd(t, v, after, x).out = x /\ Rd(t, v, after, x).val = v
      BY RdIs
    <3>. QED BY <2>8, <3>1
  <2>10. Sound(f[n])
    BY <2>7, <2>8, <2>9
  <2>11. Step(n, c, txn)
    BY <2>7, <2>9 DEF u, w, sn, o, q, x
  <2>. QED BY <2>10, <2>11
<1>5. 0 \in T
  BY <1>1, <1>2, RdIs
<1>6. ASSUME NEW n \in 0..(N - 1), n \in T PROVE n + 1 \in T
  <2>1. n + 1 \in 1..N /\ n + 1 \in 0..N /\ (n + 1) - 1 = n
    OBVIOUS
  <2>2. Sound(f[(n + 1) - 1])
    BY <1>6, <2>1
  <2>3. Sound(f[n + 1])
    BY <1>4, <2>1, <2>2
  <2>. QED BY <2>1, <2>3
<1>. HIDE DEF T
<1>7. \A n \in 0..N : Sound(f[n])
  <2>1. \A n \in 0..N : n \in T
    BY <1>5, <1>6, UpTo
  <2>. QED BY <2>1 DEF T
<1>8. \A n \in 1..N : \E c, txn : Step(n, c, txn)
  <2>1. ASSUME NEW n \in 1..N PROVE \E c, txn : Step(n, c, txn)
    <3>1. n - 1 \in 0..N
      OBVIOUS
    <3>2. Sound(f[n - 1])
      BY <1>7, <3>1
    <3>. HIDE DEF Sound, Step
    <3>. QED BY <1>4, <3>2
  <2>. HIDE DEF Step
  <2>. QED BY <2>1
<1> DEFINE cs == [n \in 1..N |-> CHOOSE c : \E txn : Step(n, c, txn)]
           txns == [n \in 1..N |-> CHOOSE txn : Step(n, cs[n], txn)]
           seens == [n \in 0..N |-> f[n].seen]
           outs == [n \in 0..N |-> f[n].out]
           rest == [n \in 0..N |-> f[n].rest]
<1>9. \A n \in 1..N : Step(n, cs[n], txns[n])
  <2>. HIDE DEF Step
  <2>1. ASSUME NEW n \in 1..N PROVE Step(n, cs[n], txns[n])
    <3>1. \E c, v : Step(n, c, v)
      BY <1>8
    <3>2. \E v : Step(n, cs[n], v)
      BY <3>1
    <3>3. txns[n] = CHOOSE v : Step(n, cs[n], v)
      OBVIOUS
    <3>. HIDE DEF cs, txns
    <3>. QED BY <3>2, <3>3
  <2>. HIDE DEF cs, txns
  <2>. QED BY <2>1
<1>10. Len(cs) = N
  OBVIOUS
<1>11. \A n \in 0..N : /\ seens[n] = f[n].seen /\ outs[n] = f[n].out
                       /\ rest[n] = f[n].rest
  OBVIOUS
<1>. HIDE DEF cs, txns, seens, outs, rest
<1>12. /\ \A n \in 1..N : n \in 0..N /\ n - 1 \in 0..N
       /\ N \in 0..N /\ 0 \in 0..N
  OBVIOUS
<1>13. seens[0] = e /\ outs[0] = e /\ rest[0] = s
  <2>1. r.seen = e /\ r.out = e /\ r.rest = s
    BY RdIs
  <2>. HIDE DEF r
  <2>. QED BY <1>2, <1>11, <1>12, <2>1
<1>14. BatchTrace(txns, cs, seens, N)
  <2>1. \A n \in 0..N : seens[n] \in Seq(Word)
    BY <1>7, <1>11
  <2>2. \A n \in 1..N : cs[n] \in Bytes /\ SpeltTransaction(seens[n - 1], cs[n], txns[n], seens[n])
    BY <1>9, <1>11, <1>12
  <2>. QED BY <1>10, <1>13, <2>1, <2>2 DEF BatchTrace, e
<1>15. s = Concat(cs) \o f[N].rest
  <2>1. \A n \in 0..N : rest[n] \in Bytes
    BY <1>7, <1>11
  <2>2. \A n \in 1..N : cs[n] \in Bytes /\ rest[n - 1] = cs[n] \o rest[n]
    BY <1>9, <1>11, <1>12
  <2>3. rest[0] = Concat(cs) \o rest[N]
    BY <1>10, <2>1, <2>2, Chained
  <2>. QED BY <1>11, <1>12, <1>13, <2>3
<1>16. f[N].out = First(txns, N)
  <2>1. \A n \in 1..N : outs[n] = Append(outs[n - 1], txns[n])
    BY <1>9, <1>11, <1>12
  <2>2. outs[0] = << >>
    BY <1>13 DEF e
  <2>3. \A n \in 0..N : outs[n] = First(txns, n)
    BY <2>1, <2>2, Gathered
  <2>. QED BY <1>11, <1>12, <2>3
<1> DEFINE t == f[N].rest
           w == f[N].val
<1>17. f[N] = Rd(t, w, seens[N], First(txns, N)) /\ t \in Bytes
  <2>1. Sound(f[N])
    BY <1>7, <1>12
  <2>. QED BY <1>11, <1>12, <1>16, <2>1
<1>18. s = Concat(cs) \o t
  BY <1>15
<1>. HIDE DEF t, w, Sound, Step
<1>19. r.val = N /\ r.rest = s
  BY RdIs
<1>20. \E a, b, g, x : \E z \in Bytes :
         /\ BatchTrace(a, b, g, N) /\ s = Concat(b) \o z
         /\ f[N] = Rd(z, x, g[N], First(a, N))
  BY <1>14, <1>17, <1>18
<1>21. TransactionsSplit(r)
  <2>. HIDE DEF r
  <2>. QED BY <1>19, <1>20 DEF TransactionsSplit, f
<1>. QED BY <1>21 DEF e

-----------------------------------------------------------------------------
(* The bytes s spell the transactions txns as a batch. *)
SpeltBatch(s, txns, a, cs, seens, N) ==
  /\ BatchTrace(txns, cs, seens, N) /\ Number(a, N)
  /\ ~(N * MIN_ENCODED_TXN_SIZE > Len(Concat(cs)))
  /\ s = (<<VERSION>> \o a) \o Concat(cs)

(* Reader::finish: what is left over is an error. *)
LEMMA FinishIs ==
  ASSUME NEW t, NEW val, NEW seen, NEW out
  PROVE  /\ t = << >> => finish(Rd(t, val, seen, out)) = Rd(t, val, seen, out)
         /\ Good(finish(Rd(t, val, seen, out))) => t = << >>
<1> DEFINE r == Rd(t, val, seen, out)
<1>1. Good(r) /\ r.rest = t
  BY RdIs
<1>2. ~Good(Fail(r, "TrailingBytes"))
  BY FailIs
<1>. HIDE DEF r
<1>. QED BY <1>1, <1>2 DEF finish, r

(* What follows a batch is trailing bytes, whatever it is. *)
LEMMA BatchReads ==
  ASSUME NEW s, NEW txns, NEW a, NEW cs, NEW seens, NEW N,
         SpeltBatch(s, txns, a, cs, seens, N), NEW t \in Bytes
  PROVE  /\ t = << >> => \E w : Batch_decode(s) = Rd(<< >>, w, seens[N], First(txns, N))
         /\ t # << >> => ~Good(Batch_decode(s \o t))
         /\ s \in Bytes
<1> DEFINE stride == MIN_ENCODED_TXN_SIZE
           x == Concat(cs)
           u == x \o t
           h == <<VERSION>> \o a
           e == << >>
           r == Rd(u, N, e, e)
           f == Reading(r)
<1>1. /\ BatchTrace(txns, cs, seens, N) /\ Number(a, N)
      /\ ~(N * stride > Len(x)) /\ s = h \o x
  BY DEF SpeltBatch
<1>2. N \in Nat /\ stride \in Nat
  BY <1>1 DEF BatchTrace, MIN_ENCODED_TXN_SIZE
<1>3. x \in Bytes /\ \E w : f[N] = Rd(t, w, seens[N], First(txns, N))
  BY <1>1, TransactionsRead
<1>. HIDE DEF stride, x
<1>4. h \in Bytes
  <2>1. <<VERSION>> \in Bytes /\ a \in Bytes
    BY <1>1, VersionIs DEF Number
  <2>. QED BY <2>1, BytesJoined
<1>5. u \in Bytes /\ ~(N * stride > Len(u)) /\ s \in Bytes
  <2>1. u \in Bytes /\ Len(u) = Len(x) + Len(t) /\ Len(x) \in Nat /\ Len(t) \in Nat
    BY <1>3, BytesJoined
  <2>2. h \o x \in Bytes
    BY <1>3, <1>4, BytesJoined
  <2> DEFINE k == N * stride
  <2>3. k \in Nat
    BY <1>2
  <2>. HIDE DEF k
  <2>4. ~(k > Len(u))
    BY <1>1, <2>1, <2>3 DEF k
  <2>. QED BY <1>1, <2>1, <2>2, <2>4 DEF k
<1>6. Header(h \o u, stride) = r
  <2>. HIDE DEF u, e
  <2>1. Header((<<VERSION>> \o a) \o u, stride) = Rd(u, N, << >>, << >>)
    BY <1>1, <1>5, HeaderReads
  <2>. QED BY <2>1 DEF e
<1>7. s \o t = h \o u
  <2>. HIDE DEF h
  <2>1. (h \o x) \o t = h \o (x \o t)
    BY <1>3, <1>4, Regrouped
  <2>. QED BY <1>1, <2>1
<1>8. Good(r) /\ r.val = N
  BY RdIs
<1>9. Batch_decode(s \o t) = finish(f[N])
  <2>1. Batch_decode(s \o t) = TransactionsOf(r)
    BY <1>6, <1>7 DEF Batch_decode, Header, stride
  <2>. HIDE DEF r
  <2>2. TransactionsOf(r) = finish(f[N])
    BY <1>2, <1>8, ReadingIs
  <2>. QED BY <2>1, <2>2
<1>10. PICK w : f[N] = Rd(t, w, seens[N], First(txns, N))
  BY <1>3
<1> DEFINE o == First(txns, N)
           sn == seens[N]
<1>. HIDE DEF f, o, sn
<1>11. Batch_decode(s \o t) = finish(Rd(t, w, sn, o))
  BY <1>9, <1>10 DEF o, sn
<1>12. t = << >> => Batch_decode(s) = Rd(<< >>, w, sn, o)
  <2>1. ASSUME t = << >> PROVE Batch_decode(s) = Rd(<< >>, w, sn, o)
    <3>1. s \o << >> = s
      BY <1>5, EmptySeq DEF Bytes
    <3>2. finish(Rd(t, w, sn, o)) = Rd(t, w, sn, o)
      BY <2>1, FinishIs
    <3>. QED BY <1>11, <2>1, <3>1, <3>2
  <2>. QED BY <2>1
<1>13. t # << >> => ~Good(Batch_decode(s \o t))
  <2>1. Good(finish(Rd(t, w, sn, o))) => t = << >>
    BY FinishIs
  <2>. QED BY <1>11, <2>1
<1>. QED BY <1>5, <1>12, <1>13 DEF o, sn

BatchSplit(s) ==
  \E txns, a, cs, seens, N : SpeltBatch(s, txns, a, cs, seens, N)

(* Bytes that Batch::decode accepts spell a batch, to the last of them. *)
LEMMA BatchTaken ==
  ASSUME NEW s \in Bytes, Good(Batch_decode(s))
  PROVE  BatchSplit(s)
<1> DEFINE stride == MIN_ENCODED_TXN_SIZE
           e == << >>
           header == Header(s, stride)
<1>1. Batch_decode(s) = TransactionsOf(header)
  BY DEF Batch_decode, Header
<1>2. Good(header)
  <2>. HIDE DEF header
  <2>1. ~Good(header) => TransactionsOf(header) = header
    BY DEF TransactionsOf
  <2>. QED BY <1>1, <2>1
<1>3. HeaderSplit(s, stride)
  BY <1>2, HeaderTaken
<1>4. PICK a \in Bytes, t \in Bytes : \E k :
    /\ s = (<<VERSION>> \o a) \o t /\ Number(a, k) /\ ~(k * stride > Len(t))
    /\ header = Rd(t, k, e, e)
  BY <1>3 DEF HeaderSplit
<1>5. PICK N :
    /\ s = (<<VERSION>> \o a) \o t /\ Number(a, N) /\ ~(N * stride > Len(t))
    /\ header = Rd(t, N, e, e)
  BY <1>4
<1>6. N \in Nat
  BY <1>5, NumberShortest
<1> DEFINE r == Rd(t, N, e, e)
           f == Reading(r)
<1>7. Good(r) /\ r.val = N /\ r.rest = t
  BY RdIs
<1>8. TransactionsOf(r) = finish(f[N])
  <2>. HIDE DEF r
  <2>. QED BY <1>6, <1>7, ReadingIs
<1>9. Good(finish(f[N]))
  BY <1>1, <1>5, <1>8
<1>10. Good(f[N])
  <2>. HIDE DEF f
  <2>1. ~Good(f[N]) => finish(f[N]) = f[N]
    BY DEF finish
  <2>. QED BY <1>9, <2>1
<1>11. TransactionsSplit(r)
  BY <1>6, <1>10, TransactionsTaken
<1>. HIDE DEF e, header, stride
<1>12. PICK txns, cs, seens, w : \E z \in Bytes :
         /\ BatchTrace(txns, cs, seens, N) /\ t = Concat(cs) \o z
         /\ f[N] = Rd(z, w, seens[N], First(txns, N))
  <2>. HIDE DEF r
  <2>. QED BY <1>7, <1>11 DEF TransactionsSplit
<1>13. PICK z \in Bytes :
         /\ BatchTrace(txns, cs, seens, N) /\ t = Concat(cs) \o z
         /\ f[N] = Rd(z, w, seens[N], First(txns, N))
  BY <1>12
<1>14. z = << >>
  <2> DEFINE sn == seens[N]
             o == First(txns, N)
  <2>1. f[N] = Rd(z, w, sn, o)
    BY <1>13
  <2>. HIDE DEF f, sn, o
  <2>2. Good(finish(Rd(z, w, sn, o)))
    BY <1>9, <2>1
  <2>. QED BY <2>2, FinishIs
<1>15. Concat(cs) \in Bytes
  BY <1>13, TransactionsRead
<1>16. t = Concat(cs)
  <2> DEFINE x == Concat(cs)
  <2>1. t = x \o << >> /\ x \in Bytes
    BY <1>13, <1>14, <1>15
  <2>. HIDE DEF x
  <2>2. x \o << >> = x
    BY <2>1, EmptySeq DEF Bytes
  <2>. QED BY <2>1, <2>2 DEF x
<1>17. SpeltBatch(s, txns, a, cs, seens, N)
  BY <1>5, <1>13, <1>16 DEF SpeltBatch, stride
<1>. QED BY <1>17 DEF BatchSplit

(* Nothing a batch begins with is a batch: Batch::decode would have found the rest to
   be trailing bytes. *)
LEMMA NothingWithin ==
  ASSUME NEW s \in Bytes, Good(Batch_decode(s)), NEW n \in 0..(Len(s) - 1)
  PROVE  ~Good(Batch_decode(SubSeq(s, 1, n)))
<1> DEFINE p == SubSeq(s, 1, n)
           t == SubSeq(s, n + 1, Len(s))
<1>1. Len(s) \in Nat
  BY LenProperties DEF Bytes
<1>2. n \in 0..Len(s)
  BY <1>1
<1>3. p \in Bytes /\ t \in Bytes /\ Len(t) = Len(s) - n /\ s = p \o t
  BY <1>2, Parts DEF Bytes
<1>4. t # << >>
  <2>. HIDE DEF p, t
  <2>. QED BY <1>1, <1>3
<1>5. ASSUME Good(Batch_decode(p)) PROVE FALSE
  <2>. HIDE DEF p, t
  <2>1. BatchSplit(p)
    BY <1>3, <1>5, BatchTaken
  <2>2. PICK txns, a, cs, seens, N : SpeltBatch(p, txns, a, cs, seens, N)
    BY <2>1 DEF BatchSplit
  <2>3. ~Good(Batch_decode(p \o t))
    BY <1>3, <1>4, <2>2, BatchReads
  <2>. QED BY <1>3, <2>3
<1>. QED BY <1>5

-----------------------------------------------------------------------------
(* What joins the dictionary. *)

Names(txn) ==
  {txn.sender} \cup (IF txn.kind \in {"PAY", "deposit"} THEN {txn.destination} ELSE {})

(* `after' holds what `seen' holds, and besides only what is in S. *)
Grows(seen, after, S) ==
  \A i \in 1..Len(after) : (i \in 1..Len(seen) /\ after[i] = seen[i]) \/ after[i] \in S

(* A dictionary that grows twice. *)
LEMMA GrowsOn ==
  ASSUME NEW a, NEW b, NEW c, NEW S, Grows(a, b, S), Grows(b, c, S)
  PROVE  Grows(a, c, S)
BY DEF Grows

(* A field adds the address it spells, or nothing. *)
LEMMA FieldGrows ==
  ASSUME NEW field, NEW seen \in Seq(Word), NEW c, NEW v, NEW after,
         Spelt(field, seen, c, v, after), NEW S, field = "address" => v \in S
  PROVE  Grows(seen, after, S)
<1>1. CASE after = seen
  BY <1>1 DEF Grows
<1>2. CASE field = "address" /\ v \in Word /\ after = Append(seen, v)
  <2>1. /\ Len(after) = Len(seen) + 1 /\ Len(seen) \in Nat /\ after[Len(seen) + 1] = v
        /\ \A i \in 1..Len(seen) : after[i] = seen[i]
    BY <1>2, AppendProperties, LenProperties
  <2>2. v \in S
    BY <1>2
  <2>. QED BY <2>1, <2>2 DEF Grows
<1>. QED BY <1>1, <1>2 DEF Spelt, SpeltAddress

(* Where the fields of a transaction go. *)
LEMMA TransactionIs ==
  ASSUME NEW f
  PROVE  /\ TransactionOf(KIND_PAYMENT, f) = Payment(f[1], f[3], f[4], f[2])
         /\ TransactionOf(KIND_DEPOSIT, f) = Deposit(f[1], f[2])
         /\ TransactionOf(KIND_WITHDRAWAL, f) = Withdrawal(f[1], f[3], f[4], f[2])
         /\ TransactionOf(KIND_FORCED_WITHDRAWAL, f) = ForcedWithdrawal(f[1], f[2])
BY DEF TransactionOf, KIND_PAYMENT, KIND_DEPOSIT, KIND_WITHDRAWAL, KIND_FORCED_WITHDRAWAL

(* The fields of a transaction that are addresses are those it names. *)
LEMMA TransactionGrows ==
  ASSUME NEW seen, NEW c, NEW txn, NEW after, SpeltTransaction(seen, c, txn, after)
  PROVE  Grows(seen, after, Names(txn))
<1>1. PICK kind \in Kinds : \E cs, vs, seens :
        /\ FieldTrace(TransactionLayout(kind), cs, vs, seens)
        /\ seens[0] = seen /\ seens[Len(TransactionLayout(kind))] = after
        /\ c = <<kind>> \o Concat(cs)
        /\ txn = TransactionOf(kind, First(vs, Len(TransactionLayout(kind))))
  BY DEF SpeltTransaction
<1> DEFINE layout == TransactionLayout(kind)
           N == Len(layout)
           S == Names(txn)
<1>2. PICK cs, vs, seens :
        /\ FieldTrace(layout, cs, vs, seens) /\ seens[0] = seen /\ seens[N] = after
        /\ txn = TransactionOf(kind, First(vs, N))
  BY <1>1
<1>3. N \in Nat
  BY Layouts
<1>4. ASSUME \A n \in 1..N : layout[n] = "address" => vs[n] \in S
      PROVE  Grows(seen, after, S)
  <2> DEFINE T == {n \in 0..N : Grows(seen, seens[n], S)}
  <2>1. 0 \in T
    BY <1>2, <1>3 DEF Grows
  <2>2. ASSUME NEW n \in 0..(N - 1), n \in T PROVE n + 1 \in T
    <3>1. n + 1 \in 1..N /\ n + 1 \in 0..N /\ (n + 1) - 1 = n /\ n \in 0..N
      BY <1>3
    <3>2. seens[n] \in Seq(Word) /\ Spelt(layout[n + 1], seens[n], cs[n + 1], vs[n + 1], seens[n + 1])
      BY <1>2, <3>1 DEF FieldTrace
    <3>3. layout[n + 1] = "address" => vs[n + 1] \in S
      BY <1>4, <3>1
    <3>. HIDE DEF layout, S
    <3>4. Grows(seens[n], seens[n + 1], S)
      BY <3>2, <3>3, FieldGrows
    <3>5. Grows(seen, seens[n], S)
      BY <2>2
    <3>6. Grows(seen, seens[n + 1], S)
      BY <3>4, <3>5, GrowsOn
    <3>. QED BY <3>1, <3>6
  <2>. HIDE DEF T
  <2>3. \A n \in 0..N : n \in T
    BY <1>3, <2>1, <2>2, UpTo
  <2>. QED BY <1>2, <1>3, <2>3 DEF T
<1> DEFINE f == First(vs, N)
<1>5. \A n \in 1..N : f[n] = vs[n]
  BY DEF First
<1>. HIDE DEF f
<1>6. CASE kind = KIND_PAYMENT
  <2>1. layout = <<"address", "number", "address", "number">> /\ N = 4
    BY <1>6, LayoutIs
  <2>2. txn = Payment(f[1], f[3], f[4], f[2])
    BY <1>2, <1>6, TransactionIs DEF f
  <2>3. f[1] \in S /\ f[3] \in S
    BY <2>2 DEF Names, Payment
  <2>4. layout[2] # "address" /\ layout[4] # "address"
    BY <2>1
  <2>5. \A n \in 1..N : n = 1 \/ n = 2 \/ n = 3 \/ n = 4
    BY <2>1
  <2>6. 1 \in 1..N /\ 3 \in 1..N
    BY <2>1
  <2>. HIDE DEF layout, N, S
  <2>7. \A n \in 1..N : layout[n] = "address" => vs[n] \in S
    BY <1>5, <2>3, <2>4, <2>5, <2>6
  <2>8. Grows(seen, after, S)
    BY <1>4, <2>7
  <2>. QED BY <2>8 DEF S
<1>7. CASE kind = KIND_DEPOSIT
  <2>1. layout = <<"address", "number">> /\ N = 2
    BY <1>7, LayoutIs
  <2>2. txn = Deposit(f[1], f[2])
    BY <1>2, <1>7, TransactionIs DEF f
  <2>3. f[1] \in S
    BY <2>2 DEF Names, Deposit
  <2>4. layout[2] # "address"
    BY <2>1
  <2>5. \A n \in 1..N : n = 1 \/ n = 2
    BY <2>1
  <2>6. 1 \in 1..N
    BY <2>1
  <2>. HIDE DEF layout, N, S
  <2>7. \A n \in 1..N : layout[n] = "address" => vs[n] \in S
    BY <1>5, <2>3, <2>4, <2>5, <2>6
  <2>8. Grows(seen, after, S)
    BY <1>4, <2>7
  <2>. QED BY <2>8 DEF S
<1>8. CASE kind = KIND_WITHDRAWAL
  <2>1. layout = <<"address", "number", "recipient", "number">> /\ N = 4
    BY <1>8, LayoutIs
  <2>2. txn = Withdrawal(f[1], f[3], f[4], f[2])
    BY <1>2, <1>8, TransactionIs DEF f
  <2>3. f[1] \in S
    BY <2>2 DEF Names, Withdrawal
  <2>4. layout[2] # "address" /\ layout[3] # "address" /\ layout[4] # "address"
    BY <2>1
  <2>5. \A n \in 1..N : n = 1 \/ n = 2 \/ n = 3 \/ n = 4
    BY <2>1
  <2>6. 1 \in 1..N
    BY <2>1
  <2>. HIDE DEF layout, N, S
  <2>7. \A n \in 1..N : layout[n] = "address" => vs[n] \in S
    BY <1>5, <2>3, <2>4, <2>5, <2>6
  <2>8. Grows(seen, after, S)
    BY <1>4, <2>7
  <2>. QED BY <2>8 DEF S
<1>9. CASE kind = KIND_FORCED_WITHDRAWAL
  <2>1. layout = <<"address", "recipient">> /\ N = 2
    BY <1>9, LayoutIs
  <2>2. txn = ForcedWithdrawal(f[1], f[2])
    BY <1>2, <1>9, TransactionIs DEF f
  <2>3. f[1] \in S
    BY <2>2 DEF Names, ForcedWithdrawal
  <2>4. layout[2] # "address"
    BY <2>1
  <2>5. \A n \in 1..N : n = 1 \/ n = 2
    BY <2>1
  <2>6. 1 \in 1..N
    BY <2>1
  <2>. HIDE DEF layout, N, S
  <2>7. \A n \in 1..N : layout[n] = "address" => vs[n] \in S
    BY <1>5, <2>3, <2>4, <2>5, <2>6
  <2>8. Grows(seen, after, S)
    BY <1>4, <2>7
  <2>. QED BY <2>8 DEF S
<1>. QED BY <1>6, <1>7, <1>8, <1>9, KindsAre

(* After Batch::decode the dictionary holds nothing but what some transaction names as a
   rollup address. *)
LEMMA OnlyNames ==
  ASSUME NEW s \in Bytes, Good(Batch_decode(s))
  PROVE  \A i \in 1..Len(Batch_decode(s).seen) :
           \E k \in 1..Len(Batch_decode(s).out) :
             Batch_decode(s).seen[i] \in Names(Batch_decode(s).out[k])
<1>1. BatchSplit(s)
  BY BatchTaken
<1>2. PICK txns, a, cs, seens, N : SpeltBatch(s, txns, a, cs, seens, N)
  BY <1>1 DEF BatchSplit
<1> DEFINE e == << >>
<1>3. \E w : Batch_decode(s) = Rd(<< >>, w, seens[N], First(txns, N))
  <2>1. e \in Bytes
    BY NoBytes
  <2>. HIDE DEF e
  <2>2. e = << >> => \E w : Batch_decode(s) = Rd(<< >>, w, seens[N], First(txns, N))
    BY <1>2, <2>1, BatchReads
  <2>. QED BY <2>2 DEF e
<1>4. PICK w : Batch_decode(s) = Rd(<< >>, w, seens[N], First(txns, N))
  BY <1>3
<1> DEFINE read == Batch_decode(s)
<1>5. read.seen = seens[N] /\ read.out = First(txns, N)
  BY <1>4, RdIs
<1>6. BatchTrace(txns, cs, seens, N)
  BY <1>2 DEF SpeltBatch
<1>7. N \in Nat /\ seens[0] = << >>
  BY <1>6 DEF BatchTrace
<1> DEFINE Known(n) == \A i \in 1..Len(seens[n]) : \E k \in 1..n : seens[n][i] \in Names(txns[k])
           T == {n \in 0..N : Known(n)}
<1>8. 0 \in T
  <2>1. Len(seens[0]) = 0
    BY <1>7
  <2>. QED BY <1>7, <2>1
<1>9. ASSUME NEW n \in 0..(N - 1), n \in T PROVE n + 1 \in T
  <2>1. n + 1 \in 1..N /\ n + 1 \in 0..N /\ (n + 1) - 1 = n /\ n \in Nat
    BY <1>7
  <2>2. SpeltTransaction(seens[n], cs[n + 1], txns[n + 1], seens[n + 1])
    BY <1>6, <2>1 DEF BatchTrace
  <2>3. Grows(seens[n], seens[n + 1], Names(txns[n + 1]))
    BY <2>2, TransactionGrows
  <2>4. ASSUME NEW i \in 1..Len(seens[n + 1])
        PROVE  \E k \in 1..(n + 1) : seens[n + 1][i] \in Names(txns[k])
    <3>1. CASE i \in 1..Len(seens[n]) /\ seens[n + 1][i] = seens[n][i]
      <4>1. PICK k \in 1..n : seens[n][i] \in Names(txns[k])
        BY <1>9, <3>1
      <4>2. k \in 1..(n + 1)
        BY <2>1
      <4>. QED BY <3>1, <4>1, <4>2
    <3>2. CASE seens[n + 1][i] \in Names(txns[n + 1])
      <4>1. n + 1 \in 1..(n + 1)
        BY <2>1
      <4>. QED BY <3>2, <4>1
    <3>. QED BY <2>3, <3>1, <3>2 DEF Grows
  <2>. QED BY <2>1, <2>4
<1>. HIDE DEF T
<1>10. \A n \in 0..N : n \in T
  BY <1>7, <1>8, <1>9, UpTo
<1>11. Known(N)
  BY <1>7, <1>10 DEF T
<1>12. Len(First(txns, N)) = N /\ \A k \in 1..N : First(txns, N)[k] = txns[k]
  BY <1>7 DEF First
<1> DEFINE sn == seens[N]
           o == First(txns, N)
<1>. HIDE DEF read
<1>13. \A i \in 1..Len(read.seen) : \E k \in 1..Len(read.out) : read.seen[i] \in Names(read.out[k])
  <2>1. \A i \in 1..Len(sn) : \E k \in 1..Len(o) : sn[i] \in Names(o[k])
    BY <1>11, <1>12
  <2>. HIDE DEF sn, o
  <2>. QED BY <1>5, <2>1 DEF sn, o
<1>. QED BY <1>13 DEF read

-----------------------------------------------------------------------------
(* The writer, field by field. *)

FieldBytes(field, v) ==
  CASE field = "number"    -> put_varint(v)
    [] field = "recipient" -> v
    [] field = "scheme"    -> IdentifierOf[v]
    [] field = "bytes"     -> put_bytes(v)
    [] field = "account"   -> put_account(v)
    [] field = "siblings"  -> put_varint(Len(v)) \o Concat(v)
    [] field = "slot"      -> put_slot(v)

FieldChunk(field, seen, v) ==
  IF field # "address" THEN FieldBytes(field, v)
  ELSE IF Mentioned(seen, v) THEN put_varint(Position(seen, v))
  ELSE <<0>> \o v

FieldAfter(field, seen, v) ==
  IF field = "address" /\ ~Mentioned(seen, v) THEN Append(seen, v) ELSE seen

(* What each field is written as. *)
LEMMA FieldBytesIs ==
  ASSUME NEW v
  PROVE  /\ FieldBytes("number", v) = put_varint(v)
         /\ FieldBytes("recipient", v) = v
         /\ FieldBytes("scheme", v) = IdentifierOf[v]
         /\ FieldBytes("bytes", v) = put_bytes(v)
         /\ FieldBytes("account", v) = put_account(v)
         /\ FieldBytes("siblings", v) = put_varint(Len(v)) \o Concat(v)
         /\ FieldBytes("slot", v) = put_slot(v)
BY DEF FieldBytes

Writable(n) == Number(put_varint(n), n)

(* What a field can hold. *)
Typed(field, v) ==
  \/ field \in {"address", "recipient"} /\ v \in Word
  \/ field = "number" /\ Writable(v)
  \/ field = "scheme" /\ v \in Schemes
  \/ field = "bytes" /\ v \in Bytes /\ Writable(Len(v))
  \/ field = "account" /\ (v = NoAccount \/ Encodes(v))
  \/ field = "siblings" /\ v \in Seq(Word) /\ Len(v) <= DEPTH /\ Writable(Len(v))
  \/ field = "slot" /\ \/ v = OwnSlot
                       \/ /\ v.address \in Word /\ Encodes(v.account) /\ v # OwnSlot
                          /\ v = [address |-> v.address, account |-> v.account]

(* The mark of a literal is the number zero. *)
LEMMA ZeroIs == put_varint(0) = <<0>> /\ Number(<<0>>, 0)
<1>1. 0 \in Nat /\ 0 \in 0..MAX_U64
  BY Bases
<1>2. /\ put_varint(0) \in Bytes /\ Len(put_varint(0)) = Size(0)
      /\ \A i \in 1..Size(0) : /\ Payload(put_varint(0)[i]) = Digit(0, i)
                               /\ put_varint(0)[i] < BASE <=> i = Size(0)
  BY <1>1, Digits
<1>3. Size(0) \in 1..(0 + 1)
  BY <1>1, SizeIs
<1>4. Size(0) = 1
  BY <1>3
<1>5. /\ put_varint(0)[1] \in Byte /\ put_varint(0) = <<put_varint(0)[1]>>
  BY <1>2, <1>4, Single
<1>6. Payload(put_varint(0)[1]) = Digit(0, 1) /\ put_varint(0)[1] < BASE
  BY <1>2, <1>4
<1>7. put_varint(0)[1] = Digit(0, 1)
  BY <1>6 DEF Payload
<1>8. Digit(0, 1) = 0
  <2>1. /\ Digit(0, 1) \in Nat /\ Digit(0, 1) * Weight(BASE, 1 - 1) <= 0
    BY <1>1, DigitIs
  <2>2. Weight(BASE, 1 - 1) = 1
    BY WeightIs
  <2>. QED BY <2>1, <2>2
<1>9. put_varint(0) = <<0>>
  BY <1>5, <1>7, <1>8
<1>. QED BY <1>1, <1>9, NumberWritten

(* A position is one where the address is. *)
LEMMA PositionIs ==
  ASSUME NEW seen, NEW v, Mentioned(seen, v)
  PROVE  Position(seen, v) \in 1..Len(seen) /\ seen[Position(seen, v)] = v
BY DEF Mentioned, Position

(* What is written spells what it was written for. *)
LEMMA FieldWrites ==
  ASSUME NEW field \in Fields, NEW v, Typed(field, v),
         NEW seen \in Seq(Word), Len(seen) <= MAX_U64
  PROVE  Spelt(field, seen, FieldChunk(field, seen, v), v, FieldAfter(field, seen, v))
<1>1. CASE field = "address"
  <2>1. v \in Word
    BY <1>1 DEF Typed
  <2>2. CASE Mentioned(seen, v)
    <3>1. Position(seen, v) \in 1..Len(seen) /\ seen[Position(seen, v)] = v
      BY <2>2, PositionIs
    <3>2. Len(seen) \in Nat
      BY LenProperties
    <3>3. Position(seen, v) \in 0..MAX_U64
      BY <3>1, <3>2, Bases
    <3>4. Number(put_varint(Position(seen, v)), Position(seen, v))
      BY <3>3, NumberWritten
    <3>5. SpeltAddress(seen, put_varint(Position(seen, v)), v, seen)
      BY <3>1, <3>4 DEF SpeltAddress
    <3>. QED BY <1>1, <2>2, <3>5 DEF Spelt, FieldChunk, FieldAfter
  <2>3. CASE ~Mentioned(seen, v)
    <3>1. Number(<<0>>, 0) /\ <<0>> \in Bytes
      BY ZeroIs, Tags
    <3>2. SpeltAddress(seen, <<0>> \o v, v, Append(seen, v))
      BY <2>1, <3>1 DEF SpeltAddress
    <3>. QED BY <1>1, <2>3, <3>2 DEF Spelt, FieldChunk, FieldAfter
  <2>. QED BY <2>2, <2>3
<1>2. CASE field # "address"
  <2>1. FieldChunk(field, seen, v) = FieldBytes(field, v) /\ FieldAfter(field, seen, v) = seen
    BY <1>2 DEF FieldChunk, FieldAfter
  <2>2. CASE field = "number"
    BY <2>1, <2>2, FieldBytesIs DEF Typed, Spelt, Writable
  <2>3. CASE field = "recipient"
    BY <2>1, <2>3, FieldBytesIs DEF Typed, Spelt, SpeltRecipient
  <2>4. CASE field = "scheme"
    BY <2>1, <2>4, FieldBytesIs DEF Typed, Spelt, SpeltScheme
  <2>5. CASE field = "bytes"
    <3>1. v \in Bytes /\ Number(put_varint(Len(v)), Len(v))
      BY <2>5 DEF Typed, Writable
    <3>2. put_varint(Len(v)) \in Bytes
      BY <3>1 DEF Number
    <3>3. SpeltBytes(put_bytes(v), v)
      BY <3>1, <3>2 DEF SpeltBytes, put_bytes
    <3>. QED BY <2>1, <2>5, <3>3, FieldBytesIs DEF Spelt
  <2>6. CASE field = "account"
    <3>1. SpeltAccount(put_account(v), v)
      <4>1. CASE v = NoAccount
        BY <4>1 DEF put_account, SpeltAccount
      <4>2. CASE Encodes(v)
        BY <4>2 DEF put_account, SpeltAccount, Encodes
      <4>. QED BY <2>6, <4>1, <4>2 DEF Typed
    <3>. QED BY <2>1, <2>6, <3>1, FieldBytesIs DEF Spelt
  <2>7. CASE field = "siblings"
    <3>1. v \in Seq(Word) /\ Len(v) <= DEPTH /\ Number(put_varint(Len(v)), Len(v))
      BY <2>7 DEF Typed, Writable
    <3>2. put_varint(Len(v)) \in Bytes
      BY <3>1 DEF Number
    <3>3. SpeltSiblings(put_varint(Len(v)) \o Concat(v), v)
      BY <3>1, <3>2 DEF SpeltSiblings
    <3>. QED BY <2>1, <2>7, <3>3, FieldBytesIs DEF Spelt
  <2>8. CASE field = "slot"
    <3>1. SpeltSlot(put_slot(v), v)
      <4>1. CASE v = OwnSlot
        BY <4>1 DEF put_slot, SpeltSlot
      <4>2. CASE /\ v.address \in Word /\ Encodes(v.account) /\ v # OwnSlot
                 /\ v = [address |-> v.address, account |-> v.account]
        BY <4>2 DEF put_slot, SpeltSlot
      <4>. QED BY <2>8, <4>1, <4>2 DEF Typed
    <3>. QED BY <2>1, <2>8, <3>1, FieldBytesIs DEF Spelt
  <2>. QED BY <1>2, <2>2, <2>3, <2>4, <2>5, <2>6, <2>7, <2>8 DEF Fields
<1>. QED BY <1>1, <1>2

(* And what is read can be written. *)
LEMMA SpeltTyped ==
  ASSUME NEW field, NEW seen \in Seq(Word), NEW c, NEW v, NEW after,
         Spelt(field, seen, c, v, after)
  PROVE  Typed(field, v)
<1>1. CASE field = "address"
  <2>1. SpeltAddress(seen, c, v, after)
    BY <1>1 DEF Spelt
  <2>2. v \in Word
    BY <2>1, SpeltDictionary
  <2>. QED BY <1>1, <2>2 DEF Typed
<1>2. CASE field = "number"
  BY <1>2, NumberShortest DEF Spelt, Typed, Writable
<1>3. CASE field = "recipient"
  BY <1>3 DEF Spelt, Typed, SpeltRecipient
<1>4. CASE field = "scheme"
  BY <1>4 DEF Spelt, Typed, SpeltScheme
<1>5. CASE field = "bytes"
  <2>1. SpeltBytes(c, v)
    BY <1>5 DEF Spelt
  <2>2. PICK a \in Bytes : Number(a, Len(v))
    BY <2>1 DEF SpeltBytes
  <2>3. v \in Bytes /\ Writable(Len(v))
    BY <2>1, <2>2, NumberShortest DEF SpeltBytes, Writable
  <2>. QED BY <1>5, <2>3 DEF Typed
<1>6. CASE field = "account"
  BY <1>6 DEF Spelt, Typed, SpeltAccount
<1>7. CASE field = "siblings"
  <2>1. SpeltSiblings(c, v)
    BY <1>7 DEF Spelt
  <2>2. PICK a \in Bytes : Number(a, Len(v))
    BY <2>1 DEF SpeltSiblings
  <2>3. v \in Seq(Word) /\ Len(v) <= DEPTH /\ Writable(Len(v))
    BY <2>1, <2>2, NumberShortest DEF SpeltSiblings, Writable
  <2>. QED BY <1>7, <2>3 DEF Typed
<1>8. CASE field = "slot"
  <2>1. SpeltSlot(c, v)
    BY <1>8 DEF Spelt
  <2>. QED BY <1>8, <2>1 DEF Typed, SpeltSlot
<1>. QED BY <1>1, <1>2, <1>3, <1>4, <1>5, <1>6, <1>7, <1>8 DEF Spelt

(* A dictionary only grows, by one address at a time. *)
LEMMA FieldAdds ==
  ASSUME NEW field, NEW v, NEW seen \in Seq(Word), field = "address" => v \in Word
  PROVE  /\ FieldAfter(field, seen, v) \in Seq(Word)
         /\ Len(FieldAfter(field, seen, v)) <= Len(seen) + (IF field = "address" THEN 1 ELSE 0)
<1>1. Len(seen) \in Nat
  BY LenProperties
<1>2. CASE field = "address" /\ ~Mentioned(seen, v)
  <2>1. Append(seen, v) \in Seq(Word) /\ Len(Append(seen, v)) = Len(seen) + 1
    BY <1>2, AppendProperties
  <2>. QED BY <1>1, <1>2, <2>1 DEF FieldAfter
<1>3. CASE ~(field = "address" /\ ~Mentioned(seen, v))
  BY <1>1, <1>3 DEF FieldAfter
<1>. QED BY <1>2, <1>3

(* Reading, a new literal takes up its bytes. *)
LEMMA SpeltAdds ==
  ASSUME NEW field, NEW seen \in Seq(Word), NEW c, NEW v, NEW after,
         Spelt(field, seen, c, v, after)
  PROVE  Len(after) * (WORD + 1) <= Len(seen) * (WORD + 1) + Len(c)
<1> DEFINE Q == WORD + 1
<1>1. Len(seen) \in Nat /\ Q \in Nat /\ c \in Bytes /\ Len(c) \in Nat /\ WORD \in Nat
  <2>1. Spelt(field, seen, c, v, after) /\ << >> \in Bytes
    BY NoBytes
  <2>2. c \in Bytes
    BY <2>1, FieldReads
  <2>. QED BY <2>2, Bases, LenProperties DEF Bytes
<1>2. CASE after = seen
  <2> DEFINE x == Len(seen) * Q
  <2>1. x \in Nat
    BY <1>1, Products
  <2>. HIDE DEF x
  <2>2. x <= x + Len(c)
    BY <1>1, <2>1
  <2>. QED BY <1>2, <2>2 DEF x
<1>3. CASE after # seen
  <2>1. SpeltAddress(seen, c, v, after)
    BY <1>3 DEF Spelt
  <2>2. v \in Word /\ after = Append(seen, v)
    BY <1>3, <2>1 DEF SpeltAddress
  <2>3. PICK a \in Bytes : Number(a, 0) /\ c = a \o v
    BY <1>3, <2>1 DEF SpeltAddress
  <2>4. v \in Bytes /\ Len(v) = WORD
    BY <2>2, WordIs
  <2>5. Len(a) >= 1
    BY <2>3 DEF Number
  <2>6. Len(a \o v) = Len(a) + Len(v) /\ Len(a) \in Nat
    BY <2>3, <2>4, BytesJoined
  <2>7. Len(c) >= Q
    BY <1>1, <2>3, <2>4, <2>5, <2>6
  <2>8. Len(after) = Len(seen) + 1
    BY <2>2, AppendProperties
  <2>9. (Len(seen) + 1) * Q = Len(seen) * Q + Q
    BY <1>1, Bases
  <2> DEFINE x == Len(seen) * Q
  <2>10. x \in Nat
    BY <1>1, Products
  <2>11. Len(after) * Q = x + Q
    BY <2>8, <2>9
  <2>. HIDE DEF x, Q
  <2>12. Len(after) * Q <= x + Len(c)
    BY <1>1, <2>7, <2>10, <2>11
  <2>. QED BY <2>12 DEF x, Q
<1>. QED BY <1>2, <1>3

-----------------------------------------------------------------------------
(* The fields of a transaction or of an entry, written one after another. *)

SeenBy(layout, vs, seen) ==
  LET by[n \in 0..Len(layout)] ==
        IF n = 0 THEN seen ELSE FieldAfter(layout[n], by[n - 1], vs[n])
  IN by

(* The writer's dictionary, one field after another. *)
LEMMA SeenByIs ==
  ASSUME NEW layout, Len(layout) \in Nat, NEW vs, NEW seen
  PROVE  LET f == SeenBy(layout, vs, seen)
         IN f[0] = seen /\ \A n \in 1..Len(layout) : f[n] = FieldAfter(layout[n], f[n - 1], vs[n])
<1> DEFINE Turn(n, x) == FieldAfter(layout[n], x, vs[n])
           N == Len(layout)
           f == SeenBy(layout, vs, seen)
<1>1. \E g : Falls(Turn, g, N, seen)
  <2>. HIDE DEF Turn, N
  <2>1. N \in Nat
    BY DEF N
  <2>. QED BY <2>1, FallsExists, SMTT(30)
<1>2. f = [n \in 0..N |-> IF n = 0 THEN seen ELSE FieldAfter(layout[n], f[n - 1], vs[n])]
  BY <1>1 DEF Falls, SeenBy
<1>. HIDE DEF f
<1>3. f[0] = seen /\ \A n \in 1..N : f[n] = FieldAfter(layout[n], f[n - 1], vs[n])
  BY <1>2
<1>. QED BY <1>3 DEF f

Chunks(layout, vs, seen) ==
  [n \in 1..Len(layout) |-> FieldChunk(layout[n], SeenBy(layout, vs, seen)[n - 1], vs[n])]

(* The bytes of the fields, one after another. *)
LEMMA ChunksAre ==
  ASSUME NEW layout, Len(layout) \in Nat, NEW vs, NEW seen
  PROVE  /\ Len(Chunks(layout, vs, seen)) = Len(layout)
         /\ \A n \in 1..Len(layout) :
              Chunks(layout, vs, seen)[n]
                = FieldChunk(layout[n], SeenBy(layout, vs, seen)[n - 1], vs[n])
<1> DEFINE N == Len(layout)
           g(n) == FieldChunk(layout[n], SeenBy(layout, vs, seen)[n - 1], vs[n])
           d == [n \in 1..N |-> g(n)]
<1>. HIDE DEF g
<1>1. N \in Nat
  OBVIOUS
<1>. HIDE DEF N
<1>2. Len(d) = N /\ \A n \in 1..N : d[n] = g(n)
  BY <1>1
<1>. QED BY <1>2 DEF d, g, N, Chunks

(* The writer's dictionary holds addresses. *)
LEMMA SeenByWords ==
  ASSUME NEW layout, Len(layout) \in Nat, NEW vs, NEW seen \in Seq(Word),
         \A n \in 1..Len(layout) : layout[n] = "address" => vs[n] \in Word
  PROVE  \A n \in 0..Len(layout) : SeenBy(layout, vs, seen)[n] \in Seq(Word)
<1> DEFINE f == SeenBy(layout, vs, seen)
           N == Len(layout)
           T == {n \in 0..N : f[n] \in Seq(Word)}
<1>1. f[0] = seen /\ \A n \in 1..N : f[n] = FieldAfter(layout[n], f[n - 1], vs[n])
  BY SeenByIs
<1>. HIDE DEF f
<1>2. N \in Nat
  OBVIOUS
<1>3. 0 \in T
  BY <1>1, <1>2
<1>4. \A n \in 0..(N - 1) : n \in T => n + 1 \in T
  <2>. SUFFICES ASSUME NEW n \in 0..(N - 1), n \in T PROVE n + 1 \in T
    OBVIOUS
  <2>1. n + 1 \in 1..N /\ (n + 1) - 1 = n /\ n \in 0..N /\ n + 1 \in 0..N
    BY <1>2
  <2> DEFINE m == n + 1
  <2>2. f[m] = FieldAfter(layout[m], f[n], vs[m])
    BY <1>1, <2>1
  <2>3. layout[m] = "address" => vs[m] \in Word
    BY <2>1
  <2>4. f[n] \in Seq(Word)
    OBVIOUS
  <2>. HIDE DEF m, T
  <2>5. f[m] \in Seq(Word)
    BY <2>2, <2>3, <2>4, FieldAdds
  <2>. QED BY <2>1, <2>5 DEF T, m
<1>. HIDE DEF T
<1>5. \A n \in 0..N : n \in T
  BY <1>2, <1>3, <1>4, UpTo
<1>. QED BY <1>5 DEF T, f

(* The fields written one after another spell their values. *)
LEMMA FieldsWrite ==
  ASSUME NEW layout, Len(layout) \in Nat, NEW vs, NEW seen \in Seq(Word),
         \A n \in 1..Len(layout) : layout[n] \in Fields /\ Typed(layout[n], vs[n]),
         \A n \in 0..Len(layout) : Len(SeenBy(layout, vs, seen)[n]) <= MAX_U64
  PROVE  FieldTrace(layout, Chunks(layout, vs, seen), vs, SeenBy(layout, vs, seen))
<1> DEFINE f == SeenBy(layout, vs, seen)
           d == Chunks(layout, vs, seen)
           N == Len(layout)
<1>1. f[0] = seen /\ \A n \in 1..N : f[n] = FieldAfter(layout[n], f[n - 1], vs[n])
  BY SeenByIs
<1>2. Len(d) = N /\ \A n \in 1..N : d[n] = FieldChunk(layout[n], f[n - 1], vs[n])
  BY ChunksAre
<1>3. \A n \in 1..N : layout[n] = "address" => vs[n] \in Word
  BY DEF Typed
<1>4. \A n \in 0..N : f[n] \in Seq(Word)
  BY <1>3, SeenByWords
<1>5. \A n \in 0..N : Len(f[n]) <= MAX_U64
  OBVIOUS
<1>6. \A n \in 1..N : layout[n] \in Fields /\ Typed(layout[n], vs[n])
  OBVIOUS
<1>. HIDE DEF f, d
<1>7. ASSUME NEW n \in 1..N
      PROVE  d[n] \in Bytes /\ Spelt(layout[n], f[n - 1], d[n], vs[n], f[n])
  <2>1. n - 1 \in 0..N
    OBVIOUS
  <2> DEFINE field == layout[n]
             v == vs[n]
             w == f[n - 1]
  <2>2. w \in Seq(Word) /\ Len(w) <= MAX_U64 /\ field \in Fields /\ Typed(field, v)
    BY <1>4, <1>5, <1>6, <2>1
  <2>3. d[n] = FieldChunk(field, w, v) /\ f[n] = FieldAfter(field, w, v)
    BY <1>1, <1>2
  <2>. HIDE DEF field, v, w
  <2>4. Spelt(field, w, FieldChunk(field, w, v), v, FieldAfter(field, w, v))
    BY <2>2, FieldWrites
  <2>5. << >> \in Bytes
    BY NoBytes
  <2>6. FieldChunk(field, w, v) \in Bytes
    BY <2>2, <2>4, <2>5, FieldReads
  <2>. QED BY <2>3, <2>4, <2>6 DEF field, v, w
<1>8. FieldTrace(layout, d, vs, f)
  BY <1>2, <1>4, <1>7 DEF FieldTrace
<1>. QED BY <1>8 DEF d, f

-----------------------------------------------------------------------------
(* put_transaction. *)
W(buf, seen) == [buf |-> buf, seen |-> seen]

(* What becomes of a buffer: it is extended, or an address is put. *)
LEMMA WIs ==
  ASSUME NEW buf, NEW seen, NEW v
  PROVE  /\ W(buf, seen).buf = buf /\ W(buf, seen).seen = seen
         /\ Extend(W(buf, seen), v) = W(buf \o v, seen)
         /\ Dictionary_put(W(buf, seen), v)
              = W(IF Mentioned(seen, v) THEN buf \o put_varint(Position(seen, v))
                  ELSE buf \o <<0>> \o v,
                  FieldAfter("address", seen, v))
BY DEF W, Extend, Dictionary_put, FieldAfter

(* Dictionary::put writes an address, or a reference to it. *)
LEMMA DictionaryPut ==
  ASSUME NEW buf \in Bytes, NEW seen, NEW v \in Word
  PROVE  Dictionary_put(W(buf, seen), v)
           = W(buf \o FieldChunk("address", seen, v), FieldAfter("address", seen, v))
<1> DEFINE z == <<0>>
<1>1. z \in Bytes /\ v \in Bytes
  BY Tags, WordIs
<1>. HIDE DEF z
<1>2. (buf \o z) \o v = buf \o (z \o v)
  BY <1>1, Regrouped
<1>3. (buf \o <<0>>) \o v = buf \o (<<0>> \o v)
  BY <1>2 DEF z
<1>4. CASE Mentioned(seen, v)
  <2>1. Dictionary_put(W(buf, seen), v)
          = W(buf \o put_varint(Position(seen, v)), FieldAfter("address", seen, v))
    BY <1>4, WIs
  <2>. QED BY <1>4, <2>1 DEF FieldChunk
<1>5. CASE ~Mentioned(seen, v)
  <2>1. Dictionary_put(W(buf, seen), v)
          = W((buf \o <<0>>) \o v, FieldAfter("address", seen, v))
    BY <1>5, WIs
  <2>. QED BY <1>3, <1>5, <2>1 DEF FieldChunk
<1>. QED BY <1>4, <1>5

(* Strings joined behind what is written already. *)
Behinds(b, k, j, d) == b \o (k \o (j \o d)) = (b \o (k \o j)) \o d

(* Strings can be joined behind what is written from either end. *)
LEMMA Behind ==
  ASSUME NEW b \in Bytes, NEW k \in Bytes, NEW j \in Bytes, NEW d \in Bytes
  PROVE  Behinds(b, k, j, d)
<1> DEFINE kj == k \o j
           jd == j \o d
<1>1. kj \o d = k \o jd
  BY Regrouped
<1>2. kj \in Bytes
  BY BytesJoined
<1>. HIDE DEF kj, jd
<1>3. (b \o kj) \o d = b \o (kj \o d)
  BY <1>2, Regrouped
<1>4. (b \o kj) \o d = b \o (k \o jd)
  BY <1>1, <1>3
<1>. QED BY <1>4 DEF kj, jd, Behinds

(* Nothing behind a string leaves it as it is. *)
LEMMA BehindNothing ==
  ASSUME NEW k \in Bytes
  PROVE  k \o << >> = k
BY DEF Bytes

Put(b, k, ds, n) == b \o (k \o Joint(ds)[n])

(* Strings written behind others, one after another. *)
LEMMA PutIs ==
  ASSUME NEW b \in Bytes, NEW k \in Bytes, NEW ds, Len(ds) \in Nat,
         \A n \in 1..Len(ds) : ds[n] \in Bytes
  PROVE  /\ Put(b, k, ds, 0) = b \o k /\ b \o (k \o Concat(ds)) = Put(b, k, ds, Len(ds))
         /\ \A n \in 1..Len(ds) : Put(b, k, ds, n) = Put(b, k, ds, n - 1) \o ds[n]
         /\ \A n \in 0..Len(ds) : Put(b, k, ds, n) \in Bytes
<1>1. /\ Joint(ds)[0] = << >> /\ Concat(ds) = Joint(ds)[Len(ds)]
      /\ \A n \in 1..Len(ds) : Joint(ds)[n] = Joint(ds)[n - 1] \o ds[n]
  BY JointIs
<1>2. \A n \in 0..Len(ds) : Joint(ds)[n] \in Bytes
  BY JointBytes
<1>3. Put(b, k, ds, 0) = b \o k
  <2>1. k \o << >> = k
    BY BehindNothing
  <2>. QED BY <1>1, <2>1 DEF Put
<1>4. b \o (k \o Concat(ds)) = Put(b, k, ds, Len(ds))
  BY <1>1 DEF Put
<1>5. ASSUME NEW n \in 1..Len(ds)
      PROVE  Put(b, k, ds, n) = Put(b, k, ds, n - 1) \o ds[n]
  <2> DEFINE j == Joint(ds)[n - 1]
             d == ds[n]
  <2>1. Joint(ds)[n] = j \o d /\ d \in Bytes
    BY <1>1
  <2>2. j \in Bytes
    <3>1. n - 1 \in 0..Len(ds)
      OBVIOUS
    <3>. QED BY <1>2, <3>1
  <2>. HIDE DEF j, d
  <2>3. Behinds(b, k, j, d)
    <3>1. d \in Bytes
      BY <2>1
    <3>. QED BY <2>2, <3>1, Behind
  <2>4. b \o (k \o Joint(ds)[n]) = (b \o (k \o j)) \o d
    BY <2>1, <2>3 DEF Behinds
  <2>. QED BY <2>4 DEF j, d, Put
<1>6. ASSUME NEW n \in 0..Len(ds)
      PROVE  Put(b, k, ds, n) \in Bytes
  <2> DEFINE j == Joint(ds)[n]
  <2>1. j \in Bytes
    BY <1>2
  <2>. HIDE DEF j
  <2>2. k \o j \in Bytes
    BY <2>1, BytesJoined
  <2> DEFINE kj == k \o j
  <2>. HIDE DEF kj
  <2>3. kj \in Bytes
    BY <2>2 DEF kj
  <2>4. b \o kj \in Bytes
    BY <2>3, BytesJoined
  <2>. QED BY <2>4 DEF kj, j, Put
<1>. QED BY <1>3, <1>4, <1>5, <1>6

(* A transaction has two fields or four, and an address first. *)
LEMMA LayoutLengths ==
  ASSUME NEW kind \in Kinds
  PROVE  /\ Len(TransactionLayout(kind)) \in {2, 4} /\ TransactionLayout(kind)[1] = "address"
         /\ \/ kind = KIND_PAYMENT \/ kind = KIND_DEPOSIT \/ kind = KIND_WITHDRAWAL
            \/ kind = KIND_FORCED_WITHDRAWAL
         /\ kind = KIND_PAYMENT \/ kind = KIND_WITHDRAWAL <=> Len(TransactionLayout(kind)) = 4
<1>1. \/ kind = KIND_PAYMENT \/ kind = KIND_DEPOSIT \/ kind = KIND_WITHDRAWAL
      \/ kind = KIND_FORCED_WITHDRAWAL
  BY KindsAre
<1>2. CASE kind = KIND_PAYMENT
  BY <1>2, LayoutIs DEF KIND_PAYMENT, KIND_DEPOSIT, KIND_WITHDRAWAL, KIND_FORCED_WITHDRAWAL
<1>3. CASE kind = KIND_DEPOSIT
  BY <1>3, LayoutIs DEF KIND_PAYMENT, KIND_DEPOSIT, KIND_WITHDRAWAL, KIND_FORCED_WITHDRAWAL
<1>4. CASE kind = KIND_WITHDRAWAL
  BY <1>4, LayoutIs DEF KIND_PAYMENT, KIND_DEPOSIT, KIND_WITHDRAWAL, KIND_FORCED_WITHDRAWAL
<1>5. CASE kind = KIND_FORCED_WITHDRAWAL
  BY <1>5, LayoutIs DEF KIND_PAYMENT, KIND_DEPOSIT, KIND_WITHDRAWAL, KIND_FORCED_WITHDRAWAL
<1>. QED BY <1>1, <1>2, <1>3, <1>4, <1>5

(* A transaction names two addresses at most. *)
LEMMA RoomFor ==
  ASSUME NEW kind \in Kinds, NEW vs, NEW seen \in Seq(Word),
         \A n \in 1..Len(TransactionLayout(kind)) : Typed(TransactionLayout(kind)[n], vs[n])
  PROVE  \A n \in 0..Len(TransactionLayout(kind)) :
           Len(SeenBy(TransactionLayout(kind), vs, seen)[n]) <= Len(seen) + 2
<1> DEFINE L == TransactionLayout(kind)
           f == SeenBy(L, vs, seen)
<1>1. Len(L) \in {2, 4} /\ Len(L) \in Nat
  BY LayoutLengths
<1>2. \A n \in 1..Len(L) : L[n] = "address" => vs[n] \in Word
  BY DEF Typed
<1>. HIDE DEF L
<1>3. f[0] = seen /\ \A n \in 1..Len(L) : f[n] = FieldAfter(L[n], f[n - 1], vs[n])
  BY <1>1, SeenByIs
<1>4. \A n \in 0..Len(L) : f[n] \in Seq(Word)
  BY <1>1, <1>2, SeenByWords
<1>. HIDE DEF f
<1>5. \A n \in 0..Len(L) : Len(f[n]) \in Nat
  BY <1>4, LenProperties
<1>6. ASSUME NEW n \in 1..Len(L)
      PROVE  /\ Len(f[n]) <= Len(f[n - 1]) + 1
             /\ L[n] # "address" => f[n] = f[n - 1]
  <2>1. n - 1 \in 0..Len(L)
    BY <1>1
  <2> DEFINE w == f[n - 1]
             field == L[n]
             v == vs[n]
  <2>2. f[n] = FieldAfter(field, w, v) /\ (field = "address" => v \in Word) /\ w \in Seq(Word)
    BY <1>2, <1>3, <1>4, <2>1
  <2>. HIDE DEF w, field, v
  <2>3. Len(FieldAfter(field, w, v)) <= Len(w) + (IF field = "address" THEN 1 ELSE 0)
    BY <2>2, FieldAdds
  <2>4. Len(w) \in Nat
    BY <2>2, LenProperties
  <2>5. Len(FieldAfter(field, w, v)) <= Len(w) + 1
    BY <2>3, <2>4 DEF FieldAfter
  <2>6. field # "address" => FieldAfter(field, w, v) = w
    BY DEF FieldAfter
  <2>. QED BY <2>2, <2>5, <2>6 DEF w, field
<1>7. CASE Len(L) = 2
  <2>1. Len(f[1]) <= Len(f[0]) + 1 /\ Len(f[2]) <= Len(f[1]) + 1 /\ f[0] = seen
        /\ Len(f[0]) \in Nat /\ Len(f[1]) \in Nat /\ Len(f[2]) \in Nat
    BY <1>3, <1>5, <1>6, <1>7
  <2>. QED BY <1>7, <2>1 DEF f, L
<1>8. CASE Len(L) = 4
  <2>1. L[2] = "number" /\ L[4] = "number"
    BY <1>8, LayoutLengths, LayoutIs DEF L
  <2>2. /\ Len(f[1]) <= Len(f[0]) + 1 /\ f[2] = f[1] /\ Len(f[3]) <= Len(f[2]) + 1
        /\ f[4] = f[3] /\ f[0] = seen
        /\ Len(f[0]) \in Nat /\ Len(f[1]) \in Nat /\ Len(f[2]) \in Nat /\ Len(f[3]) \in Nat
    BY <1>3, <1>5, <1>6, <1>8, <2>1
  <2>3. \A n \in 0..4 : n = 0 \/ n = 1 \/ n = 2 \/ n = 3 \/ n = 4
    OBVIOUS
  <2>. QED BY <1>8, <2>2, <2>3 DEF f, L
<1>. QED BY <1>1, <1>7, <1>8

(* How the writer goes from field to field. *)
Puts(buf, k, layout, vs, seen, n) ==
  W(Put(buf, k, Chunks(layout, vs, seen), n), SeenBy(layout, vs, seen)[n])

(* Each put or extension of a buffer writes the next field. *)
LEMMA PutsIs ==
  ASSUME NEW buf \in Bytes, NEW k \in Bytes, NEW layout, Len(layout) \in Nat, NEW vs,
         NEW seen, FieldTrace(layout, Chunks(layout, vs, seen), vs, SeenBy(layout, vs, seen))
  PROVE  /\ Puts(buf, k, layout, vs, seen, 0) = W(buf \o k, seen)
         /\ Puts(buf, k, layout, vs, seen, Len(layout))
              = W(buf \o (k \o Concat(Chunks(layout, vs, seen))),
                  SeenBy(layout, vs, seen)[Len(layout)])
         /\ \A n \in 1..Len(layout) :
              /\ layout[n] = "address" /\ vs[n] \in Word =>
                   Dictionary_put(Puts(buf, k, layout, vs, seen, n - 1), vs[n])
                     = Puts(buf, k, layout, vs, seen, n)
              /\ layout[n] # "address" =>
                   Extend(Puts(buf, k, layout, vs, seen, n - 1), FieldBytes(layout[n], vs[n]))
                     = Puts(buf, k, layout, vs, seen, n)
<1> DEFINE d == Chunks(layout, vs, seen)
           f == SeenBy(layout, vs, seen)
           z(n) == Put(buf, k, d, n)
           N == Len(layout)
<1>1. Len(d) = N /\ \A n \in 1..N : d[n] = FieldChunk(layout[n], f[n - 1], vs[n])
  BY ChunksAre
<1>2. f[0] = seen /\ \A n \in 1..N : f[n] = FieldAfter(layout[n], f[n - 1], vs[n])
  BY SeenByIs
<1>3. \A n \in 1..N : d[n] \in Bytes
  BY DEF FieldTrace
<1>4. N \in Nat
  OBVIOUS
<1>. HIDE DEF d, f, N
<1>5. Len(d) \in Nat /\ \A n \in 1..Len(d) : d[n] \in Bytes
  BY <1>1, <1>3, <1>4
<1>6. /\ Put(buf, k, d, 0) = buf \o k /\ buf \o (k \o Concat(d)) = Put(buf, k, d, Len(d))
      /\ \A n \in 1..Len(d) : Put(buf, k, d, n) = Put(buf, k, d, n - 1) \o d[n]
      /\ \A n \in 0..Len(d) : Put(buf, k, d, n) \in Bytes
  BY <1>5, PutIs
<1>7. /\ z(0) = buf \o k /\ buf \o (k \o Concat(d)) = z(N)
      /\ \A n \in 1..N : z(n) = z(n - 1) \o d[n]
      /\ \A n \in 0..N : z(n) \in Bytes
  BY <1>1, <1>6
<1>. HIDE DEF z
<1>8. ASSUME NEW n \in 1..N
      PROVE  /\ layout[n] = "address" /\ vs[n] \in Word =>
                  Dictionary_put(W(z(n - 1), f[n - 1]), vs[n]) = W(z(n), f[n])
             /\ layout[n] # "address" =>
                  Extend(W(z(n - 1), f[n - 1]), FieldBytes(layout[n], vs[n])) = W(z(n), f[n])
  <2> DEFINE b == z(n - 1)
             s == f[n - 1]
             v == vs[n]
             field == layout[n]
  <2>1. n - 1 \in 0..N
    BY <1>4
  <2>2. b \in Bytes
    BY <1>7, <2>1
  <2>3. z(n) = b \o FieldChunk(field, s, v) /\ f[n] = FieldAfter(field, s, v)
    BY <1>1, <1>2, <1>7
  <2>. HIDE DEF b, s, v, field
  <2>4. CASE field = "address"
    <3>1. ASSUME v \in Word
          PROVE  Dictionary_put(W(b, s), v)
                   = W(b \o FieldChunk("address", s, v), FieldAfter("address", s, v))
      BY <2>2, <3>1, DictionaryPut
    <3>. QED BY <2>3, <2>4, <3>1 DEF b, s, v, field
  <2>5. CASE field # "address"
    <3>1. FieldChunk(field, s, v) = FieldBytes(field, v) /\ FieldAfter(field, s, v) = s
      BY <2>5 DEF FieldChunk, FieldAfter
    <3>2. Extend(W(b, s), FieldBytes(field, v)) = W(b \o FieldBytes(field, v), s)
      BY WIs
    <3>. QED BY <2>3, <2>5, <3>1, <3>2 DEF b, s, v, field
  <2>. QED BY <2>4, <2>5
<1>9. \A n : Puts(buf, k, layout, vs, seen, n) = W(z(n), f[n])
  BY DEF Puts, z, d, f
<1>10. /\ W(z(0), f[0]) = W(buf \o k, seen)
       /\ W(z(N), f[N]) = W(buf \o (k \o Concat(d)), f[N])
  BY <1>2, <1>7
<1>11. /\ Puts(buf, k, layout, vs, seen, 0) = W(buf \o k, seen)
       /\ Puts(buf, k, layout, vs, seen, N) = W(buf \o (k \o Concat(d)), f[N])
  BY <1>9, <1>10
<1>12. ASSUME NEW n \in 1..N
       PROVE  /\ layout[n] = "address" /\ vs[n] \in Word =>
                   Dictionary_put(Puts(buf, k, layout, vs, seen, n - 1), vs[n])
                     = Puts(buf, k, layout, vs, seen, n)
              /\ layout[n] # "address" =>
                   Extend(Puts(buf, k, layout, vs, seen, n - 1), FieldBytes(layout[n], vs[n]))
                     = Puts(buf, k, layout, vs, seen, n)
  BY <1>8, <1>9
<1>. QED BY <1>11, <1>12 DEF N, d, f

(* put_transaction, for each kind. *)
LEMMA PutIsByKind ==
  ASSUME NEW w, NEW a, NEW b, NEW x, NEW y
  PROVE  /\ put_transaction(w, Payment(a, b, x, y))
              = Extend(Dictionary_put(Extend(Dictionary_put(Extend(w, <<KIND_PAYMENT>>), a),
                                             put_varint(y)), b), put_varint(x))
         /\ put_transaction(w, Deposit(a, x))
              = Extend(Dictionary_put(Extend(w, <<KIND_DEPOSIT>>), a), put_varint(x))
         /\ put_transaction(w, Withdrawal(a, b, x, y))
              = Extend(Dictionary_put(Extend(w, <<KIND_WITHDRAWAL>>), a),
                       put_varint(y) \o b \o put_varint(x))
BY DEF put_transaction, Payment, Deposit, Withdrawal

(* put_transaction, for a forced withdrawal. *)
LEMMA PutForced ==
  ASSUME NEW w, NEW a, NEW b
  PROVE  put_transaction(w, ForcedWithdrawal(a, b))
           = Extend(Dictionary_put(Extend(w, <<KIND_FORCED_WITHDRAWAL>>), a), b)
BY DEF put_transaction, ForcedWithdrawal

(* Three strings written at once are written one after another. *)
LEMMA ExtendThrice ==
  ASSUME NEW w, w.buf \in Bytes, NEW a \in Bytes, NEW b \in Bytes, NEW c \in Bytes
  PROVE  Extend(w, a \o b \o c) = Extend(Extend(Extend(w, a), b), c)
<1> DEFINE x == w.buf
           ab == a \o b
           xa == x \o a
<1>1. x \in Bytes
  OBVIOUS
<1>. HIDE DEF x
<1>2. ab \in Bytes
  BY BytesJoined
<1>3. xa \o b = x \o ab
  BY <1>1, Regrouped
<1>. HIDE DEF ab, xa
<1>4. (x \o ab) \o c = x \o (ab \o c)
  BY <1>1, <1>2, Regrouped
<1>5. (xa \o b) \o c = x \o (ab \o c)
  BY <1>3, <1>4
<1>6. ((x \o a) \o b) \o c = x \o ((a \o b) \o c)
  BY <1>5 DEF ab, xa
<1>. QED BY <1>6 DEF Extend, x

(* put_transaction writes the kind, and then the fields. *)
LEMMA TransactionPut ==
  ASSUME NEW kind \in Kinds, NEW vs, NEW seen \in Seq(Word),
         \A n \in 1..Len(TransactionLayout(kind)) : Typed(TransactionLayout(kind)[n], vs[n]),
         \A n \in 0..Len(TransactionLayout(kind)) :
           Len(SeenBy(TransactionLayout(kind), vs, seen)[n]) <= MAX_U64,
         NEW buf \in Bytes
  PROVE  LET L == TransactionLayout(kind)
         IN /\ FieldTrace(L, Chunks(L, vs, seen), vs, SeenBy(L, vs, seen))
            /\ put_transaction(W(buf, seen), TransactionOf(kind, First(vs, Len(L))))
                 = W(buf \o (<<kind>> \o Concat(Chunks(L, vs, seen))),
                     SeenBy(L, vs, seen)[Len(L)])
<1> DEFINE L == TransactionLayout(kind)
           k == <<kind>>
           p(n) == Puts(buf, k, L, vs, seen, n)
           txn == TransactionOf(kind, First(vs, Len(L)))
<1>1. Len(L) \in {2, 4} /\ Len(L) \in Nat /\ \A n \in 1..Len(L) : L[n] \in Fields
  BY LayoutLengths, Layouts
<1>3. \A n \in 1..Len(L) : Typed(L[n], vs[n])
  OBVIOUS
<1>4. k \in Bytes
  BY KindsAre DEF Bytes
<1>5. \/ kind = KIND_PAYMENT \/ kind = KIND_DEPOSIT \/ kind = KIND_WITHDRAWAL
      \/ kind = KIND_FORCED_WITHDRAWAL
  BY KindsAre
<1>. HIDE DEF L
<1>6. \A n \in 0..Len(L) : Len(SeenBy(L, vs, seen)[n]) <= MAX_U64
  BY DEF L
<1>7. FieldTrace(L, Chunks(L, vs, seen), vs, SeenBy(L, vs, seen))
  BY <1>1, <1>3, <1>6, FieldsWrite
<1>. HIDE DEF k
<1>8. /\ p(0) = W(buf \o k, seen)
      /\ p(Len(L)) = W(buf \o (k \o Concat(Chunks(L, vs, seen))), SeenBy(L, vs, seen)[Len(L)])
      /\ \A n \in 1..Len(L) :
           /\ L[n] = "address" /\ vs[n] \in Word =>
                Dictionary_put(p(n - 1), vs[n]) = p(n)
           /\ L[n] # "address" =>
                Extend(p(n - 1), FieldBytes(L[n], vs[n])) = p(n)
  BY <1>1, <1>4, <1>7, PutsIs
<1>. HIDE DEF p
<1>9. Extend(W(buf, seen), k) = p(0)
  BY <1>8, WIs
<1>10. \A n \in 1..Len(L) : L[n] \in {"address", "recipient"} => vs[n] \in Word
  BY <1>3 DEF Typed
<1>11. CASE kind = KIND_PAYMENT
  <2>1. L = <<"address", "number", "address", "number">> /\ Len(L) = 4
    BY <1>11, LayoutIs DEF L
  <2>2. L[1] = "address" /\ L[2] = "number" /\ L[3] = "address" /\ L[4] = "number"
    BY <2>1
  <2>3. txn = Payment(vs[1], vs[3], vs[4], vs[2])
    <3>1. First(vs, 4)[1] = vs[1] /\ First(vs, 4)[2] = vs[2] /\ First(vs, 4)[3] = vs[3]
          /\ First(vs, 4)[4] = vs[4]
      BY DEF First
    <3>. QED BY <1>11, <2>1, <3>1, TransactionIs
  <2>4. /\ Dictionary_put(p(0), vs[1]) = p(1) /\ Dictionary_put(p(2), vs[3]) = p(3)
        /\ Extend(p(1), put_varint(vs[2])) = p(2) /\ Extend(p(3), put_varint(vs[4])) = p(4)
    <3>1. 1 \in 1..Len(L) /\ 2 \in 1..Len(L) /\ 3 \in 1..Len(L) /\ 4 \in 1..Len(L)
          /\ 1 - 1 = 0 /\ 2 - 1 = 1 /\ 3 - 1 = 2 /\ 4 - 1 = 3
      BY <2>1
    <3>2. "number" # "address"
      OBVIOUS
    <3>3. vs[1] \in Word /\ vs[3] \in Word
      BY <1>10, <2>2, <3>1
    <3>4. Dictionary_put(p(1 - 1), vs[1]) = p(1) /\ Dictionary_put(p(3 - 1), vs[3]) = p(3)
      BY <1>8, <2>2, <3>1, <3>3
    <3>5. /\ Extend(p(2 - 1), FieldBytes(L[2], vs[2])) = p(2)
          /\ Extend(p(4 - 1), FieldBytes(L[4], vs[4])) = p(4)
      BY <1>8, <2>2, <3>1, <3>2
    <3>6. /\ FieldBytes("number", vs[2]) = put_varint(vs[2])
          /\ FieldBytes("number", vs[4]) = put_varint(vs[4])
      BY FieldBytesIs
    <3>. QED BY <2>2, <3>1, <3>4, <3>5, <3>6
  <2>5. <<KIND_PAYMENT>> = k
    BY <1>11 DEF k
  <2>6. put_transaction(W(buf, seen), Payment(vs[1], vs[3], vs[4], vs[2])) = p(4)
    BY <1>9, <2>4, <2>5, PutIsByKind
  <2>. QED BY <1>7, <1>8, <2>1, <2>3, <2>6 DEF L, txn, k
<1>12. CASE kind = KIND_WITHDRAWAL
  <2>1. L = <<"address", "number", "recipient", "number">> /\ Len(L) = 4
    BY <1>12, LayoutIs DEF L
  <2>2. L[1] = "address" /\ L[2] = "number" /\ L[3] = "recipient" /\ L[4] = "number"
    BY <2>1
  <2>3. txn = Withdrawal(vs[1], vs[3], vs[4], vs[2])
    <3>1. First(vs, 4)[1] = vs[1] /\ First(vs, 4)[2] = vs[2] /\ First(vs, 4)[3] = vs[3]
          /\ First(vs, 4)[4] = vs[4]
      BY DEF First
    <3>. QED BY <1>12, <2>1, <3>1, TransactionIs
  <2>7. 1 \in 1..Len(L) /\ 2 \in 1..Len(L) /\ 3 \in 1..Len(L) /\ 4 \in 1..Len(L)
        /\ 1 - 1 = 0 /\ 2 - 1 = 1 /\ 3 - 1 = 2 /\ 4 - 1 = 3
    BY <2>1
  <2>4. /\ Dictionary_put(p(0), vs[1]) = p(1) /\ Extend(p(2), vs[3]) = p(3)
        /\ Extend(p(1), put_varint(vs[2])) = p(2) /\ Extend(p(3), put_varint(vs[4])) = p(4)
    <3>2. "number" # "address" /\ "recipient" # "address"
      OBVIOUS
    <3>3. vs[1] \in Word
      BY <1>10, <2>2, <2>7
    <3>4. Dictionary_put(p(1 - 1), vs[1]) = p(1)
      BY <1>8, <2>2, <2>7, <3>3
    <3>5. /\ Extend(p(2 - 1), FieldBytes(L[2], vs[2])) = p(2)
          /\ Extend(p(3 - 1), FieldBytes(L[3], vs[3])) = p(3)
          /\ Extend(p(4 - 1), FieldBytes(L[4], vs[4])) = p(4)
      BY <1>8, <2>2, <2>7, <3>2
    <3>6. /\ FieldBytes("number", vs[2]) = put_varint(vs[2])
          /\ FieldBytes("recipient", vs[3]) = vs[3]
          /\ FieldBytes("number", vs[4]) = put_varint(vs[4])
      BY FieldBytesIs
    <3>. QED BY <2>2, <2>7, <3>4, <3>5, <3>6
  <2>5. <<KIND_WITHDRAWAL>> = k
    BY <1>12 DEF k
  <2>8. /\ put_varint(vs[2]) \in Bytes /\ put_varint(vs[4]) \in Bytes /\ vs[3] \in Bytes
    <3>1. Writable(vs[2]) /\ Writable(vs[4])
      <4>1. Typed("number", vs[2]) /\ Typed("number", vs[4])
        BY <1>3, <2>2, <2>7
      <4>. QED BY <4>1 DEF Typed
    <3>2. vs[3] \in Word
      BY <1>10, <2>2, <2>7
    <3>. QED BY <3>1, <3>2, WordIs DEF Writable, Number
  <2>9. p(1).buf \in Bytes
    <3>1. \A n \in 1..Len(L) : Chunks(L, vs, seen)[n] \in Bytes
      BY <1>7 DEF FieldTrace
    <3>2. Len(Chunks(L, vs, seen)) = Len(L)
      BY <1>1, ChunksAre
    <3>3. \A n \in 0..Len(L) : Put(buf, k, Chunks(L, vs, seen), n) \in Bytes
      <4> DEFINE d == Chunks(L, vs, seen)
      <4>1. Len(d) \in Nat /\ \A n \in 1..Len(d) : d[n] \in Bytes
        BY <1>1, <3>1, <3>2
      <4>. HIDE DEF d
      <4>2. \A n \in 0..Len(d) : Put(buf, k, d, n) \in Bytes
        BY <1>4, <4>1, PutIs
      <4>. QED BY <3>2, <4>2 DEF d
    <3>4. Put(buf, k, Chunks(L, vs, seen), 1) \in Bytes
      BY <2>1, <3>3
    <3>. QED BY <3>4, WIs DEF p, Puts
  <2>6. put_transaction(W(buf, seen), Withdrawal(vs[1], vs[3], vs[4], vs[2])) = p(4)
    <3>1. put_transaction(W(buf, seen), Withdrawal(vs[1], vs[3], vs[4], vs[2]))
            = Extend(p(1), put_varint(vs[2]) \o vs[3] \o put_varint(vs[4]))
      BY <1>9, <2>4, <2>5, PutIsByKind
    <3>2. Extend(p(1), put_varint(vs[2]) \o vs[3] \o put_varint(vs[4]))
            = Extend(Extend(Extend(p(1), put_varint(vs[2])), vs[3]), put_varint(vs[4]))
      BY <2>8, <2>9, ExtendThrice
    <3>. QED BY <2>4, <3>1, <3>2
  <2>. QED BY <1>7, <1>8, <2>1, <2>3, <2>6 DEF L, txn, k
<1>13. CASE kind = KIND_DEPOSIT
  <2>1. L = <<"address", "number">> /\ Len(L) = 2
    BY <1>13, LayoutIs DEF L
  <2>2. L[1] = "address" /\ L[2] = "number"
    BY <2>1
  <2>3. txn = Deposit(vs[1], vs[2])
    <3>1. First(vs, 2)[1] = vs[1] /\ First(vs, 2)[2] = vs[2]
      BY DEF First
    <3>. QED BY <1>13, <2>1, <3>1, TransactionIs
  <2>4. /\ Dictionary_put(p(0), vs[1]) = p(1) /\ Extend(p(1), put_varint(vs[2])) = p(2)
    <3>1. 1 \in 1..Len(L) /\ 2 \in 1..Len(L) /\ 1 - 1 = 0 /\ 2 - 1 = 1
      BY <2>1
    <3>2. "number" # "address"
      OBVIOUS
    <3>3. vs[1] \in Word
      BY <1>10, <2>2, <3>1
    <3>4. FieldBytes("number", vs[2]) = put_varint(vs[2])
      BY DEF FieldBytes
    <3>. QED BY <1>8, <2>2, <3>1, <3>2, <3>3, <3>4
  <2>5. <<KIND_DEPOSIT>> = k
    BY <1>13 DEF k
  <2>6. put_transaction(W(buf, seen), Deposit(vs[1], vs[2])) = p(2)
    BY <1>9, <2>4, <2>5, PutIsByKind
  <2>. QED BY <1>7, <1>8, <2>1, <2>3, <2>6 DEF L, txn, k
<1>14. CASE kind = KIND_FORCED_WITHDRAWAL
  <2>1. L = <<"address", "recipient">> /\ Len(L) = 2
    BY <1>14, LayoutIs DEF L
  <2>2. L[1] = "address" /\ L[2] = "recipient"
    BY <2>1
  <2>3. txn = ForcedWithdrawal(vs[1], vs[2])
    <3>1. First(vs, 2)[1] = vs[1] /\ First(vs, 2)[2] = vs[2]
      BY DEF First
    <3>. QED BY <1>14, <2>1, <3>1, TransactionIs
  <2>4. /\ Dictionary_put(p(0), vs[1]) = p(1) /\ Extend(p(1), vs[2]) = p(2)
    <3>1. 1 \in 1..Len(L) /\ 2 \in 1..Len(L) /\ 1 - 1 = 0 /\ 2 - 1 = 1
      BY <2>1
    <3>2. "recipient" # "address"
      OBVIOUS
    <3>3. vs[1] \in Word
      BY <1>10, <2>2, <3>1
    <3>4. FieldBytes("recipient", vs[2]) = vs[2]
      BY DEF FieldBytes
    <3>. QED BY <1>8, <2>2, <3>1, <3>2, <3>3, <3>4
  <2>5. <<KIND_FORCED_WITHDRAWAL>> = k
    BY <1>14 DEF k
  <2>6. put_transaction(W(buf, seen), ForcedWithdrawal(vs[1], vs[2])) = p(2)
    <3> DEFINE w == W(buf, seen)
    <3>1. Extend(w, <<KIND_FORCED_WITHDRAWAL>>) = p(0)
      BY <1>9, <2>5
    <3>. HIDE DEF w
    <3>2. put_transaction(w, ForcedWithdrawal(vs[1], vs[2]))
            = Extend(Dictionary_put(Extend(w, <<KIND_FORCED_WITHDRAWAL>>), vs[1]), vs[2])
      BY PutForced
    <3>3. put_transaction(w, ForcedWithdrawal(vs[1], vs[2])) = p(2)
      BY <2>4, <3>1, <3>2
    <3>. QED BY <3>3 DEF w
  <2>. QED BY <1>7, <1>8, <2>1, <2>3, <2>6 DEF L, txn, k
<1>. QED BY <1>5, <1>11, <1>12, <1>13, <1>14

-----------------------------------------------------------------------------
(* Batch::encode. *)
ValuesOf(kind, txn, vs) ==
  /\ \A n \in 1..Len(TransactionLayout(kind)) : Typed(TransactionLayout(kind)[n], vs[n])
  /\ txn = TransactionOf(kind, First(vs, Len(TransactionLayout(kind))))

(* What a buffer holds. *)
LEMMA WFields ==
  ASSUME NEW buf, NEW seen
  PROVE  W(buf, seen).buf = buf /\ W(buf, seen).seen = seen
BY DEF W

Puttable(txn) == \E kind \in Kinds : \E vs : ValuesOf(kind, txn, vs)

(* The bytes a transaction is written as after `seen', and what is seen then. *)
PutStep(seen, c, txn, after) ==
  /\ after \in Seq(Word)
  /\ c \in Bytes /\ SpeltTransaction(seen, c, txn, after)
  /\ \A buf \in Bytes : put_transaction(W(buf, seen), txn) = W(buf \o c, after)

(* The values of a transaction, and room for them in the dictionary. *)
Roomy(kind, vs, seen) ==
  \A n \in 0..Len(TransactionLayout(kind)) :
    Len(SeenBy(TransactionLayout(kind), vs, seen)[n]) <= MAX_U64

ChunkOf(kind, vs, seen) == <<kind>> \o Concat(Chunks(TransactionLayout(kind), vs, seen))
AfterOf(kind, vs, seen) ==
  SeenBy(TransactionLayout(kind), vs, seen)[Len(TransactionLayout(kind))]

(* put_transaction writes bytes that spell the transaction. *)
LEMMA TransactionWrites ==
  ASSUME NEW kind \in Kinds, NEW vs, NEW txn, ValuesOf(kind, txn, vs),
         NEW seen \in Seq(Word), Roomy(kind, vs, seen)
  PROVE  /\ PutStep(seen, ChunkOf(kind, vs, seen), txn, AfterOf(kind, vs, seen))
         /\ LET L == TransactionLayout(kind)
            IN FieldTrace(L, Chunks(L, vs, seen), vs, SeenBy(L, vs, seen))
<1> DEFINE L == TransactionLayout(kind)
           d == Chunks(L, vs, seen)
           f == SeenBy(L, vs, seen)
           c == ChunkOf(kind, vs, seen)
           after == AfterOf(kind, vs, seen)
<1>1. \A n \in 1..Len(TransactionLayout(kind)) : Typed(TransactionLayout(kind)[n], vs[n])
  BY DEF ValuesOf
<1>2. txn = TransactionOf(kind, First(vs, Len(L)))
  BY DEF ValuesOf
<1>3. \A n \in 0..Len(TransactionLayout(kind)) :
        Len(SeenBy(TransactionLayout(kind), vs, seen)[n]) <= MAX_U64
  BY DEF Roomy
<1>4. ASSUME NEW buf \in Bytes
      PROVE  /\ FieldTrace(L, d, vs, f)
             /\ put_transaction(W(buf, seen), TransactionOf(kind, First(vs, Len(L))))
                  = W(buf \o (<<kind>> \o Concat(d)), f[Len(L)])
  BY <1>1, <1>3, TransactionPut
<1>5. FieldTrace(L, d, vs, f)
  BY <1>4, NoBytes
<1>6. Len(L) \in Nat
  BY Layouts
<1>7. f[0] = seen
  BY <1>6, SeenByIs
<1>8. after = f[Len(L)] /\ c = <<kind>> \o Concat(d)
  BY DEF AfterOf, ChunkOf
<1>9. f[Len(L)] \in Seq(Word)
  BY <1>5, <1>6 DEF FieldTrace
<1>10. SpeltTransaction(seen, c, txn, after)
  <2>1. /\ FieldTrace(TransactionLayout(kind), d, vs, f)
        /\ f[0] = seen /\ f[Len(TransactionLayout(kind))] = after
        /\ c = <<kind>> \o Concat(d)
        /\ txn = TransactionOf(kind, First(vs, Len(TransactionLayout(kind))))
    BY <1>2, <1>5, <1>7, <1>8
  <2>. HIDE DEF L, d, f, c, after
  <2>. QED BY <2>1 DEF SpeltTransaction
<1>11. c \in Bytes
  <2>1. << >> \in Bytes
    BY NoBytes
  <2>. HIDE DEF c, after
  <2>. QED BY <1>10, <2>1, TransactionReads
<1>12. \A buf \in Bytes : put_transaction(W(buf, seen), txn) = W(buf \o c, after)
  BY <1>2, <1>4, <1>8
<1>13. PutStep(seen, c, txn, after)
  <2>1. after \in Seq(Word)
    BY <1>8, <1>9
  <2>. HIDE DEF c, after
  <2>. QED BY <1>10, <1>11, <1>12, <2>1 DEF PutStep
<1>. QED BY <1>5, <1>13

(* There is only one way it is written. *)
LEMMA PutOnce ==
  ASSUME NEW seen, NEW txn, NEW c, NEW after, PutStep(seen, c, txn, after),
         NEW d, NEW wa, PutStep(seen, d, txn, wa)
  PROVE  c = d /\ after = wa
<1> DEFINE b == << >>
<1>1. b \in Bytes /\ c \in Bytes /\ d \in Bytes
  BY NoBytes DEF PutStep
<1>. HIDE DEF b
<1>2. W(b \o c, after) = W(b \o d, wa)
  BY <1>1 DEF PutStep
<1>3. b \o c = b \o d /\ after = wa
  BY <1>2 DEF W
<1>4. c = d
  <2>1. b \o c = c /\ b \o d = d
    BY <1>1 DEF b, Bytes
  <2>. QED BY <1>3, <2>1
<1>. QED BY <1>3, <1>4

Writing(txns) ==
  LET written[n \in 0..Len(txns)] ==
        IF n = 0 THEN Extend(EmptyBuffer, <<VERSION>> \o put_varint(Len(txns)))
        ELSE put_transaction(written[n - 1], txns[n])
  IN written

(* The loop of Batch::encode, one transaction after another. *)
LEMMA WritingIs ==
  ASSUME NEW txns, Len(txns) \in Nat
  PROVE  LET f == Writing(txns)
         IN /\ f[0] = W(<< >> \o (<<VERSION>> \o put_varint(Len(txns))), << >>)
            /\ \A n \in 1..Len(txns) : f[n] = put_transaction(f[n - 1], txns[n])
            /\ Batch_encode(txns) = f[Len(txns)].buf
<1> DEFINE Turn(n, x) == put_transaction(x, txns[n])
           N == Len(txns)
           base == Extend(EmptyBuffer, <<VERSION>> \o put_varint(N))
           f == Writing(txns)
<1>1. \E g : Falls(Turn, g, N, base)
  <2>. HIDE DEF Turn, N, base
  <2>1. N \in Nat
    BY DEF N
  <2>. QED BY <2>1, FallsExists, SMTT(30)
<1>2. f = [n \in 0..N |-> IF n = 0 THEN base ELSE put_transaction(f[n - 1], txns[n])]
  BY <1>1 DEF Falls, Writing
<1>3. Batch_encode(txns) = f[N].buf
  BY DEF Batch_encode, Writing
<1>. HIDE DEF f, base
<1>4. f[0] = base /\ \A n \in 1..N : f[n] = put_transaction(f[n - 1], txns[n])
  BY <1>2
<1>5. base = W(<< >> \o (<<VERSION>> \o put_varint(N)), << >>)
  <2> DEFINE h == <<VERSION>> \o put_varint(N)
  <2>. HIDE DEF h
  <2>1. Extend(EmptyBuffer, h) = W(<< >> \o h, << >>)
    BY DEF Extend, EmptyBuffer, W
  <2>. QED BY <2>1 DEF h, base
<1>. QED BY <1>3, <1>4, <1>5 DEF f

Preamble(N) == <<VERSION>> \o put_varint(N)

BatchPut(txns, cs, seens) ==
  /\ BatchTrace(txns, cs, seens, Len(txns))
  /\ Batch_encode(txns) = Preamble(Len(txns)) \o Concat(cs)
  /\ \A n \in 1..Len(txns) : PutStep(seens[n - 1], cs[n], txns[n], seens[n])

(* Transactions that can be written, each after those before it, are written one after
   another. *)
LEMMA BatchWrites ==
  ASSUME NEW txns, Len(txns) \in Nat, Writable(Len(txns)), NEW Ok, << >> \in Ok[0],
         \A n \in 0..Len(txns) : Ok[n] \subseteq Seq(Word),
         \A n \in 1..Len(txns) : \A seen \in Ok[n - 1] :
           \E c : \E after \in Ok[n] : PutStep(seen, c, txns[n], after)
  PROVE  \E cs, seens : /\ BatchPut(txns, cs, seens)
                        /\ \A n \in 0..Len(txns) : seens[n] \in Ok[n]
<1> DEFINE N == Len(txns)
           w == Writing(txns)
           h == Preamble(N)
           S == [n \in 0..N |-> w[n].seen]
           Ready(n) == /\ w[n] = W(w[n].buf, w[n].seen) /\ w[n].buf \in Bytes
                       /\ w[n].seen \in Ok[n]
           T == {n \in 0..N : Ready(n)}
<1>1. /\ w[0] = W(<< >> \o h, << >>) /\ Batch_encode(txns) = w[N].buf
      /\ \A n \in 1..N : w[n] = put_transaction(w[n - 1], txns[n])
  BY WritingIs DEF Preamble
<1>. HIDE DEF w
<1>2. N \in Nat
  OBVIOUS
<1>3. h \in Bytes
  <2>2. Number(put_varint(N), N)
    BY DEF Writable
  <2>3. put_varint(N) \in Bytes
    BY <2>2 DEF Number
  <2>. QED BY <2>3, VersionIs, BytesJoined DEF Preamble
<1>4. << >> \o h = h
  BY <1>3 DEF Bytes
<1>. HIDE DEF h, N
<1>5. 0 \in T
  <2>1. w[0] = W(h, << >>)
    BY <1>1, <1>4
  <2>2. w[0].buf = h /\ w[0].seen = << >>
    BY <2>1, WFields
  <2> DEFINE e == << >>
  <2>3. e \in Ok[0]
    OBVIOUS
  <2>4. e \in Ok[0] /\ w[0] = W(h, e) /\ w[0].buf = h /\ w[0].seen = e
    BY <2>1, <2>2, <2>3
  <2>. HIDE DEF e
  <2>5. w[0] = W(w[0].buf, w[0].seen)
    BY <2>4
  <2>6. Ready(0)
    BY <1>3, <2>4, <2>5
  <2>7. 0 \in 0..N
    BY <1>2
  <2>. HIDE DEF Ready
  <2>. QED BY <2>6, <2>7
<1>6. ASSUME NEW n \in 1..N, Ready(n - 1)
      PROVE  /\ Ready(n)
             /\ \E c : PutStep(w[n - 1].seen, c, txns[n], w[n].seen) /\ w[n].buf = w[n - 1].buf \o c
  <2> DEFINE b == w[n - 1].buf
             s == w[n - 1].seen
             txn == txns[n]
  <2>1. w[n] = put_transaction(w[n - 1], txn)
    BY <1>1
  <2>2. w[n - 1] = W(b, s) /\ b \in Bytes /\ s \in Ok[n - 1]
    BY <1>6
  <2>6. \E c : \E after \in Ok[n] : PutStep(s, c, txn, after)
    BY <2>2 DEF N
  <2>3. w[n] = put_transaction(W(b, s), txn)
    BY <2>1, <2>2
  <2>. HIDE DEF b, s, txn
  <2>7. PICK c : \E after \in Ok[n] : PutStep(s, c, txn, after)
    BY <2>6
  <2>4. PICK after \in Ok[n] : PutStep(s, c, txn, after)
    BY <2>7
  <2>8. /\ after \in Ok[n] /\ c \in Bytes
        /\ put_transaction(W(b, s), txn) = W(b \o c, after)
    BY <2>2, <2>4 DEF PutStep
  <2>9. w[n] = W(b \o c, after)
    BY <2>3, <2>8
  <2>10. w[n].buf = b \o c /\ w[n].seen = after
    <3> DEFINE bc == b \o c
    <3>1. w[n] = W(bc, after)
      BY <2>9
    <3>. HIDE DEF bc
    <3>2. W(bc, after).buf = bc /\ W(bc, after).seen = after
      BY WFields
    <3>3. w[n].buf = bc /\ w[n].seen = after
      BY <3>1, <3>2
    <3>. QED BY <3>3 DEF bc
  <2>11. b \o c \in Bytes
    BY <2>2, <2>8, BytesJoined
  <2>13. w[n] = W(w[n].buf, w[n].seen)
    BY <2>9, <2>10
  <2>14. Ready(n)
    BY <2>8, <2>10, <2>11, <2>13
  <2>15. PutStep(s, c, txn, w[n].seen) /\ w[n].buf = b \o c
    BY <2>4, <2>10
  <2>. QED BY <2>14, <2>15 DEF b, s, txn
<1>7. \A n \in 0..N : n \in T
  <2>1. ASSUME NEW n \in 0..(N - 1), n \in T PROVE n + 1 \in T
    <3>1. n + 1 \in 1..N /\ (n + 1) - 1 = n /\ n + 1 \in 0..N
      BY <1>2
    <3>2. Ready((n + 1) - 1)
      BY <2>1, <3>1
    <3>. HIDE DEF Ready
    <3>3. Ready(n + 1)
      BY <1>6, <3>1, <3>2
    <3>. QED BY <3>1, <3>3
  <2>. HIDE DEF T
  <2>. QED BY <1>2, <1>5, <2>1, UpTo
<1>8. \A n \in 0..N : Ready(n)
  BY <1>7
<1>9. \A n \in 1..N : \E c : PutStep(w[n - 1].seen, c, txns[n], w[n].seen)
                              /\ w[n].buf = w[n - 1].buf \o c
  <2>1. ASSUME NEW n \in 1..N PROVE Ready(n - 1)
    <3>1. n - 1 \in 0..N
      BY <1>2
    <3>. HIDE DEF Ready
    <3>. QED BY <1>8, <3>1
  <2>. HIDE DEF Ready
  <2>. QED BY <1>6, <2>1
<1> DEFINE C(n) == CHOOSE c : PutStep(w[n - 1].seen, c, txns[n], w[n].seen)
                              /\ w[n].buf = w[n - 1].buf \o c
           cs == [n \in 1..N |-> C(n)]
<1>10. \A n \in 1..N : PutStep(w[n - 1].seen, C(n), txns[n], w[n].seen)
                       /\ w[n].buf = w[n - 1].buf \o C(n)
  BY <1>9
<1>. HIDE DEF C
<1>11. Len(cs) = N /\ \A n \in 1..N : cs[n] = C(n)
  BY <1>2
<1>12. \A n \in 0..N : S[n] = w[n].seen
  OBVIOUS
<1>. HIDE DEF cs, S, Ready, T
<1>13. \A n \in 1..N : PutStep(S[n - 1], cs[n], txns[n], S[n])
                       /\ w[n].buf = w[n - 1].buf \o cs[n]
  <2>1. ASSUME NEW n \in 1..N
        PROVE  PutStep(S[n - 1], cs[n], txns[n], S[n]) /\ w[n].buf = w[n - 1].buf \o cs[n]
    <3>1. n - 1 \in 0..N /\ n \in 0..N
      BY <1>2
    <3>. QED BY <1>10, <1>11, <1>12, <3>1
  <2>. QED BY <2>1
<1>14. \A n \in 1..N : cs[n] \in Bytes /\ SpeltTransaction(S[n - 1], cs[n], txns[n], S[n])
  BY <1>13 DEF PutStep
<1>15. S[0] = << >> /\ w[0].buf = h
  <2>1. w[0] = W(h, << >>)
    BY <1>1, <1>4
  <2>. QED BY <1>2, <1>12, <2>1, WIs
<1>16. \A n \in 0..N : S[n] \in Seq(Word)
  <2>1. \A n \in 0..N : S[n] \in Ok[n]
    BY <1>8, <1>12 DEF Ready
  <2>. QED BY <2>1 DEF N
<1>17. BatchTrace(txns, cs, S, N)
  BY <1>2, <1>11, <1>14, <1>15, <1>16 DEF BatchTrace
<1>18. w[N].buf = h \o Concat(cs)
  <2> DEFINE j == Joint(cs)
             Q == {n \in 0..N : w[n].buf = h \o j[n]}
  <2>1. Len(cs) \in Nat /\ \A n \in 1..Len(cs) : cs[n] \in Bytes
    BY <1>2, <1>11, <1>14
  <2>2. /\ j[0] = << >> /\ Concat(cs) = j[Len(cs)]
        /\ \A n \in 1..Len(cs) : j[n] = j[n - 1] \o cs[n]
    BY <2>1, JointIs
  <2>3. \A n \in 0..Len(cs) : j[n] \in Bytes
    BY <2>1, JointBytes
  <2>. HIDE DEF j
  <2>4. 0 \in Q
    <3>1. h \o << >> = h
      BY <1>3, BehindNothing
    <3>2. w[0].buf = h \o j[0]
      BY <1>15, <2>2, <3>1
    <3>. QED BY <1>2, <3>2
  <2>5. ASSUME NEW n \in 0..(N - 1), n \in Q PROVE n + 1 \in Q
    <3>1. n + 1 \in 1..N /\ (n + 1) - 1 = n /\ n + 1 \in 0..N /\ n \in 0..N
      BY <1>2
    <3> DEFINE m == n + 1
               x == j[n]
               c == cs[m]
    <3>2. w[m].buf = w[n].buf \o c /\ j[m] = x \o c /\ c \in Bytes /\ x \in Bytes
      BY <1>11, <1>13, <1>14, <2>2, <2>3, <3>1
    <3>3. w[n].buf = h \o x
      BY <2>5
    <3>4. x \in Bytes /\ c \in Bytes
      BY <3>2
    <3>. HIDE DEF m, x, c
    <3>5. (h \o x) \o c = h \o (x \o c)
      BY <1>3, <3>4, Regrouped
    <3>6. w[m].buf = h \o j[m]
      BY <3>2, <3>3, <3>5
    <3>. QED BY <3>1, <3>6 DEF m
  <2>. HIDE DEF Q
  <2>6. \A n \in 0..N : n \in Q
    BY <1>2, <2>4, <2>5, UpTo
  <2>. QED BY <1>2, <1>11, <2>2, <2>6 DEF Q
<1>19. BatchPut(txns, cs, S)
  BY <1>1, <1>13, <1>17, <1>18 DEF BatchPut, N, h
<1>20. \A n \in 0..N : S[n] \in Ok[n]
  BY <1>8, <1>12 DEF Ready
<1>21. BatchPut(txns, cs, S) /\ \A n \in 0..Len(txns) : S[n] \in Ok[n]
  BY <1>19, <1>20 DEF N
<1>. QED BY <1>21

(* Strings of m bytes or more make a string of n * m or more. *)
LEMMA LongJoint ==
  ASSUME NEW m \in Nat, NEW ds, Len(ds) \in Nat,
         \A n \in 1..Len(ds) : ds[n] \in Bytes /\ Len(ds[n]) >= m
  PROVE  Len(ds) * m <= Len(Concat(ds))
<1> DEFINE j == Joint(ds)
           N == Len(ds)
           T == {n \in 0..N : n * m <= Len(j[n])}
<1>1. /\ j[0] = << >> /\ Concat(ds) = j[N]
      /\ \A n \in 1..N : j[n] = j[n - 1] \o ds[n]
  BY JointIs
<1>2. \A n \in 0..N : j[n] \in Bytes
  BY JointBytes
<1>3. N \in Nat /\ \A n \in 1..N : ds[n] \in Bytes /\ Len(ds[n]) >= m
  OBVIOUS
<1>. HIDE DEF j, N
<1>4. 0 \in T
  <2>1. 0 * m = 0 /\ Len(<< >>) = 0
    OBVIOUS
  <2>2. Len(j[0]) = 0
    BY <1>1, <2>1
  <2>. QED BY <1>3, <2>1, <2>2
<1>5. ASSUME NEW n \in 0..(N - 1), n \in T PROVE n + 1 \in T
  <2>1. n + 1 \in 1..N /\ (n + 1) - 1 = n /\ n + 1 \in 0..N /\ n \in 0..N /\ n \in Nat
    BY <1>3
  <2> DEFINE k == n + 1
             x == j[n]
             d == ds[k]
  <2>2. j[k] = x \o d /\ d \in Bytes /\ Len(d) >= m /\ x \in Bytes
    BY <1>1, <1>2, <1>3, <2>1
  <2>3. n * m <= Len(x)
    BY <1>5
  <2>4. (n + 1) * m = n * m + m
    BY <2>1
  <2>. HIDE DEF k, x, d
  <2>5. x \in Bytes /\ d \in Bytes
    BY <2>2
  <2>6. Len(x) \in Nat /\ Len(d) \in Nat /\ Len(x \o d) = Len(x) + Len(d)
    BY <2>5, BytesJoined
  <2>7. Len(j[k]) = Len(x) + Len(d)
    BY <2>2, <2>6
  <2> DEFINE y == n * m
  <2>8. y \in Nat
    BY <2>1, Products
  <2>. HIDE DEF y
  <2>9. y + m <= Len(j[k])
    BY <2>2, <2>3, <2>6, <2>7, <2>8 DEF y
  <2>10. (n + 1) * m <= Len(j[k])
    BY <2>4, <2>9 DEF y
  <2>. QED BY <2>1, <2>10 DEF k
<1>. HIDE DEF T
<1>6. \A n \in 0..N : n \in T
  BY <1>3, <1>4, <1>5, UpTo
<1>. QED BY <1>1, <1>3, <1>6 DEF T, N

(* No field is spelt by no bytes. *)
LEMMA FieldLong ==
  ASSUME NEW field \in {"address", "number", "recipient"}, NEW seen \in Seq(Word), NEW c,
         NEW v, NEW after, Spelt(field, seen, c, v, after)
  PROVE  Len(c) >= 1
<1>1. CASE field = "address"
  <2>1. SpeltAddress(seen, c, v, after)
    BY <1>1 DEF Spelt
  <2>2. CASE \E a \in Bytes : Number(a, 0) /\ c = a \o v
    <3>1. PICK a \in Bytes : Number(a, 0) /\ c = a \o v
      BY <2>2
    <3>2. v \in Word
      BY <2>1, SpeltDictionary
    <3>3. v \in Bytes
      BY <3>2, WordIs
    <3>4. Len(a \o v) = Len(a) + Len(v) /\ Len(a) \in Nat /\ Len(v) \in Nat
      BY <3>3, BytesJoined
    <3>5. Len(a) >= 1
      BY <3>1 DEF Number
    <3>. QED BY <3>1, <3>4, <3>5
  <2>3. CASE \E k \in 1..Len(seen) : Number(c, k) /\ v = seen[k]
    BY <2>3 DEF Number
  <2>. QED BY <2>1, <2>2, <2>3 DEF SpeltAddress
<1>2. CASE field = "number"
  BY <1>2 DEF Spelt, Number
<1>3. CASE field = "recipient"
  BY <1>3, WordIs, Bases DEF Spelt, SpeltRecipient
<1>. QED BY <1>1, <1>2, <1>3

(* No transaction is shorter than MIN_ENCODED_TXN_SIZE, by which Batch::decode bounds
   the count it allocates for. *)
LEMMA TransactionLong ==
  ASSUME NEW seen, NEW c, NEW txn, NEW after, SpeltTransaction(seen, c, txn, after)
  PROVE  Len(c) >= MIN_ENCODED_TXN_SIZE
<1>1. PICK kind \in Kinds : \E cs, vs, seens :
        /\ FieldTrace(TransactionLayout(kind), cs, vs, seens)
        /\ seens[0] = seen /\ seens[Len(TransactionLayout(kind))] = after
        /\ c = <<kind>> \o Concat(cs)
        /\ txn = TransactionOf(kind, First(vs, Len(TransactionLayout(kind))))
  BY DEF SpeltTransaction
<1>2. PICK cs, vs, seens :
        /\ FieldTrace(TransactionLayout(kind), cs, vs, seens)
        /\ c = <<kind>> \o Concat(cs)
  BY <1>1
<1> DEFINE L == TransactionLayout(kind)
<1>3. Len(L) \in {2, 4} /\ Len(L) \in Nat
  BY LayoutLengths
<1>4. \A n \in 1..Len(L) : L[n] \in {"address", "number", "recipient"}
  <2>1. CASE kind = KIND_PAYMENT
    BY <2>1, LayoutIs
  <2>2. CASE kind = KIND_DEPOSIT
    BY <2>2, LayoutIs
  <2>3. CASE kind = KIND_WITHDRAWAL
    BY <2>3, LayoutIs
  <2>4. CASE kind = KIND_FORCED_WITHDRAWAL
    BY <2>4, LayoutIs
  <2>. QED BY <2>1, <2>2, <2>3, <2>4, LayoutLengths
<1>5. /\ Len(cs) = Len(L) /\ \A n \in 0..Len(L) : seens[n] \in Seq(Word)
      /\ \A n \in 1..Len(L) : cs[n] \in Bytes /\ Spelt(L[n], seens[n - 1], cs[n], vs[n], seens[n])
  BY <1>2 DEF FieldTrace
<1>. HIDE DEF L
<1>6. \A n \in 1..Len(L) : cs[n] \in Bytes /\ Len(cs[n]) >= 1
  <2>1. ASSUME NEW n \in 1..Len(L) PROVE Len(cs[n]) >= 1
    <3>1. n - 1 \in 0..Len(L)
      BY <1>3
    <3>2. seens[n - 1] \in Seq(Word) /\ Spelt(L[n], seens[n - 1], cs[n], vs[n], seens[n])
          /\ L[n] \in {"address", "number", "recipient"}
      BY <1>4, <1>5, <3>1
    <3>. QED BY <3>2, FieldLong
  <2>. QED BY <1>5, <2>1
<1>7. Len(cs) * 1 <= Len(Concat(cs)) /\ Concat(cs) \in Bytes
  <2>1. Len(cs) \in Nat /\ 1 \in Nat /\ \A n \in 1..Len(cs) : cs[n] \in Bytes /\ Len(cs[n]) >= 1
    BY <1>3, <1>5, <1>6
  <2>. QED BY <2>1, LongJoint, JointBytes
<1> DEFINE k == <<kind>>
           d == Concat(cs)
<1>8. k \in Bytes /\ Len(k) = 1
  BY KindsAre DEF Bytes
<1>9. Len(d) >= 2 /\ d \in Bytes
  BY <1>3, <1>5, <1>7
<1>10. c = k \o d
  BY <1>2
<1>. HIDE DEF k, d
<1>11. Len(k \o d) = Len(k) + Len(d) /\ Len(d) \in Nat
  BY <1>8, <1>9, BytesJoined
<1>. QED BY <1>8, <1>9, <1>10, <1>11 DEF MIN_ENCODED_TXN_SIZE

-----------------------------------------------------------------------------
(* A batch that was encoded decodes as what it was. *)
LEMMA EncodedIsSpelt ==
  ASSUME NEW txns, Writable(Len(txns)), NEW cs, NEW seens, BatchPut(txns, cs, seens)
  PROVE  SpeltBatch(Batch_encode(txns), txns, put_varint(Len(txns)), cs, seens, Len(txns))
<1> DEFINE N == Len(txns)
<1>1. /\ BatchTrace(txns, cs, seens, N)
      /\ Batch_encode(txns) = Preamble(N) \o Concat(cs)
  BY DEF BatchPut
<1>3. Number(put_varint(N), N)
  BY DEF Writable
<1>4. /\ Len(cs) = N /\ N \in Nat
      /\ \A n \in 1..N : cs[n] \in Bytes /\ SpeltTransaction(seens[n - 1], cs[n], txns[n], seens[n])
  BY <1>1 DEF BatchTrace
<1>. HIDE DEF N
<1>5. MIN_ENCODED_TXN_SIZE \in Nat
  BY DEF MIN_ENCODED_TXN_SIZE
<1>6. \A n \in 1..Len(cs) : cs[n] \in Bytes /\ Len(cs[n]) >= MIN_ENCODED_TXN_SIZE
  BY <1>4, TransactionLong
<1>7. N * MIN_ENCODED_TXN_SIZE <= Len(Concat(cs))
  <2>1. Len(cs) \in Nat
    BY <1>4
  <2>2. Len(cs) * MIN_ENCODED_TXN_SIZE <= Len(Concat(cs))
    BY <1>5, <1>6, <2>1, LongJoint
  <2>. QED BY <1>4, <2>2
<1>8. Len(Concat(cs)) \in Nat /\ N * MIN_ENCODED_TXN_SIZE \in Nat
  <2>1. Concat(cs) \in Bytes
    BY <1>4, JointBytes
  <2>. QED BY <1>4, <1>5, <2>1, LenProperties, Products DEF Bytes
<1>9. ~(N * MIN_ENCODED_TXN_SIZE > Len(Concat(cs)))
  BY <1>7, <1>8
<1>10. Batch_encode(txns) = (<<VERSION>> \o put_varint(N)) \o Concat(cs)
  BY <1>1 DEF Preamble
<1>11. SpeltBatch(Batch_encode(txns), txns, put_varint(N), cs, seens, N)
  BY <1>1, <1>3, <1>9, <1>10 DEF SpeltBatch
<1>. QED BY <1>11 DEF N

(* As many values as there are, are all of them. *)
LEMMA FirstAll ==
  ASSUME NEW S, NEW s \in Seq(S)
  PROVE  First(s, Len(s)) = s
BY DEF First

(* A batch written this way is read as it was. *)
LEMMA PutIsRead ==
  ASSUME NEW S, NEW txns \in Seq(S), Writable(Len(txns)),
         NEW cs, NEW seens, BatchPut(txns, cs, seens)
  PROVE  /\ Good(Batch_decode(Batch_encode(txns)))
         /\ Batch_decode(Batch_encode(txns)).out = txns
         /\ Batch_encode(txns) \in Bytes
<1> DEFINE N == Len(txns)
           b == Batch_encode(txns)
           t == << >>
<1>1. N \in Nat /\ First(txns, N) = txns
  BY LenProperties, FirstAll
<1>4. SpeltBatch(b, txns, put_varint(N), cs, seens, N)
  BY EncodedIsSpelt
<1>5. t \in Bytes /\ t = << >>
  BY NoBytes
<1>. HIDE DEF b, t
<1>6. /\ t = << >> => \E w : Batch_decode(b) = Rd(<< >>, w, seens[N], First(txns, N))
      /\ b \in Bytes
  BY <1>4, <1>5, BatchReads
<1>7. PICK w : Batch_decode(b) = Rd(<< >>, w, seens[N], First(txns, N))
  BY <1>5, <1>6
<1>8. Good(Batch_decode(b)) /\ Batch_decode(b).out = txns
  <2> DEFINE o == First(txns, N)
             s == seens[N]
  <2>1. o = txns /\ Batch_decode(b) = Rd(t, w, s, o)
    BY <1>1, <1>5, <1>7
  <2>. HIDE DEF o, s
  <2>2. Good(Rd(t, w, s, o)) /\ Rd(t, w, s, o).out = o
    BY RdIs
  <2>. QED BY <2>1, <2>2
<1>. QED BY <1>6, <1>8 DEF b

(* Batch::decode of Batch::encode is the batch, for every batch with room in the
   dictionary for the addresses it names. *)
LEMMA BatchRoundTrip ==
  ASSUME NEW S, NEW txns \in Seq(S), \A n \in 1..Len(txns) : Puttable(txns[n]),
         2 * Len(txns) <= MAX_U64
  PROVE  /\ Good(Batch_decode(Batch_encode(txns)))
         /\ Batch_decode(Batch_encode(txns)).out = txns
         /\ Batch_encode(txns) \in Bytes
<1> DEFINE N == Len(txns)
           Room(n) == {s \in Seq(Word) : Len(s) <= 2 * n}
           Ok == [n \in 0..N |-> Room(n)]
<1>1. N \in Nat
  BY LenProperties
<1>2. N \in 0..MAX_U64
  BY <1>1, Bases
<1>3. Writable(N)
  BY <1>2, NumberWritten DEF Writable
<1>4. \A n \in 0..N : Ok[n] = Room(n)
  OBVIOUS
<1>. HIDE DEF Ok
<1>5. << >> \in Ok[0] /\ \A n \in 0..N : Ok[n] \subseteq Seq(Word)
  <2>1. << >> \in Seq(Word) /\ Len(<< >>) = 0 /\ 2 * 0 = 0
    OBVIOUS
  <2>2. << >> \in Room(0)
    BY <2>1
  <2>3. Ok[0] = Room(0)
    BY <1>1, <1>4
  <2>. QED BY <1>4, <2>2, <2>3
<1>6. ASSUME NEW n \in 1..N, NEW seen \in Ok[n - 1]
      PROVE  \E c : \E after \in Ok[n] : PutStep(seen, c, txns[n], after)
  <2>1. n - 1 \in 0..N /\ n \in 0..N
    BY <1>1
  <2>2. seen \in Seq(Word) /\ Len(seen) <= 2 * (n - 1)
    BY <1>4, <2>1
  <2>3. Len(seen) \in Nat
    BY <2>2, LenProperties
  <2>4. Len(seen) + 2 <= 2 * n /\ 2 * n <= MAX_U64
    BY <1>1, <2>2, <2>3, Bases
  <2>5. Puttable(txns[n])
    OBVIOUS
  <2>6. PICK kind \in Kinds : \E vs : ValuesOf(kind, txns[n], vs)
    BY <2>5 DEF Puttable
  <2>7. PICK vs : ValuesOf(kind, txns[n], vs)
    BY <2>6
  <2> DEFINE L == TransactionLayout(kind)
             txn == txns[n]
             after == AfterOf(kind, vs, seen)
  <2>8. \A m \in 1..Len(TransactionLayout(kind)) : Typed(TransactionLayout(kind)[m], vs[m])
    BY <2>7 DEF ValuesOf
  <2>9. \A m \in 0..Len(TransactionLayout(kind)) :
          Len(SeenBy(TransactionLayout(kind), vs, seen)[m]) <= Len(seen) + 2
    BY <2>2, <2>8, RoomFor
  <2>10. \A m \in 0..Len(L) : SeenBy(L, vs, seen)[m] \in Seq(Word)
    <3>1. Len(L) \in Nat
      BY Layouts
    <3>2. \A m \in 1..Len(L) : L[m] = "address" => vs[m] \in Word
      BY <2>8 DEF Typed
    <3>. HIDE DEF L
    <3>. QED BY <2>2, <3>1, <3>2, SeenByWords
  <2>11. Roomy(kind, vs, seen)
    <3>1. ASSUME NEW m \in 0..Len(L) PROVE Len(SeenBy(L, vs, seen)[m]) <= MAX_U64
      <4>1. Len(SeenBy(L, vs, seen)[m]) \in Nat
        BY <2>10, LenProperties
      <4>. QED BY <2>3, <2>4, <2>9, <4>1, <1>1, Bases
    <3>. QED BY <3>1 DEF Roomy
  <2>12. PutStep(seen, ChunkOf(kind, vs, seen), txn, after)
    BY <2>2, <2>7, <2>11, TransactionWrites
  <2>13. after \in Ok[n]
    <3>1. Len(L) \in Nat
      BY Layouts
    <3>2. Len(L) \in 0..Len(L)
      BY <3>1
    <3>3. after \in Seq(Word) /\ Len(after) <= Len(seen) + 2
      BY <2>9, <2>10, <3>2 DEF AfterOf
    <3>. HIDE DEF after
    <3>4. Len(after) \in Nat
      BY <3>3, LenProperties
    <3>5. Len(after) <= 2 * n
      BY <1>1, <2>3, <2>4, <3>3, <3>4
    <3>6. after \in Room(n)
      BY <3>3, <3>5
    <3>. QED BY <1>4, <2>1, <3>6
  <2>. QED BY <2>12, <2>13
<1>7. \E cs, seens : BatchPut(txns, cs, seens) /\ \A n \in 0..N : seens[n] \in Ok[n]
  BY <1>1, <1>3, <1>5, <1>6, BatchWrites
<1>8. PICK cs, seens : BatchPut(txns, cs, seens)
  BY <1>7
<1>. QED BY <1>3, <1>8, PutIsRead

-----------------------------------------------------------------------------
(* No spelling is shorter than what is written. *)
Short(d, c) == Len(d) < Len(c) \/ d = c

(* What is shorter in front is shorter. *)
LEMMA ShortFront ==
  ASSUME NEW a \in Bytes, NEW b \in Bytes, NEW v \in Bytes, Short(a, b)
  PROVE  Short(a \o v, b \o v) /\ Len(a \o v) <= Len(b \o v)
<1>1. /\ Len(a \o v) = Len(a) + Len(v) /\ Len(a) \in Nat /\ Len(v) \in Nat
  BY BytesJoined
<1>2. /\ Len(b \o v) = Len(b) + Len(v) /\ Len(b) \in Nat
  BY BytesJoined
<1>3. CASE Len(a) < Len(b)
  BY <1>1, <1>2, <1>3 DEF Short
<1>4. CASE a = b
  BY <1>1, <1>2, <1>4 DEF Short
<1>. QED BY <1>3, <1>4 DEF Short

(* A count is written shorter than it was spelt, or just so. *)
LEMMA CountShort ==
  ASSUME NEW a, NEW k, Number(a, k), NEW v \in Bytes
  PROVE  Short(put_varint(k) \o v, a \o v) /\ Len(put_varint(k) \o v) <= Len(a \o v)
<1>1. Short(put_varint(k), a) /\ a \in Bytes /\ put_varint(k) \in Bytes
  <2>1. Number(put_varint(k), k) /\ (put_varint(k) = a \/ Len(put_varint(k)) < Len(a))
    BY NumberShortest
  <2>. QED BY <2>1 DEF Short, Number
<1> DEFINE p == put_varint(k)
<1>. HIDE DEF p
<1>2. Short(p, a) /\ p \in Bytes /\ a \in Bytes
  BY <1>1 DEF p
<1>3. Short(p \o v, a \o v) /\ Len(p \o v) <= Len(a \o v)
  BY <1>2, ShortFront
<1>. QED BY <1>3 DEF p

(* So is every field but an address. *)
LEMMA FieldShort ==
  ASSUME NEW field \in Fields, field # "address", NEW seen \in Seq(Word), NEW c, NEW v,
         NEW after, Spelt(field, seen, c, v, after)
  PROVE  Short(FieldBytes(field, v), c) /\ Len(FieldBytes(field, v)) <= Len(c)
<1>1. ASSUME FieldBytes(field, v) = c
      PROVE  Short(FieldBytes(field, v), c) /\ Len(FieldBytes(field, v)) <= Len(c)
  <2>1. << >> \in Bytes
    BY NoBytes
  <2>2. c \in Bytes
    BY <2>1, FieldReads
  <2>3. Len(c) \in Nat
    BY <2>2, LenProperties DEF Bytes
  <2>. QED BY <1>1, <2>3 DEF Short
<1>2. CASE field = "number"
  <2>1. Number(c, v)
    BY <1>2 DEF Spelt
  <2>2. Len(put_varint(v)) <= Len(c) /\ (put_varint(v) = c \/ Len(put_varint(v)) < Len(c))
    BY <2>1, NumberShortest
  <2>. QED BY <1>2, <2>2, FieldBytesIs DEF Short
<1>3. CASE field = "recipient"
  BY <1>1, <1>3, FieldBytesIs DEF Spelt, SpeltRecipient
<1>4. CASE field = "scheme"
  BY <1>1, <1>4, FieldBytesIs DEF Spelt, SpeltScheme
<1>5. CASE field = "bytes"
  <2>1. SpeltBytes(c, v)
    BY <1>5 DEF Spelt
  <2>2. PICK a \in Bytes : Number(a, Len(v)) /\ c = a \o v
    BY <2>1 DEF SpeltBytes
  <2>3. v \in Bytes /\ Number(a, Len(v))
    BY <2>1, <2>2 DEF SpeltBytes
  <2>4. Short(put_varint(Len(v)) \o v, a \o v) /\ Len(put_varint(Len(v)) \o v) <= Len(a \o v)
    BY <2>3, CountShort
  <2>5. FieldBytes(field, v) = put_varint(Len(v)) \o v
    BY <1>5, FieldBytesIs DEF put_bytes
  <2>. QED BY <2>2, <2>4, <2>5
<1>6. CASE field = "account"
  <2>1. SpeltAccount(c, v)
    BY <1>6 DEF Spelt
  <2>2. put_account(v) = c
    BY <2>1 DEF SpeltAccount, put_account, Encodes
  <2>. QED BY <1>1, <1>6, <2>2, FieldBytesIs
<1>7. CASE field = "siblings"
  <2>1. SpeltSiblings(c, v)
    BY <1>7 DEF Spelt
  <2>2. PICK a \in Bytes : Number(a, Len(v)) /\ c = a \o Concat(v)
    BY <2>1 DEF SpeltSiblings
  <2> DEFINE x == Concat(v)
  <2>3. v \in Seq(Word)
    BY <2>1 DEF SpeltSiblings
  <2>4. x \in Bytes
    BY <2>3, WordsJoined
  <2>5. FieldBytes(field, v) = put_varint(Len(v)) \o x
    BY <1>7, FieldBytesIs
  <2>. HIDE DEF x
  <2>6. Number(a, Len(v))
    BY <2>2
  <2>7. Short(put_varint(Len(v)) \o x, a \o x) /\ Len(put_varint(Len(v)) \o x) <= Len(a \o x)
    BY <2>4, <2>6, CountShort
  <2>8. c = a \o x
    BY <2>2 DEF x
  <2>. QED BY <2>5, <2>7, <2>8
<1>8. CASE field = "slot"
  <2>1. SpeltSlot(c, v)
    BY <1>8 DEF Spelt
  <2>2. put_slot(v) = c
    BY <2>1 DEF SpeltSlot, put_slot
  <2>. QED BY <1>1, <1>8, <2>2, FieldBytesIs
<1>. QED BY <1>2, <1>3, <1>4, <1>5, <1>6, <1>7, <1>8 DEF Fields

-----------------------------------------------------------------------------
(* What a reader's dictionary rs, in which an address can stand twice, has to do
   with the writer's, in which it stands once, and no further on. *)
Tidy(rs, ws) ==
  /\ rs \in Seq(Word) /\ ws \in Seq(Word) /\ Len(ws) <= Len(rs)
  /\ \A i, k \in 1..Len(ws) : ws[i] = ws[k] => i = k
  /\ \A j \in 1..Len(rs) : \E i \in 1..Len(ws) : i <= j /\ ws[i] = rs[j]

(* One step of writing d beside one of reading c: nothing is lost, and as long as
   the dictionaries are the same, either the bytes are too or something is won. *)
Step(d, ws, wa, c, rs, ra) ==
  /\ Len(d) <= Len(c)
  /\ ws = rs => Len(d) < Len(c) \/ (d = c /\ wa = ra)

(* What a reader refers to the writer can refer to, no further on. *)
LEMMA TidyMention ==
  ASSUME NEW rs, NEW ws, Tidy(rs, ws), NEW k \in 1..Len(rs)
  PROVE  /\ Mentioned(ws, rs[k]) /\ Position(ws, rs[k]) <= k
         /\ Position(ws, rs[k]) \in 1..Len(ws)
         /\ ws = rs => Position(ws, rs[k]) = k
<1> DEFINE v == rs[k]
           p == Position(ws, v)
<1>1. PICK i \in 1..Len(ws) : i <= k /\ ws[i] = v
  BY DEF Tidy
<1>2. Mentioned(ws, v)
  BY <1>1 DEF Mentioned
<1>3. p \in 1..Len(ws) /\ ws[p] = v
  BY <1>2, PositionIs
<1>4. p = i
  BY <1>1, <1>3 DEF Tidy
<1>5. ws = rs => p = k
  BY <1>3 DEF Tidy
<1>. QED BY <1>1, <1>2, <1>3, <1>4, <1>5

(* A literal the writer already knows joins the reader's dictionary only. *)
LEMMA TidyRepeated ==
  ASSUME NEW rs, NEW ws, Tidy(rs, ws), NEW v \in Word, Mentioned(ws, v)
  PROVE  Tidy(Append(rs, v), ws)
<1> DEFINE ra == Append(rs, v)
           p == Position(ws, v)
<1>1. /\ rs \in Seq(Word) /\ ws \in Seq(Word) /\ Len(ws) <= Len(rs)
      /\ Len(rs) \in Nat /\ Len(ws) \in Nat
  BY LenProperties DEF Tidy
<1>2. /\ ra \in Seq(Word) /\ Len(ra) = Len(rs) + 1 /\ ra[Len(rs) + 1] = v
      /\ \A j \in 1..Len(rs) : ra[j] = rs[j]
  BY <1>1, AppendProperties
<1>3. p \in 1..Len(ws) /\ ws[p] = v
  BY PositionIs
<1>. HIDE DEF ra, p
<1>4. ASSUME NEW j \in 1..Len(ra) PROVE \E i \in 1..Len(ws) : i <= j /\ ws[i] = ra[j]
  <2>1. CASE j \in 1..Len(rs)
    BY <1>2, <2>1 DEF Tidy
  <2>2. CASE j = Len(rs) + 1
    <3>1. p <= j /\ ws[p] = ra[j]
      BY <1>1, <1>2, <1>3, <2>2
    <3>. QED BY <1>3, <3>1
  <2>. QED BY <1>1, <1>2, <2>1, <2>2
<1>5. Tidy(ra, ws)
  <2>1. \A i, k \in 1..Len(ws) : ws[i] = ws[k] => i = k
    BY DEF Tidy
  <2>2. Len(ws) <= Len(ra)
    BY <1>1, <1>2
  <2>. QED BY <1>1, <1>2, <1>4, <2>1, <2>2 DEF Tidy
<1>. QED BY <1>5 DEF ra

(* A literal the writer does not know joins both. *)
LEMMA TidyNew ==
  ASSUME NEW rs, NEW ws, Tidy(rs, ws), NEW v \in Word, ~Mentioned(ws, v)
  PROVE  Tidy(Append(rs, v), Append(ws, v))
<1> DEFINE ra == Append(rs, v)
           wa == Append(ws, v)
<1>1. /\ rs \in Seq(Word) /\ ws \in Seq(Word) /\ Len(ws) <= Len(rs)
      /\ Len(rs) \in Nat /\ Len(ws) \in Nat
  BY LenProperties DEF Tidy
<1>2. /\ ra \in Seq(Word) /\ Len(ra) = Len(rs) + 1 /\ ra[Len(rs) + 1] = v
      /\ \A j \in 1..Len(rs) : ra[j] = rs[j]
  BY <1>1, AppendProperties
<1>3. /\ wa \in Seq(Word) /\ Len(wa) = Len(ws) + 1 /\ wa[Len(ws) + 1] = v
      /\ \A j \in 1..Len(ws) : wa[j] = ws[j]
  BY <1>1, AppendProperties
<1>4. \A i \in 1..Len(ws) : ws[i] # v
  BY DEF Mentioned
<1>. HIDE DEF ra, wa
<1>5. ASSUME NEW j \in 1..Len(ra) PROVE \E i \in 1..Len(wa) : i <= j /\ wa[i] = ra[j]
  <2>1. CASE j \in 1..Len(rs)
    <3>1. PICK i \in 1..Len(ws) : i <= j /\ ws[i] = rs[j]
      BY <2>1 DEF Tidy
    <3>2. i \in 1..Len(wa) /\ i <= j /\ wa[i] = ra[j]
      BY <1>1, <1>2, <1>3, <2>1, <3>1
    <3>. QED BY <3>2
  <2>2. CASE j = Len(rs) + 1
    <3>1. Len(ws) + 1 \in 1..Len(wa) /\ Len(ws) + 1 <= j /\ wa[Len(ws) + 1] = ra[j]
      BY <1>1, <1>2, <1>3, <2>2
    <3>. QED BY <3>1
  <2>. QED BY <1>1, <1>2, <2>1, <2>2
<1>6. ASSUME NEW i \in 1..Len(wa), NEW k \in 1..Len(wa), wa[i] = wa[k]
      PROVE  i = k
  <2>1. i \in 1..Len(ws) \/ i = Len(ws) + 1
    BY <1>1, <1>3
  <2>2. k \in 1..Len(ws) \/ k = Len(ws) + 1
    BY <1>1, <1>3
  <2>3. CASE i \in 1..Len(ws) /\ k \in 1..Len(ws)
    BY <1>3, <1>6, <2>3 DEF Tidy
  <2>. QED BY <1>3, <1>4, <1>6, <2>1, <2>2, <2>3
<1>7. Tidy(ra, wa)
  <2>1. Len(wa) <= Len(ra)
    BY <1>1, <1>2, <1>3
  <2>. QED BY <1>2, <1>3, <1>5, <1>6, <2>1 DEF Tidy
<1>. QED BY <1>7 DEF ra, wa

(* An address is written shorter than it was spelt, or just so. *)
LEMMA AddressStep ==
  ASSUME NEW rs, NEW ws, Tidy(rs, ws), Len(ws) <= MAX_U64, NEW c, NEW v, NEW ra,
         SpeltAddress(rs, c, v, ra)
  PROVE  /\ Step(FieldChunk("address", ws, v), ws, FieldAfter("address", ws, v), c, rs, ra)
         /\ Tidy(ra, FieldAfter("address", ws, v))
<1> DEFINE d == FieldChunk("address", ws, v)
           wa == FieldAfter("address", ws, v)
           p == Position(ws, v)
<1>1. /\ rs \in Seq(Word) /\ ws \in Seq(Word) /\ Len(ws) <= Len(rs)
      /\ Len(rs) \in Nat /\ Len(ws) \in Nat
  BY LenProperties DEF Tidy
<1>2. /\ Mentioned(ws, v) => d = put_varint(p) /\ wa = ws
      /\ ~Mentioned(ws, v) => d = <<0>> \o v /\ wa = Append(ws, v)
  BY DEF FieldChunk, FieldAfter
<1>. HIDE DEF d, wa
<1>3. ASSUME v \in Word, ra = Append(rs, v), NEW a \in Bytes, Number(a, 0), c = a \o v
      PROVE  Step(d, ws, wa, c, rs, ra) /\ Tidy(ra, wa)
  <2>1. v \in Bytes /\ Len(v) = WORD
    BY <1>3, WordIs
  <2>2. Len(a \o v) = Len(a) + Len(v) /\ Len(a) \in Nat
    BY <2>1, BytesJoined
  <2>3. Len(a) >= 1
    BY <1>3 DEF Number
  <2>4. CASE Mentioned(ws, v)
    <3>1. p \in 1..Len(ws)
      BY <2>4, PositionIs
    <3>2. p \in 0..MAX_U64
      BY <1>1, <3>1, Bases
    <3>3. Len(put_varint(p)) <= WORD
      BY <3>2, ReferenceFits
    <3>4. Len(d) < Len(c)
      <4>1. put_varint(p) \in Bytes
        BY <3>2, NumberWritten DEF Number
      <4>2. Len(put_varint(p)) \in Nat
        BY <4>1, LenProperties DEF Bytes
      <4>. QED BY <1>2, <1>3, <2>1, <2>2, <2>3, <2>4, <3>3, <4>2, Bases
    <3>5. Len(d) <= Len(c)
      <4>1. put_varint(p) \in Bytes
        BY <3>2, NumberWritten DEF Number
      <4>2. Len(d) \in Nat
        BY <1>2, <2>4, <4>1, LenProperties DEF Bytes
      <4>3. Len(c) \in Nat
        BY <1>3, <2>1, <2>2, Bases
      <4>. QED BY <3>4, <4>2, <4>3
    <3>6. Tidy(ra, wa)
      <4>1. Tidy(Append(rs, v), ws)
        BY <1>3, <2>4, TidyRepeated
      <4>. QED BY <1>2, <1>3, <2>4, <4>1
    <3>. QED BY <3>4, <3>5, <3>6 DEF Step
  <2>5. CASE ~Mentioned(ws, v)
    <3>1. Short(put_varint(0) \o v, a \o v) /\ Len(put_varint(0) \o v) <= Len(a \o v)
      BY <1>3, <2>1, CountShort
    <3>2. d = put_varint(0) \o v
      BY <1>2, <2>5, ZeroIs
    <3>3. Short(d, c) /\ Len(d) <= Len(c)
      BY <1>3, <3>1, <3>2
    <3>4. ws = rs => wa = ra
      BY <1>2, <1>3, <2>5
    <3>5. Tidy(ra, wa)
      <4>1. Tidy(Append(rs, v), Append(ws, v))
        BY <1>3, <2>5, TidyNew
      <4>. QED BY <1>2, <1>3, <2>5, <4>1
    <3>. QED BY <3>3, <3>4, <3>5 DEF Step, Short
  <2>. QED BY <2>4, <2>5
<1>4. ASSUME ra = rs, NEW k \in 1..Len(rs), Number(c, k), v = rs[k]
      PROVE  Step(d, ws, wa, c, rs, ra) /\ Tidy(ra, wa)
  <2>1. /\ Mentioned(ws, v) /\ p <= k /\ p \in 1..Len(ws) /\ (ws = rs => p = k)
    BY <1>4, TidyMention
  <2>2. d = put_varint(p) /\ wa = ws
    BY <1>2, <2>1
  <2>3. Len(put_varint(p)) <= Len(put_varint(k))
    <3>1. p \in Nat /\ k \in Nat /\ p <= k
      BY <1>1, <2>1
    <3>. QED BY <3>1, SmallerIsShorter
  <2>4. /\ Number(put_varint(k), k) /\ Len(put_varint(k)) <= Len(c)
        /\ put_varint(k) = c \/ Len(put_varint(k)) < Len(c)
    BY <1>4, NumberShortest
  <2>5. Len(put_varint(p)) \in Nat /\ Len(put_varint(k)) \in Nat /\ Len(c) \in Nat
    <3>1. p \in 0..MAX_U64
      BY <1>1, <2>1, Bases
    <3>2. put_varint(p) \in Bytes /\ put_varint(k) \in Bytes /\ c \in Bytes
      BY <1>4, <2>4, <3>1, NumberWritten DEF Number
    <3>. QED BY <3>2, LenProperties DEF Bytes
  <2>6. Len(d) <= Len(c)
    BY <2>2, <2>3, <2>4, <2>5
  <2>7. ws = rs => Len(d) < Len(c) \/ (d = c /\ wa = ra)
    BY <1>4, <2>1, <2>2, <2>4
  <2>8. Tidy(ra, wa)
    BY <1>4, <2>2
  <2>. QED BY <2>6, <2>7, <2>8 DEF Step
<1>5. Step(d, ws, wa, c, rs, ra) /\ Tidy(ra, wa)
  BY <1>3, <1>4 DEF SpeltAddress
<1>. QED BY <1>5 DEF d, wa

(* So is every field. *)
LEMMA FieldStepShort ==
  ASSUME NEW field \in Fields, NEW rs, NEW ws, Tidy(rs, ws), Len(ws) <= MAX_U64, NEW c, NEW v,
         NEW ra, Spelt(field, rs, c, v, ra)
  PROVE  /\ Step(FieldChunk(field, ws, v), ws, FieldAfter(field, ws, v), c, rs, ra)
         /\ Tidy(ra, FieldAfter(field, ws, v))
<1>1. CASE field = "address"
  <2>1. SpeltAddress(rs, c, v, ra)
    BY <1>1 DEF Spelt
  <2>2. /\ Step(FieldChunk("address", ws, v), ws, FieldAfter("address", ws, v), c, rs, ra)
        /\ Tidy(ra, FieldAfter("address", ws, v))
    BY <2>1, AddressStep
  <2>. QED BY <1>1, <2>2
<1>2. CASE field # "address"
  <2>1. FieldChunk(field, ws, v) = FieldBytes(field, v) /\ FieldAfter(field, ws, v) = ws
    BY <1>2 DEF FieldChunk, FieldAfter
  <2>2. rs \in Seq(Word)
    BY DEF Tidy
  <2>3. Short(FieldBytes(field, v), c) /\ Len(FieldBytes(field, v)) <= Len(c)
    BY <1>2, <2>2, FieldShort
  <2>4. ra = rs
    BY <1>2 DEF Spelt
  <2>. QED BY <2>1, <2>3, <2>4 DEF Step, Short
<1>. QED BY <1>1, <1>2

(* A step and a step make a step. *)
LEMMA StepsJoin ==
  ASSUME NEW d \in Bytes, NEW c \in Bytes, NEW e \in Bytes, NEW f \in Bytes,
         NEW w0, NEW w1, NEW w2, NEW r0, NEW r1, NEW r2,
         Step(d, w0, w1, c, r0, r1), Step(e, w1, w2, f, r1, r2)
  PROVE  Step(d \o e, w0, w2, c \o f, r0, r2)
<1>1. Len(d \o e) = Len(d) + Len(e) /\ Len(d) \in Nat /\ Len(e) \in Nat
  BY BytesJoined
<1>2. Len(c \o f) = Len(c) + Len(f) /\ Len(c) \in Nat /\ Len(f) \in Nat
  BY BytesJoined
<1>3. Len(d) <= Len(c) /\ Len(e) <= Len(f)
  BY DEF Step
<1> DEFINE de == d \o e
           cf == c \o f
<1>4. Len(de) <= Len(cf)
  BY <1>1, <1>2, <1>3
<1>5. ASSUME w0 = r0 PROVE Len(de) < Len(cf) \/ (de = cf /\ w2 = r2)
  <2>1. CASE Len(d) < Len(c)
    BY <1>1, <1>2, <1>3, <2>1
  <2>2. CASE d = c /\ w1 = r1
    <3>1. CASE Len(e) < Len(f)
      BY <1>1, <1>2, <2>2, <3>1
    <3>2. CASE e = f /\ w2 = r2
      BY <2>2, <3>2
    <3>. QED BY <2>2, <3>1, <3>2 DEF Step
  <2>. QED BY <1>5, <2>1, <2>2 DEF Step
<1>. HIDE DEF de, cf
<1>6. Step(de, w0, w2, cf, r0, r2)
  BY <1>4, <1>5 DEF Step
<1>. QED BY <1>6 DEF de, cf

(* Step after step. *)
LEMMA StepsChain ==
  ASSUME NEW N \in Nat, NEW ds, NEW cs, Len(ds) = N, Len(cs) = N,
         \A n \in 1..N : ds[n] \in Bytes /\ cs[n] \in Bytes,
         NEW ws, NEW rs, Tidy(rs[0], ws[0]),
         \A n \in 1..N : Tidy(rs[n - 1], ws[n - 1]) =>
           Step(ds[n], ws[n - 1], ws[n], cs[n], rs[n - 1], rs[n]) /\ Tidy(rs[n], ws[n])
  PROVE  /\ Step(Concat(ds), ws[0], ws[N], Concat(cs), rs[0], rs[N])
         /\ Tidy(rs[N], ws[N])
<1> DEFINE j == Joint(ds)
           h == Joint(cs)
           T == {n \in 0..N : Step(j[n], ws[0], ws[n], h[n], rs[0], rs[n]) /\ Tidy(rs[n], ws[n])}
<1>1. /\ j[0] = << >> /\ Concat(ds) = j[N]
      /\ \A n \in 1..N : j[n] = j[n - 1] \o ds[n]
  BY JointIs
<1>2. \A n \in 0..N : j[n] \in Bytes
  BY JointBytes
<1>3. /\ h[0] = << >> /\ Concat(cs) = h[N]
      /\ \A n \in 1..N : h[n] = h[n - 1] \o cs[n]
  BY JointIs
<1>4. \A n \in 0..N : h[n] \in Bytes
  BY JointBytes
<1>. HIDE DEF j, h
<1>5. 0 \in T
  <2> DEFINE e == << >>
  <2>1. e \in Bytes /\ j[0] = e /\ h[0] = e
    BY <1>1, <1>3, NoBytes
  <2>. HIDE DEF e
  <2>2. Len(e) \in Nat
    BY <2>1, LenProperties DEF Bytes
  <2>3. Step(j[0], ws[0], ws[0], h[0], rs[0], rs[0])
    BY <2>1, <2>2 DEF Step
  <2>. QED BY <2>3
<1>6. ASSUME NEW n \in 0..(N - 1), n \in T PROVE n + 1 \in T
  <2>1. n + 1 \in 1..N /\ (n + 1) - 1 = n /\ n + 1 \in 0..N /\ n \in 0..N
    OBVIOUS
  <2> DEFINE m == n + 1
             x == j[n]
             y == h[n]
             d == ds[m]
             c == cs[m]
             w0 == ws[0]
             w1 == ws[n]
             w2 == ws[m]
             r0 == rs[0]
             r1 == rs[n]
             r2 == rs[m]
  <2>2. j[m] = x \o d /\ h[m] = y \o c
    BY <1>1, <1>3, <2>1
  <2>3. x \in Bytes /\ y \in Bytes /\ d \in Bytes /\ c \in Bytes
    BY <1>2, <1>4, <2>1
  <2>4. Step(x, w0, w1, y, r0, r1) /\ Tidy(r1, w1)
    BY <1>6
  <2>5. Step(d, w1, w2, c, r1, r2) /\ Tidy(r2, w2)
    BY <2>1, <2>4
  <2>. HIDE DEF m, x, y, d, c, w0, w1, w2, r0, r1, r2
  <2>6. Step(x, w0, w1, y, r0, r1) /\ Step(d, w1, w2, c, r1, r2)
    BY <2>4, <2>5
  <2>7. Step(x \o d, w0, w2, y \o c, r0, r2)
    BY <2>3, <2>6, StepsJoin
  <2>8. Step(j[m], w0, w2, h[m], r0, r2) /\ Tidy(r2, w2)
    BY <2>2, <2>5, <2>7
  <2>. QED BY <2>1, <2>8 DEF m, w0, w2, r0, r2
<1>. HIDE DEF T
<1>7. \A n \in 0..N : n \in T
  BY <1>5, <1>6, UpTo
<1>. QED BY <1>1, <1>3, <1>7 DEF T

(* A dictionary that only grows, and by no more than the bytes read pay for. *)
Grown1(seen, c, after) ==
  /\ Len(seen) <= Len(after)
  /\ Len(after) * (WORD + 1) <= Len(seen) * (WORD + 1) + Len(c)

(* Growth adds up. *)
LEMMA Slope ==
  ASSUME NEW N \in Nat, NEW cs, Len(cs) = N, \A n \in 1..N : cs[n] \in Bytes,
         NEW seens, \A n \in 0..N : Len(seens[n]) \in Nat,
         \A n \in 1..N : Grown1(seens[n - 1], cs[n], seens[n])
  PROVE  /\ Grown1(seens[0], Concat(cs), seens[N])
         /\ \A n \in 0..N : Len(seens[n]) <= Len(seens[N])
<1> DEFINE j == Joint(cs)
           Q == WORD + 1
           x(n) == Len(seens[n])
           Ready(n) == /\ x(n) * Q <= x(0) * Q + Len(j[n])
                       /\ \A m \in 0..n : x(m) <= x(n)
           T == {n \in 0..N : Ready(n)}
<1>1. /\ j[0] = << >> /\ Concat(cs) = j[N]
      /\ \A n \in 1..N : j[n] = j[n - 1] \o cs[n]
  BY JointIs
<1>2. \A n \in 0..N : j[n] \in Bytes
  BY JointBytes
<1>3. Q \in Nat /\ \A n \in 0..N : x(n) \in Nat
  BY Bases
<1>4. \A n \in 1..N : x(n - 1) <= x(n) /\ x(n) * Q <= x(n - 1) * Q + Len(cs[n])
  BY DEF Grown1
<1>. HIDE DEF j, x, Q
<1>5. 0 \in T
  <2>1. 0 \in 0..N
    OBVIOUS
  <2>2. x(0) \in Nat
    BY <1>3, <2>1
  <2>3. x(0) * Q \in Nat
    BY <1>3, <2>2, Products
  <2>4. Len(j[0]) = 0
    BY <1>1
  <2> DEFINE y == x(0) * Q
  <2>. HIDE DEF y
  <2>5. y <= y + Len(j[0])
    BY <2>3, <2>4 DEF y
  <2>6. \A m \in 0..0 : x(m) <= x(0)
    BY <2>2
  <2>7. Ready(0)
    BY <2>5, <2>6 DEF y
  <2>. HIDE DEF Ready
  <2>. QED BY <2>1, <2>7
<1>6. ASSUME NEW n \in 0..(N - 1), n \in T PROVE n + 1 \in T
  <2>1. n + 1 \in 1..N /\ (n + 1) - 1 = n /\ n + 1 \in 0..N /\ n \in 0..N
    OBVIOUS
  <2> DEFINE m == n + 1
             u == j[n]
             c == cs[m]
             a == x(0) * Q
             b == x(n) * Q
             d == x(m) * Q
  <2>2. j[m] = u \o c /\ u \in Bytes /\ c \in Bytes
    BY <1>1, <1>2, <2>1
  <2>3. x(n) <= x(m) /\ d <= b + Len(c) /\ b <= a + Len(u) /\ \A i \in 0..n : x(i) <= x(n)
    BY <1>4, <1>6, <2>1
  <2>4. 0 \in 0..N
    OBVIOUS
  <2>5. x(n) \in Nat /\ x(m) \in Nat /\ x(0) \in Nat
    BY <1>3, <2>1, <2>4
  <2>6. a \in Nat /\ b \in Nat /\ d \in Nat
    <3>1. x(0) * Q \in Nat
      BY <1>3, <2>5, Products
    <3>2. x(n) * Q \in Nat
      BY <1>3, <2>5, Products
    <3>3. x(m) * Q \in Nat
      BY <1>3, <2>5, Products
    <3>. QED BY <3>1, <3>2, <3>3
  <2>. HIDE DEF m, u, c, a, b, d
  <2>7. u \in Bytes /\ c \in Bytes
    BY <2>2
  <2>8. Len(u \o c) = Len(u) + Len(c) /\ Len(u) \in Nat /\ Len(c) \in Nat
    BY <2>7, BytesJoined
  <2>9. Len(j[m]) = Len(u) + Len(c)
    BY <2>2, <2>8
  <2>10. d <= a + Len(j[m])
    BY <2>3, <2>6, <2>8, <2>9
  <2>11. \A i \in 0..m : x(i) <= x(m)
    <3>1. ASSUME NEW i \in 0..m PROVE x(i) <= x(m)
      <4>1. i \in 0..n \/ i = m
        BY DEF m
      <4>2. CASE i \in 0..n
        <5>1. i \in 0..N
          BY <4>2
        <5>2. x(i) \in Nat
          BY <1>3, <5>1
        <5>. QED BY <2>3, <2>5, <4>2, <5>2
      <4>. QED BY <2>5, <4>1, <4>2
    <3>. QED BY <3>1
  <2>12. Ready(m)
    BY <2>10, <2>11 DEF a, d
  <2>. HIDE DEF Ready
  <2>. QED BY <2>1, <2>12 DEF m
<1>. HIDE DEF T
<1>7. \A n \in 0..N : n \in T
  BY <1>5, <1>6, UpTo
<1>8. Ready(N)
  BY <1>7 DEF T
<1>9. x(N) * Q <= x(0) * Q + Len(j[N]) /\ \A m \in 0..N : x(m) <= x(N)
  BY <1>8
<1>10. 0 \in 0..N
  OBVIOUS
<1>11. x(0) <= x(N)
  BY <1>9, <1>10
<1>. QED BY <1>1, <1>9, <1>11 DEF x, Q, Grown1

(* A field read grows the dictionary by no more than its bytes pay for. *)
LEMMA SpeltGrown ==
  ASSUME NEW field, NEW seen \in Seq(Word), NEW c, NEW v, NEW after,
         Spelt(field, seen, c, v, after)
  PROVE  Grown1(seen, c, after)
<1>1. Len(after) * (WORD + 1) <= Len(seen) * (WORD + 1) + Len(c)
  BY SpeltAdds
<1>2. Len(seen) <= Len(after)
  <2>1. Len(seen) \in Nat
    BY LenProperties
  <2>2. CASE after = seen
    BY <2>1, <2>2
  <2>3. CASE after # seen
    <3>1. SpeltAddress(seen, c, v, after)
      BY <2>3 DEF Spelt
    <3>2. v \in Word /\ after = Append(seen, v)
      BY <2>3, <3>1 DEF SpeltAddress
    <3>3. Len(after) = Len(seen) + 1
      BY <3>2, AppendProperties
    <3>. QED BY <2>1, <3>3
  <2>. QED BY <2>2, <2>3
<1>. QED BY <1>1, <1>2 DEF Grown1

(* Nor does more in front of them. *)
LEMMA GrownBehind ==
  ASSUME NEW seen, Len(seen) \in Nat, NEW k \in Bytes, NEW c \in Bytes, NEW after,
         Len(after) \in Nat, Grown1(seen, c, after)
  PROVE  Grown1(seen, k \o c, after)
<1>1. Len(k \o c) = Len(k) + Len(c) /\ Len(k) \in Nat /\ Len(c) \in Nat
  BY BytesJoined
<1> DEFINE x == Len(seen) * (WORD + 1)
           y == Len(after) * (WORD + 1)
           b == k \o c
<1>2. x \in Nat
  BY Bases, Products
<1>3. Len(seen) <= Len(after) /\ y <= x + Len(c)
  BY DEF Grown1
<1>4. y \in Nat
  BY Bases, Products
<1>5. ASSUME y <= x + Len(c) PROVE y <= x + Len(b)
  <2>. HIDE DEF x, y, b
  <2>1. x + Len(c) <= x + Len(b) /\ x + Len(c) \in Int /\ x + Len(b) \in Int
    BY <1>1, <1>2 DEF b
  <2>. QED BY <1>4, <1>5, <2>1
<1>. QED BY <1>3, <1>5 DEF Grown1

(* A transaction read grows the dictionary by no more than its bytes pay for. *)
LEMMA TransactionGrown ==
  ASSUME NEW seen, NEW c, NEW txn, NEW after, SpeltTransaction(seen, c, txn, after)
  PROVE  seen \in Seq(Word) /\ after \in Seq(Word) /\ Grown1(seen, c, after)
<1>1. PICK kind \in Kinds : \E cs, vs, seens :
        /\ FieldTrace(TransactionLayout(kind), cs, vs, seens)
        /\ seens[0] = seen /\ seens[Len(TransactionLayout(kind))] = after
        /\ c = <<kind>> \o Concat(cs)
        /\ txn = TransactionOf(kind, First(vs, Len(TransactionLayout(kind))))
  BY DEF SpeltTransaction
<1>2. PICK cs, vs, seens :
        /\ FieldTrace(TransactionLayout(kind), cs, vs, seens)
        /\ seens[0] = seen /\ seens[Len(TransactionLayout(kind))] = after
        /\ c = <<kind>> \o Concat(cs)
  BY <1>1
<1> DEFINE L == TransactionLayout(kind)
           N == Len(L)
           k == <<kind>>
           d == Concat(cs)
<1>3. N \in Nat
  BY Layouts
<1>4. /\ Len(cs) = N /\ \A n \in 0..N : seens[n] \in Seq(Word)
      /\ \A n \in 1..N : cs[n] \in Bytes /\ Spelt(L[n], seens[n - 1], cs[n], vs[n], seens[n])
  BY <1>2 DEF FieldTrace
<1>5. seens[0] = seen /\ seens[N] = after
  BY <1>2
<1>6. k \in Bytes
  BY KindsAre DEF Bytes
<1>7. c = k \o d
  BY <1>2
<1>. HIDE DEF L, N, k
<1>8. \A n \in 1..N : Grown1(seens[n - 1], cs[n], seens[n])
  <2>1. ASSUME NEW n \in 1..N PROVE Grown1(seens[n - 1], cs[n], seens[n])
    <3>1. n - 1 \in 0..N
      BY <1>3
    <3>2. seens[n - 1] \in Seq(Word) /\ Spelt(L[n], seens[n - 1], cs[n], vs[n], seens[n])
      BY <1>4, <3>1
    <3>. QED BY <3>2, SpeltGrown
  <2>. QED BY <2>1
<1>9. \A n \in 0..N : Len(seens[n]) \in Nat
  BY <1>4, LenProperties
<1>10. \A n \in 1..N : cs[n] \in Bytes
  BY <1>4
<1>11. Len(cs) = N
  BY <1>4
<1>12. Grown1(seens[0], d, seens[N])
  BY <1>3, <1>8, <1>9, <1>10, <1>11, Slope
<1>13. d \in Bytes
  BY <1>3, <1>10, <1>11, JointBytes
<1>14. 0 \in 0..N /\ N \in 0..N
  BY <1>3
<1>15. seen \in Seq(Word) /\ after \in Seq(Word) /\ Len(seen) \in Nat /\ Len(after) \in Nat
  BY <1>4, <1>5, <1>9, <1>14
<1>. HIDE DEF d
<1>16. Grown1(seen, d, after)
  BY <1>5, <1>12
<1>17. Grown1(seen, k \o d, after)
  BY <1>6, <1>13, <1>15, <1>16, GrownBehind
<1>. QED BY <1>7, <1>15, <1>17

ShortStep(rs, c, txn, ra, ws) ==
  \E d, wa : PutStep(ws, d, txn, wa) /\ Step(d, ws, wa, c, rs, ra) /\ Tidy(ra, wa)

(* However a transaction was spelt, it is written shorter, or just so. *)
LEMMA TransactionShort ==
  ASSUME NEW rs, NEW c, NEW txn, NEW ra, SpeltTransaction(rs, c, txn, ra),
         NEW ws, Tidy(rs, ws), Len(ra) <= MAX_U64
  PROVE  ShortStep(rs, c, txn, ra, ws)
<1>1. PICK kind \in Kinds : \E cs, vs, seens :
        /\ FieldTrace(TransactionLayout(kind), cs, vs, seens)
        /\ seens[0] = rs /\ seens[Len(TransactionLayout(kind))] = ra
        /\ c = <<kind>> \o Concat(cs)
        /\ txn = TransactionOf(kind, First(vs, Len(TransactionLayout(kind))))
  BY DEF SpeltTransaction
<1>2. PICK cs, vs, seens :
        /\ FieldTrace(TransactionLayout(kind), cs, vs, seens)
        /\ seens[0] = rs /\ seens[Len(TransactionLayout(kind))] = ra
        /\ c = <<kind>> \o Concat(cs)
        /\ txn = TransactionOf(kind, First(vs, Len(TransactionLayout(kind))))
  BY <1>1
<1> DEFINE L == TransactionLayout(kind)
           N == Len(L)
           k == <<kind>>
           f == SeenBy(L, vs, ws)
           d == Chunks(L, vs, ws)
<1>3. N \in Nat /\ \A n \in 1..N : L[n] \in Fields
  BY Layouts
<1>4. /\ Len(cs) = N /\ \A n \in 0..N : seens[n] \in Seq(Word)
      /\ \A n \in 1..N : cs[n] \in Bytes /\ Spelt(L[n], seens[n - 1], cs[n], vs[n], seens[n])
  BY <1>2 DEF FieldTrace
<1>5. seens[0] = rs /\ seens[N] = ra
  BY <1>2
<1>6. k \in Bytes
  BY KindsAre DEF Bytes
<1>7. c = k \o Concat(cs)
  BY <1>2
<1>8. txn = TransactionOf(kind, First(vs, N))
  BY <1>2
<1>9. f[0] = ws /\ \A n \in 1..N : f[n] = FieldAfter(L[n], f[n - 1], vs[n])
  BY <1>3, SeenByIs
<1>10. Len(d) = N /\ \A n \in 1..N : d[n] = FieldChunk(L[n], f[n - 1], vs[n])
  BY <1>3, ChunksAre
<1>11. ws \in Seq(Word) /\ rs \in Seq(Word)
  BY DEF Tidy
<1>. HIDE DEF k, f, d, L, N
<1>12. \A n \in 1..N : Grown1(seens[n - 1], cs[n], seens[n])
  <2>1. ASSUME NEW n \in 1..N PROVE Grown1(seens[n - 1], cs[n], seens[n])
    <3>1. n - 1 \in 0..N
      BY <1>3
    <3>2. seens[n - 1] \in Seq(Word) /\ Spelt(L[n], seens[n - 1], cs[n], vs[n], seens[n])
      BY <1>4, <3>1
    <3>. QED BY <3>2, SpeltGrown
  <2>. QED BY <2>1
<1>13. \A n \in 0..N : Len(seens[n]) \in Nat
  BY <1>4, LenProperties
<1>14. \A n \in 1..N : cs[n] \in Bytes
  BY <1>4
<1>15. Len(cs) = N
  BY <1>4
<1>16. \A n \in 0..N : Len(seens[n]) <= Len(seens[N])
  BY <1>3, <1>12, <1>13, <1>14, <1>15, Slope
<1>17. \A n \in 0..N : Len(seens[n]) <= MAX_U64
  <2>1. Len(seens[N]) <= MAX_U64 /\ N \in 0..N
    BY <1>3, <1>5
  <2>. QED BY <1>13, <1>16, <2>1, Bases
<1>18. ASSUME NEW n \in 1..N, Tidy(seens[n - 1], f[n - 1])
       PROVE  Step(d[n], f[n - 1], f[n], cs[n], seens[n - 1], seens[n]) /\ Tidy(seens[n], f[n])
  <2> DEFINE r0 == seens[n - 1]
             w0 == f[n - 1]
             r1 == seens[n]
             field == L[n]
             v == vs[n]
             e == cs[n]
  <2>1. n - 1 \in 0..N
    BY <1>3
  <2>2. Len(r0) <= MAX_U64 /\ Len(r0) \in Nat
    BY <1>13, <1>17, <2>1
  <2>3. field \in Fields /\ Spelt(field, r0, e, v, r1) /\ Tidy(r0, w0)
    BY <1>3, <1>4, <1>18
  <2>4. d[n] = FieldChunk(field, w0, v) /\ f[n] = FieldAfter(field, w0, v)
    BY <1>9, <1>10
  <2>. HIDE DEF r0, w0, r1, field, v, e
  <2>5. Len(w0) <= MAX_U64
    <3>1. Len(w0) <= Len(r0) /\ Len(w0) \in Nat
      BY <2>3, LenProperties DEF Tidy
    <3>. QED BY <2>2, <3>1, Bases
  <2>6. /\ Step(FieldChunk(field, w0, v), w0, FieldAfter(field, w0, v), e, r0, r1)
        /\ Tidy(r1, FieldAfter(field, w0, v))
    BY <2>3, <2>5, FieldStepShort
  <2>7. Step(d[n], w0, f[n], e, r0, r1) /\ Tidy(r1, f[n])
    BY <2>4, <2>6
  <2>. QED BY <2>7 DEF r0, w0, r1, e
<1> DEFINE T == {n \in 0..N : Tidy(seens[n], f[n])}
<1>19. 0 \in T
  BY <1>3, <1>5, <1>9
<1>20. ASSUME NEW n \in 0..(N - 1), n \in T PROVE n + 1 \in T
  <2>1. n + 1 \in 1..N /\ (n + 1) - 1 = n /\ n + 1 \in 0..N /\ n \in 0..N
    BY <1>3
  <2>2. Tidy(seens[n], f[n])
    BY <1>20
  <2>3. Tidy(seens[(n + 1) - 1], f[(n + 1) - 1])
    BY <2>1, <2>2
  <2>4. Tidy(seens[n + 1], f[n + 1])
    BY <1>18, <2>1, <2>3
  <2>. QED BY <2>1, <2>4
<1>. HIDE DEF T
<1>21. \A n \in 0..N : n \in T
  BY <1>3, <1>19, <1>20, UpTo
<1>22. \A n \in 0..N : Tidy(seens[n], f[n])
  BY <1>21 DEF T
<1>23. \A n \in 0..N : Len(f[n]) <= MAX_U64
  <2>1. ASSUME NEW n \in 0..N PROVE Len(f[n]) <= MAX_U64
    <3>1. Len(f[n]) <= Len(seens[n]) /\ f[n] \in Seq(Word)
      BY <1>22 DEF Tidy
    <3>2. Len(f[n]) \in Nat
      BY <3>1, LenProperties
    <3>. QED BY <1>13, <1>17, <3>1, <3>2, Bases
  <2>. QED BY <2>1
<1>24. Roomy(kind, vs, ws)
  BY <1>23 DEF Roomy, f, L, N
<1>25. ValuesOf(kind, txn, vs)
  <2>1. ASSUME NEW n \in 1..N PROVE Typed(L[n], vs[n])
    <3>1. n - 1 \in 0..N
      BY <1>3
    <3>2. seens[n - 1] \in Seq(Word) /\ Spelt(L[n], seens[n - 1], cs[n], vs[n], seens[n])
      BY <1>4, <3>1
    <3>. QED BY <3>2, SpeltTyped
  <2>. QED BY <1>8, <2>1 DEF ValuesOf, L, N
<1>26. /\ PutStep(ws, ChunkOf(kind, vs, ws), txn, AfterOf(kind, vs, ws))
       /\ LET M == TransactionLayout(kind)
          IN FieldTrace(M, Chunks(M, vs, ws), vs, SeenBy(M, vs, ws))
  BY <1>11, <1>24, <1>25, TransactionWrites
<1>27. FieldTrace(L, d, vs, f)
  BY <1>26 DEF L, d, f
<1>28. \A n \in 1..N : d[n] \in Bytes /\ cs[n] \in Bytes
  BY <1>14, <1>27 DEF FieldTrace, N
<1>29. ChunkOf(kind, vs, ws) = k \o Concat(d) /\ AfterOf(kind, vs, ws) = f[N]
  BY DEF ChunkOf, AfterOf, k, d, f, N, L
<1>30. Step(Concat(d), f[0], f[N], Concat(cs), seens[0], seens[N]) /\ Tidy(seens[N], f[N])
  <2>1. 0 \in 0..N
    BY <1>3
  <2>2. Tidy(seens[0], f[0])
    BY <1>22, <2>1
  <2>3. Len(d) = N
    BY <1>10
  <2>. QED BY <1>3, <1>15, <1>18, <1>28, <2>2, <2>3, StepsChain
<1> DEFINE dd == Concat(d)
           cc == Concat(cs)
<1>31. dd \in Bytes /\ cc \in Bytes
  BY <1>3, <1>10, <1>15, <1>28, JointBytes
<1>32. Step(dd, ws, f[N], cc, rs, ra) /\ Tidy(ra, f[N])
  BY <1>5, <1>9, <1>30
<1>33. Step(k, ws, ws, k, rs, rs)
  <2>1. Len(k) \in Nat
    BY <1>6, LenProperties DEF Bytes
  <2>. QED BY <2>1 DEF Step
<1>34. c = k \o cc /\ ChunkOf(kind, vs, ws) = k \o dd
  BY <1>7, <1>29
<1>. HIDE DEF dd, cc
<1> DEFINE wa == f[N]
<1>. HIDE DEF wa
<1>35. Step(dd, ws, wa, cc, rs, ra)
  BY <1>32 DEF wa
<1>36. Step(k \o dd, ws, wa, k \o cc, rs, ra)
  BY <1>6, <1>31, <1>33, <1>35, StepsJoin
<1>37. /\ PutStep(ws, ChunkOf(kind, vs, ws), txn, wa) /\ Tidy(ra, wa)
       /\ Step(ChunkOf(kind, vs, ws), ws, wa, c, rs, ra)
  BY <1>26, <1>29, <1>32, <1>34, <1>36 DEF wa
<1>. QED BY <1>37 DEF ShortStep

(* What is shorter twice is shorter. *)
LEMMA ShortJoin ==
  ASSUME NEW d \in Bytes, NEW c \in Bytes, NEW e \in Bytes, NEW f \in Bytes,
         Short(d, c), Short(e, f)
  PROVE  Short(d \o e, c \o f)
<1>1. Len(d \o e) = Len(d) + Len(e) /\ Len(d) \in Nat /\ Len(e) \in Nat
  BY BytesJoined
<1>2. Len(c \o f) = Len(c) + Len(f) /\ Len(c) \in Nat /\ Len(f) \in Nat
  BY BytesJoined
<1>3. CASE d = c /\ e = f
  BY <1>3 DEF Short
<1>4. CASE ~(d = c /\ e = f)
  <2>1. Len(d) <= Len(c) /\ Len(e) <= Len(f) /\ (Len(d) < Len(c) \/ Len(e) < Len(f))
    BY <1>1, <1>2, <1>4 DEF Short
  <2> DEFINE x == Len(d \o e)
             y == Len(c \o f)
  <2>2. x < y
    BY <1>1, <1>2, <2>1
  <2>. QED BY <2>2 DEF Short
<1>. QED BY <1>3, <1>4

(* The first n values, as a sequence. *)
LEMMA FirstIs ==
  ASSUME NEW f, NEW N \in Nat
  PROVE  /\ Len(First(f, N)) = N /\ \A n \in 1..N : First(f, N)[n] = f[n]
         /\ First(f, N) \in Seq({f[n] : n \in 1..N})
BY DEF First

(* A batch has no room for more addresses than its bytes pay for. *)
LEMMA BatchRoom ==
  ASSUME NEW txns, NEW cs, NEW seens, NEW N, BatchTrace(txns, cs, seens, N),
         NEW M \in Nat, Len(Concat(cs)) <= M * (WORD + 1)
  PROVE  \A n \in 0..N : Len(seens[n]) \in Nat /\ Len(seens[n]) <= M
<1>1. /\ N \in Nat /\ Len(cs) = N /\ seens[0] = << >>
      /\ \A n \in 0..N : seens[n] \in Seq(Word)
      /\ \A n \in 1..N : cs[n] \in Bytes /\ SpeltTransaction(seens[n - 1], cs[n], txns[n], seens[n])
  BY DEF BatchTrace
<1>2. \A n \in 1..N : Grown1(seens[n - 1], cs[n], seens[n])
  BY <1>1, TransactionGrown
<1>3. \A n \in 0..N : Len(seens[n]) \in Nat
  BY <1>1, LenProperties
<1>4. N \in Nat /\ Len(cs) = N /\ \A n \in 1..N : cs[n] \in Bytes
  BY <1>1
<1>5. /\ Grown1(seens[0], Concat(cs), seens[N])
      /\ \A n \in 0..N : Len(seens[n]) <= Len(seens[N])
  BY <1>2, <1>3, <1>4, Slope
<1> DEFINE Q == WORD + 1
           x == Len(seens[N])
<1>6. Len(seens[0]) = 0
  BY <1>1
<1>7. x * Q <= 0 * Q + Len(Concat(cs))
  BY <1>5, <1>6 DEF Grown1
<1>8. Q \in Nat /\ Q >= 1 /\ x \in Nat
  <2>1. N \in 0..N
    BY <1>1
  <2>. QED BY <1>3, <2>1, Bases
<1>9. Len(Concat(cs)) \in Nat
  BY <1>4, JointBytes, LenProperties DEF Bytes
<1>. HIDE DEF Q, x
<1>10. 0 * Q = 0 /\ x * Q \in Nat /\ M * Q \in Nat
  BY <1>8, Products
<1>11. x * Q <= M * Q
  <2>1. Len(Concat(cs)) <= M * Q
    BY DEF Q
  <2>. QED BY <1>7, <1>9, <1>10, <2>1
<1>12. x <= M
  <2>1. ASSUME x > M PROVE FALSE
    <3>1. M + 1 <= x /\ M + 1 \in Nat
      BY <1>8, <2>1
    <3>2. (M + 1) * Q <= x * Q
      BY <1>8, <3>1, Products
    <3>3. (M + 1) * Q = M * Q + Q
      BY <1>8
    <3> DEFINE y == M * Q
               z == x * Q
    <3>4. y + Q <= z /\ z <= y /\ y \in Nat /\ z \in Nat
      BY <1>10, <1>11, <3>2, <3>3
    <3>. HIDE DEF y, z
    <3>. QED BY <1>8, <3>4
  <2>. QED BY <1>8, <2>1
<1>. QED BY <1>3, <1>5, <1>8, <1>12 DEF x

(* A batch that decodes is encoded shorter, or just so, and decodes the same. *)
LEMMA BatchShort ==
  ASSUME NEW s \in Bytes, Good(Batch_decode(s)), Len(s) <= MAX_U64 * (WORD + 1)
  PROVE  LET txns == Batch_decode(s).out
             again == Batch_encode(txns)
         IN /\ Good(Batch_decode(again)) /\ Batch_decode(again).out = txns
            /\ Short(again, s)
<1>1. BatchSplit(s)
  BY BatchTaken
<1>2. PICK all, a, cs, seens, N : SpeltBatch(s, all, a, cs, seens, N)
  BY <1>1 DEF BatchSplit
<1> DEFINE txns == First(all, N)
           S == {all[n] : n \in 1..N}
<1>3. /\ BatchTrace(all, cs, seens, N) /\ Number(a, N)
      /\ s = (<<VERSION>> \o a) \o Concat(cs)
  BY <1>2 DEF SpeltBatch
<1>4. /\ N \in Nat /\ Len(cs) = N /\ seens[0] = << >>
      /\ \A n \in 0..N : seens[n] \in Seq(Word)
      /\ \A n \in 1..N : cs[n] \in Bytes /\ SpeltTransaction(seens[n - 1], cs[n], all[n], seens[n])
  BY <1>3 DEF BatchTrace
<1>5. /\ Len(txns) = N /\ \A n \in 1..N : txns[n] = all[n]
      /\ txns \in Seq(S)
  BY <1>4, FirstIs
<1>6. Batch_decode(s).out = txns
  <2>1. << >> \in Bytes
    BY NoBytes
  <2> DEFINE t == << >>
  <2>2. t \in Bytes /\ t = << >>
    BY <2>1
  <2>. HIDE DEF t, txns
  <2>3. t = << >> => \E w : Batch_decode(s) = Rd(<< >>, w, seens[N], First(all, N))
    BY <1>2, <2>2, BatchReads
  <2>4. PICK w : Batch_decode(s) = Rd(<< >>, w, seens[N], First(all, N))
    BY <2>2, <2>3
  <2> DEFINE e == << >>
             o == First(all, N)
             f == seens[N]
  <2>5. Batch_decode(s) = Rd(e, w, f, o)
    BY <2>4
  <2>. HIDE DEF e, o, f
  <2>6. Rd(e, w, f, o).out = o
    BY RdIs
  <2>. QED BY <2>5, <2>6 DEF o, txns
<1>. HIDE DEF txns, S
<1>7. Number(put_varint(N), N) /\ Short(put_varint(N), a) /\ a \in Bytes /\ put_varint(N) \in Bytes
  <2>1. Number(put_varint(N), N) /\ (put_varint(N) = a \/ Len(put_varint(N)) < Len(a))
    BY <1>3, NumberShortest
  <2>. QED BY <1>3, <2>1 DEF Short, Number
<1> DEFINE va == <<VERSION>> \o a
           cc == Concat(cs)
<1>8. va \in Bytes /\ cc \in Bytes
  BY <1>4, <1>7, VersionIs, BytesJoined, JointBytes
<1>9. s = va \o cc
  BY <1>3
<1>. HIDE DEF va, cc
<1>10. Len(cc) <= MAX_U64 * (WORD + 1)
  <2>1. Len(va \o cc) = Len(va) + Len(cc) /\ Len(va) \in Nat /\ Len(cc) \in Nat
    BY <1>8, BytesJoined
  <2> DEFINE m == MAX_U64 * (WORD + 1)
  <2>2. m \in Nat
    BY Bases, Products
  <2>3. Len(va) + Len(cc) <= m
    BY <1>9, <2>1
  <2>. HIDE DEF m
  <2>4. Len(cc) <= m
    BY <2>1, <2>2, <2>3
  <2>. QED BY <2>4 DEF m
<1>11. \A n \in 0..N : Len(seens[n]) \in Nat /\ Len(seens[n]) <= MAX_U64
  BY <1>3, <1>10, Bases, BatchRoom DEF cc
<1> DEFINE Room(n) == {ws \in Seq(Word) : Tidy(seens[n], ws)}
           Ok == [n \in 0..N |-> Room(n)]
<1>12. \A n \in 0..N : Ok[n] = Room(n)
  OBVIOUS
<1>. HIDE DEF Ok
<1>13. << >> \in Ok[0] /\ \A n \in 0..N : Ok[n] \subseteq Seq(Word)
  <2>1. Tidy(<< >>, << >>)
    BY DEF Tidy
  <2>2. << >> \in Room(0)
    BY <1>4, <2>1
  <2>3. Ok[0] = Room(0)
    BY <1>4, <1>12
  <2>. QED BY <1>12, <2>2, <2>3
<1>14. ASSUME NEW n \in 1..N, NEW ws, Tidy(seens[n - 1], ws)
       PROVE  ShortStep(seens[n - 1], cs[n], txns[n], seens[n], ws)
  <2> DEFINE r0 == seens[n - 1]
             r1 == seens[n]
             c == cs[n]
             txn == txns[n]
  <2>1. n \in 0..N
    BY <1>4
  <2>2. SpeltTransaction(r0, c, txn, r1)
    BY <1>4, <1>5
  <2>3. Tidy(r0, ws) /\ Len(r1) <= MAX_U64
    BY <1>11, <1>14, <2>1
  <2>. HIDE DEF r0, r1, c, txn
  <2>4. ShortStep(r0, c, txn, r1, ws)
    BY <2>2, <2>3, TransactionShort
  <2>. QED BY <2>4 DEF r0, r1, c, txn
<1>15. ASSUME NEW n \in 1..N, NEW seen \in Ok[n - 1]
       PROVE  \E c : \E after \in Ok[n] : PutStep(seen, c, txns[n], after)
  <2>1. n - 1 \in 0..N /\ n \in 0..N
    BY <1>4
  <2>2. Tidy(seens[n - 1], seen)
    BY <1>12, <2>1
  <2>3. ShortStep(seens[n - 1], cs[n], txns[n], seens[n], seen)
    BY <1>14, <2>2
  <2>4. PICK d, wa : PutStep(seen, d, txns[n], wa) /\ Tidy(seens[n], wa)
    BY <2>3 DEF ShortStep
  <2>5. wa \in Room(n)
    BY <2>4 DEF Tidy
  <2>6. wa \in Ok[n]
    BY <1>12, <2>1, <2>5
  <2>. QED BY <2>4, <2>6
<1>16. \E ds, ws : BatchPut(txns, ds, ws) /\ \A n \in 0..N : ws[n] \in Ok[n]
  <2>1. Len(txns) \in Nat /\ Writable(Len(txns))
    BY <1>4, <1>5, <1>7 DEF Writable
  <2>2. /\ \A n \in 0..Len(txns) : Ok[n] \subseteq Seq(Word)
        /\ \A n \in 1..Len(txns) : \A seen \in Ok[n - 1] :
             \E c : \E after \in Ok[n] : PutStep(seen, c, txns[n], after)
    BY <1>5, <1>13, <1>15
  <2>3. << >> \in Ok[0]
    BY <1>13
  <2>4. \E ds, ws : BatchPut(txns, ds, ws) /\ \A n \in 0..Len(txns) : ws[n] \in Ok[n]
    BY <2>1, <2>2, <2>3, BatchWrites
  <2>. QED BY <1>5, <2>4
<1>17. PICK ds, ws : BatchPut(txns, ds, ws) /\ \A n \in 0..N : ws[n] \in Ok[n]
  BY <1>16
<1>18. /\ BatchTrace(txns, ds, ws, N) /\ Batch_encode(txns) = Preamble(N) \o Concat(ds)
       /\ \A n \in 1..N : PutStep(ws[n - 1], ds[n], txns[n], ws[n])
  BY <1>5, <1>17 DEF BatchPut
<1>19. /\ Len(ds) = N /\ ws[0] = << >> /\ \A n \in 1..N : ds[n] \in Bytes
  BY <1>18 DEF BatchTrace
<1>20. \A n \in 0..N : Tidy(seens[n], ws[n])
  BY <1>12, <1>17
<1>21. ASSUME NEW n \in 1..N
       PROVE  Step(ds[n], ws[n - 1], ws[n], cs[n], seens[n - 1], seens[n])
  <2>1. n - 1 \in 0..N
    BY <1>4
  <2>2. Tidy(seens[n - 1], ws[n - 1])
    BY <1>20, <2>1
  <2>3. ShortStep(seens[n - 1], cs[n], txns[n], seens[n], ws[n - 1])
    BY <1>14, <2>2
  <2>4. PICK d, wa : /\ PutStep(ws[n - 1], d, txns[n], wa)
                     /\ Step(d, ws[n - 1], wa, cs[n], seens[n - 1], seens[n])
    BY <2>3 DEF ShortStep
  <2>5. PutStep(ws[n - 1], ds[n], txns[n], ws[n])
    BY <1>18
  <2>6. d = ds[n] /\ wa = ws[n]
    BY <2>4, <2>5, PutOnce
  <2>. QED BY <2>4, <2>6
<1> DEFINE dd == Concat(ds)
<1>22. Short(dd, cc)
  <2>1. Tidy(seens[0], ws[0])
    <3>1. 0 \in 0..N
      BY <1>4
    <3>. QED BY <1>20, <3>1
  <2>2. \A n \in 1..N : Tidy(seens[n - 1], ws[n - 1]) =>
          Step(ds[n], ws[n - 1], ws[n], cs[n], seens[n - 1], seens[n]) /\ Tidy(seens[n], ws[n])
    <3>1. \A n \in 1..N : n \in 0..N
      BY <1>4
    <3>. QED BY <1>20, <1>21, <3>1
  <2>3. N \in Nat /\ Len(ds) = N /\ Len(cs) = N
        /\ \A n \in 1..N : ds[n] \in Bytes /\ cs[n] \in Bytes
    BY <1>4, <1>19
  <2>4. Step(Concat(ds), ws[0], ws[N], Concat(cs), seens[0], seens[N])
    BY <2>1, <2>2, <2>3, StepsChain
  <2>5. ws[0] = seens[0]
    BY <1>4, <1>19
  <2>. QED BY <2>4, <2>5 DEF Step, Short, cc
<1>23. dd \in Bytes
  BY <1>4, <1>19, JointBytes
<1> DEFINE vp == <<VERSION>> \o put_varint(N)
<1>24. vp \in Bytes /\ Short(vp, va)
  <2>1. Len(<<VERSION>>) \in Nat /\ <<VERSION>> \in Bytes
    BY VersionIs
  <2> DEFINE v == <<VERSION>>
             p == put_varint(N)
  <2>2. v \in Bytes /\ p \in Bytes /\ a \in Bytes /\ Short(p, a) /\ Short(v, v)
    BY <1>7, <2>1 DEF Short
  <2>. HIDE DEF v, p
  <2>3. Short(v \o p, v \o a)
    BY <2>2, ShortJoin
  <2>4. v \o p \in Bytes
    BY <2>2, BytesJoined
  <2>. QED BY <2>3, <2>4 DEF v, p, va
<1>25. Batch_encode(txns) = vp \o dd
  BY <1>18 DEF Preamble
<1>. HIDE DEF vp, dd
<1>26. Short(Batch_encode(txns), s)
  <2>1. Short(vp \o dd, va \o cc)
    BY <1>8, <1>22, <1>23, <1>24, ShortJoin
  <2>. QED BY <1>9, <1>25, <2>1
<1>27. /\ Good(Batch_decode(Batch_encode(txns)))
       /\ Batch_decode(Batch_encode(txns)).out = txns
  <2>1. Writable(Len(txns)) /\ BatchPut(txns, ds, ws) /\ txns \in Seq(S)
    BY <1>5, <1>7, <1>17 DEF Writable
  <2>. QED BY <2>1, PutIsRead
<1>. QED BY <1>6, <1>26, <1>27
=============================================================================
