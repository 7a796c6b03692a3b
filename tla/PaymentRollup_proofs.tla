------------------------ MODULE PaymentRollup_proofs ------------------------
(***************************************************************************)
(* What the guest's replay and the contract both build on: the laws of     *)
(* Sum, from the cardinality of finite sets; the total under a root; and   *)
(* the two chains, one item longer.                                        *)
(***************************************************************************)
EXTENDS PaymentRollup, SequenceTheorems, FiniteSetTheorems, TLAPS

-----------------------------------------------------------------------------
(* The laws of Sum. *)

(* The coins of a function on a finite domain form a finite set. *)
LEMMA CoinsFinite ==
  ASSUME NEW S, IsFiniteSet(S), NEW f \in [S -> U64]
  PROVE  IsFiniteSet(CoinsOf(f))
<1>1. IsFiniteSet(1..MAX_U64)
  BY MaxU64Assumption, FS_Interval
<1>2. IsFiniteSet(S \X (1..MAX_U64))
  BY <1>1, FS_Product
<1>3. CoinsOf(f) \subseteq S \X (1..MAX_U64)
  <2>1. \A x \in S : f[x] \in Nat /\ f[x] <= MAX_U64 /\ MAX_U64 \in Nat
    BY MaxU64Assumption DEF U64
  <2>2. \A x \in S : \A n \in 1..f[x] : n \in 1..MAX_U64
    BY <2>1
  <2>3. \A c \in CoinsOf(f) : \E x \in S : \E n \in 1..f[x] : c = <<x, n>>
    BY DEF CoinsOf
  <2> QED BY <2>2, <2>3
<1> QED BY <1>2, <1>3, FS_Subset

(* A sum of balances is a natural number. *)
LEMMA SumType ==
  ASSUME NEW S, IsFiniteSet(S), NEW f \in [S -> U64]
  PROVE  Sum(f) \in Nat
BY CoinsFinite, FS_CardinalityType DEF Sum

(* Nothing adds up to zero. *)
LEMMA SumEmpty ==
  ASSUME NEW f \in [{} -> U64]
  PROVE  Sum(f) = 0
<1>1. CoinsOf(f) = {}
  BY DEF CoinsOf
<1> QED BY <1>1, FS_EmptySet DEF Sum

(* The sum over two disjoint domains is the sum of the two sums. *)
LEMMA SumDisjoint ==
  ASSUME NEW S, IsFiniteSet(S), NEW T, IsFiniteSet(T), S \cap T = {},
         NEW f \in [S \cup T -> U64]
  PROVE  Sum(f) = Sum([x \in S |-> f[x]]) + Sum([x \in T |-> f[x]])
<1> DEFINE g == [x \in S |-> f[x]]
           h == [x \in T |-> f[x]]
<1>1. g \in [S -> U64] /\ h \in [T -> U64]
  OBVIOUS
<1>2. IsFiniteSet(CoinsOf(g)) /\ IsFiniteSet(CoinsOf(h))
  BY <1>1, CoinsFinite
<1>3. CoinsOf(f) = CoinsOf(g) \cup CoinsOf(h)
  BY <1>1 DEF CoinsOf
<1>4. CoinsOf(g) \cap CoinsOf(h) = {}
  BY <1>1 DEF CoinsOf
<1>5. Cardinality(CoinsOf(g) \cap CoinsOf(h)) = 0
  BY <1>4, FS_EmptySet
<1>6. Cardinality(CoinsOf(g)) \in Nat /\ Cardinality(CoinsOf(h)) \in Nat
  BY <1>2, FS_CardinalityType
<1>7. Cardinality(CoinsOf(g) \cup CoinsOf(h)) =
        Cardinality(CoinsOf(g)) + Cardinality(CoinsOf(h))
           - Cardinality(CoinsOf(g) \cap CoinsOf(h))
  BY <1>2, FS_Union
<1> QED BY <1>3, <1>5, <1>6, <1>7 DEF Sum

(* A single value sums to itself. *)
LEMMA SumSingleton ==
  ASSUME NEW a, NEW f \in [{a} -> U64]
  PROVE  Sum(f) = f[a]
<1>1. f[a] \in Nat /\ f[a] <= MAX_U64 /\ MAX_U64 \in Nat
  BY MaxU64Assumption DEF U64
<1>2. CoinsOf(f) = {a} \X (1..f[a])
  BY <1>1 DEF CoinsOf
<1>3. IsFiniteSet({a}) /\ Cardinality({a}) = 1
  BY FS_Singleton
<1>4. IsFiniteSet(1..f[a]) /\ Cardinality(1..f[a]) = f[a]
  BY <1>1, FS_Interval
<1>5. Cardinality({a} \X (1..f[a])) = 1 * f[a]
  <2>1. Cardinality({a} \X (1..f[a])) = Cardinality({a}) * Cardinality(1..f[a])
    BY <1>3, <1>4, FS_Product
  <2> QED BY <2>1, <1>3, <1>4
<1> QED BY <1>1, <1>2, <1>5 DEF Sum

(* One value can be split off a sum. *)
LEMMA SumSplit ==
  ASSUME NEW S, IsFiniteSet(S), NEW f \in [S -> U64], NEW a \in S
  PROVE  /\ Sum(f) = Sum([x \in S \ {a} |-> f[x]]) + f[a]
         /\ Sum([x \in S \ {a} |-> f[x]]) \in Nat
         /\ f[a] \in Nat
<1> DEFINE T == S \ {a}
           g == [x \in T |-> f[x]]
           h == [x \in {a} |-> f[x]]
<1>1. IsFiniteSet(T) /\ IsFiniteSet({a}) /\ T \cap {a} = {} /\ S = T \cup {a}
  BY FS_Difference, FS_Singleton
<1>2. Sum(f) = Sum(g) + Sum(h)
  BY <1>1, SumDisjoint
<1>3. h \in [{a} -> U64] /\ g \in [T -> U64]
  OBVIOUS
<1>4. Sum(h) = h[a]
  BY <1>3, SumSingleton
<1>5. Sum(g) \in Nat
  BY <1>1, <1>3, SumType
<1>6. f[a] \in Nat
  BY DEF U64
<1> QED BY <1>2, <1>4, <1>5, <1>6

(* Writing one value moves the sum by exactly the difference. *)
LEMMA SumUpdate ==
  ASSUME NEW S, IsFiniteSet(S), NEW f \in [S -> U64], NEW g \in [S -> U64],
         NEW a \in S, \A x \in S \ {a} : g[x] = f[x]
  PROVE  Sum(g) + f[a] = Sum(f) + g[a]
<1>1. [x \in S \ {a} |-> g[x]] = [x \in S \ {a} |-> f[x]]
  OBVIOUS
<1>2. /\ Sum(f) = Sum([x \in S \ {a} |-> f[x]]) + f[a]
      /\ Sum([x \in S \ {a} |-> f[x]]) \in Nat /\ f[a] \in Nat
  BY SumSplit
<1>3. Sum(g) = Sum([x \in S \ {a} |-> g[x]]) + g[a] /\ g[a] \in Nat
  BY SumSplit
<1> QED BY <1>1, <1>2, <1>3

(* A sum does not depend on how its values are numbered. *)
LEMMA SumReindex ==
  ASSUME NEW S, IsFiniteSet(S), NEW T,
         NEW f \in [S -> U64], NEW g \in [T -> U64], NEW b \in Bijection(S, T),
         \A x \in S : f[x] = g[b[x]]
  PROVE  Sum(f) = Sum(g)
<1> DEFINE m == [c \in CoinsOf(f) |-> <<b[c[1]], c[2]>>]
<1>1. /\ b \in [S -> T]
      /\ \A x, y \in S : b[x] = b[y] => x = y
      /\ \A t \in T : \E x \in S : b[x] = t
  BY DEF Bijection, Injection, Surjection, IsInjective
<1>2. \A c : c \in CoinsOf(f) <=> \E x \in S : \E n \in 1..f[x] : c = <<x, n>>
  BY DEF CoinsOf
<1>3. \A c : c \in CoinsOf(g) <=> \E t \in T : \E n \in 1..g[t] : c = <<t, n>>
  BY DEF CoinsOf
<1>4. m \in [CoinsOf(f) -> CoinsOf(g)]
  <2>1. ASSUME NEW c \in CoinsOf(f) PROVE <<b[c[1]], c[2]>> \in CoinsOf(g)
    <3>1. PICK x \in S : \E n \in 1..f[x] : c = <<x, n>>
      BY <1>2
    <3>2. PICK n \in 1..f[x] : c = <<x, n>>
      BY <3>1
    <3>3. b[x] \in T /\ n \in 1..g[b[x]] /\ c[1] = x /\ c[2] = n
      BY <1>1, <3>2
    <3> QED BY <1>3, <3>3
  <2> QED BY <2>1
<1>5. \A c, d \in CoinsOf(f) : m[c] = m[d] => c = d
  <2> SUFFICES ASSUME NEW c \in CoinsOf(f), NEW d \in CoinsOf(f), m[c] = m[d]
               PROVE  c = d
    OBVIOUS
  <2>1. PICK x \in S : \E n \in 1..f[x] : c = <<x, n>>
    BY <1>2
  <2>2. PICK y \in S : \E n \in 1..f[y] : d = <<y, n>>
    BY <1>2
  <2>3. b[x] = b[y] /\ c[2] = d[2]
    BY <2>1, <2>2
  <2> QED BY <1>1, <2>1, <2>2, <2>3
<1>6. \A e \in CoinsOf(g) : \E c \in CoinsOf(f) : m[c] = e
  <2> SUFFICES ASSUME NEW e \in CoinsOf(g) PROVE \E c \in CoinsOf(f) : m[c] = e
    OBVIOUS
  <2>1. PICK t \in T : \E n \in 1..g[t] : e = <<t, n>>
    BY <1>3
  <2>2. PICK n \in 1..g[t] : e = <<t, n>>
    BY <2>1
  <2>3. PICK x \in S : b[x] = t
    BY <1>1
  <2>4. <<x, n>> \in CoinsOf(f)
    BY <1>2, <2>3
  <2>5. m[<<x, n>>] = e
    BY <2>2, <2>3, <2>4
  <2> QED BY <2>4, <2>5
<1>7. ExistsBijection(CoinsOf(f), CoinsOf(g))
  <2> HIDE DEF m
  <2>1. m \in Bijection(CoinsOf(f), CoinsOf(g))
    BY <1>4, <1>5, <1>6 DEF Bijection, Injection, Surjection, IsInjective
  <2> QED BY <2>1 DEF ExistsBijection
<1>8. IsFiniteSet(CoinsOf(f))
  BY CoinsFinite
<1> QED BY <1>7, <1>8, FS_Bijection DEF Sum

-----------------------------------------------------------------------------
(* The total under a root. *)

(* Amounts and nonces are numbers. *)
LEMMA Numbers ==
  /\ MAX_U64 \in Nat /\ 0 \in U64 /\ MIN_WITHDRAWAL \in Nat /\ MIN_WITHDRAWAL > 0
  /\ \A x : x \in U64 <=> x \in Nat /\ x <= MAX_U64
BY MaxU64Assumption, MinWithdrawalAssumption DEF U64

Funds(r) == Sum([a \in Addresses |-> r[a].amount])

(* It is a number, and moves by what the one account written gains or loses. *)
LEMMA FundsMove ==
  ASSUME NEW r, NEW s, NEW a \in Addresses,
         \A b \in Addresses : r[b].amount \in U64 /\ s[b].amount \in U64,
         \A b \in Addresses \ {a} : s[b].amount = r[b].amount
  PROVE  /\ Funds(r) \in Nat /\ Funds(s) \in Nat
         /\ Funds(s) + r[a].amount = Funds(r) + s[a].amount
<1> DEFINE f == [b \in Addresses |-> r[b].amount]
           g == [b \in Addresses |-> s[b].amount]
<1>1. f \in [Addresses -> U64] /\ g \in [Addresses -> U64]
  OBVIOUS
<1>2. /\ g[a] = s[a].amount /\ f[a] = r[a].amount
      /\ \A b \in Addresses \ {a} : g[b] = f[b]
  OBVIOUS
<1>3. Sum(f) \in Nat /\ Sum(g) \in Nat /\ Sum(g) + f[a] = Sum(f) + g[a]
  <2> HIDE DEF f, g
  <2> QED BY <1>1, <1>2, AddressAssumption, SumType, SumUpdate
<1> QED BY <1>2, <1>3 DEF Funds

(* The same amount on both sides keeps them level. *)
LEMMA Balance ==
  ASSUME NEW f \in Nat, NEW g \in Nat, NEW q \in Nat, NEW d \in Nat, NEW v \in Nat,
         NEW h, NEW e, f + q = g + d, h = f + v, e = d + v
  PROVE  h + q = g + e
OBVIOUS

-----------------------------------------------------------------------------
(* The two chains. *)

(* What is queued to be paid. *)
Queued(p) == Sum([i \in 1..Len(p) |-> p[i].amount])

(* It is worth a number. *)
LEMMA QueuedType ==
  ASSUME NEW p \in Seq(Payout)
  PROVE  Queued(p) \in Nat
<1> DEFINE f == [i \in 1..Len(p) |-> p[i].amount]
<1>1. Len(p) \in Nat /\ \A i \in 1..Len(p) : p[i] \in Payout
  BY LenProperties, ElementOfSeq
<1>2. f \in [1..Len(p) -> U64]
  BY <1>1 DEF Payout
<1>3. IsFiniteSet(1..Len(p))
  BY <1>1, FS_Interval
<1>4. Sum(f) \in Nat
  <2> HIDE DEF f
  <2> QED BY <1>2, <1>3, SumType
<1> QED BY <1>4 DEF Queued

(* One more payout in the queue. *)
LEMMA QueueGrows ==
  ASSUME NEW p \in Seq(Payout), NEW x \in Payout
  PROVE  /\ Append(p, x) \in Seq(Payout)
         /\ Queued(p) \in Nat /\ Queued(Append(p, x)) \in Nat
         /\ Queued(Append(p, x)) = Queued(p) + x.amount
<1> DEFINE n == Len(p)
           q == Append(p, x)
           S == 1..(n + 1)
           f == [i \in S |-> q[i].amount]
<1>1. /\ q \in Seq(Payout) /\ Len(q) = n + 1 /\ n \in Nat
      /\ q[n + 1] = x /\ \A i \in 1..n : q[i] = p[i]
  BY AppendProperties, LenProperties
<1>2. f \in [S -> U64]
  <2>1. \A i \in S : q[i] \in Payout
    BY <1>1, ElementOfSeq
  <2> QED BY <2>1 DEF Payout
<1>3. IsFiniteSet(S) /\ n + 1 \in S
  BY <1>1, FS_Interval
<1>4. /\ Sum(f) = Sum([i \in S \ {n + 1} |-> f[i]]) + f[n + 1]
      /\ Sum([i \in S \ {n + 1} |-> f[i]]) \in Nat /\ f[n + 1] \in Nat
  <2> HIDE DEF S, f, n
  <2> QED BY <1>2, <1>3, SumSplit
<1>5. [i \in S \ {n + 1} |-> f[i]] = [i \in 1..n |-> p[i].amount]
  <2>1. S \ {n + 1} = 1..n
    BY <1>1
  <2> QED BY <1>1, <2>1
<1>6. Queued(q) = Sum(f) /\ f[n + 1] = x.amount
  BY <1>1, <1>3 DEF Queued
<1>7. Queued(p) = Sum([i \in S \ {n + 1} |-> f[i]])
  BY <1>5 DEF Queued
<1> HIDE DEF f, S, n
<1> QED BY <1>1, <1>4, <1>6, <1>7

(* The chain is the queue read backwards: worth as much, and as payable. *)
LEMMA QueueReversed ==
  ASSUME NEW p \in Seq(Payout)
  PROVE  /\ PayoutTotal(withdrawal_chain(p)) = Queued(p)
         /\ (\A i \in 1..Len(p) : p[i].amount >= MIN_WITHDRAWAL)
              => \A i \in 1..Len(withdrawal_chain(p)) :
                   withdrawal_chain(p)[i].amount >= MIN_WITHDRAWAL
<1> DEFINE n == Len(p)
           S == 1..n
           c == withdrawal_chain(p)
           f == [i \in S |-> c[i].amount]
           g == [i \in S |-> p[i].amount]
           b == [i \in S |-> n + 1 - i]
<1>1. n \in Nat /\ \A i \in S : p[i] \in Payout
  BY LenProperties, ElementOfSeq
<1>2. \A i \in S : n + 1 - i \in S /\ n + 1 - (n + 1 - i) = i
  BY <1>1
<1>3. c \in [S -> Payout] /\ \A i \in S : c[i] = p[n + 1 - i]
  BY <1>1, <1>2 DEF withdrawal_chain
<1>4. Len(c) = n
  <2>1. c \in Seq(Payout)
    BY <1>1, <1>3, SeqDef
  <2>2. DOMAIN c = 1..n
    BY <1>3
  <2> QED BY <1>1, <2>1, <2>2, LenProperties
<1>5. f \in [S -> U64] /\ g \in [S -> U64]
  BY <1>1, <1>3 DEF Payout
<1>6. b \in Bijection(S, S)
  <2>1. b \in [S -> S]
    BY <1>2
  <2>2. \A i, j \in S : b[i] = b[j] => i = j
    BY <1>1, <1>2
  <2>3. \A j \in S : \E i \in S : b[i] = j
    BY <1>2
  <2> HIDE DEF b, S
  <2> QED BY <2>1, <2>2, <2>3 DEF Bijection, Injection, Surjection, IsInjective
<1>7. \A i \in S : f[i] = g[b[i]]
  BY <1>2, <1>3
<1>8. Sum(f) = Sum(g)
  <2>1. IsFiniteSet(S)
    BY <1>1, FS_Interval
  <2> HIDE DEF f, g, b, S
  <2> QED BY <1>5, <1>6, <1>7, <2>1, SumReindex
<1>9. PayoutTotal(c) = Queued(p)
  BY <1>4, <1>8 DEF PayoutTotal, Queued
<1> QED BY <1>2, <1>3, <1>4, <1>9

(* Folding one entry further along the inbox. *)
LEMMA FoldGrows ==
  ASSUME NEW anchor \in Seq(InboxEntry), NEW chain \in Seq(InboxEntry),
         NEW e \in InboxEntry, ChainExtends(anchor, chain)
  PROVE  /\ Append(chain, e) \in Seq(InboxEntry)
         /\ ChainExtends(anchor, Append(chain, e))
         /\ DepositsFolded(anchor, chain) \in Nat
         /\ DepositsFolded(anchor, Append(chain, e)) \in Nat
         /\ DepositsFolded(anchor, Append(chain, e))
              = DepositsFolded(anchor, chain) + e.amount
<1> DEFINE m == Len(anchor)
           n == Len(chain)
           q == Append(chain, e)
           S == m..n
           f == [i \in S |-> q[i + 1].amount]
<1>1. /\ q \in Seq(InboxEntry) /\ Len(q) = n + 1 /\ n \in Nat /\ m \in Nat
      /\ q[n + 1] = e /\ \A i \in 1..n : q[i] = chain[i]
  BY AppendProperties, LenProperties
<1>2. m <= n /\ \A i \in 1..m : chain[i] = anchor[i]
  BY DEF ChainExtends
<1>3. ChainExtends(anchor, q)
  BY <1>1, <1>2 DEF ChainExtends
<1>4. f \in [S -> U64]
  <2>1. \A i \in S : q[i + 1] \in InboxEntry
    <3>1. \A j \in 1..(n + 1) : q[j] \in InboxEntry
      BY <1>1, ElementOfSeq
    <3>2. \A i \in S : i + 1 \in 1..(n + 1)
      BY <1>1
    <3> QED BY <3>1, <3>2
  <2> QED BY <2>1 DEF InboxEntry
<1>5. IsFiniteSet(S) /\ n \in S
  BY <1>1, <1>2, FS_Interval
<1>6. /\ Sum(f) = Sum([i \in S \ {n} |-> f[i]]) + f[n]
      /\ Sum([i \in S \ {n} |-> f[i]]) \in Nat /\ f[n] \in Nat
  <2> HIDE DEF S, f, n
  <2> QED BY <1>4, <1>5, SumSplit
<1>7. [i \in S \ {n} |-> f[i]] = [i \in m..(n - 1) |-> chain[i + 1].amount]
  <2>1. S \ {n} = m..(n - 1)
    BY <1>1
  <2>2. \A i \in m..(n - 1) : i + 1 \in 1..n
    BY <1>1
  <2> QED BY <1>1, <2>1, <2>2
<1>8. DepositsFolded(anchor, q) = Sum(f) /\ f[n] = e.amount
  <2>1. Len(q) - 1 = n
    BY <1>1
  <2> QED BY <1>1, <1>5, <2>1 DEF DepositsFolded
<1>9. DepositsFolded(anchor, chain) = Sum([i \in S \ {n} |-> f[i]])
  BY <1>7 DEF DepositsFolded
<1> HIDE DEF f, S, n, m
<1> QED BY <1>1, <1>3, <1>6, <1>8, <1>9

(* Nothing folded, nothing queued. *)
LEMMA NothingYet ==
  ASSUME NEW chain \in Seq(InboxEntry)
  PROVE  /\ ChainExtends(chain, chain) /\ DepositsFolded(chain, chain) = 0
         /\ << >> \in Seq(Payout) /\ Len(<< >>) = 0 /\ Queued(<< >>) = 0
<1>1. Len(chain) \in Nat /\ << >> \in Seq(Payout) /\ Len(<< >>) = 0
  BY LenProperties, EmptySeq
<1>2. Len(chain)..(Len(chain) - 1) = {} /\ 1..Len(<< >>) = {}
  BY <1>1
<1>3. DepositsFolded(chain, chain) = 0
  <2>1. [i \in {} |-> chain[i + 1].amount] \in [{} -> U64]
    OBVIOUS
  <2> QED BY <1>2, <2>1, SumEmpty DEF DepositsFolded
<1>4. Queued(<< >>) = 0
  <2>1. [i \in {} |-> << >>[i].amount] \in [{} -> U64]
    OBVIOUS
  <2> QED BY <1>2, <2>1, SumEmpty DEF Queued
<1> QED BY <1>1, <1>3, <1>4 DEF ChainExtends
=============================================================================
