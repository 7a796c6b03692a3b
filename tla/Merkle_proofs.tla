---------------------------- MODULE Merkle_proofs ----------------------------
(***************************************************************************)
(* The sparse Merkle tree, for addresses of any length, any set of them    *)
(* and any accounts: the tree depends on its contents alone, the witnesses *)
(* it hands out work before and after a write, and no witness that         *)
(* reproduces a root lies, to the guest or to forceExit.                   *)
(*                                                                         *)
(* The inductive invariant is tree = TreeOf(contents).  It is kept because *)
(* every loop of merkle.rs climbs one path, and climbing through the       *)
(* subtrees beside the path gives the subtree above; after a removal that  *)
(* takes the collapse as well (ShrunkIs).  For the converse a hash is      *)
(* taken apart level by level (HashesFall), which ends in the slot or in   *)
(* the one neighbour that shares its prefix.                               *)
(***************************************************************************)
EXTENDS Merkle, WellFoundedInduction, TLAPS

-----------------------------------------------------------------------------
(* Induction over the levels of the tree, from the root down and from below up,
   with the property as a set of levels. *)

LEMMA LeastLevel ==
  ASSUME NEW T, T \subseteq Nat, T # {}
  PROVE  \E m \in T : \A k \in T : m <= k
<1>1. \A x, y \in Nat : x < y => <<x, y>> \in OpToRel(<, Nat)
  BY DEF OpToRel
<1>2. PICK m \in T : \A y \in T : ~(<<y, m>> \in OpToRel(<, Nat))
  BY WFMin, NatLessThanWellFounded
<1>3. ASSUME NEW k \in T PROVE m <= k
  <2>1. m \in Nat /\ k \in Nat /\ ~(k < m)
    BY <1>1, <1>2
  <2>. QED BY <2>1
<1>. QED BY <1>2, <1>3

(* What holds at the root and passes from a level to the next holds at all. *)
LEMMA Downwards ==
  ASSUME NEW N \in Nat, NEW T, 0 \in T, \A n \in 0..(N - 1) : n \in T => n + 1 \in T
  PROVE  0..N \subseteq T
<1>1. ASSUME NEW x \in (0..N) \ T PROVE FALSE
  <2>1. PICK m \in (0..N) \ T : \A k \in (0..N) \ T : m <= k
    <3>1. (0..N) \ T \subseteq Nat /\ (0..N) \ T # {}
      BY <1>1
    <3>. QED BY <3>1, LeastLevel
  <2>2. m # 0 /\ m - 1 \in 0..(N - 1) /\ m - 1 \in 0..N /\ (m - 1) + 1 = m /\ ~(m <= m - 1)
    BY <2>1
  <2>. QED BY <2>1, <2>2
<1>. QED BY <1>1

(* What holds at the lowest level and passes upwards holds from there to m. *)
LEMMA Upwards ==
  ASSUME NEW N \in Nat, NEW m \in 0..N, NEW T, N \in T,
         \A n \in m..(N - 1) : n + 1 \in T => n \in T
  PROVE  m..N \subseteq T
<1> DEFINE U == {k \in 0..N : N - k >= m => N - k \in T}
<1>1. 0 \in U
  OBVIOUS
<1>2. ASSUME NEW k \in 0..(N - 1), k \in U PROVE k + 1 \in U
  <2>1. CASE N - (k + 1) >= m
    <3>1. N - (k + 1) \in m..(N - 1) /\ (N - (k + 1)) + 1 = N - k /\ N - k >= m
      BY <2>1
    <3>2. N - (k + 1) \in T
      BY <1>2, <3>1
    <3>. QED BY <1>2, <3>2
  <2>2. CASE ~(N - (k + 1) >= m)
    BY <2>2
  <2>. QED BY <2>1, <2>2
<1>3. 0..N \subseteq U
  <2>. HIDE DEF U
  <2>. QED BY <1>1, <1>2, Downwards
<1>4. ASSUME NEW n \in m..N PROVE n \in T
  <2>1. N - n \in 0..N /\ N - (N - n) = n
    OBVIOUS
  <2>. QED BY <1>3, <2>1
<1>. QED BY <1>4

-----------------------------------------------------------------------------
(* Recursion over the levels: the loops of the model have the value their
   equation says. *)

(* f is computed from level N, where it is base, up to level m. *)
Rises(F(_, _), f, m, N, base) ==
  f = [n \in m..N |-> IF n = N THEN base ELSE F(n, f[n + 1])]

(* There is a function that meets a recursion from level N up to the root. *)
LEMMA RisesExists ==
  ASSUME NEW F(_, _), NEW N \in Nat, NEW base
  PROVE  \E f : Rises(F, f, 0, N, base)
<1> DEFINE T == {m \in 0..N : \E f : Rises(F, f, m, N, base)}
<1>1. N \in T
  <2> DEFINE f == [n \in N..N |-> base]
  <2>1. Rises(F, f, N, N, base)
    BY DEF Rises
  <2>. QED BY <2>1
<1>2. ASSUME NEW m \in 0..(N - 1), m + 1 \in T PROVE m \in T
  <2>1. PICK f : Rises(F, f, m + 1, N, base)
    BY <1>2
  <2> DEFINE g == [n \in m..N |-> IF n = m THEN F(m, f[m + 1]) ELSE f[n]]
  <2>2. ASSUME NEW n \in m..N
        PROVE  g[n] = IF n = N THEN base ELSE F(n, g[n + 1])
    <3>1. CASE n = m
      BY <3>1
    <3>2. CASE n # m /\ n = N
      <4>1. N \in (m + 1)..N
        BY <3>2
      <4>. QED BY <2>1, <3>2, <4>1 DEF Rises
    <3>3. CASE n # m /\ n # N
      <4>1. n \in (m + 1)..N /\ n + 1 \in (m + 1)..N /\ n + 1 \in m..N /\ n + 1 # m
        BY <3>3
      <4>2. g[n] = f[n] /\ g[n + 1] = f[n + 1]
        BY <3>3, <4>1
      <4>3. f[n] = F(n, f[n + 1])
        BY <2>1, <3>3, <4>1 DEF Rises
      <4>. QED BY <3>3, <4>2, <4>3
    <3>. QED BY <3>1, <3>2, <3>3
  <2>3. g = [n \in m..N |-> g[n]]
    OBVIOUS
  <2>4. Rises(F, g, m, N, base)
    <3>. HIDE DEF g
    <3>. QED BY <2>2, <2>3 DEF Rises
  <2>. QED BY <2>4
<1>3. 0..N \subseteq T
  <2>. HIDE DEF T
  <2>1. 0 \in 0..N
    OBVIOUS
  <2>. QED BY <1>1, <1>2, <2>1, Upwards
<1>. QED BY <1>3

(* f is computed from level 0, where it is base, down to level N. *)
Falls(F(_, _), f, N, base) ==
  f = [n \in 0..N |-> IF n = 0 THEN base ELSE F(n, f[n - 1])]

(* There is one that meets a recursion from the root down. *)
LEMMA FallsExists ==
  ASSUME NEW F(_, _), NEW N \in Nat, NEW base
  PROVE  \E f : Falls(F, f, N, base)
<1> DEFINE T == {m \in Nat : \E f : Falls(F, f, m, base)}
<1>1. 0 \in T
  <2> DEFINE f == [n \in 0..0 |-> base]
  <2>1. Falls(F, f, 0, base)
    BY DEF Falls
  <2>. QED BY <2>1
<1>2. ASSUME NEW m \in 0..(N - 1), m \in T PROVE m + 1 \in T
  <2>1. PICK f : Falls(F, f, m, base)
    BY <1>2
  <2> DEFINE g == [n \in 0..(m + 1) |-> IF n = m + 1 THEN F(n, f[m]) ELSE f[n]]
  <2>2. ASSUME NEW n \in 0..(m + 1)
        PROVE  g[n] = IF n = 0 THEN base ELSE F(n, g[n - 1])
    <3>1. CASE n = m + 1
      BY <3>1
    <3>2. CASE n # m + 1
      <4>1. n \in 0..m /\ (n # 0 => n - 1 \in 0..m /\ n - 1 # m + 1 /\ n - 1 \in 0..(m + 1))
        BY <3>2
      <4>. QED BY <2>1, <3>2, <4>1 DEF Falls
    <3>. QED BY <3>1, <3>2
  <2>3. g = [n \in 0..(m + 1) |-> g[n]]
    OBVIOUS
  <2>4. Falls(F, g, m + 1, base)
    <3>. HIDE DEF g
    <3>. QED BY <2>2, <2>3 DEF Falls
  <2>. QED BY <2>4
<1>3. 0..N \subseteq T
  <2>. HIDE DEF T
  <2>. QED BY <1>1, <1>2, Downwards
<1>. QED BY <1>3

(* One level of a climb. *)
LEMMA ClimbIs ==
  ASSUME NEW Join(_, _), NEW a, NEW from \in Nat, NEW start, NEW s
  PROVE  /\ Climb(Join, a, from, from, start, s) = start
         /\ \A to \in 0..(from - 1) :
              Climb(Join, a, from, to, start, s)
                = Beside(Join, bit_at(a, to),
                         Climb(Join, a, from, to + 1, start, s), s[to + 1])
<1> DEFINE Step(n, x) == Beside(Join, bit_at(a, n), x, s[n + 1])
<1>1. \E f : Rises(Step, f, 0, from, start)
  <2>. HIDE DEF Step
  <2>. QED BY RisesExists
<1> DEFINE E == CHOOSE f : f = [level \in 0..from |->
                     IF level = from THEN start
                     ELSE Beside(Join, bit_at(a, level), f[level + 1], s[level + 1])]
<1>2. E = [level \in 0..from |->
                     IF level = from THEN start
                     ELSE Beside(Join, bit_at(a, level), E[level + 1], s[level + 1])]
  BY <1>1 DEF Rises
<1>3. \A to : Climb(Join, a, from, to, start, s) = E[to]
  BY DEF Climb
<1>. HIDE DEF E
<1>4. E[from] = start
  BY <1>2
<1>5. ASSUME NEW to \in 0..(from - 1)
      PROVE  E[to] = Beside(Join, bit_at(a, to), E[to + 1], s[to + 1])
  BY <1>2
<1>. QED BY <1>3, <1>4, <1>5

(* The table of subtrees, level by level. *)
LEMMA SubtreesIs ==
  ASSUME NEW c
  PROVE  Subtrees(c) = [n \in 0..DEPTH |->
            [prefix \in Strings(n) |->
               Subtree(c, n, prefix, IF n = DEPTH THEN << >> ELSE Subtrees(c)[n + 1])]]
<1> DEFINE Up(n, table) == [prefix \in Strings(n) |-> Subtree(c, n, prefix, table)]
           Base == [prefix \in Strings(DEPTH) |-> Subtree(c, DEPTH, prefix, << >>)]
<1>1. \E f : Rises(Up, f, 0, DEPTH, Base)
  <2>. HIDE DEF Up, Base
  <2>. QED BY RisesExists, MerkleAssumption
<1>2. \E f : f = [n \in 0..DEPTH |->
                [prefix \in Strings(n) |->
                   Subtree(c, n, prefix, IF n = DEPTH THEN << >> ELSE f[n + 1])]]
  <2>1. PICK f : Rises(Up, f, 0, DEPTH, Base)
    BY <1>1
  <2>2. ASSUME NEW n \in 0..DEPTH
        PROVE  f[n] = [prefix \in Strings(n) |->
                   Subtree(c, n, prefix, IF n = DEPTH THEN << >> ELSE f[n + 1])]
    BY <2>1 DEF Rises
  <2>3. f = [n \in 0..DEPTH |-> f[n]]
    BY <2>1 DEF Rises
  <2>4. f = [n \in 0..DEPTH |->
                [prefix \in Strings(n) |->
                   Subtree(c, n, prefix, IF n = DEPTH THEN << >> ELSE f[n + 1])]]
    BY <2>2, <2>3, Zenon
  <2>. QED BY <2>4
<1>. QED BY <1>2 DEF Subtrees

(* One level of the way down in insert, remove and prove. *)
LEMMA DescendIs ==
  ASSUME NEW node, NEW a
  PROVE  /\ Descend(node, a)[0] = node
         /\ \A n \in 1..DEPTH :
              Descend(node, a)[n] =
                IF Descend(node, a)[n - 1].kind # "branch" THEN Descend(node, a)[n - 1]
                ELSE Descend(node, a)[n - 1].children[Turn(a, n - 1)]
<1> DEFINE Down(n, x) == IF x.kind # "branch" THEN x ELSE x.children[Turn(a, n - 1)]
<1>1. \E f : Falls(Down, f, DEPTH, node)
  <2>. HIDE DEF Down
  <2>. QED BY FallsExists, MerkleAssumption
<1>2. Descend(node, a) = [n \in 0..DEPTH |->
         IF n = 0 THEN node
         ELSE IF Descend(node, a)[n - 1].kind # "branch" THEN Descend(node, a)[n - 1]
         ELSE Descend(node, a)[n - 1].children[Turn(a, n - 1)]]
  BY <1>1 DEF Falls, Descend
<1> DEFINE path == Descend(node, a)
<1>. HIDE DEF path
<1>3. path = [n \in 0..DEPTH |->
         IF n = 0 THEN node
         ELSE IF path[n - 1].kind # "branch" THEN path[n - 1]
         ELSE path[n - 1].children[Turn(a, n - 1)]]
  BY <1>2 DEF path
<1>4. path[0] = node
  BY <1>3, MerkleAssumption
<1>5. ASSUME NEW n \in 1..DEPTH
      PROVE  path[n] = IF path[n - 1].kind # "branch" THEN path[n - 1]
                       ELSE path[n - 1].children[Turn(a, n - 1)]
  BY <1>3, MerkleAssumption
<1>. QED BY <1>4, <1>5 DEF path

-----------------------------------------------------------------------------
(* Addresses and their prefixes. *)

(* The strings of DEPTH bits. *)
Address == Strings(DEPTH)

(* The prefix turned away from at level n. *)
Aside(a, n) == Longer(Prefix(a, n), n, 1 - a[n + 1])

(* The addresses in play are strings of DEPTH bits. *)
LEMMA PathsAreAddresses == Paths \subseteq Address
BY MerkleAssumption DEF Address, Strings

(* A bit of an address, and the other one. *)
LEMMA Bits ==
  ASSUME NEW a \in Address, NEW n \in 0..(DEPTH - 1)
  PROVE  a[n + 1] \in {0, 1} /\ bit_at(a, n) = a[n + 1] /\ 1 - a[n + 1] \in {0, 1}
<1>1. n + 1 \in 1..DEPTH
  BY MerkleAssumption
<1>2. a[n + 1] \in {0, 1}
  BY <1>1 DEF Address, Strings
<1>. QED BY <1>2 DEF bit_at

(* A prefix with one bit more. *)
LEMMA LongerIs ==
  ASSUME NEW n \in Nat, NEW p \in Strings(n), NEW bit \in {0, 1}
  PROVE  Longer(p, n, bit) \in Strings(n + 1)
BY DEF Longer, Strings

(* The prefixes of an address, and the ones beside them. *)
LEMMA PrefixIs ==
  ASSUME NEW a \in Address
  PROVE  /\ \A n \in 0..DEPTH : Prefix(a, n) \in Strings(n)
         /\ Prefix(a, 0) = << >>
         /\ Prefix(a, DEPTH) = a
         /\ \A n \in 0..(DEPTH - 1) :
              /\ Prefix(a, n + 1) = Longer(Prefix(a, n), n, a[n + 1])
              /\ Aside(a, n) \in Strings(n + 1)
              /\ Aside(a, n) # Prefix(a, n + 1)
<1>1. ASSUME NEW n \in 0..DEPTH PROVE Prefix(a, n) \in Strings(n)
  BY MerkleAssumption DEF Prefix, Strings, Address
<1>2. Prefix(a, 0) = << >>
  BY DEF Prefix
<1>3. Prefix(a, DEPTH) = a
  BY DEF Prefix, Strings, Address
<1>4. ASSUME NEW n \in 0..(DEPTH - 1)
      PROVE  Prefix(a, n + 1) = Longer(Prefix(a, n), n, a[n + 1])
  BY MerkleAssumption DEF Prefix, Longer
<1>5. ASSUME NEW n \in 0..(DEPTH - 1) PROVE Aside(a, n) \in Strings(n + 1)
  <2>1. n \in Nat /\ Prefix(a, n) \in Strings(n)
    BY <1>1, MerkleAssumption
  <2>. QED BY <2>1, Bits, LongerIs DEF Aside
<1>6. ASSUME NEW n \in 0..(DEPTH - 1) PROVE Aside(a, n) # Prefix(a, n + 1)
  <2>1. Aside(a, n)[n + 1] = 1 - a[n + 1] /\ Prefix(a, n + 1)[n + 1] = a[n + 1]
    BY MerkleAssumption DEF Aside, Prefix, Longer
  <2>. QED BY <2>1, Bits
<1>. QED BY <1>1, <1>2, <1>3, <1>4, <1>5, <1>6

(* Two addresses share a longer prefix when they share a shorter one and the
   next bit. *)
LEMMA SharedBits ==
  ASSUME NEW a \in Address, NEW b \in Address, NEW n \in 0..DEPTH
  PROVE  Prefix(a, n) = Prefix(b, n) <=> \A i \in 1..n : a[i] = b[i]
<1>1. ASSUME Prefix(a, n) = Prefix(b, n), NEW i \in 1..n PROVE a[i] = b[i]
  <2>1. Prefix(a, n)[i] = a[i] /\ Prefix(b, n)[i] = b[i]
    BY DEF Prefix
  <2>. QED BY <1>1, <2>1
<1>2. ASSUME \A i \in 1..n : a[i] = b[i] PROVE Prefix(a, n) = Prefix(b, n)
  BY <1>2 DEF Prefix
<1>. QED BY <1>1, <1>2

(* A longer prefix is a shorter one and the next bit. *)
LEMMA ShareMore ==
  ASSUME NEW a \in Address, NEW n \in 0..(DEPTH - 1), NEW p \in Strings(n),
         NEW bit \in {0, 1}
  PROVE  Prefix(a, n + 1) = Longer(p, n, bit) <=> Prefix(a, n) = p /\ a[n + 1] = bit
<1>1. n \in Nat /\ n + 1 \in 1..DEPTH
  BY MerkleAssumption
<1>2. p = [i \in 1..n |-> p[i]]
  BY DEF Strings
<1>3. ASSUME Prefix(a, n + 1) = Longer(p, n, bit)
      PROVE  Prefix(a, n) = p /\ a[n + 1] = bit
  <2>1. \A i \in 1..(n + 1) : Prefix(a, n + 1)[i] = a[i]
    BY DEF Prefix
  <2>2. \A i \in 1..(n + 1) : Longer(p, n, bit)[i] = IF i <= n THEN p[i] ELSE bit
    BY DEF Longer
  <2>3. \A i \in 1..n : a[i] = p[i]
    BY <1>1, <1>3, <2>1, <2>2
  <2>4. a[n + 1] = bit
    BY <1>1, <1>3, <2>1, <2>2
  <2>. QED BY <1>2, <2>3, <2>4 DEF Prefix
<1>4. ASSUME Prefix(a, n) = p, a[n + 1] = bit
      PROVE  Prefix(a, n + 1) = Longer(p, n, bit)
  BY <1>4, PrefixIs
<1>. QED BY <1>3, <1>4

-----------------------------------------------------------------------------
(* The tree of a map. *)

(* What the addresses in play may hold. *)
Maps == [Paths -> Accounts \cup {NoAccount}]

(* The subtree under a prefix. *)
At(c, n, p) == Subtrees(c)[n][p]

(* More than one account is under it. *)
Two(c, n, p) == \E x, y \in Under(c, n, p) : x # y

(* An account under a prefix is under one of its halves, *)
LEMMA UnderSplits ==
  ASSUME NEW c, NEW n \in 0..(DEPTH - 1), NEW p \in Strings(n), NEW x \in Under(c, n, p)
  PROVE  x \in Address /\ x[n + 1] \in {0, 1} /\ x \in Under(c, n + 1, Longer(p, n, x[n + 1]))
<1>1. x \in Address /\ x \in Paths /\ c[x] # NoAccount /\ Prefix(x, n) = p
  BY PathsAreAddresses DEF Under
<1>. QED BY <1>1, PrefixIs, Bits DEF Under

(* and an account under a half is under the prefix. *)
LEMMA UnderJoins ==
  ASSUME NEW c, NEW n \in 0..(DEPTH - 1), NEW p \in Strings(n), NEW bit \in {0, 1},
         NEW x \in Under(c, n + 1, Longer(p, n, bit))
  PROVE  x \in Under(c, n, p) /\ x[n + 1] = bit
<1>1. x \in Address /\ x \in Paths /\ c[x] # NoAccount
      /\ Prefix(x, n + 1) = Longer(p, n, bit)
  BY PathsAreAddresses DEF Under
<1>. QED BY <1>1, ShareMore DEF Under

(* At the last level there is one address under a prefix, itself. *)
LEMMA TwoIsAbove ==
  ASSUME NEW c, NEW n \in 0..DEPTH, NEW p \in Strings(n), Two(c, n, p)
  PROVE  n \in 0..(DEPTH - 1)
<1>1. PICK x, y \in Under(c, n, p) : x # y
  BY DEF Two
<1>2. x \in Address /\ y \in Address /\ Prefix(x, n) = Prefix(y, n)
  BY PathsAreAddresses DEF Under
<1>3. n # DEPTH
  BY <1>1, <1>2, PrefixIs
<1>. QED BY <1>3, MerkleAssumption

(* A subtree by the number of accounts under its prefix: none, one, or more. *)
LEMMA AtIs ==
  ASSUME NEW c, NEW n \in 0..DEPTH, NEW p \in Strings(n)
  PROVE  /\ Under(c, n, p) = {} => At(c, n, p) = Empty
         /\ \A b \in Under(c, n, p) :
              ~Two(c, n, p) => At(c, n, p) = Leaf(b, c[b])
         /\ Two(c, n, p) =>
              At(c, n, p) = branch(At(c, n + 1, Longer(p, n, 0)), At(c, n + 1, Longer(p, n, 1)))
<1> DEFINE below == IF n = DEPTH THEN << >> ELSE Subtrees(c)[n + 1]
<1>1. At(c, n, p) = Subtree(c, n, p, below)
  <2> DEFINE table == Subtrees(c)
  <2>1. table = [k \in 0..DEPTH |->
            [prefix \in Strings(k) |->
               Subtree(c, k, prefix, IF k = DEPTH THEN << >> ELSE table[k + 1])]]
    BY SubtreesIs
  <2>. HIDE DEF table
  <2>2. table[n] = [prefix \in Strings(n) |->
               Subtree(c, n, prefix, IF n = DEPTH THEN << >> ELSE table[n + 1])]
    BY <2>1
  <2>3. table[n][p] = Subtree(c, n, p, IF n = DEPTH THEN << >> ELSE table[n + 1])
    BY <2>2
  <2>. QED BY <2>3 DEF At, table
<1>2. ASSUME Under(c, n, p) = {} PROVE At(c, n, p) = Empty
  BY <1>1, <1>2 DEF Subtree
<1>3. ASSUME NEW b \in Under(c, n, p), ~Two(c, n, p) PROVE At(c, n, p) = Leaf(b, c[b])
  <2>1. \A x, y \in Under(c, n, p) : x = y
    BY <1>3 DEF Two
  <2>2. (CHOOSE a \in Under(c, n, p) : TRUE) = b
    BY <2>1
  <2>. HIDE DEF below
  <2>. QED BY <1>1, <2>1, <2>2 DEF Subtree
<1>4. ASSUME Two(c, n, p)
      PROVE  At(c, n, p) = branch(At(c, n + 1, Longer(p, n, 0)), At(c, n + 1, Longer(p, n, 1)))
  <2>1. below = Subtrees(c)[n + 1]
    BY <1>4, TwoIsAbove, MerkleAssumption
  <2>. HIDE DEF below
  <2>2. Under(c, n, p) # {} /\ ~(\A x, y \in Under(c, n, p) : x = y)
    BY <1>4 DEF Two
  <2>. QED BY <1>1, <2>1, <2>2 DEF Subtree, At
<1>. QED BY <1>2, <1>3, <1>4

(* The same, read from the kind of the node. *)
LEMMA Shapes ==
  ASSUME NEW c, NEW n \in 0..DEPTH, NEW p \in Strings(n)
  PROVE  /\ At(c, n, p).kind = "empty" <=> Under(c, n, p) = {}
         /\ At(c, n, p).kind = "branch" <=> Two(c, n, p)
         /\ At(c, n, p).kind = "leaf" => At(c, n, p).address \in Under(c, n, p)
         /\ At(c, n, p).kind \in {"empty", "leaf", "branch"}
<1>1. CASE Under(c, n, p) = {}
  <2>1. ~Two(c, n, p)
    BY <1>1 DEF Two
  <2>2. At(c, n, p).kind = "empty"
    BY <1>1, AtIs DEF Empty
  <2>. QED BY <1>1, <2>1, <2>2
<1>2. CASE Two(c, n, p)
  <2>1. Under(c, n, p) # {}
    BY <1>2 DEF Two
  <2>2. At(c, n, p).kind = "branch"
    BY <1>2, AtIs DEF branch
  <2>. QED BY <1>2, <2>1, <2>2
<1>3. CASE Under(c, n, p) # {} /\ ~Two(c, n, p)
  <2>1. PICK b \in Under(c, n, p) : TRUE
    BY <1>3
  <2>2. At(c, n, p) = Leaf(b, c[b])
    BY <1>3, <2>1, AtIs
  <2>3. At(c, n, p).kind = "leaf" /\ At(c, n, p).address = b
    BY <2>2 DEF Leaf
  <2>. QED BY <1>3, <2>1, <2>3
<1>. QED BY <1>1, <1>2, <1>3

(* A branch, as seen from an address under it. *)
LEMMA OneLevel ==
  ASSUME NEW c, NEW a \in Address, NEW n \in 0..(DEPTH - 1), Two(c, n, Prefix(a, n))
  PROVE  At(c, n, Prefix(a, n)) =
           Beside(branch, bit_at(a, n), At(c, n + 1, Prefix(a, n + 1)), At(c, n + 1, Aside(a, n)))
<1>1. n \in 0..DEPTH /\ Prefix(a, n) \in Strings(n)
  BY PrefixIs, MerkleAssumption
<1>2. At(c, n, Prefix(a, n)) = branch(At(c, n + 1, Longer(Prefix(a, n), n, 0)),
                                      At(c, n + 1, Longer(Prefix(a, n), n, 1)))
  BY <1>1, AtIs
<1>3. /\ Prefix(a, n + 1) = Longer(Prefix(a, n), n, a[n + 1])
      /\ Aside(a, n) = Longer(Prefix(a, n), n, 1 - a[n + 1])
  BY PrefixIs DEF Aside
<1>4. CASE a[n + 1] = 0
  BY <1>2, <1>3, <1>4, Bits DEF Beside
<1>5. CASE a[n + 1] = 1
  BY <1>2, <1>3, <1>5, Bits DEF Beside
<1>. QED BY <1>4, <1>5, Bits

(* A new branch caches the hash of its children, *)
LEMMA BranchHash ==
  ASSUME NEW l, NEW r
  PROVE  hash(branch(l, r)) = node_hash(hash(l), hash(r))
<1> DEFINE h == node_hash(hash(l), hash(r))
<1>1. branch(l, r) = [kind |-> "branch", hash |-> h, children |-> <<l, r>>]
  BY DEF branch
<1>. HIDE DEF h
<1>2. branch(l, r).kind = "branch" /\ branch(l, r).hash = h
  BY <1>1
<1>3. hash(branch(l, r)) = branch(l, r).hash
  BY <1>2 DEF hash
<1>. QED BY <1>2, <1>3 DEF h

(* and the others compute theirs. *)
LEMMA LeafHash ==
  /\ hash(Empty) = EMPTY_SUBTREE
  /\ \A b, v : hash(Leaf(b, v)) = leaf_hash(b, v)
<1>1. Empty.kind = "empty"
  BY DEF Empty
<1>2. hash(Empty) = EMPTY_SUBTREE
  BY <1>1 DEF hash
<1>3. ASSUME NEW b, NEW v PROVE hash(Leaf(b, v)) = leaf_hash(b, v)
  <2>1. Leaf(b, v).kind = "leaf" /\ Leaf(b, v).address = b /\ Leaf(b, v).account = v
    BY DEF Leaf
  <2>. QED BY <2>1 DEF hash
<1>. QED BY <1>2, <1>3

(* The hash of a branch, by the bit that was followed. *)
LEMMA BesideHash ==
  ASSUME NEW bit, NEW x, NEW y
  PROVE  hash(Beside(branch, bit, x, y)) = Beside(node_hash, bit, hash(x), hash(y))
BY BranchHash DEF Beside

(* What is under a prefix depends on the accounts under it only. *)
LEMMA Untouched ==
  ASSUME NEW c, NEW d
  PROVE  \A n \in 0..DEPTH : \A p \in Strings(n) :
           (\A x \in Paths : Prefix(x, n) = p => c[x] = d[x]) => At(c, n, p) = At(d, n, p)
<1> DEFINE Same(n, p) == \A x \in Paths : Prefix(x, n) = p => c[x] = d[x]
           T == {n \in 0..DEPTH : \A p \in Strings(n) : Same(n, p) => At(c, n, p) = At(d, n, p)}
<1>1. ASSUME NEW n \in 0..DEPTH, NEW p \in Strings(n), Same(n, p)
      PROVE  Under(c, n, p) = Under(d, n, p)
  BY <1>1 DEF Under
<1>2. ASSUME NEW n \in 0..DEPTH, NEW p \in Strings(n), Same(n, p), ~Two(c, n, p)
      PROVE  At(c, n, p) = At(d, n, p)
  <2>1. Under(c, n, p) = Under(d, n, p) /\ ~Two(d, n, p)
    BY <1>1, <1>2 DEF Two
  <2>2. CASE Under(c, n, p) = {}
    BY <2>1, <2>2, AtIs
  <2>3. CASE Under(c, n, p) # {}
    <3>1. PICK b \in Under(c, n, p) : TRUE
      BY <2>3
    <3>2. c[b] = d[b]
      BY <1>2, <3>1 DEF Under
    <3>. QED BY <1>2, <2>1, <3>1, <3>2, AtIs
  <2>. QED BY <2>2, <2>3
<1>3. DEPTH \in T
  <2>1. DEPTH \in 0..DEPTH
    BY MerkleAssumption
  <2>2. ASSUME NEW p \in Strings(DEPTH), Same(DEPTH, p) PROVE At(c, DEPTH, p) = At(d, DEPTH, p)
    <3>1. ~Two(c, DEPTH, p)
      BY <2>1, TwoIsAbove, MerkleAssumption
    <3>. QED BY <1>2, <2>1, <2>2, <3>1
  <2>. QED BY <2>1, <2>2
<1>4. ASSUME NEW n \in 0..(DEPTH - 1), n + 1 \in T PROVE n \in T
  <2>1. n \in 0..DEPTH /\ n \in Nat
    BY MerkleAssumption
  <2>2. ASSUME NEW p \in Strings(n), Same(n, p) PROVE At(c, n, p) = At(d, n, p)
    <3>1. CASE ~Two(c, n, p)
      BY <1>2, <2>1, <2>2, <3>1
    <3>2. CASE Two(c, n, p)
      <4>1. Two(d, n, p)
        BY <1>1, <2>1, <2>2, <3>2 DEF Two
      <4>2. ASSUME NEW bit \in {0, 1}
            PROVE  At(c, n + 1, Longer(p, n, bit)) = At(d, n + 1, Longer(p, n, bit))
        <5>1. Longer(p, n, bit) \in Strings(n + 1)
          BY <2>1, LongerIs
        <5>2. ASSUME NEW x \in Paths, Prefix(x, n + 1) = Longer(p, n, bit) PROVE c[x] = d[x]
          <6>1. Prefix(x, n) = p
            BY <5>2, ShareMore, PathsAreAddresses
          <6>. QED BY <2>2, <6>1
        <5>. QED BY <1>4, <5>1, <5>2
      <4>. QED BY <2>1, <3>2, <4>1, <4>2, AtIs
    <3>. QED BY <3>1, <3>2
  <2>. QED BY <2>1, <2>2
<1>5. 0..DEPTH \subseteq T
  <2>. HIDE DEF T
  <2>1. DEPTH \in Nat /\ 0 \in 0..DEPTH
    BY MerkleAssumption
  <2>. QED BY <1>3, <1>4, <2>1, Upwards
<1>. QED BY <1>5

(* A write to one address leaves every subtree beside its path alone. *)
LEMMA AsideUntouched ==
  ASSUME NEW c \in Maps, NEW a \in Paths, NEW v, NEW n \in 0..(DEPTH - 1)
  PROVE  At([c EXCEPT ![a] = v], n + 1, Aside(a, n)) = At(c, n + 1, Aside(a, n))
<1> DEFINE d == [c EXCEPT ![a] = v]
<1>1. a \in Address /\ n + 1 \in 0..DEPTH
  BY PathsAreAddresses, MerkleAssumption
<1>2. Aside(a, n) \in Strings(n + 1) /\ Aside(a, n) # Prefix(a, n + 1)
  BY <1>1, PrefixIs
<1>3. ASSUME NEW x \in Paths, Prefix(x, n + 1) = Aside(a, n) PROVE d[x] = c[x]
  <2>1. x # a
    BY <1>2, <1>3
  <2>. QED BY <2>1 DEF Maps
<1>. HIDE DEF d
<1>4. At(d, n + 1, Aside(a, n)) = At(c, n + 1, Aside(a, n))
  BY <1>1, <1>2, <1>3, Untouched
<1>. QED BY <1>4 DEF d

-----------------------------------------------------------------------------
(* The climbs: from a subtree on the path of an address, and the subtrees beside
   the path, to the subtrees above. *)

LEMMA BranchesRise ==
  ASSUME NEW c, NEW a \in Address, NEW m \in 0..DEPTH, NEW lo \in 0..m, NEW s,
         \A n \in lo..(m - 1) : /\ Two(c, n, Prefix(a, n))
                                /\ s[n + 1] = At(c, n + 1, Aside(a, n))
  PROVE  \A n \in lo..m : Climb(branch, a, m, n, At(c, m, Prefix(a, m)), s)
                            = At(c, n, Prefix(a, n))
<1> DEFINE Here(n) == Climb(branch, a, m, n, At(c, m, Prefix(a, m)), s)
           T == {n \in lo..m : Here(n) = At(c, n, Prefix(a, n))}
<1>1. m \in Nat /\ DEPTH \in Nat /\ lo \in Nat
  BY MerkleAssumption
<1>2. /\ Here(m) = At(c, m, Prefix(a, m))
      /\ \A n \in 0..(m - 1) : Here(n) = Beside(branch, bit_at(a, n), Here(n + 1), s[n + 1])
  BY <1>1, ClimbIs
<1>. HIDE DEF Here
<1>3. m \in T
  BY <1>1, <1>2
<1>4. ASSUME NEW n \in lo..(m - 1), n + 1 \in T PROVE n \in T
  <2>1. n \in 0..(m - 1) /\ n \in 0..(DEPTH - 1) /\ n \in lo..m
    BY <1>1
  <2>2. Here(n) = Beside(branch, bit_at(a, n), At(c, n + 1, Prefix(a, n + 1)),
                         At(c, n + 1, Aside(a, n)))
    BY <1>2, <1>4, <2>1
  <2>3. Here(n) = At(c, n, Prefix(a, n))
    BY <2>1, <2>2, OneLevel
  <2>. QED BY <2>1, <2>3
<1>5. lo..m \subseteq T
  <2>. HIDE DEF T
  <2>. QED BY <1>1, <1>3, <1>4, Upwards
<1>. QED BY <1>5 DEF Here

(* The same with the hashes alone, which is what a proof carries. *)
LEMMA HashesRise ==
  ASSUME NEW c, NEW a \in Address, NEW m \in 0..DEPTH, NEW lo \in 0..m, NEW s,
         \A n \in lo..(m - 1) : /\ Two(c, n, Prefix(a, n))
                                /\ s[n + 1] = hash(At(c, n + 1, Aside(a, n)))
  PROVE  \A n \in lo..m : Climb(node_hash, a, m, n, hash(At(c, m, Prefix(a, m))), s)
                            = hash(At(c, n, Prefix(a, n)))
<1> DEFINE Here(n) == Climb(node_hash, a, m, n, hash(At(c, m, Prefix(a, m))), s)
           T == {n \in lo..m : Here(n) = hash(At(c, n, Prefix(a, n)))}
<1>1. m \in Nat /\ DEPTH \in Nat /\ lo \in Nat
  BY MerkleAssumption
<1>2. /\ Here(m) = hash(At(c, m, Prefix(a, m)))
      /\ \A n \in 0..(m - 1) : Here(n) = Beside(node_hash, bit_at(a, n), Here(n + 1), s[n + 1])
  BY <1>1, ClimbIs
<1>. HIDE DEF Here
<1>3. m \in T
  BY <1>1, <1>2
<1>4. ASSUME NEW n \in lo..(m - 1), n + 1 \in T PROVE n \in T
  <2>1. n \in 0..(m - 1) /\ n \in 0..(DEPTH - 1) /\ n \in lo..m
    BY <1>1
  <2>2. Here(n) = Beside(node_hash, bit_at(a, n), hash(At(c, n + 1, Prefix(a, n + 1))),
                         hash(At(c, n + 1, Aside(a, n))))
    BY <1>2, <1>4, <2>1
  <2>3. Here(n) = hash(At(c, n, Prefix(a, n)))
    BY <2>1, <2>2, OneLevel, BesideHash
  <2>. QED BY <2>1, <2>3
<1>5. lo..m \subseteq T
  <2>. HIDE DEF T
  <2>. QED BY <1>1, <1>3, <1>4, Upwards
<1>. QED BY <1>5 DEF Here

(* The three shapes, without Two. *)
LEMMA ThreeShapes ==
  ASSUME NEW c, NEW n \in 0..DEPTH, NEW p \in Strings(n), NEW U, U = Under(c, n, p)
  PROVE  /\ U = {} => At(c, n, p) = Empty
         /\ \A b \in U : (\A x \in U : x = b) => At(c, n, p) = Leaf(b, c[b])
         /\ (\E x, y \in U : x # y) => At(c, n, p).kind = "branch"
<1>1. U = {} => At(c, n, p) = Empty
  BY AtIs
<1>2. ASSUME NEW b \in U, \A x \in U : x = b PROVE At(c, n, p) = Leaf(b, c[b])
  <2>1. ~Two(c, n, p)
    BY <1>2 DEF Two
  <2>. QED BY <1>2, <2>1, AtIs
<1>3. ASSUME \E x, y \in U : x # y PROVE At(c, n, p).kind = "branch"
  <2>1. Two(c, n, p)
    BY <1>3 DEF Two
  <2>. QED BY <2>1, Shapes
<1>. QED BY <1>1, <1>2, <1>3

(* Whatever is under a prefix, collapsing the branch over its two halves gives
   the subtree: a branch that is not needed goes, one that is needed stays. *)
LEMMA ShrunkIs ==
  ASSUME NEW c, NEW n \in 0..(DEPTH - 1), NEW p \in Strings(n)
  PROVE  shrunk(At(c, n + 1, Longer(p, n, 0)), At(c, n + 1, Longer(p, n, 1))) = At(c, n, p)
<1> DEFINE l == At(c, n + 1, Longer(p, n, 0))
           r == At(c, n + 1, Longer(p, n, 1))
           L == Under(c, n + 1, Longer(p, n, 0))
           R == Under(c, n + 1, Longer(p, n, 1))
           U == Under(c, n, p)
<1>1. /\ n \in 0..DEPTH /\ n + 1 \in 0..DEPTH /\ n \in Nat
      /\ Longer(p, n, 0) \in Strings(n + 1) /\ Longer(p, n, 1) \in Strings(n + 1)
  BY MerkleAssumption, LongerIs
<1>2. U = L \cup R
  <2>1. ASSUME NEW x \in U PROVE x \in L \cup R
    BY UnderSplits
  <2>2. ASSUME NEW x \in L \cup R PROVE x \in U
    BY UnderJoins
  <2>. QED BY <2>1, <2>2
<1>3. L \cap R = {}
  <2>1. ASSUME NEW x \in L, x \in R PROVE FALSE
    <3>1. x[n + 1] = 0 /\ x[n + 1] = 1
      BY <2>1, UnderJoins
    <3>. QED BY <3>1
  <2>. QED BY <2>1
<1>4. /\ L = {} => l = Empty
      /\ \A b \in L : (\A x \in L : x = b) => l = Leaf(b, c[b])
      /\ (\E x, y \in L : x # y) => l.kind = "branch"
  BY <1>1, ThreeShapes
<1>5. /\ R = {} => r = Empty
      /\ \A b \in R : (\A x \in R : x = b) => r = Leaf(b, c[b])
      /\ (\E x, y \in R : x # y) => r.kind = "branch"
  BY <1>1, ThreeShapes
<1>6. /\ U = {} => At(c, n, p) = Empty
      /\ \A b \in U : (\A x \in U : x = b) => At(c, n, p) = Leaf(b, c[b])
      /\ (\E x, y \in U : x # y) => At(c, n, p) = branch(l, r)
  BY <1>1, AtIs DEF Two
<1>7. branch(l, r).children[1] = l /\ branch(l, r).children[2] = r
  <2>. HIDE DEF l, r
  <2>. QED BY DEF branch
<1>8. /\ Empty.kind = "empty" /\ \A b, v : Leaf(b, v).kind = "leaf"
  BY DEF Empty, Leaf
<1>. HIDE DEF l, r, L, R, U
<1>9. shrunk(l, r) = CASE l.kind = "empty" /\ r.kind # "branch" -> r
                       [] l.kind = "leaf" /\ r.kind = "empty"  -> l
                       [] OTHER -> branch(l, r)
  BY <1>7 DEF shrunk, collapse
<1>10. shrunk(l, r) = At(c, n, p)
  <2>1. CASE L = {} /\ R = {}
    BY <1>2, <1>4, <1>5, <1>6, <1>8, <1>9, <2>1
  <2>2. CASE L = {} /\ \E b \in R : \A x \in R : x = b
    BY <1>2, <1>4, <1>5, <1>6, <1>8, <1>9, <2>2
  <2>3. CASE R = {} /\ \E b \in L : \A x \in L : x = b
    BY <1>2, <1>4, <1>5, <1>6, <1>8, <1>9, <2>3
  <2>4. CASE \E x, y \in L : x # y
    <3>1. l.kind = "branch" /\ \E x, y \in U : x # y
      BY <1>2, <1>4, <2>4
    <3>. QED BY <1>6, <1>9, <3>1
  <2>5. CASE \E x, y \in R : x # y
    <3>1. r.kind = "branch" /\ \E x, y \in U : x # y
      BY <1>2, <1>5, <2>5
    <3>. QED BY <1>6, <1>9, <3>1
  <2>6. CASE (\E b \in L : \A x \in L : x = b) /\ (\E b \in R : \A x \in R : x = b)
    <3>1. l.kind = "leaf" /\ r.kind = "leaf"
      BY <1>4, <1>5, <1>8, <2>6
    <3>2. \E x, y \in U : x # y
      BY <1>2, <1>3, <2>6
    <3>. QED BY <1>6, <1>9, <3>1, <3>2
  <2>. QED BY <2>1, <2>2, <2>3, <2>4, <2>5, <2>6
<1>. QED BY <1>10 DEF l, r

(* The climb of remove, from whatever is left under the prefix. *)
LEMMA ShrunkRise ==
  ASSUME NEW c, NEW a \in Address, NEW m \in 0..DEPTH, NEW s,
         \A n \in 0..(m - 1) : s[n + 1] = At(c, n + 1, Aside(a, n))
  PROVE  \A n \in 0..m : Climb(shrunk, a, m, n, At(c, m, Prefix(a, m)), s)
                            = At(c, n, Prefix(a, n))
<1> DEFINE Here(n) == Climb(shrunk, a, m, n, At(c, m, Prefix(a, m)), s)
           T == {n \in 0..m : Here(n) = At(c, n, Prefix(a, n))}
<1>1. m \in Nat /\ DEPTH \in Nat /\ 0 \in 0..m
  BY MerkleAssumption
<1>2. /\ Here(m) = At(c, m, Prefix(a, m))
      /\ \A n \in 0..(m - 1) : Here(n) = Beside(shrunk, bit_at(a, n), Here(n + 1), s[n + 1])
  BY <1>1, ClimbIs
<1>. HIDE DEF Here
<1>3. m \in T
  BY <1>1, <1>2
<1>4. ASSUME NEW n \in 0..(m - 1), n + 1 \in T PROVE n \in T
  <2>1. n \in 0..(DEPTH - 1) /\ n \in 0..m /\ n \in 0..DEPTH
    BY <1>1
  <2>2. Here(n) = Beside(shrunk, bit_at(a, n), At(c, n + 1, Prefix(a, n + 1)),
                         At(c, n + 1, Aside(a, n)))
    BY <1>2, <1>4
  <2>3. /\ Prefix(a, n + 1) = Longer(Prefix(a, n), n, a[n + 1])
        /\ Aside(a, n) = Longer(Prefix(a, n), n, 1 - a[n + 1])
        /\ Prefix(a, n) \in Strings(n)
    BY <2>1, PrefixIs DEF Aside
  <2>4. Here(n) = shrunk(At(c, n + 1, Longer(Prefix(a, n), n, 0)),
                         At(c, n + 1, Longer(Prefix(a, n), n, 1)))
    <3>1. CASE a[n + 1] = 0
      BY <2>1, <2>2, <2>3, <3>1, Bits DEF Beside
    <3>2. CASE a[n + 1] = 1
      BY <2>1, <2>2, <2>3, <3>2, Bits DEF Beside
    <3>. QED BY <2>1, <3>1, <3>2, Bits
  <2>5. Here(n) = At(c, n, Prefix(a, n))
    BY <2>1, <2>3, <2>4, ShrunkIs
  <2>. QED BY <2>1, <2>5
<1>5. 0..m \subseteq T
  <2>. HIDE DEF T
  <2>. QED BY <1>1, <1>3, <1>4, Upwards
<1>. QED BY <1>5 DEF Here

-----------------------------------------------------------------------------
(* The way down. *)

(* Where the path of an address ends: the first level with at most one account
   left under its prefix. *)
EndsAt(c, a, e) ==
  /\ e \in 0..DEPTH
  /\ \A n \in 0..(e - 1) : Two(c, n, Prefix(a, n))
  /\ ~Two(c, e, Prefix(a, e))

(* Every path ends. *)
LEMMA PathEnds ==
  ASSUME NEW c, NEW a \in Address
  PROVE  \E e : EndsAt(c, a, e)
<1> DEFINE T == {n \in 0..DEPTH : ~Two(c, n, Prefix(a, n))}
<1>1. DEPTH \in T
  BY TwoIsAbove, PrefixIs, MerkleAssumption
<1>2. T \subseteq Nat /\ T # {}
  BY <1>1
<1>3. PICK e \in T : \A k \in T : e <= k
  <2>. HIDE DEF T
  <2>. QED BY <1>2, LeastLevel
<1>4. e \in 0..DEPTH /\ ~Two(c, e, Prefix(a, e))
  OBVIOUS
<1>5. ASSUME NEW n \in 0..(e - 1) PROVE Two(c, n, Prefix(a, n))
  <2>1. n \in 0..DEPTH /\ ~(e <= n)
    BY <1>4, MerkleAssumption
  <2>. QED BY <1>3, <2>1
<1>. QED BY <1>4, <1>5 DEF EndsAt

(* The child on the path and the child beside it. *)
LEMMA Children ==
  ASSUME NEW c, NEW a \in Address, NEW n \in 0..(DEPTH - 1), Two(c, n, Prefix(a, n))
  PROVE  /\ At(c, n, Prefix(a, n)).children[Turn(a, n)] = At(c, n + 1, Prefix(a, n + 1))
         /\ At(c, n, Prefix(a, n)).children[3 - Turn(a, n)] = At(c, n + 1, Aside(a, n))
<1> DEFINE x == At(c, n + 1, Prefix(a, n + 1))
           y == At(c, n + 1, Aside(a, n))
<1>1. At(c, n, Prefix(a, n)) = Beside(branch, bit_at(a, n), x, y)
  BY OneLevel
<1>. HIDE DEF x, y
<1>2. \A l, r : branch(l, r).children = <<l, r>>
  BY DEF branch
<1>3. CASE bit_at(a, n) = 0
  <2>1. At(c, n, Prefix(a, n)).children = <<x, y>>
    BY <1>1, <1>2, <1>3 DEF Beside
  <2>. QED BY <1>3, <2>1 DEF Turn, x, y
<1>4. CASE bit_at(a, n) = 1
  <2>1. At(c, n, Prefix(a, n)).children = <<y, x>>
    BY <1>1, <1>2, <1>4 DEF Beside
  <2>. QED BY <1>4, <2>1 DEF Turn, x, y
<1>. QED BY <1>3, <1>4, Bits

(* On the way down from the root of a map are its subtrees, and beside the way the
   subtrees under the other bit. *)
LEMMA PathIs ==
  ASSUME NEW c, NEW a \in Address, NEW e, EndsAt(c, a, e),
         NEW path, path = Descend(TreeOf(c), a)
  PROVE  /\ End(path) = e
         /\ \A n \in 0..e : path[n] = At(c, n, Prefix(a, n))
         /\ Passed(path, a) = [i \in 1..e |-> Passed(path, a)[i]]
         /\ \A n \in 0..(e - 1) : Passed(path, a)[n + 1] = At(c, n + 1, Aside(a, n))
<1>1. /\ e \in Nat /\ e <= DEPTH /\ DEPTH \in Nat
      /\ \A n \in 0..(e - 1) : Two(c, n, Prefix(a, n))
      /\ ~Two(c, e, Prefix(a, e))
  BY MerkleAssumption DEF EndsAt
<1>2. /\ path[0] = TreeOf(c)
      /\ \A n \in 1..DEPTH :
           path[n] = IF path[n - 1].kind # "branch" THEN path[n - 1]
                     ELSE path[n - 1].children[Turn(a, n - 1)]
  BY DescendIs
<1> DEFINE T == {n \in 0..e : path[n] = At(c, n, Prefix(a, n))}
<1>3. 0 \in T
  BY <1>1, <1>2, PrefixIs DEF TreeOf, At
<1>4. ASSUME NEW n \in 0..(e - 1), n \in T PROVE n + 1 \in T
  <2>1. n + 1 \in 1..DEPTH /\ (n + 1) - 1 = n /\ n \in 0..(DEPTH - 1) /\ n \in 0..DEPTH
        /\ n + 1 \in 0..e /\ Prefix(a, n) \in Strings(n)
    BY <1>1, PrefixIs
  <2>2. path[n].kind = "branch"
    BY <1>1, <1>4, <2>1, Shapes
  <2>3. path[n + 1] = path[n].children[Turn(a, n)]
    BY <1>2, <2>1, <2>2
  <2>4. path[n + 1] = At(c, n + 1, Prefix(a, n + 1))
    BY <1>1, <1>4, <2>1, <2>3, Children
  <2>. QED BY <2>1, <2>4
<1>5. 0..e \subseteq T
  <2>. HIDE DEF T
  <2>. QED BY <1>1, <1>3, <1>4, Downwards
<1>6. \A n \in 0..e : path[n] = At(c, n, Prefix(a, n))
  BY <1>5
<1>7. \A n \in 0..e : Prefix(a, n) \in Strings(n) /\ n \in 0..DEPTH
  BY <1>1, PrefixIs
<1>8. e \in 0..DEPTH /\ path[e].kind # "branch" /\ \A i \in 0..(e - 1) : path[i].kind = "branch"
  <2>1. e \in 0..DEPTH /\ e \in 0..e
    BY <1>1
  <2>2. path[e].kind # "branch"
    BY <1>1, <1>6, <1>7, <2>1, Shapes
  <2>3. ASSUME NEW i \in 0..(e - 1) PROVE path[i].kind = "branch"
    <3>1. i \in 0..e
      BY <1>1
    <3>. QED BY <1>1, <1>6, <1>7, <3>1, Shapes
  <2>. QED BY <2>1, <2>2, <2>3
<1>9. ASSUME NEW m \in 0..DEPTH,
             path[m].kind # "branch" /\ \A i \in 0..(m - 1) : path[i].kind = "branch"
      PROVE  m = e
  <2>1. CASE m < e
    BY <1>1, <1>8, <1>9, <2>1
  <2>2. CASE e < m
    BY <1>1, <1>8, <1>9, <2>2
  <2>. QED BY <1>1, <2>1, <2>2
<1>10. End(path) = e
  <2>1. /\ End(path) \in 0..DEPTH /\ path[End(path)].kind # "branch"
        /\ \A i \in 0..(End(path) - 1) : path[i].kind = "branch"
    BY <1>8, Zenon DEF End
  <2>. QED BY <1>9, <2>1
<1>11. Passed(path, a) = [i \in 1..e |-> path[i - 1].children[3 - Turn(a, i - 1)]]
  BY <1>10 DEF Passed
<1>12. ASSUME NEW n \in 0..(e - 1)
       PROVE  Passed(path, a)[n + 1] = At(c, n + 1, Aside(a, n))
  <2>1. n + 1 \in 1..e /\ (n + 1) - 1 = n /\ n \in 0..e /\ n \in 0..(DEPTH - 1)
    BY <1>1
  <2>2. Passed(path, a)[n + 1] = path[n].children[3 - Turn(a, n)]
    BY <1>11, <2>1
  <2>. QED BY <1>1, <1>6, <2>1, <2>2, Children
<1>. QED BY <1>6, <1>10, <1>11, <1>12

-----------------------------------------------------------------------------
(* Two accounts that have to be parted. *)

LEMMA Parting ==
  ASSUME NEW a \in Address, NEW b \in Address, a # b
  PROVE  /\ common_prefix_len(a, b) \in 0..(DEPTH - 1)
         /\ b[common_prefix_len(a, b) + 1] = 1 - a[common_prefix_len(a, b) + 1]
         /\ \A n \in 0..DEPTH : Prefix(a, n) = Prefix(b, n) <=> n <= common_prefix_len(a, b)
<1> DEFINE T == {n \in 0..(DEPTH - 1) : a[n + 1] # b[n + 1]}
           q == common_prefix_len(a, b)
<1>1. DEPTH \in Nat /\ a = [i \in 1..DEPTH |-> a[i]] /\ b = [i \in 1..DEPTH |-> b[i]]
  BY MerkleAssumption DEF Address, Strings
<1>2. PICK i \in 1..DEPTH : a[i] # b[i]
  BY <1>1
<1>3. i - 1 \in T
  BY <1>1, <1>2
<1>4. PICK m \in T : \A k \in T : m <= k
  <2>1. T \subseteq Nat
    BY MerkleAssumption
  <2>2. T # {}
    BY <1>3
  <2>. HIDE DEF T
  <2>. QED BY <2>1, <2>2, LeastLevel
<1>5. m \in 0..(DEPTH - 1) /\ bit_at(a, m) # bit_at(b, m)
      /\ \A k \in 0..(m - 1) : bit_at(a, k) = bit_at(b, k)
  <2>1. m \in 0..(DEPTH - 1) /\ bit_at(a, m) # bit_at(b, m)
    BY <1>4 DEF bit_at
  <2>2. ASSUME NEW k \in 0..(m - 1) PROVE bit_at(a, k) = bit_at(b, k)
    <3>1. k \in 0..(DEPTH - 1) /\ ~(m <= k)
      BY <1>1, <2>1
    <3>. QED BY <1>4, <3>1 DEF bit_at
  <2>. QED BY <2>1, <2>2
<1>6. /\ q \in 0..(DEPTH - 1) /\ bit_at(a, q) # bit_at(b, q)
      /\ \A k \in 0..(q - 1) : bit_at(a, k) = bit_at(b, k)
  BY <1>5 DEF common_prefix_len
<1>. HIDE DEF q
<1>7. b[q + 1] = 1 - a[q + 1]
  BY <1>6, Bits
<1>8. ASSUME NEW n \in 0..DEPTH PROVE Prefix(a, n) = Prefix(b, n) <=> n <= q
  <2>1. CASE n <= q
    <3>1. ASSUME NEW j \in 1..n PROVE a[j] = b[j]
      <4>1. j - 1 \in 0..(q - 1) /\ (j - 1) + 1 = j
        BY <1>6, <2>1
      <4>. QED BY <1>6, <4>1 DEF bit_at
    <3>. QED BY <2>1, <3>1, SharedBits
  <2>2. CASE ~(n <= q)
    <3>1. q + 1 \in 1..n /\ a[q + 1] # b[q + 1]
      BY <1>6, <2>2 DEF bit_at
    <3>. QED BY <2>2, <3>1, SharedBits
  <2>. QED BY <2>1, <2>2
<1>. QED BY <1>6, <1>7, <1>8 DEF q

(* Addresses that share a prefix share the shorter ones. *)
LEMMA ShareLess ==
  ASSUME NEW a \in Address, NEW b \in Address, NEW k \in 0..DEPTH, NEW n \in 0..k,
         Prefix(a, k) = Prefix(b, k)
  PROVE  Prefix(a, n) = Prefix(b, n)
<1>1. n \in 0..DEPTH /\ 1..n \subseteq 1..k
  BY MerkleAssumption
<1>2. \A i \in 1..k : a[i] = b[i]
  BY SharedBits
<1>. QED BY <1>1, <1>2, SharedBits

(* Two accounts alone under a prefix: down to the bit where they part there is
   nothing beside them, and there they are the two sides. *)
LEMMA TwoLeaves ==
  ASSUME NEW d, NEW a \in Address, NEW b \in Address, a # b, NEW n \in 0..DEPTH,
         Under(d, n, Prefix(a, n)) = {a, b}, NEW q, q = common_prefix_len(a, b)
  PROVE  /\ q \in 0..(DEPTH - 1) /\ n <= q
         /\ \A k \in n..q : Two(d, k, Prefix(a, k))
         /\ \A k \in n..(q - 1) : At(d, k + 1, Aside(a, k)) = Empty
         /\ At(d, q, Prefix(a, q))
              = Beside(branch, bit_at(a, q), Leaf(a, d[a]), Leaf(b, d[b]))
<1>1. /\ a \in Paths /\ d[a] # NoAccount /\ b \in Paths /\ d[b] # NoAccount
      /\ Prefix(b, n) = Prefix(a, n)
  <2>1. a \in Under(d, n, Prefix(a, n)) /\ b \in Under(d, n, Prefix(a, n))
    OBVIOUS
  <2>. QED BY <2>1 DEF Under
<1>2. /\ q \in 0..(DEPTH - 1) /\ b[q + 1] = 1 - a[q + 1]
      /\ \A k \in 0..DEPTH : Prefix(a, k) = Prefix(b, k) <=> k <= q
  BY Parting
<1>3. n <= q /\ n \in Nat /\ q \in Nat /\ DEPTH \in Nat /\ q \in 0..DEPTH
  BY <1>1, <1>2, MerkleAssumption
<1>4. ASSUME NEW k \in n..q PROVE Under(d, k, Prefix(a, k)) = {a, b}
  <2>1. k \in 0..DEPTH /\ n \in 0..k /\ Prefix(a, k) = Prefix(b, k)
    BY <1>2, <1>3
  <2>2. ASSUME NEW x \in Under(d, k, Prefix(a, k)) PROVE x \in {a, b}
    <3>1. x \in Paths /\ x \in Address /\ d[x] # NoAccount /\ Prefix(x, k) = Prefix(a, k)
      BY PathsAreAddresses DEF Under
    <3>2. Prefix(x, n) = Prefix(a, n)
      BY <2>1, <3>1, ShareLess
    <3>3. x \in Under(d, n, Prefix(a, n))
      BY <3>1, <3>2 DEF Under
    <3>. QED BY <3>3
  <2>3. a \in Under(d, k, Prefix(a, k)) /\ b \in Under(d, k, Prefix(a, k))
    BY <1>1, <2>1 DEF Under
  <2>. QED BY <2>2, <2>3
<1>5. ASSUME NEW k \in n..q PROVE Two(d, k, Prefix(a, k))
  BY <1>4 DEF Two
<1>6. ASSUME NEW k \in n..(q - 1) PROVE At(d, k + 1, Aside(a, k)) = Empty
  <2>1. /\ k \in n..q /\ k \in 0..(DEPTH - 1) /\ k \in 0..DEPTH /\ k + 1 \in 0..DEPTH
        /\ k + 1 <= q /\ k + 1 \in 1..(k + 1)
    BY <1>2, <1>3
  <2>2. Prefix(a, k + 1) = Prefix(b, k + 1)
    BY <1>2, <2>1
  <2>3. a[k + 1] = b[k + 1]
    BY <2>1, <2>2, SharedBits
  <2>4. Aside(a, k) \in Strings(k + 1) /\ Prefix(a, k) \in Strings(k)
    BY <2>1, PrefixIs
  <2>5. ASSUME NEW x \in Under(d, k + 1, Aside(a, k)) PROVE FALSE
    <3>1. x \in Under(d, k, Prefix(a, k)) /\ x[k + 1] = 1 - a[k + 1]
      BY <2>1, <2>4, Bits, UnderJoins DEF Aside
    <3>2. x \in {a, b}
      BY <1>4, <2>1, <3>1
    <3>. QED BY <2>1, <2>3, <3>1, <3>2, Bits
  <2>. QED BY <2>1, <2>4, <2>5, AtIs
<1>7. At(d, q, Prefix(a, q)) = Beside(branch, bit_at(a, q), Leaf(a, d[a]), Leaf(b, d[b]))
  <2>1. /\ q \in n..q /\ q + 1 \in 0..DEPTH /\ Prefix(a, q) \in Strings(q)
        /\ Aside(a, q) \in Strings(q + 1) /\ Prefix(a, q + 1) \in Strings(q + 1)
        /\ Aside(a, q) # Prefix(a, q + 1)
        /\ Prefix(a, q) = Prefix(b, q)
        /\ Prefix(b, q + 1) = Longer(Prefix(b, q), q, b[q + 1])
    BY <1>2, <1>3, PrefixIs
  <2>2. Prefix(b, q + 1) = Aside(a, q)
    BY <1>2, <2>1 DEF Aside
  <2>3. ASSUME NEW x \in Under(d, q + 1, Prefix(a, q + 1)) \cup Under(d, q + 1, Aside(a, q))
        PROVE  x \in {a, b}
    <3>1. x \in Under(d, q, Prefix(a, q))
      BY <1>2, <2>1, Bits, UnderJoins, PrefixIs DEF Aside
    <3>. QED BY <1>4, <2>1, <3>1
  <2>4. Under(d, q + 1, Prefix(a, q + 1)) = {a}
    <3>1. a \in Under(d, q + 1, Prefix(a, q + 1)) /\ b \notin Under(d, q + 1, Prefix(a, q + 1))
      BY <1>1, <2>1, <2>2 DEF Under
    <3>. QED BY <2>3, <3>1
  <2>5. Under(d, q + 1, Aside(a, q)) = {b}
    <3>1. b \in Under(d, q + 1, Aside(a, q)) /\ a \notin Under(d, q + 1, Aside(a, q))
      BY <1>1, <2>1, <2>2 DEF Under
    <3>. QED BY <2>3, <3>1
  <2>6. At(d, q + 1, Prefix(a, q + 1)) = Leaf(a, d[a])
    BY <2>1, <2>4, ThreeShapes
  <2>7. At(d, q + 1, Aside(a, q)) = Leaf(b, d[b])
    BY <2>1, <2>5, ThreeShapes
  <2>8. Two(d, q, Prefix(a, q))
    BY <1>5, <2>1
  <2>. QED BY <1>2, <2>6, <2>7, <2>8, OneLevel
<1>. QED BY <1>2, <1>3, <1>5, <1>6, <1>7

(* split, and the fold that stands for it in a proof, give that subtree. *)
LEMMA SplitIs ==
  ASSUME NEW d, NEW a \in Address, NEW b \in Address, a # b, NEW n \in 0..DEPTH,
         Under(d, n, Prefix(a, n)) = {a, b}
  PROVE  split(n, Leaf(a, d[a]), Leaf(b, d[b])) = At(d, n, Prefix(a, n))
<1> DEFINE q == common_prefix_len(a, b)
           s == [i \in 1..DEPTH |-> Empty]
<1>1. /\ q \in 0..(DEPTH - 1) /\ n <= q
      /\ \A k \in n..q : Two(d, k, Prefix(a, k))
      /\ \A k \in n..(q - 1) : At(d, k + 1, Aside(a, k)) = Empty
      /\ At(d, q, Prefix(a, q)) = Beside(branch, bit_at(a, q), Leaf(a, d[a]), Leaf(b, d[b]))
  BY TwoLeaves
<1>2. split(n, Leaf(a, d[a]), Leaf(b, d[b]))
        = Climb(branch, a, q, n, Beside(branch, bit_at(a, q), Leaf(a, d[a]), Leaf(b, d[b])), s)
  <2>1. Leaf(a, d[a]).address = a /\ Leaf(b, d[b]).address = b
    BY DEF Leaf
  <2>. QED BY <2>1 DEF split
<1>3. q \in 0..DEPTH /\ n \in 0..q /\ n \in n..q
  BY <1>1, MerkleAssumption
<1>4. ASSUME NEW k \in n..(q - 1)
      PROVE  Two(d, k, Prefix(a, k)) /\ s[k + 1] = At(d, k + 1, Aside(a, k))
  <2>1. k \in n..q /\ k + 1 \in 1..DEPTH
    BY <1>1, MerkleAssumption
  <2>. QED BY <1>1, <2>1
<1>. HIDE DEF q, s
<1>5. Climb(branch, a, q, n, At(d, q, Prefix(a, q)), s) = At(d, n, Prefix(a, n))
  BY <1>3, <1>4, BranchesRise
<1>. QED BY <1>1, <1>2, <1>5

(* The same for the hash subtree_with_both computes. *)
LEMMA BothIs ==
  ASSUME NEW d, NEW a \in Address, NEW b \in Address, a # b, NEW n \in 0..DEPTH,
         Under(d, n, Prefix(a, n)) = {a, b}
  PROVE  subtree_with_both(n, a, d[a], Neighbor(b, d[b])) = hash(At(d, n, Prefix(a, n)))
<1> DEFINE q == common_prefix_len(a, b)
           s == [i \in 1..DEPTH |-> EMPTY_SUBTREE]
           pair == Beside(node_hash, bit_at(a, q), leaf_hash(a, d[a]), leaf_hash(b, d[b]))
<1>1. /\ q \in 0..(DEPTH - 1) /\ n <= q
      /\ \A k \in n..q : Two(d, k, Prefix(a, k))
      /\ \A k \in n..(q - 1) : At(d, k + 1, Aside(a, k)) = Empty
      /\ At(d, q, Prefix(a, q)) = Beside(branch, bit_at(a, q), Leaf(a, d[a]), Leaf(b, d[b]))
  BY TwoLeaves
<1>2. subtree_with_both(n, a, d[a], Neighbor(b, d[b])) = Climb(node_hash, a, q, n, pair, s)
  <2>1. Neighbor(b, d[b]).address = b /\ Neighbor(b, d[b]).account = d[b]
    BY DEF Neighbor
  <2>. QED BY <2>1 DEF subtree_with_both
<1>3. hash(At(d, q, Prefix(a, q))) = pair
  BY <1>1, BesideHash, LeafHash
<1>4. q \in 0..DEPTH /\ n \in 0..q /\ n \in n..q
  BY <1>1, MerkleAssumption
<1>5. ASSUME NEW k \in n..(q - 1)
      PROVE  Two(d, k, Prefix(a, k)) /\ s[k + 1] = hash(At(d, k + 1, Aside(a, k)))
  <2>1. k \in n..q /\ k + 1 \in 1..DEPTH
    BY <1>1, MerkleAssumption
  <2>. QED BY <1>1, <2>1, LeafHash
<1>. HIDE DEF q, s, pair
<1>6. Climb(node_hash, a, q, n, hash(At(d, q, Prefix(a, q))), s) = hash(At(d, n, Prefix(a, n)))
  BY <1>4, <1>5, HashesRise
<1>. QED BY <1>2, <1>3, <1>6

-----------------------------------------------------------------------------
(* insert and remove give the tree of the map they are meant to give. *)

LEMMA RootAt ==
  ASSUME NEW c, NEW a \in Address
  PROVE  TreeOf(c) = At(c, 0, Prefix(a, 0))
BY PrefixIs DEF TreeOf, At

(* A write adds its address to every prefix of it, *)
LEMMA UnderWritten ==
  ASSUME NEW c \in Maps, NEW a \in Paths, NEW v, v # NoAccount, NEW n \in 0..DEPTH,
         NEW d, d = [c EXCEPT ![a] = v]
  PROVE  Under(d, n, Prefix(a, n)) = Under(c, n, Prefix(a, n)) \cup {a}
<1>1. d[a] = v /\ \A x \in Paths : x # a => d[x] = c[x]
  BY DEF Maps
<1>. QED BY <1>1 DEF Under

(* and a removal takes it out. *)
LEMMA UnderCleared ==
  ASSUME NEW c \in Maps, NEW a \in Paths, NEW n \in 0..DEPTH,
         NEW d, d = [c EXCEPT ![a] = NoAccount]
  PROVE  Under(d, n, Prefix(a, n)) = Under(c, n, Prefix(a, n)) \ {a}
<1>1. d[a] = NoAccount /\ \A x \in Paths : x # a => d[x] = c[x]
  BY DEF Maps
<1>. QED BY <1>1 DEF Under

(* The account at the end of a path, if there is one. *)
LEMMA EndShapes ==
  ASSUME NEW c, NEW a \in Address, NEW e, EndsAt(c, a, e), NEW U, U = Under(c, e, Prefix(a, e))
  PROVE  \/ U = {} /\ At(c, e, Prefix(a, e)) = Empty
         \/ \E b \in Address : /\ U = {b} /\ Prefix(b, e) = Prefix(a, e)
                               /\ At(c, e, Prefix(a, e)) = Leaf(b, c[b])
<1>1. e \in 0..DEPTH /\ Prefix(a, e) \in Strings(e) /\ ~Two(c, e, Prefix(a, e))
  BY PrefixIs DEF EndsAt
<1>2. CASE U = {}
  BY <1>1, <1>2, AtIs
<1>3. CASE U # {}
  <2>1. PICK b \in U : TRUE
    BY <1>3
  <2>2. b \in Address /\ Prefix(b, e) = Prefix(a, e)
    BY <2>1, PathsAreAddresses DEF Under
  <2>3. U = {b}
    BY <1>1, <2>1 DEF Two
  <2>4. At(c, e, Prefix(a, e)) = Leaf(b, c[b])
    BY <1>1, <2>1, AtIs
  <2>. QED BY <2>2, <2>3, <2>4
<1>. QED BY <1>2, <1>3

(* insert on the tree of a map is the tree of the map with the write. *)
LEMMA InsertIs ==
  ASSUME NEW c \in Maps, NEW a \in Paths, NEW v, v # NoAccount
  PROVE  insert(TreeOf(c), a, v) = TreeOf([c EXCEPT ![a] = v])
<1> DEFINE d == [c EXCEPT ![a] = v]
           path == Descend(TreeOf(c), a)
           passed == Passed(path, a)
<1>1. a \in Address
  BY PathsAreAddresses
<1>2. PICK e : EndsAt(c, a, e)
  BY <1>1, PathEnds
<1>3. /\ e \in 0..DEPTH /\ e \in Nat /\ DEPTH \in Nat /\ 0 \in 0..e /\ e \in 0..e
      /\ \A n \in 0..(e - 1) : Two(c, n, Prefix(a, n))
  BY <1>2, MerkleAssumption DEF EndsAt
<1>4. /\ End(path) = e
      /\ \A n \in 0..e : path[n] = At(c, n, Prefix(a, n))
      /\ \A n \in 0..(e - 1) : passed[n + 1] = At(c, n + 1, Aside(a, n))
  BY <1>1, <1>2, PathIs
<1>5. insert(TreeOf(c), a, v)
        = Climb(branch, a, e, 0, Placed(At(c, e, Prefix(a, e)), e, a, v), passed)
  BY <1>3, <1>4 DEF insert
<1>6. d[a] = v /\ \A x \in Paths : x # a => d[x] = c[x]
  BY DEF Maps
<1>7. ASSUME NEW n \in 0..(e - 1) PROVE passed[n + 1] = At(d, n + 1, Aside(a, n))
  <2>1. n \in 0..(DEPTH - 1)
    BY <1>3
  <2>. QED BY <1>4, <2>1, AsideUntouched
<1>8. \A n \in 0..DEPTH : Under(d, n, Prefix(a, n)) = Under(c, n, Prefix(a, n)) \cup {a}
  BY UnderWritten
<1>. HIDE DEF d, path, passed
<1>9. ASSUME NEW n \in 0..(e - 1) PROVE Two(d, n, Prefix(a, n))
  <2>1. n \in 0..DEPTH
    BY <1>3
  <2>. QED BY <1>3, <1>8, <2>1 DEF Two
<1>10. Placed(At(c, e, Prefix(a, e)), e, a, v) = At(d, e, Prefix(a, e))
  <2> DEFINE U == Under(c, e, Prefix(a, e))
             old == At(c, e, Prefix(a, e))
  <2>1. Prefix(a, e) \in Strings(e) /\ Under(d, e, Prefix(a, e)) = U \cup {a}
    BY <1>1, <1>3, <1>8, PrefixIs
  <2>2. \/ U = {} /\ old = Empty
        \/ \E b \in Address : U = {b} /\ Prefix(b, e) = Prefix(a, e) /\ old = Leaf(b, c[b])
    BY <1>1, <1>2, EndShapes
  <2>3. U \subseteq Paths
    BY DEF Under
  <2>. HIDE DEF U, old
  <2>4. Empty.kind = "empty" /\ \A b, x : Leaf(b, x).kind = "leaf" /\ Leaf(b, x).address = b
    BY DEF Empty, Leaf
  <2>5. ASSUME U \cup {a} = {a} PROVE At(d, e, Prefix(a, e)) = Leaf(a, v)
    BY <1>3, <1>6, <2>1, <2>5, ThreeShapes
  <2>6. CASE U = {} /\ old = Empty
    <3>1. Placed(old, e, a, v) = Leaf(a, v)
      BY <2>4, <2>6 DEF Placed
    <3>. QED BY <2>5, <2>6, <3>1 DEF old
  <2>7. ASSUME NEW b \in Address, U = {b}, Prefix(b, e) = Prefix(a, e), old = Leaf(b, c[b])
        PROVE  Placed(old, e, a, v) = At(d, e, Prefix(a, e))
    <3>1. CASE b = a
      <4>1. Placed(old, e, a, v) = Leaf(a, v)
        BY <2>4, <2>7, <3>1 DEF Placed
      <4>. QED BY <2>5, <2>7, <3>1, <4>1
    <3>2. CASE b # a
      <4>1. Placed(old, e, a, v) = split(e, Leaf(b, c[b]), Leaf(a, v))
        BY <2>4, <2>7, <3>2 DEF Placed
      <4>2. d[b] = c[b] /\ d[a] = v
        BY <1>6, <2>3, <2>7, <3>2
      <4>3. Under(d, e, Prefix(b, e)) = {b, a}
        BY <2>1, <2>7
      <4>4. split(e, Leaf(b, d[b]), Leaf(a, d[a])) = At(d, e, Prefix(b, e))
        BY <1>1, <1>3, <3>2, <4>3, SplitIs
      <4>. QED BY <2>7, <4>1, <4>2, <4>4
    <3>. QED BY <3>1, <3>2
  <2>. QED BY <2>2, <2>6, <2>7 DEF old
<1>11. Climb(branch, a, e, 0, At(d, e, Prefix(a, e)), passed) = At(d, 0, Prefix(a, 0))
  BY <1>1, <1>3, <1>7, <1>9, BranchesRise
<1>. QED BY <1>1, <1>5, <1>10, <1>11, RootAt DEF d

(* remove on the tree of a map is the tree of the map without the address. *)
LEMMA RemoveIs ==
  ASSUME NEW c \in Maps, NEW a \in Paths
  PROVE  remove(TreeOf(c), a) = TreeOf([c EXCEPT ![a] = NoAccount])
<1> DEFINE d == [c EXCEPT ![a] = NoAccount]
           path == Descend(TreeOf(c), a)
           passed == Passed(path, a)
<1>1. a \in Address
  BY PathsAreAddresses
<1>2. PICK e : EndsAt(c, a, e)
  BY <1>1, PathEnds
<1>3. e \in 0..DEPTH /\ e \in Nat /\ DEPTH \in Nat /\ 0 \in 0..e /\ e \in 0..e
  BY <1>2, MerkleAssumption DEF EndsAt
<1>4. /\ End(path) = e
      /\ \A n \in 0..e : path[n] = At(c, n, Prefix(a, n))
      /\ \A n \in 0..(e - 1) : passed[n + 1] = At(c, n + 1, Aside(a, n))
  BY <1>1, <1>2, PathIs
<1>5. remove(TreeOf(c), a)
        = Climb(shrunk, a, e, 0, Vacated(At(c, e, Prefix(a, e)), a), passed)
  BY <1>3, <1>4 DEF remove
<1>6. d[a] = NoAccount /\ \A x \in Paths : x # a => d[x] = c[x]
  BY DEF Maps
<1>7. ASSUME NEW n \in 0..(e - 1) PROVE passed[n + 1] = At(d, n + 1, Aside(a, n))
  <2>1. n \in 0..(DEPTH - 1)
    BY <1>3
  <2>. QED BY <1>4, <2>1, AsideUntouched
<1>8. Under(d, e, Prefix(a, e)) = Under(c, e, Prefix(a, e)) \ {a}
  BY <1>3, UnderCleared
<1>. HIDE DEF d, path, passed
<1>9. Vacated(At(c, e, Prefix(a, e)), a) = At(d, e, Prefix(a, e))
  <2> DEFINE U == Under(c, e, Prefix(a, e))
             old == At(c, e, Prefix(a, e))
  <2>1. Prefix(a, e) \in Strings(e) /\ Under(d, e, Prefix(a, e)) = U \ {a}
    BY <1>1, <1>3, <1>8, PrefixIs
  <2>2. \/ U = {} /\ old = Empty
        \/ \E b \in Address : U = {b} /\ Prefix(b, e) = Prefix(a, e) /\ old = Leaf(b, c[b])
    BY <1>1, <1>2, EndShapes
  <2>3. U \subseteq Paths
    BY DEF Under
  <2>. HIDE DEF U, old
  <2>4. Empty.kind = "empty" /\ \A b, x : Leaf(b, x).kind = "leaf" /\ Leaf(b, x).address = b
    BY DEF Empty, Leaf
  <2>5. ASSUME U \ {a} = {} PROVE At(d, e, Prefix(a, e)) = Empty
    BY <1>3, <2>1, <2>5, ThreeShapes
  <2>6. CASE U = {} /\ old = Empty
    <3>1. Vacated(old, a) = Empty
      BY <2>4, <2>6 DEF Vacated
    <3>. QED BY <2>5, <2>6, <3>1 DEF old
  <2>7. ASSUME NEW b \in Address, U = {b}, old = Leaf(b, c[b])
        PROVE  Vacated(old, a) = At(d, e, Prefix(a, e))
    <3>1. CASE b = a
      <4>1. Vacated(old, a) = Empty
        BY <2>4, <2>7, <3>1 DEF Vacated
      <4>. QED BY <2>5, <2>7, <3>1, <4>1
    <3>2. CASE b # a
      <4>1. Vacated(old, a) = Leaf(b, c[b])
        BY <2>4, <2>7, <3>2 DEF Vacated
      <4>2. d[b] = c[b]
        BY <1>6, <2>3, <2>7, <3>2
      <4>3. Under(d, e, Prefix(a, e)) = {b}
        BY <2>1, <2>7, <3>2
      <4>4. At(d, e, Prefix(a, e)) = Leaf(b, d[b])
        BY <1>3, <2>1, <4>3, ThreeShapes
      <4>. QED BY <4>1, <4>2, <4>4
    <3>. QED BY <3>1, <3>2
  <2>. QED BY <2>2, <2>6, <2>7 DEF old
<1>10. Climb(shrunk, a, e, 0, At(d, e, Prefix(a, e)), passed) = At(d, 0, Prefix(a, 0))
  BY <1>1, <1>3, <1>7, ShrunkRise
<1>. QED BY <1>1, <1>5, <1>9, <1>10, RootAt DEF d

-----------------------------------------------------------------------------
(* The invariant. *)

(* The tree is the one its contents determine. *)
Canonical == contents \in Maps /\ tree = TreeOf(contents)

(* The empty tree is the tree of no accounts. *)
LEMMA CanonicalInit ==
  Init => Canonical
<1>. SUFFICES ASSUME Init PROVE Canonical
  OBVIOUS
<1>1. contents \in Maps /\ \A x \in Paths : contents[x] = NoAccount
  BY DEF Init, Maps
<1>2. 0 \in 0..DEPTH /\ << >> \in Strings(0)
  BY MerkleAssumption DEF Strings
<1>3. Under(contents, 0, << >>) = {}
  BY <1>1 DEF Under
<1>4. TreeOf(contents) = Empty
  BY <1>2, <1>3, AtIs DEF TreeOf, At
<1>. QED BY <1>1, <1>4 DEF Init, Canonical

(* Every write and every removal keeps the tree canonical. *)
LEMMA CanonicalStep ==
  Canonical /\ [Next]_vars => Canonical'
<1>. SUFFICES ASSUME Canonical, [Next]_vars PROVE Canonical'
  OBVIOUS
<1>1. contents \in Maps /\ tree = TreeOf(contents)
  BY DEF Canonical
<1>2. ASSUME NEW a \in Paths, NEW v \in Accounts, Write(a, v) PROVE Canonical'
  <2>1. contents' = [contents EXCEPT ![a] = v] /\ tree' = insert(tree, a, v)
    BY <1>2 DEF Write
  <2>2. contents' \in Maps
    BY <1>1, <2>1 DEF Maps
  <2>3. tree' = TreeOf(contents')
    BY <1>1, <2>1, InsertIs, MerkleAssumption
  <2>. QED BY <2>2, <2>3 DEF Canonical
<1>3. ASSUME NEW a \in Paths, Clear(a) PROVE Canonical'
  <2>1. contents' = [contents EXCEPT ![a] = NoAccount] /\ tree' = remove(tree, a)
    BY <1>3 DEF Clear
  <2>2. contents' \in Maps
    BY <1>1, <2>1 DEF Maps
  <2>3. tree' = TreeOf(contents')
    BY <1>1, <2>1, RemoveIs
  <2>. QED BY <2>2, <2>3 DEF Canonical
<1>4. CASE UNCHANGED vars
  BY <1>1, <1>4 DEF Canonical, vars
<1>. QED BY <1>2, <1>3, <1>4 DEF Next

(* After any sequence of writes and removals the nodes of the sparse Merkle tree,
   cached hashes included, are the ones its contents determine. *)
THEOREM TreeIsCanonical == Spec => []Canonical
BY CanonicalInit, CanonicalStep, PTL DEF Spec

(* So the root is a function of the accounts: SparseMerkleTree::update in any order
   leads to the same commitment. *)
THEOREM RootsAreContents == Spec => []RootIsContents
<1>1. Canonical => RootIsContents
  BY DEF Canonical, RootIsContents, RootOf
<1>. QED BY <1>1, TreeIsCanonical, PTL

-----------------------------------------------------------------------------
(* The proofs that belong to a tree: the right sibling beside every branch of
   the path, and at its end the slot itself or the one neighbour in its way. *)

Fits(c, a, p) ==
  /\ Len(p.siblings) \in 0..DEPTH
  /\ \A n \in 0..(Len(p.siblings) - 1) :
       /\ Two(c, n, Prefix(a, n))
       /\ p.siblings[n + 1] = hash(At(c, n + 1, Aside(a, n)))
  /\ LET U == Under(c, Len(p.siblings), Prefix(a, Len(p.siblings)))
     IN \/ p.slot = Own /\ U \subseteq {a}
        \/ \E b \in Address : b # a /\ p.slot = Neighbor(b, c[b]) /\ U \ {a} = {b}

(* The two kinds of slot, and what a neighbour carries. *)
LEMMA SlotKinds ==
  \A b, v : /\ Own # Neighbor(b, v)
            /\ Neighbor(b, v).address = b /\ Neighbor(b, v).account = v
<1>. SUFFICES ASSUME NEW b, NEW v
              PROVE  /\ Own # Neighbor(b, v)
                     /\ Neighbor(b, v).address = b /\ Neighbor(b, v).account = v
  OBVIOUS
<1>1. Own.kind = "own" /\ Neighbor(b, v).kind = "neighbor"
  BY DEF Own, Neighbor
<1>2. Neighbor(b, v).address = b /\ Neighbor(b, v).account = v
  BY DEF Neighbor
<1>. QED BY <1>1, <1>2

(* prove hands out a proof that belongs. *)
LEMMA ProveFits ==
  ASSUME NEW c \in Maps, NEW a \in Paths
  PROVE  Fits(c, a, prove(TreeOf(c), a))
<1> DEFINE path == Descend(TreeOf(c), a)
           passed == Passed(path, a)
           p == prove(TreeOf(c), a)
<1>1. a \in Address
  BY PathsAreAddresses
<1>2. PICK e : EndsAt(c, a, e)
  BY <1>1, PathEnds
<1>3. /\ e \in 0..DEPTH /\ e \in Nat /\ DEPTH \in Nat /\ 0 \in 0..e /\ e \in 0..e
      /\ \A n \in 0..(e - 1) : Two(c, n, Prefix(a, n))
  BY <1>2, MerkleAssumption DEF EndsAt
<1>4. /\ End(path) = e
      /\ \A n \in 0..e : path[n] = At(c, n, Prefix(a, n))
      /\ \A n \in 0..(e - 1) : passed[n + 1] = At(c, n + 1, Aside(a, n))
  BY <1>1, <1>2, PathIs
<1> DEFINE last == At(c, e, Prefix(a, e))
           slot == IF last.kind = "leaf" /\ last.address # a
                   THEN Neighbor(last.address, last.account) ELSE Own
           siblings == [i \in 1..e |-> hash(passed[i])]
<1>5. p = [siblings |-> siblings, slot |-> slot]
  BY <1>3, <1>4 DEF prove
<1>. HIDE DEF path, passed
<1>6. Len(siblings) = e
  BY <1>3
<1>7. ASSUME NEW n \in 0..(e - 1) PROVE siblings[n + 1] = hash(At(c, n + 1, Aside(a, n)))
  <2>1. n + 1 \in 1..e
    BY <1>3
  <2>. QED BY <1>4, <2>1
<1> DEFINE U == Under(c, e, Prefix(a, e))
<1>8. \/ slot = Own /\ U \subseteq {a}
      \/ \E b \in Address : b # a /\ slot = Neighbor(b, c[b]) /\ U \ {a} = {b}
  <2>1. \/ U = {} /\ last = Empty
        \/ \E b \in Address : U = {b} /\ Prefix(b, e) = Prefix(a, e) /\ last = Leaf(b, c[b])
    BY <1>1, <1>2, EndShapes
  <2>. HIDE DEF U, last
  <2>2. Empty.kind = "empty"
    BY DEF Empty
  <2>3. \A b, x : Leaf(b, x).kind = "leaf" /\ Leaf(b, x).address = b /\ Leaf(b, x).account = x
    BY DEF Leaf
  <2>4. CASE U = {} /\ last = Empty
    BY <2>2, <2>4
  <2>5. ASSUME NEW b \in Address, U = {b}, last = Leaf(b, c[b])
        PROVE  \/ slot = Own /\ U \subseteq {a}
               \/ b # a /\ slot = Neighbor(b, c[b]) /\ U \ {a} = {b}
    BY <2>3, <2>5
  <2>. QED BY <2>1, <2>4, <2>5
<1>9. p.siblings = siblings /\ p.slot = slot
  <2>. HIDE DEF siblings, slot, p
  <2>. QED BY <1>5
<1>. HIDE DEF siblings, slot, p
<1>. QED BY <1>3, <1>6, <1>7, <1>8, <1>9 DEF Fits, p

(* A proof that belongs reproduces the root. *)
LEMMA FitsReproduces ==
  ASSUME NEW c \in Maps, NEW a \in Paths, NEW p, Fits(c, a, p)
  PROVE  root_from_proof(a, c[a], p) = RootOf(c)
<1> DEFINE e == Len(p.siblings)
           U == Under(c, e, Prefix(a, e))
<1>1. a \in Address
  BY PathsAreAddresses
<1>2. /\ e \in 0..DEPTH
      /\ \A n \in 0..(e - 1) : /\ Two(c, n, Prefix(a, n))
                               /\ p.siblings[n + 1] = hash(At(c, n + 1, Aside(a, n)))
      /\ \/ p.slot = Own /\ U \subseteq {a}
         \/ \E b \in Address : b # a /\ p.slot = Neighbor(b, c[b]) /\ U \ {a} = {b}
  BY DEF Fits
<1>3. root_from_proof(a, c[a], p) =
        IF \/ e > DEPTH
           \/ p.slot # Own /\ ~check_neighbor(a, p.slot.address, e)
        THEN Malformed
        ELSE Climb(node_hash, a, e, 0, SlotHash(a, c[a], p), p.siblings)
  BY DEF root_from_proof
<1>4. U \subseteq Paths /\ U \subseteq Address /\ \A x \in U : Prefix(x, e) = Prefix(a, e)
  BY PathsAreAddresses DEF Under
<1>5. a \in U <=> c[a] # NoAccount
  BY DEF Under
<1>6. /\ U = {} => At(c, e, Prefix(a, e)) = Empty
      /\ \A b \in U : (\A x \in U : x = b) => At(c, e, Prefix(a, e)) = Leaf(b, c[b])
  BY <1>1, <1>2, PrefixIs, ThreeShapes
<1>7. SlotHash(a, c[a], p) =
        IF p.slot = Own
        THEN IF c[a] = NoAccount THEN EMPTY_SUBTREE ELSE leaf_hash(a, c[a])
        ELSE IF c[a] = NoAccount THEN leaf_hash(p.slot.address, p.slot.account)
             ELSE subtree_with_both(e, a, c[a], p.slot)
  BY DEF SlotHash
<1>8. ASSUME NEW b \in Address, b # a, U = {a, b}
      PROVE  subtree_with_both(e, a, c[a], Neighbor(b, c[b])) = hash(At(c, e, Prefix(a, e)))
  BY <1>1, <1>2, <1>8, BothIs
<1>9. ASSUME NEW b \in U, b # a PROVE check_neighbor(a, b, e)
  <2>1. b \in Address /\ Prefix(a, e) = Prefix(b, e)
    BY <1>4, <1>9
  <2>2. e <= common_prefix_len(a, b) /\ common_prefix_len(a, b) \in 0..(DEPTH - 1)
    BY <1>1, <1>2, <1>9, <2>1, Parting
  <2>. QED BY <1>2, <1>9, <2>2, MerkleAssumption DEF check_neighbor
<1>. HIDE DEF e, U
<1>10. /\ SlotHash(a, c[a], p) = hash(At(c, e, Prefix(a, e)))
       /\ p.slot # Own => check_neighbor(a, p.slot.address, e)
  <2>1. CASE p.slot = Own /\ U \subseteq {a}
    <3>1. CASE c[a] = NoAccount
      BY <1>5, <1>6, <1>7, <2>1, <3>1, LeafHash
    <3>2. CASE c[a] # NoAccount
      BY <1>5, <1>6, <1>7, <2>1, <3>2, LeafHash
    <3>. QED BY <3>1, <3>2
  <2>2. ASSUME NEW b \in Address, b # a, p.slot = Neighbor(b, c[b]), U \ {a} = {b}
        PROVE  /\ SlotHash(a, c[a], p) = hash(At(c, e, Prefix(a, e)))
               /\ check_neighbor(a, p.slot.address, e)
    <3>1. p.slot # Own /\ p.slot.address = b /\ p.slot.account = c[b] /\ b \in U
      BY <2>2, SlotKinds
    <3>2. CASE c[a] = NoAccount
      <4>1. U = {b}
        BY <1>5, <2>2, <3>2
      <4>2. At(c, e, Prefix(a, e)) = Leaf(b, c[b])
        BY <1>6, <4>1
      <4>. QED BY <1>7, <1>9, <2>2, <3>1, <3>2, <4>2, LeafHash
    <3>3. CASE c[a] # NoAccount
      <4>1. U = {a, b}
        BY <1>5, <2>2, <3>3
      <4>. QED BY <1>7, <1>8, <1>9, <2>2, <3>1, <3>3, <4>1
    <3>. QED BY <3>2, <3>3
  <2>. QED BY <1>2, <2>1, <2>2
<1>11. ~(e > DEPTH) /\ 0 \in 0..e
  BY <1>2, MerkleAssumption
<1>12. Climb(node_hash, a, e, 0, hash(At(c, e, Prefix(a, e))), p.siblings)
         = hash(At(c, 0, Prefix(a, 0)))
  BY <1>1, <1>2, <1>11, HashesRise
<1>. QED BY <1>1, <1>3, <1>10, <1>11, <1>12, RootAt DEF RootOf

(* It still belongs once the slot it is about is written. *)
LEMMA FitsAfterWrite ==
  ASSUME NEW c \in Maps, NEW a \in Paths, NEW p, Fits(c, a, p), NEW v, v # NoAccount
  PROVE  Fits([c EXCEPT ![a] = v], a, p)
<1> DEFINE d == [c EXCEPT ![a] = v]
           e == Len(p.siblings)
<1>1. e \in 0..DEPTH /\ DEPTH \in Nat
  BY MerkleAssumption DEF Fits
<1>2. \A n \in 0..DEPTH : Under(d, n, Prefix(a, n)) = Under(c, n, Prefix(a, n)) \cup {a}
  BY UnderWritten
<1>3. \A n \in 0..(DEPTH - 1) : At(d, n + 1, Aside(a, n)) = At(c, n + 1, Aside(a, n))
  BY AsideUntouched
<1>4. \A x \in Paths : x # a => d[x] = c[x]
  BY DEF Maps
<1>. HIDE DEF d
<1>5. ASSUME NEW n \in 0..(e - 1)
      PROVE  Two(d, n, Prefix(a, n)) /\ p.siblings[n + 1] = hash(At(d, n + 1, Aside(a, n)))
  <2>1. n \in 0..DEPTH /\ n \in 0..(DEPTH - 1)
    BY <1>1
  <2>2. Two(c, n, Prefix(a, n)) /\ p.siblings[n + 1] = hash(At(c, n + 1, Aside(a, n)))
    BY DEF Fits
  <2>3. Two(d, n, Prefix(a, n))
    BY <1>2, <2>1, <2>2 DEF Two
  <2>. QED BY <1>3, <2>1, <2>2, <2>3
<1> DEFINE U == Under(c, e, Prefix(a, e))
           V == Under(d, e, Prefix(a, e))
<1>6. V = U \cup {a} /\ U \subseteq Paths
  BY <1>1, <1>2 DEF Under
<1>7. \/ p.slot = Own /\ U \subseteq {a}
      \/ \E b \in Address : b # a /\ p.slot = Neighbor(b, c[b]) /\ U \ {a} = {b}
  BY DEF Fits
<1>8. \/ p.slot = Own /\ V \subseteq {a}
      \/ \E b \in Address : b # a /\ p.slot = Neighbor(b, d[b]) /\ V \ {a} = {b}
  <2>. HIDE DEF U, V
  <2>1. CASE p.slot = Own /\ U \subseteq {a}
    BY <1>6, <2>1
  <2>2. ASSUME NEW b \in Address, b # a, p.slot = Neighbor(b, c[b]), U \ {a} = {b}
        PROVE  p.slot = Neighbor(b, d[b]) /\ V \ {a} = {b}
    <3>1. b \in Paths
      BY <1>6, <2>2
    <3>2. d[b] = c[b]
      BY <1>4, <2>2, <3>1
    <3>. QED BY <1>6, <2>2, <3>2
  <2>. QED BY <1>7, <2>1, <2>2
<1>9. Fits(d, a, p)
  BY <1>1, <1>5, <1>8 DEF Fits
<1>. QED BY <1>9 DEF d

(* The witness prove captures before a write lets the guest recompute the root
   before it and after it, for every tree and every address. *)
THEOREM WitnessesAlwaysWork == Spec => []WitnessesWork
<1>1. Canonical => WitnessesWork
  <2>. SUFFICES ASSUME Canonical, NEW a \in Paths
                PROVE  /\ root_from_proof(a, contents[a], proof(a)) = RootOf(contents)
                       /\ \A new \in Accounts :
                            root_from_proof(a, new, proof(a)) = RootOf([contents EXCEPT ![a] = new])
    BY DEF WitnessesWork
  <2>1. contents \in Maps /\ proof(a) = prove(TreeOf(contents), a)
    BY DEF Canonical, proof
  <2>2. Fits(contents, a, proof(a))
    BY <2>1, ProveFits
  <2>3. root_from_proof(a, contents[a], proof(a)) = RootOf(contents)
    BY <2>1, <2>2, FitsReproduces
  <2>4. ASSUME NEW new \in Accounts
        PROVE  root_from_proof(a, new, proof(a)) = RootOf([contents EXCEPT ![a] = new])
    <3> DEFINE d == [contents EXCEPT ![a] = new]
    <3>1. d \in Maps /\ d[a] = new /\ new # NoAccount
      BY <2>1, MerkleAssumption DEF Maps
    <3>2. Fits(d, a, proof(a))
      BY <2>1, <2>2, <3>1, FitsAfterWrite
    <3>. HIDE DEF d
    <3>3. root_from_proof(a, d[a], proof(a)) = RootOf(d)
      BY <3>1, <3>2, FitsReproduces
    <3>. QED BY <3>1, <3>3 DEF d
  <2>. QED BY <2>3, <2>4
<1>. QED BY <1>1, TreeIsCanonical, PTL

-----------------------------------------------------------------------------
(* Only a proof that belongs to the tree reproduces its root: a hash is the term
   it was computed from, so equal hashes can be taken apart level by level. *)

LEMMA HashTags ==
  ASSUME NEW c, NEW n \in 0..DEPTH, NEW p \in Strings(n), NEW h, h = hash(At(c, n, p))
  PROVE  /\ h # Malformed
         /\ h = EMPTY_SUBTREE => Under(c, n, p) = {}
         /\ \A b, v : h = leaf_hash(b, v) => Under(c, n, p) = {b} /\ c[b] = v
         /\ \A x, y : h = node_hash(x, y) => Two(c, n, p)
<1> DEFINE U == Under(c, n, p)
<1>1. /\ Malformed[1] = "NONE" /\ EMPTY_SUBTREE[1] = "EMPTY"
      /\ \A b, v : leaf_hash(b, v)[1] = "LEAF"
      /\ \A x, y : node_hash(x, y)[1] = "NODE"
  BY DEF Malformed, EMPTY_SUBTREE, leaf_hash, node_hash
<1>2. \A b, v, x, y : leaf_hash(b, v) = leaf_hash(x, y) => b = x /\ v = y
  BY DEF leaf_hash
<1>3. CASE U = {}
  <2>1. h = EMPTY_SUBTREE
    BY <1>3, AtIs, LeafHash
  <2>. QED BY <1>1, <1>3, <2>1
<1>4. CASE Two(c, n, p)
  <2>1. h = node_hash(hash(At(c, n + 1, Longer(p, n, 0))), hash(At(c, n + 1, Longer(p, n, 1))))
    BY <1>4, AtIs, BranchHash
  <2>2. h[1] = "NODE"
    BY <1>1, <2>1
  <2>. QED BY <1>1, <1>4, <2>2
<1>5. CASE U # {} /\ ~Two(c, n, p)
  <2>1. PICK b \in U : TRUE
    BY <1>5
  <2>2. U = {b}
    BY <1>5, <2>1 DEF Two
  <2>3. h = leaf_hash(b, c[b])
    BY <1>5, <2>1, AtIs, LeafHash
  <2>4. h[1] = "LEAF"
    BY <1>1, <2>3
  <2>5. \A x, v : h = leaf_hash(x, v) => x = b /\ v = c[b]
    BY <1>2, <2>3
  <2>. QED BY <1>1, <2>2, <2>4, <2>5
<1>. QED BY <1>3, <1>4, <1>5

(* A branch hash found on the path is that of a branch, with these two sides. *)
LEMMA OneLevelDown ==
  ASSUME NEW c, NEW a \in Address, NEW n \in 0..(DEPTH - 1), NEW x, NEW y,
         Beside(node_hash, bit_at(a, n), x, y) = hash(At(c, n, Prefix(a, n)))
  PROVE  /\ Two(c, n, Prefix(a, n))
         /\ x = hash(At(c, n + 1, Prefix(a, n + 1)))
         /\ y = hash(At(c, n + 1, Aside(a, n)))
<1>1. n \in 0..DEPTH /\ Prefix(a, n) \in Strings(n)
  BY PrefixIs, MerkleAssumption
<1>2. \E l, r : Beside(node_hash, bit_at(a, n), x, y) = node_hash(l, r)
  BY DEF Beside
<1>3. Two(c, n, Prefix(a, n))
  BY <1>1, <1>2, HashTags
<1> DEFINE z == hash(At(c, n + 1, Prefix(a, n + 1)))
           w == hash(At(c, n + 1, Aside(a, n)))
<1>4. Beside(node_hash, bit_at(a, n), x, y) = Beside(node_hash, bit_at(a, n), z, w)
  BY <1>3, OneLevel, BesideHash
<1>5. \A k, l, q, r : node_hash(k, l) = node_hash(q, r) => k = q /\ l = r
  BY DEF node_hash
<1>. HIDE DEF z, w
<1>6. x = z /\ y = w
  <2>1. CASE bit_at(a, n) = 0
    BY <1>4, <1>5, <2>1 DEF Beside
  <2>2. CASE bit_at(a, n) # 0
    BY <1>4, <1>5, <2>2 DEF Beside
  <2>. QED BY <2>1, <2>2
<1>. QED BY <1>3, <1>6 DEF z, w

(* A fold that gives the hash of a subtree has right siblings all the way down. *)
LEMMA HashesFall ==
  ASSUME NEW c, NEW a \in Address, NEW m \in 0..DEPTH, NEW lo \in 0..m, NEW start, NEW s,
         Climb(node_hash, a, m, lo, start, s) = hash(At(c, lo, Prefix(a, lo)))
  PROVE  /\ start = hash(At(c, m, Prefix(a, m)))
         /\ \A n \in lo..(m - 1) : /\ Two(c, n, Prefix(a, n))
                                   /\ s[n + 1] = hash(At(c, n + 1, Aside(a, n)))
<1> DEFINE Here(n) == Climb(node_hash, a, m, n, start, s)
           T == {k \in 0..(m - lo) : Here(lo + k) = hash(At(c, lo + k, Prefix(a, lo + k)))}
<1>1. m \in Nat /\ DEPTH \in Nat /\ lo \in Nat /\ m - lo \in Nat /\ lo + (m - lo) = m /\ lo + 0 = lo
  BY MerkleAssumption
<1>2. /\ Here(m) = start
      /\ \A n \in 0..(m - 1) : Here(n) = Beside(node_hash, bit_at(a, n), Here(n + 1), s[n + 1])
  BY <1>1, ClimbIs
<1>3. Here(lo) = hash(At(c, lo, Prefix(a, lo)))
  OBVIOUS
<1>. HIDE DEF Here
<1>4. 0 \in T
  BY <1>1, <1>3
<1>5. ASSUME NEW n \in lo..(m - 1), Here(n) = hash(At(c, n, Prefix(a, n)))
      PROVE  /\ Two(c, n, Prefix(a, n))
             /\ Here(n + 1) = hash(At(c, n + 1, Prefix(a, n + 1)))
             /\ s[n + 1] = hash(At(c, n + 1, Aside(a, n)))
  <2>1. n \in 0..(m - 1) /\ n \in 0..(DEPTH - 1)
    BY <1>1
  <2>. QED BY <1>2, <1>5, <2>1, OneLevelDown
<1>6. ASSUME NEW k \in 0..((m - lo) - 1), k \in T PROVE k + 1 \in T
  <2>1. lo + k \in lo..(m - 1) /\ (lo + k) + 1 = lo + (k + 1) /\ k + 1 \in 0..(m - lo)
    BY <1>1
  <2>. QED BY <1>5, <1>6, <2>1
<1>7. 0..(m - lo) \subseteq T
  <2>. HIDE DEF T
  <2>. QED BY <1>1, <1>4, <1>6, Downwards
<1>8. ASSUME NEW n \in lo..m PROVE Here(n) = hash(At(c, n, Prefix(a, n)))
  <2>1. n - lo \in 0..(m - lo) /\ lo + (n - lo) = n
    BY <1>1
  <2>. QED BY <1>7, <2>1
<1>9. m \in lo..m /\ \A n \in lo..(m - 1) : n \in lo..m
  BY <1>1
<1>. QED BY <1>2, <1>5, <1>8, <1>9

(* The same from the root. *)
LEMMA HashesFallFromRoot ==
  ASSUME NEW c, NEW a \in Address, NEW m \in 0..DEPTH, NEW start, NEW s,
         Climb(node_hash, a, m, 0, start, s) = hash(At(c, 0, Prefix(a, 0)))
  PROVE  /\ start = hash(At(c, m, Prefix(a, m)))
         /\ \A n \in 0..(m - 1) : /\ Two(c, n, Prefix(a, n))
                                  /\ s[n + 1] = hash(At(c, n + 1, Aside(a, n)))
<1>1. 0 \in 0..m
  BY MerkleAssumption
<1>. QED BY <1>1, HashesFall

(* What is under a prefix of an address is on its side or beside it. *)
LEMMA UnderHalves ==
  ASSUME NEW c, NEW a \in Address, NEW k \in 0..(DEPTH - 1)
  PROVE  Under(c, k, Prefix(a, k))
           = Under(c, k + 1, Prefix(a, k + 1)) \cup Under(c, k + 1, Aside(a, k))
<1>1. /\ k \in 0..DEPTH /\ Prefix(a, k) \in Strings(k)
      /\ Prefix(a, k + 1) = Longer(Prefix(a, k), k, a[k + 1])
      /\ Aside(a, k) = Longer(Prefix(a, k), k, 1 - a[k + 1])
      /\ a[k + 1] \in {0, 1} /\ 1 - a[k + 1] \in {0, 1}
  BY PrefixIs, Bits, MerkleAssumption DEF Aside
<1>2. ASSUME NEW x \in Under(c, k, Prefix(a, k))
      PROVE  x \in Under(c, k + 1, Prefix(a, k + 1)) \cup Under(c, k + 1, Aside(a, k))
  <2>1. x[k + 1] \in {0, 1} /\ x \in Under(c, k + 1, Longer(Prefix(a, k), k, x[k + 1]))
    BY <1>1, UnderSplits
  <2>2. x[k + 1] = a[k + 1] \/ x[k + 1] = 1 - a[k + 1]
    BY <1>1, <2>1
  <2>. QED BY <1>1, <2>1, <2>2
<1>3. ASSUME NEW x \in Under(c, k + 1, Prefix(a, k + 1)) \cup Under(c, k + 1, Aside(a, k))
      PROVE  x \in Under(c, k, Prefix(a, k))
  BY <1>1, UnderJoins
<1>. QED BY <1>2, <1>3

(* The account and its neighbour are all there is under the prefix where the
   path ends, when the fold over both gives the hash found there. *)
LEMMA BothAre ==
  ASSUME NEW c, NEW a \in Address, NEW b \in Address, a # b, NEW n \in 0..DEPTH,
         n <= common_prefix_len(a, b), NEW v, NEW w,
         subtree_with_both(n, a, v, Neighbor(b, w)) = hash(At(c, n, Prefix(a, n)))
  PROVE  Under(c, n, Prefix(a, n)) = {a, b} /\ c[a] = v /\ c[b] = w
<1> DEFINE q == common_prefix_len(a, b)
           s == [i \in 1..DEPTH |-> EMPTY_SUBTREE]
           pair == Beside(node_hash, bit_at(a, q), leaf_hash(a, v), leaf_hash(b, w))
<1>1. q \in 0..(DEPTH - 1)
  BY Parting
<1>2. /\ q \in 0..DEPTH /\ n \in 0..q /\ q \in Nat /\ n \in Nat /\ DEPTH \in Nat
      /\ q + 1 \in 0..DEPTH /\ q \in n..q /\ n \in n..q
  BY <1>1, MerkleAssumption
<1>3. subtree_with_both(n, a, v, Neighbor(b, w)) = Climb(node_hash, a, q, n, pair, s)
  BY SlotKinds DEF subtree_with_both
<1>4. \A k \in 1..DEPTH : s[k] = EMPTY_SUBTREE
  OBVIOUS
<1>. HIDE DEF q, s
<1>5. /\ pair = hash(At(c, q, Prefix(a, q)))
      /\ \A k \in n..(q - 1) : s[k + 1] = hash(At(c, k + 1, Aside(a, k)))
  <2>. HIDE DEF pair
  <2>1. Climb(node_hash, a, q, n, pair, s) = hash(At(c, n, Prefix(a, n)))
    BY <1>3
  <2>2. /\ pair = hash(At(c, q, Prefix(a, q)))
        /\ \A k \in n..(q - 1) : /\ Two(c, k, Prefix(a, k))
                                 /\ s[k + 1] = hash(At(c, k + 1, Aside(a, k)))
    BY <1>2, <2>1, HashesFall
  <2>. QED BY <2>2
<1>6. /\ leaf_hash(a, v) = hash(At(c, q + 1, Prefix(a, q + 1)))
      /\ leaf_hash(b, w) = hash(At(c, q + 1, Aside(a, q)))
  BY <1>1, <1>5, OneLevelDown
<1>7. Prefix(a, q + 1) \in Strings(q + 1) /\ Aside(a, q) \in Strings(q + 1)
  BY <1>1, <1>2, PrefixIs
<1>8. Under(c, q + 1, Prefix(a, q + 1)) = {a} /\ c[a] = v
  BY <1>2, <1>6, <1>7, HashTags
<1>9. Under(c, q + 1, Aside(a, q)) = {b} /\ c[b] = w
  BY <1>2, <1>6, <1>7, HashTags
<1>10. ASSUME NEW k \in n..(q - 1) PROVE Under(c, k + 1, Aside(a, k)) = {}
  <2>1. k + 1 \in 0..DEPTH /\ k + 1 \in 1..DEPTH /\ k \in 0..(DEPTH - 1)
    BY <1>1, <1>2
  <2>2. Aside(a, k) \in Strings(k + 1)
    BY <2>1, PrefixIs
  <2>. QED BY <1>4, <1>5, <2>1, <2>2, HashTags
<1>11. \A k \in 0..(DEPTH - 1) :
         Under(c, k, Prefix(a, k)) = Under(c, k + 1, Prefix(a, k + 1)) \cup Under(c, k + 1, Aside(a, k))
  BY UnderHalves
<1> DEFINE T == {k \in n..q : Under(c, k, Prefix(a, k)) = {a, b}}
<1>12. q \in T
  BY <1>1, <1>2, <1>8, <1>9, <1>11
<1>13. ASSUME NEW k \in n..(q - 1), k + 1 \in T PROVE k \in T
  <2>1. k \in 0..(DEPTH - 1) /\ k \in n..q
    BY <1>1, <1>2
  <2>. QED BY <1>10, <1>11, <1>13, <2>1
<1>14. n..q \subseteq T
  <2>. HIDE DEF T
  <2>. QED BY <1>2, <1>12, <1>13, Upwards
<1>. QED BY <1>2, <1>8, <1>9, <1>14

(* The slots a proof may end in: any address and any account for a neighbour. *)
Slots == {Own} \cup {Neighbor(b, v) : b \in Address, v \in Accounts}

(* Nothing else reproduces the root, for any account said to be in the slot. *)
LEMMA OnlyFitting ==
  ASSUME NEW c \in Maps, NEW a \in Paths, NEW p, Len(p.siblings) \in Nat, p.slot \in Slots,
         NEW old, root_from_proof(a, old, p) = RootOf(c)
  PROVE  Fits(c, a, p) /\ old = c[a]
<1> DEFINE e == Len(p.siblings)
           U == Under(c, e, Prefix(a, e))
<1>1. a \in Address /\ DEPTH \in Nat
  BY PathsAreAddresses, MerkleAssumption
<1>2. RootOf(c) = hash(At(c, 0, Prefix(a, 0)))
  BY <1>1, RootAt DEF RootOf
<1>3. RootOf(c) # Malformed
  <2>1. 0 \in 0..DEPTH /\ Prefix(a, 0) \in Strings(0)
    BY <1>1, PrefixIs
  <2>. QED BY <1>2, <2>1, HashTags
<1>4. /\ ~(e > DEPTH)
      /\ p.slot # Own => check_neighbor(a, p.slot.address, e)
      /\ Climb(node_hash, a, e, 0, SlotHash(a, old, p), p.siblings) = RootOf(c)
  BY <1>3 DEF root_from_proof
<1>5. e \in 0..DEPTH /\ 0 \in 0..e
  BY <1>1, <1>4
<1>6. /\ SlotHash(a, old, p) = hash(At(c, e, Prefix(a, e)))
      /\ \A n \in 0..(e - 1) : /\ Two(c, n, Prefix(a, n))
                               /\ p.siblings[n + 1] = hash(At(c, n + 1, Aside(a, n)))
  <2> DEFINE start == SlotHash(a, old, p)
             s == p.siblings
  <2>. HIDE DEF e, start, s
  <2>1. Climb(node_hash, a, e, 0, start, s) = hash(At(c, 0, Prefix(a, 0)))
    BY <1>2, <1>4 DEF start, s
  <2>2. /\ start = hash(At(c, e, Prefix(a, e)))
        /\ \A n \in 0..(e - 1) : /\ Two(c, n, Prefix(a, n))
                                 /\ s[n + 1] = hash(At(c, n + 1, Aside(a, n)))
    BY <1>1, <1>5, <2>1, HashesFallFromRoot
  <2>. QED BY <2>2 DEF start, s
<1>7. Prefix(a, e) \in Strings(e)
  BY <1>1, <1>5, PrefixIs
<1>8. a \in U <=> c[a] # NoAccount
  BY DEF Under
<1>9. SlotHash(a, old, p) =
        IF p.slot = Own
        THEN IF old = NoAccount THEN EMPTY_SUBTREE ELSE leaf_hash(a, old)
        ELSE IF old = NoAccount THEN leaf_hash(p.slot.address, p.slot.account)
             ELSE subtree_with_both(e, a, old, p.slot)
  BY DEF SlotHash
<1> DEFINE h == hash(At(c, e, Prefix(a, e)))
<1>10. /\ h = EMPTY_SUBTREE => U = {}
       /\ \A b, v : h = leaf_hash(b, v) => U = {b} /\ c[b] = v
  BY <1>5, <1>7, HashTags
<1>11. /\ old = c[a]
       /\ \/ p.slot = Own /\ U \subseteq {a}
          \/ \E b \in Address : b # a /\ p.slot = Neighbor(b, c[b]) /\ U \ {a} = {b}
  <2>1. CASE p.slot = Own /\ old = NoAccount
    BY <1>6, <1>8, <1>9, <1>10, <2>1
  <2>2. CASE p.slot = Own /\ old # NoAccount
    BY <1>6, <1>8, <1>9, <1>10, <2>2
  <2>3. CASE p.slot # Own
    <3>1. PICK b \in Address, w \in Accounts : p.slot = Neighbor(b, w)
      BY <2>3 DEF Slots
    <3>2. p.slot.address = b /\ p.slot.account = w
      BY <3>1, SlotKinds
    <3>3. b # a /\ common_prefix_len(a, b) >= e
      BY <1>4, <2>3, <3>2 DEF check_neighbor
    <3>4. CASE old = NoAccount
      <4>1. U = {b} /\ c[b] = w
        BY <1>6, <1>9, <1>10, <2>3, <3>2, <3>4
      <4>. QED BY <1>8, <3>1, <3>3, <3>4, <4>1
    <3>5. CASE old # NoAccount
      <4>1. subtree_with_both(e, a, old, Neighbor(b, w)) = h
        BY <1>6, <1>9, <2>3, <3>1, <3>5
      <4>2. e <= common_prefix_len(a, b)
        BY <1>1, <1>5, <3>3, Parting
      <4>3. U = {a, b} /\ c[a] = old /\ c[b] = w
        BY <1>1, <1>5, <3>3, <4>1, <4>2, BothAre
      <4>. QED BY <3>1, <3>3, <4>3
    <3>. QED BY <3>4, <3>5
  <2>. QED BY <2>1, <2>2, <2>3
<1>. QED BY <1>5, <1>6, <1>11 DEF Fits

(* A witness that reproduces the root of a tree tells the truth, whatever its
   siblings are. *)
THEOREM NoWitnessLies ==
  ASSUME NEW c \in Maps, NEW a \in Paths, NEW p, Len(p.siblings) \in Nat, p.slot \in Slots,
         NEW old, root_from_proof(a, old, p) = RootOf(c)
  PROVE  /\ old = c[a]
         /\ \A new \in Accounts :
              root_from_proof(a, new, p) = RootOf([c EXCEPT ![a] = new])
<1>1. Fits(c, a, p) /\ old = c[a]
  BY OnlyFitting
<1>2. ASSUME NEW new \in Accounts
      PROVE  root_from_proof(a, new, p) = RootOf([c EXCEPT ![a] = new])
  <2> DEFINE d == [c EXCEPT ![a] = new]
  <2>1. d \in Maps /\ d[a] = new /\ new # NoAccount
    BY MerkleAssumption DEF Maps
  <2>2. Fits(d, a, p)
    BY <1>1, <2>1, FitsAfterWrite
  <2>. HIDE DEF d
  <2>3. root_from_proof(a, d[a], p) = RootOf(d)
    BY <2>1, <2>2, FitsReproduces
  <2>. QED BY <2>1, <2>3 DEF d
<1>. QED BY <1>1, <1>2

(* The sibling lists that the run enumerates are lists. *)
LEMMA SiblingsAreLists ==
  ASSUME NEW s \in AllSiblings
  PROVE  Len(s) \in Nat
<1> DEFINE H == UNION {HashesAt(n) : n \in 0..(DEPTH + 1)}
           lists == SiblingLists
<1>1. DEPTH + 1 \in Nat /\ ((DEPTH + 1) - 1) = DEPTH
  BY MerkleAssumption
<1>. HIDE DEF H
<1>2. \E f : Falls(OneMore, f, DEPTH + 1, {<< >>})
  BY <1>1, FallsExists
<1>3. lists = [n \in 0..(DEPTH + 1) |->
                 IF n = 0 THEN {<< >>} ELSE OneMore(n, lists[n - 1])]
  BY <1>2 DEF Falls, SiblingLists
<1>. HIDE DEF lists
<1>4. lists[0] = {<< >>}
  BY <1>1, <1>3
<1>5. ASSUME NEW n \in 0..((DEPTH + 1) - 1)
      PROVE  lists[n + 1] = OneMore(n + 1, lists[n])
  <2>1. n + 1 \in 0..(DEPTH + 1) /\ n + 1 # 0 /\ (n + 1) - 1 = n
    BY <1>1
  <2>. QED BY <1>3, <2>1
<1> DEFINE T == {n \in 0..(DEPTH + 1) : lists[n] \subseteq Seq(H)}
<1>6. 0 \in T
  <2>1. 0 \in 0..(DEPTH + 1) /\ << >> \in Seq(H)
    BY <1>1
  <2>. QED BY <1>4, <2>1
<1>7. ASSUME NEW n \in 0..((DEPTH + 1) - 1), n \in T PROVE n + 1 \in T
  <2>1. n + 1 \in 0..(DEPTH + 1)
    BY <1>1
  <2>2. HashesAt(n + 1) \subseteq H
    BY <2>1 DEF H
  <2>3. ASSUME NEW y \in lists[n + 1] PROVE y \in Seq(H)
    <3>1. PICK x \in lists[n], h \in HashesAt(n + 1) : y = Append(x, h)
      BY <1>5 DEF OneMore
    <3>2. x \in Seq(H) /\ h \in H
      BY <1>7, <2>2, <3>1
    <3>. QED BY <3>1, <3>2
  <2>. QED BY <2>1, <2>3
<1>8. 0..(DEPTH + 1) \subseteq T
  <2>. HIDE DEF T
  <2>. QED BY <1>1, <1>6, <1>7, Downwards
<1>9. PICK n \in 0..(DEPTH + 1) : s \in lists[n]
  BY DEF AllSiblings, lists
<1>10. s \in Seq(H)
  BY <1>8, <1>9
<1>. QED BY <1>10

(* No witness that root_from_proof accepts against the root of the tree lies about
   the slot, or leads to a root other than that of the one write. *)
THEOREM WitnessesAreAlwaysTrue == Spec => []WitnessesAreTrue
<1>1. Canonical => WitnessesAreTrue
  <2>. SUFFICES ASSUME Canonical, NEW a \in Paths, NEW siblings \in AllSiblings,
                       NEW slot \in {Own} \cup {Neighbor(b, held) : b \in Paths, held \in Accounts},
                       NEW old \in Accounts \cup {NoAccount},
                       NEW p, p = [siblings |-> siblings, slot |-> slot],
                       root_from_proof(a, old, p) = RootOf(contents)
                PROVE  /\ old = contents[a]
                       /\ \A new \in Accounts :
                            root_from_proof(a, new, p) = RootOf([contents EXCEPT ![a] = new])
    BY DEF WitnessesAreTrue
  <2>1. p.siblings = siblings /\ p.slot = slot
    OBVIOUS
  <2>2. Len(p.siblings) \in Nat
    BY <2>1, SiblingsAreLists
  <2>3. p.slot \in Slots
    BY <2>1, PathsAreAddresses DEF Slots
  <2>4. contents \in Maps
    BY DEF Canonical
  <2>. QED BY <2>2, <2>3, <2>4, NoWitnessLies
<1>. QED BY <1>1, TreeIsCanonical, PTL

(* The path of an account that is there ends in its own leaf. *)
LEMMA OwnWhenPresent ==
  ASSUME NEW c \in Maps, NEW a \in Paths, c[a] # NoAccount
  PROVE  prove(TreeOf(c), a).slot = Own
<1> DEFINE path == Descend(TreeOf(c), a)
           p == prove(TreeOf(c), a)
<1>1. a \in Address
  BY PathsAreAddresses
<1>2. PICK e : EndsAt(c, a, e)
  BY <1>1, PathEnds
<1>3. e \in 0..e
  BY <1>2, MerkleAssumption DEF EndsAt
<1>4. End(path) = e /\ path[e] = At(c, e, Prefix(a, e))
  BY <1>1, <1>2, <1>3, PathIs
<1>5. a \in Under(c, e, Prefix(a, e))
  BY DEF Under
<1>6. path[End(path)] = Leaf(a, c[a])
  BY <1>1, <1>2, <1>4, <1>5, EndShapes
<1>7. path[End(path)].address = a
  BY <1>6 DEF Leaf
<1>8. p.slot = IF path[End(path)].kind = "leaf" /\ path[End(path)].address # a
               THEN Neighbor(path[End(path)].address, path[End(path)].account) ELSE Own
  <2>. HIDE DEF path
  <2>1. Descend(TreeOf(c), a) = path
    BY DEF path
  <2>. QED BY <2>1 DEF prove
<1>. QED BY <1>7, <1>8

(* forceExit's fold is the guest's over a leaf of its own. *)
LEMMA ExitIsOwn ==
  ASSUME NEW a, NEW account, account # NoAccount, NEW s
  PROVE  exitRoot(a, account, s) = root_from_proof(a, account, [siblings |-> s, slot |-> Own])
<1> DEFINE p == [siblings |-> s, slot |-> Own]
<1>1. p.siblings = s /\ p.slot = Own
  OBVIOUS
<1>. HIDE DEF p
<1>2. SlotHash(a, account, p) = leaf_hash(a, account)
  BY <1>1 DEF SlotHash
<1>3. root_from_proof(a, account, p) = exitRoot(a, account, s)
  BY <1>1, <1>2 DEF root_from_proof, exitRoot
<1>. QED BY <1>3 DEF p

(* forceExit's fold accepts the ledger's proof of every account in the tree, and
   no path for an account that is not there. *)
THEOREM ExitProofsAlwaysAgree == Spec => []ExitProofsAgree
<1>1. Canonical => ExitProofsAgree
  <2>. SUFFICES ASSUME Canonical, NEW a \in Paths
                PROVE  /\ contents[a] # NoAccount =>
                            exitRoot(a, contents[a], proof(a).siblings) = RootOf(contents)
                       /\ \A account \in Accounts, siblings \in AllSiblings :
                            exitRoot(a, account, siblings) = RootOf(contents)
                              => contents[a] = account
    BY DEF ExitProofsAgree
  <2>1. contents \in Maps /\ proof(a) = prove(TreeOf(contents), a)
    BY DEF Canonical, proof
  <2>2. ASSUME contents[a] # NoAccount
        PROVE  exitRoot(a, contents[a], proof(a).siblings) = RootOf(contents)
    <3> DEFINE s == proof(a).siblings
               p == [siblings |-> s, slot |-> Own]
    <3>1. Fits(contents, a, proof(a))
      BY <2>1, ProveFits
    <3>2. p.siblings = s /\ p.slot = Own
      OBVIOUS
    <3>3. proof(a).slot = Own
      BY <2>1, <2>2, OwnWhenPresent
    <3>4. Fits(contents, a, p)
      <4>. HIDE DEF p
      <4>. QED BY <3>1, <3>2, <3>3 DEF Fits
    <3>. HIDE DEF p, s
    <3>5. root_from_proof(a, contents[a], p) = RootOf(contents)
      BY <2>1, <3>4, FitsReproduces
    <3>. QED BY <2>2, <3>5, ExitIsOwn DEF p, s
  <2>3. ASSUME NEW account \in Accounts, NEW siblings \in AllSiblings,
               exitRoot(a, account, siblings) = RootOf(contents)
        PROVE  contents[a] = account
    <3> DEFINE p == [siblings |-> siblings, slot |-> Own]
    <3>1. p.siblings = siblings /\ p.slot \in Slots
      BY DEF Slots
    <3>2. root_from_proof(a, account, p) = RootOf(contents)
      BY <2>3, ExitIsOwn, MerkleAssumption
    <3>3. Len(p.siblings) \in Nat
      BY <3>1, SiblingsAreLists
    <3>. HIDE DEF p
    <3>. QED BY <2>1, <3>1, <3>2, <3>3, NoWitnessLies
  <2>. QED BY <2>2, <2>3
<1>. QED BY <1>1, TreeIsCanonical, PTL
=============================================================================
