------------------------- MODULE VerifyBatch_proofs -------------------------
(***************************************************************************)
(* What verify_batch and withdrawal_payouts compute, for batches of every  *)
(* length and any sidecar at all: two sidecars that are both accepted say  *)
(* the same, an accepted batch obeys BlockLaw, and no signature in it is   *)
(* executed twice.                                                         *)
(*                                                                         *)
(* Both are loops, written as recursive functions.  Their values are found *)
(* by induction over the length, with the property as a set of numbers:    *)
(* for every loop there is a function that satisfies the equation (built   *)
(* up one turn at a time), and two that do agree on the turns they share.  *)
(* From then on two facts are used of each loop: the empty batch, and one  *)
(* transaction more.                                                       *)
(***************************************************************************)
EXTENDS VerifyBatch, PaymentRollup_proofs, WellFoundedInduction

-----------------------------------------------------------------------------
(* Induction over the natural numbers, with the property as a set. *)

(* A set of natural numbers that is not empty has a least element. *)
LEMMA LeastNumber ==
  ASSUME NEW T, T \subseteq Nat, T # {}
  PROVE  \E m \in T : \A k \in T : m <= k
<1>1. \A x, y \in Nat : x < y => <<x, y>> \in OpToRel(<, Nat)
  BY DEF OpToRel
<1>2. PICK m \in T : \A y \in T : ~(<<y, m>> \in OpToRel(<, Nat))
  BY WFMin, NatLessThanWellFounded
<1>3. ASSUME NEW k \in T PROVE m <= k
  <2>1. m \in Nat /\ k \in Nat /\ ~(k < m)
    BY <1>1, <1>2
  <2>. QED BY <2>1
<1>. QED BY <1>2, <1>3

(* A set that holds zero and with every number the next holds them all. *)
LEMMA Induction ==
  ASSUME NEW T, T \subseteq Nat, 0 \in T, \A n \in T : n + 1 \in T
  PROVE  T = Nat
<1>1. ASSUME NEW x \in Nat \ T PROVE FALSE
  <2>1. PICK m \in Nat \ T : \A k \in Nat \ T : m <= k
    BY <1>1, LeastNumber
  <2>2. m # 0 /\ m - 1 \in Nat /\ m - 1 \in T
    BY <2>1
  <2>. QED BY <2>1, <2>2
<1>. QED BY <1>1

-----------------------------------------------------------------------------
(* Loops: f is what a loop that starts from base has come to after each of its
   first N turns. *)
Falls(F(_, _), f, N, base) ==
  f = [n \in 0..N |-> IF n = 0 THEN base ELSE F(n, f[n - 1])]

(* There is such an f, however long the loop runs. *)
LEMMA FallsExists ==
  ASSUME NEW F(_, _), NEW base
  PROVE  \A N \in Nat : \E f : Falls(F, f, N, base)
<1> DEFINE T == {N \in Nat : \E f : Falls(F, f, N, base)}
<1>1. 0 \in T
  <2> DEFINE f == [n \in 0..0 |-> base]
  <2>1. Falls(F, f, 0, base)
    BY DEF Falls
  <2>. QED BY <2>1
<1>2. ASSUME NEW N \in T PROVE N + 1 \in T
  <2>1. PICK f : Falls(F, f, N, base)
    OBVIOUS
  <2> DEFINE g == [n \in 0..(N + 1) |-> IF n = N + 1 THEN F(n, f[N]) ELSE f[n]]
  <2>2. N \in Nat
    OBVIOUS
  <2>3. ASSUME NEW n \in 0..(N + 1)
        PROVE  g[n] = IF n = 0 THEN base ELSE F(n, g[n - 1])
    BY <2>1, <2>2 DEF Falls
  <2>4. Falls(F, g, N + 1, base)
    <3>. HIDE DEF g
    <3>1. g = [n \in 0..(N + 1) |-> g[n]]
      BY DEF g
    <3>. QED BY <2>3, <3>1 DEF Falls
  <2>5. \E h : Falls(F, h, N + 1, base)
    BY <2>4
  <2>. QED BY <2>2, <2>5
<1>3. T \subseteq Nat
  OBVIOUS
<1>4. T = Nat
  <2>. HIDE DEF T
  <2>. QED BY <1>1, <1>2, <1>3, Induction
<1>. QED BY <1>4

(* Two loops that begin alike and take like turns stand alike. *)
LEMMA FallsAgree ==
  ASSUME NEW N \in Nat, NEW f, NEW g, f[0] = g[0],
         \A n \in 1..N : f[n - 1] = g[n - 1] => f[n] = g[n]
  PROVE  \A n \in 0..N : f[n] = g[n]
<1> DEFINE T == {n \in Nat : n <= N => f[n] = g[n]}
<1>1. 0 \in T
  OBVIOUS
<1>2. ASSUME NEW n \in T PROVE n + 1 \in T
  <2>1. n \in Nat /\ (n <= N => f[n] = g[n])
    OBVIOUS
  <2>2. CASE n + 1 <= N
    <3>1. n + 1 \in 1..N /\ (n + 1) - 1 = n /\ f[n] = g[n]
      BY <2>1, <2>2
    <3>2. f[n + 1] = g[n + 1]
      BY <3>1
    <3>. QED BY <2>1, <3>2
  <2>. QED BY <2>1, <2>2
<1>3. T \subseteq Nat
  OBVIOUS
<1>4. T = Nat
  <2>. HIDE DEF T
  <2>. QED BY <1>1, <1>2, <1>3, Induction
<1>. QED BY <1>4

-----------------------------------------------------------------------------
(* The loop of verify_batch. *)

Begun(r, i) == [root |-> r, inbox_chain |-> i, payouts |-> << >>]

(* f is where the replay stands after each of the first N transactions. *)
IsReplay(f, N, d, r, i, t, e) ==
  f = [n \in 0..N |-> IF n = 0 THEN Begun(r, i)
                      ELSE ReplayTxn(d, f[n - 1], t[n], e[n])]

LEMMA ReplayExists ==
  ASSUME NEW d, NEW r, NEW i, NEW t, NEW e, NEW N \in Nat
  PROVE  \E f : IsReplay(f, N, d, r, i, t, e)
<1> DEFINE Turn(n, x) == ReplayTxn(d, x, t[n], e[n])
<1>1. \E f : Falls(Turn, f, N, Begun(r, i))
  <2>. HIDE DEF Turn
  <2>. QED BY FallsExists
<1>. QED BY <1>1 DEF Falls, IsReplay

LEMMA ReplayPrefix ==
  ASSUME NEW d, NEW r, NEW i, NEW t, NEW e, NEW f, NEW N \in Nat,
         NEW u, NEW c, NEW g, NEW M \in Nat, N <= M,
         IsReplay(f, N, d, r, i, t, e), IsReplay(g, M, d, r, i, u, c),
         \A n \in 1..N : t[n] = u[n] /\ e[n] = c[n]
  PROVE  \A n \in 0..N : f[n] = g[n]
<1>1. f[0] = g[0] /\ \A n \in 1..N : f[n - 1] = g[n - 1] => f[n] = g[n]
  BY DEF IsReplay
<1>. QED BY <1>1, FallsAgree

(* verify_batch is where such an f ends. *)
LEMMA VerifyIs ==
  ASSUME NEW d, NEW r, NEW i, NEW t, NEW e, Len(t) \in Nat, Len(t) = Len(e)
  PROVE  \E f : /\ IsReplay(f, Len(t), d, r, i, t, e)
                /\ verify_batch(d, r, i, t, e) = f[Len(t)]
<1> DEFINE f == CHOOSE f : IsReplay(f, Len(t), d, r, i, t, e)
<1>1. IsReplay(f, Len(t), d, r, i, t, e)
  <2>1. \E g : IsReplay(g, Len(t), d, r, i, t, e)
    BY ReplayExists
  <2>. QED BY <2>1
<1>2. verify_batch(d, r, i, t, e) = f[Len(t)]
  BY DEF verify_batch, IsReplay, Begun
<1>. QED BY <1>1, <1>2

(* A batch of nothing lands where it began. *)
LEMMA VerifyNothing ==
  ASSUME NEW d, NEW r, NEW i
  PROVE  verify_batch(d, r, i, << >>, << >>) = Begun(r, i)
<1>1. PICK f : /\ IsReplay(f, Len(<< >>), d, r, i, << >>, << >>)
               /\ verify_batch(d, r, i, << >>, << >>) = f[Len(<< >>)]
  <2>1. Len(<< >>) = 0
    OBVIOUS
  <2>. QED BY <2>1, VerifyIs
<1>. QED BY <1>1 DEF IsReplay

(* With one transaction more, one more turn of the loop. *)
LEMMA VerifyOneMore ==
  ASSUME NEW d, NEW r, NEW i, NEW S, NEW t \in Seq(S), NEW E, NEW e \in Seq(E),
         Len(t) = Len(e), NEW txn \in S, NEW entry \in E
  PROVE  verify_batch(d, r, i, Append(t, txn), Append(e, entry))
           = ReplayTxn(d, verify_batch(d, r, i, t, e), txn, entry)
<1> DEFINE u == Append(t, txn)
           c == Append(e, entry)
           N == Len(t)
<1>1. /\ N \in Nat /\ Len(u) = N + 1 /\ Len(c) = N + 1
      /\ \A n \in 1..N : t[n] = u[n] /\ e[n] = c[n]
      /\ u[N + 1] = txn /\ c[N + 1] = entry
  BY AppendProperties, LenProperties
<1>. HIDE DEF u, c, N
<1>2. PICK f : IsReplay(f, N, d, r, i, t, e) /\ verify_batch(d, r, i, t, e) = f[N]
  BY <1>1, VerifyIs DEF N
<1>3. PICK g : IsReplay(g, N + 1, d, r, i, u, c) /\ verify_batch(d, r, i, u, c) = g[N + 1]
  <2>1. Len(u) \in Nat /\ Len(u) = Len(c)
    BY <1>1
  <2>2. \E g : IsReplay(g, Len(u), d, r, i, u, c) /\ verify_batch(d, r, i, u, c) = g[Len(u)]
    BY <2>1, VerifyIs
  <2>. QED BY <1>1, <2>2
<1>4. f[N] = g[N]
  <2>1. N \in Nat /\ N + 1 \in Nat /\ N <= N + 1 /\ N \in 0..N
    BY <1>1
  <2>2. \A n \in 0..N : f[n] = g[n]
    BY <1>1, <1>2, <1>3, <2>1, ReplayPrefix
  <2>. QED BY <2>1, <2>2
<1>5. g[N + 1] = ReplayTxn(d, g[N], u[N + 1], c[N + 1])
  BY <1>1, <1>3 DEF IsReplay
<1>. QED BY <1>1, <1>2, <1>3, <1>4, <1>5 DEF u, c

-----------------------------------------------------------------------------
(* The same loop with the sidecar taken away: what each transaction does to a
   root and to the payouts when it is accepted. *)

IsRoot(r) == r = [a \in Addresses |-> r[a]]

Spent(account, txn) ==
  [nonce |-> account.nonce + 1, amount |-> account.amount - txn.amount - txn.fee,
   auth_address |-> account.auth_address]

Debited(txn, r) == [r EXCEPT ![txn.sender] = Spent(r[txn.sender], txn)]

Richer(account, amount) ==
  [nonce |-> account.nonce, amount |-> account.amount + amount,
   auth_address |-> account.auth_address]

CreditedTo(a, amount, r) ==
  LET old == IF r[a] = NoAccount THEN empty(a) ELSE r[a]
  IN [r EXCEPT ![a] = Richer(old, amount)]

FeePaid(txn, r) == IF txn.fee = 0 THEN r ELSE CreditedTo(FEE_SINK, txn.fee, r)

RootAfter(txn, r) ==
  CASE txn.kind = "PAY" ->
         FeePaid(txn, CreditedTo(txn.destination, txn.amount, Debited(txn, r)))
    [] txn.kind = "WDR" -> FeePaid(txn, Debited(txn, r))
    [] txn.kind = "deposit" -> CreditedTo(txn.destination, txn.amount, r)
    [] txn.kind = "forced" ->
         IF r[txn.sender].amount < MIN_WITHDRAWAL THEN r
         ELSE [r EXCEPT ![txn.sender] = emptied(r[txn.sender])]

PayoutsAfter(txn, r, payouts) ==
  LET pay(amount) == Append(payouts, [recipient |-> txn.destination, amount |-> amount])
  IN CASE txn.kind = "WDR" -> pay(txn.amount)
       [] txn.kind = "forced" /\ r[txn.sender].amount >= MIN_WITHDRAWAL ->
            pay(r[txn.sender].amount)
       [] OTHER -> payouts

(* What the batch format itself guarantees of a transaction. *)
IsTxn(txn) ==
  /\ txn.kind \in {"PAY", "WDR", "deposit", "forced"}
  /\ txn.kind # "deposit" => txn.sender \in Addresses
  /\ txn.kind \in {"PAY", "deposit"} => txn.destination \in Addresses

(* No root is an error. *)
LEMMA RootIsNoErr ==
  ASSUME NEW r, IsRoot(r)
  PROVE  r # Err
<1>1. FEE_SINK \in DOMAIN r
  BY KeylessAssumption DEF IsRoot
<1>2. DOMAIN Err = {}
  BY DEF Err
<1>. QED BY <1>1, <1>2

(* A root with one slot written is a root. *)
LEMMA WrittenIsRoot ==
  ASSUME NEW r, IsRoot(r), NEW a \in Addresses, NEW x
  PROVE  IsRoot([r EXCEPT ![a] = x])
BY DEF IsRoot

(* A witness that matches the root shows the account that is there, and writes
   that slot and no other: the collision freedom of the Merkle tree. *)
LEMMA WitnessPinned ==
  ASSUME NEW r, IsRoot(r), NEW a \in Addresses, NEW w, expect_pre_state(a, w, r)
  PROVE  /\ w.old_account = r[a]
         /\ \A x : root_with(a, x, w.proof) = [r EXCEPT ![a] = x]
<1>1. r = [w.proof EXCEPT ![a] = w.old_account]
  BY DEF expect_pre_state, root_with
<1>2. DOMAIN w.proof = Addresses
  BY <1>1 DEF IsRoot
<1>3. w.old_account = r[a]
  BY <1>1, <1>2
<1>4. ASSUME NEW x PROVE [w.proof EXCEPT ![a] = x] = [r EXCEPT ![a] = x]
  BY <1>1, <1>2
<1>. QED BY <1>3, <1>4 DEF root_with

(* A debit that is not refused writes the sender of the root it is given. *)
LEMMA DebitIs ==
  ASSUME NEW d, NEW txn, txn.sender \in Addresses, NEW w, NEW sig, NEW r, IsRoot(r),
         debit(d, txn, w, sig, r) # Err
  PROVE  debit(d, txn, w, sig, r) = Debited(txn, r) /\ IsRoot(Debited(txn, r))
<1> DEFINE x == Spent(w.old_account, txn)
<1>1. /\ expect_pre_state(txn.sender, w, r)
      /\ debit(d, txn, w, sig, r) = root_with(txn.sender, x, w.proof)
  BY DEF debit, Spent
<1>2. w.old_account = r[txn.sender] /\ root_with(txn.sender, x, w.proof) = [r EXCEPT ![txn.sender] = x]
  BY <1>1, WitnessPinned
<1>3. [r EXCEPT ![txn.sender] = x] = Debited(txn, r)
  BY <1>2 DEF Debited
<1>. HIDE DEF x
<1>4. IsRoot([r EXCEPT ![txn.sender] = x])
  BY WrittenIsRoot
<1>. QED BY <1>1, <1>2, <1>3, <1>4

(* So does a credit, which creates the account where there is none. *)
LEMMA CreditIs ==
  ASSUME NEW a \in Addresses, NEW w, NEW amount, NEW r, IsRoot(r),
         credit(a, w, amount, r) # Err
  PROVE  credit(a, w, amount, r) = CreditedTo(a, amount, r) /\ IsRoot(CreditedTo(a, amount, r))
<1> DEFINE old == IF w.old_account = NoAccount THEN empty(a) ELSE w.old_account
           x == Richer(old, amount)
<1>1. expect_pre_state(a, w, r) /\ credit(a, w, amount, r) = root_with(a, x, w.proof)
  BY DEF credit, Richer
<1>2. w.old_account = r[a] /\ root_with(a, x, w.proof) = [r EXCEPT ![a] = x]
  BY <1>1, WitnessPinned
<1>3. [r EXCEPT ![a] = x] = CreditedTo(a, amount, r)
  BY <1>2 DEF CreditedTo
<1>. HIDE DEF old, x
<1>4. IsRoot([r EXCEPT ![a] = x])
  BY WrittenIsRoot
<1>. QED BY <1>1, <1>2, <1>3, <1>4

(* The fee-sink write, of a root or of an error. *)
LEMMA PayFeeIs ==
  ASSUME NEW txn, NEW entry, NEW r, r = Err \/ IsRoot(r), payFee(txn, entry, r) # Err
  PROVE  /\ r # Err
         /\ payFee(txn, entry, r) = FeePaid(txn, r) /\ IsRoot(FeePaid(txn, r))
<1>1. CASE txn.fee = 0
  BY <1>1 DEF payFee, FeePaid
<1>2. CASE txn.fee # 0
  <2>1. payFee(txn, entry, r) = credit(FEE_SINK, entry.witnesses[Len(entry.witnesses)], txn.fee, r)
    BY <1>2 DEF payFee
  <2>2. r # Err
    BY <2>1 DEF credit
  <2>3. FEE_SINK \in Addresses
    BY KeylessAssumption
  <2>. QED BY <1>2, <2>1, <2>2, <2>3, CreditIs DEF FeePaid
<1>. QED BY <1>1, <1>2

(* What an accepted transaction does to the root is decided by the transaction
   and the root. *)
LEMMA NextRootIs ==
  ASSUME NEW d, NEW txn, IsTxn(txn), NEW entry, NEW r, IsRoot(r),
         NextRoot(d, txn, entry, r) # Err
  PROVE  /\ NextRoot(d, txn, entry, r) = RootAfter(txn, r)
         /\ IsRoot(RootAfter(txn, r))
         /\ txn.kind = "forced" => entry.witnesses[1].old_account = r[txn.sender]
<1> DEFINE w == entry.witnesses
           D == debit(d, txn, w[1], entry.sig, r)
           C == credit(txn.destination, w[2], txn.amount, D)
<1>1. CASE txn.kind = "PAY"
  <2>1. NextRoot(d, txn, entry, r) = payFee(txn, entry, C)
    BY <1>1 DEF NextRoot
  <2>2. txn.sender \in Addresses /\ txn.destination \in Addresses
    BY <1>1 DEF IsTxn
  <2>3. D # Err => D = Debited(txn, r) /\ IsRoot(D)
    BY <2>2, DebitIs
  <2>4. C # Err => D # Err
    BY DEF credit
  <2>. HIDE DEF C, D
  <2>5. C # Err => C = CreditedTo(txn.destination, txn.amount, Debited(txn, r)) /\ IsRoot(C)
    BY <2>2, <2>3, <2>4, CreditIs DEF C
  <2>6. payFee(txn, entry, C) = FeePaid(txn, C) /\ C # Err /\ IsRoot(FeePaid(txn, C))
    BY <2>1, <2>5, PayFeeIs
  <2>. QED BY <1>1, <2>1, <2>5, <2>6 DEF RootAfter
<1>2. CASE txn.kind = "WDR"
  <2>1. NextRoot(d, txn, entry, r) = payFee(txn, entry, D)
    BY <1>2 DEF NextRoot
  <2>2. txn.sender \in Addresses
    BY <1>2 DEF IsTxn
  <2>3. D # Err => D = Debited(txn, r) /\ IsRoot(D)
    BY <2>2, DebitIs
  <2>. HIDE DEF D
  <2>4. payFee(txn, entry, D) = FeePaid(txn, D) /\ D # Err /\ IsRoot(FeePaid(txn, D))
    BY <2>1, <2>3, PayFeeIs
  <2>. QED BY <1>2, <2>1, <2>3, <2>4 DEF RootAfter
<1>3. CASE txn.kind = "deposit"
  <2>1. NextRoot(d, txn, entry, r) = credit(txn.destination, w[1], txn.amount, r)
    BY <1>3 DEF NextRoot
  <2>2. txn.destination \in Addresses
    BY <1>3 DEF IsTxn
  <2>. QED BY <1>3, <2>1, <2>2, CreditIs DEF RootAfter
<1>4. CASE txn.kind = "forced"
  <2>1. NextRoot(d, txn, entry, r) = force(txn, w[1], r)
    BY <1>4 DEF NextRoot
  <2>2. txn.sender \in Addresses
    BY <1>4 DEF IsTxn
  <2>3. expect_pre_state(txn.sender, w[1], r)
    BY <2>1 DEF force
  <2>4. /\ w[1].old_account = r[txn.sender]
        /\ \A x : root_with(txn.sender, x, w[1].proof) = [r EXCEPT ![txn.sender] = x]
    BY <2>2, <2>3, WitnessPinned
  <2>5. force(txn, w[1], r) = IF r[txn.sender].amount < MIN_WITHDRAWAL THEN r
                              ELSE [r EXCEPT ![txn.sender] = emptied(r[txn.sender])]
    BY <2>1, <2>3, <2>4 DEF force
  <2>6. IsRoot([r EXCEPT ![txn.sender] = emptied(r[txn.sender])])
    BY <2>2, WrittenIsRoot
  <2>. QED BY <1>4, <2>1, <2>4, <2>5, <2>6 DEF RootAfter
<1>. QED BY <1>1, <1>2, <1>3, <1>4 DEF IsTxn

(* One turn of the loop that ends in no error. *)
LEMMA ReplayTxnIs ==
  ASSUME NEW d, NEW txn, IsTxn(txn), NEW entry, NEW b, b.root = Err \/ IsRoot(b.root),
         ReplayTxn(d, b, txn, entry).root # Err
  PROVE  /\ b.root # Err
         /\ IsRoot(RootAfter(txn, b.root))
         /\ ReplayTxn(d, b, txn, entry)
              = [root |-> RootAfter(txn, b.root),
                 inbox_chain |-> NextInbox(txn, b.inbox_chain),
                 payouts |-> PayoutsAfter(txn, b.root, b.payouts)]
<1>1. b.root # Err /\ IsRoot(b.root)
  BY DEF ReplayTxn
<1>2. ReplayTxn(d, b, txn, entry) = [root |-> NextRoot(d, txn, entry, b.root),
                                     inbox_chain |-> NextInbox(txn, b.inbox_chain),
                                     payouts |-> NextPayouts(txn, entry, b.payouts)]
  BY <1>1 DEF ReplayTxn
<1>3. NextRoot(d, txn, entry, b.root) # Err
  BY <1>2
<1>4. /\ NextRoot(d, txn, entry, b.root) = RootAfter(txn, b.root)
      /\ IsRoot(RootAfter(txn, b.root))
      /\ txn.kind = "forced" => entry.witnesses[1].old_account = b.root[txn.sender]
  BY <1>1, <1>3, NextRootIs
<1>5. NextPayouts(txn, entry, b.payouts) = PayoutsAfter(txn, b.root, b.payouts)
  BY <1>4 DEF NextPayouts, PayoutsAfter
<1>. QED BY <1>1, <1>2, <1>4, <1>5

(* Two replays of one batch from one root that are both still going stand at
   the same place. *)
LEMMA ReplaysAgree ==
  ASSUME NEW d, NEW r, IsRoot(r), NEW i, NEW t, NEW e, NEW c, NEW N \in Nat,
         \A n \in 1..N : IsTxn(t[n]),
         NEW f, IsReplay(f, N, d, r, i, t, e), NEW g, IsReplay(g, N, d, r, i, t, c)
  PROVE  \A n \in 0..N : f[n].root # Err /\ g[n].root # Err
                           => f[n] = g[n] /\ IsRoot(f[n].root)
<1> DEFINE Agree(n) == /\ f[n].root = Err \/ IsRoot(f[n].root)
                       /\ g[n].root = Err \/ IsRoot(g[n].root)
                       /\ f[n].root # Err /\ g[n].root # Err => f[n] = g[n]
           T == {n \in Nat : n <= N => Agree(n)}
<1>1. 0 \in T
  <2>1. f[0] = Begun(r, i) /\ g[0] = Begun(r, i)
    BY DEF IsReplay
  <2>2. IsRoot(f[0].root) /\ IsRoot(g[0].root)
    BY <2>1 DEF Begun
  <2>. QED BY <2>1, <2>2
<1>2. ASSUME NEW n \in T PROVE n + 1 \in T
  <2>1. n \in Nat /\ (n <= N => Agree(n))
    OBVIOUS
  <2>2. CASE n + 1 <= N
    <3>1. n + 1 \in 0..N /\ n + 1 \in 1..N /\ n + 1 # 0 /\ (n + 1) - 1 = n /\ n <= N
      BY <2>1, <2>2
    <3> DEFINE txn == t[n + 1]
    <3>2. f[n + 1] = ReplayTxn(d, f[n], txn, e[n + 1])
      BY <3>1 DEF IsReplay
    <3>3. g[n + 1] = ReplayTxn(d, g[n], txn, c[n + 1])
      BY <3>1 DEF IsReplay
    <3>4. IsTxn(txn)
      BY <3>1
    <3>5. Agree(n)
      BY <2>1, <3>1
    <3>. HIDE DEF txn
    <3>6. f[n + 1].root # Err =>
            /\ f[n].root # Err /\ IsRoot(RootAfter(txn, f[n].root))
            /\ f[n + 1] = [root |-> RootAfter(txn, f[n].root),
                           inbox_chain |-> NextInbox(txn, f[n].inbox_chain),
                           payouts |-> PayoutsAfter(txn, f[n].root, f[n].payouts)]
      BY <3>2, <3>4, <3>5, ReplayTxnIs
    <3>7. g[n + 1].root # Err =>
            /\ g[n].root # Err /\ IsRoot(RootAfter(txn, g[n].root))
            /\ g[n + 1] = [root |-> RootAfter(txn, g[n].root),
                           inbox_chain |-> NextInbox(txn, g[n].inbox_chain),
                           payouts |-> PayoutsAfter(txn, g[n].root, g[n].payouts)]
      BY <3>3, <3>4, <3>5, ReplayTxnIs
    <3>8. /\ f[n + 1].root # Err => f[n + 1].root = RootAfter(txn, f[n].root)
          /\ g[n + 1].root # Err => g[n + 1].root = RootAfter(txn, g[n].root)
      BY <3>6, <3>7
    <3>9. Agree(n + 1)
      BY <3>5, <3>6, <3>7, <3>8
    <3>. QED BY <2>1, <3>9
  <2>. QED BY <2>1, <2>2
<1>3. T \subseteq Nat
  OBVIOUS
<1>4. T = Nat
  <2>. HIDE DEF T
  <2>. QED BY <1>1, <1>2, <1>3, Induction
<1>. QED BY <1>4

(* The comment on TxnSidecar, "a doctored sidecar produces a rejected block, not
   a redirected payment", for every batch and any two sidecars at all, with any
   witnesses and any signatures: if the guest accepts the batch with both, it
   commits the same root, the same inbox chain and the same payouts.  A sidecar
   is evidence for what the batch does and never a part of it. *)
THEOREM SidecarIsEvidence ==
  ASSUME NEW d, NEW r, IsRoot(r), NEW i, NEW S, NEW t \in Seq(S), NEW e, NEW c,
         \A n \in 1..Len(t) : IsTxn(t[n]),
         verify_batch(d, r, i, t, e).root # Err,
         verify_batch(d, r, i, t, c).root # Err
  PROVE  verify_batch(d, r, i, t, e) = verify_batch(d, r, i, t, c)
<1>1. Len(t) \in Nat /\ Len(e) = Len(t) /\ Len(c) = Len(t)
  BY LenProperties DEF verify_batch
<1>2. PICK f : IsReplay(f, Len(t), d, r, i, t, e) /\ verify_batch(d, r, i, t, e) = f[Len(t)]
  BY <1>1, VerifyIs
<1>3. PICK g : IsReplay(g, Len(t), d, r, i, t, c) /\ verify_batch(d, r, i, t, c) = g[Len(t)]
  BY <1>1, VerifyIs
<1>4. Len(t) \in 0..Len(t)
  BY <1>1
<1>. QED BY <1>1, <1>2, <1>3, <1>4, ReplaysAgree

-----------------------------------------------------------------------------
(* The law of a block, whatever sidecar the replay was given.  Each write has
   a lemma that says what it does to the total and to the keys. *)

Account == [nonce : U64, amount : U64, auth_address : Addresses \cup {NoKey}]
Roots == [Addresses -> Account]

(* Accounts are held by the key their address derives. *)
Pinned(r) == \A a \in Addresses : r[a] = NoAccount \/ r[a].auth_address = a

(* The leaves of a root, as the settlement contract reads them. *)
Leaves(r) ==
  [a \in Addresses |->
     [amount |-> r[a].amount,
      auth_address |-> IF r[a] = NoAccount THEN a ELSE r[a].auth_address]]

(* A transaction with its numbers in u64 and its recipient on L1. *)
WellFormed(txn) ==
  /\ IsTxn(txn)
  /\ txn.amount \in U64 /\ txn.fee \in U64
  /\ txn.kind \in {"WDR", "forced"} => txn.destination \in L1Accounts

Payable(p) == \A i \in 1..Len(p) : p[i].amount >= MIN_WITHDRAWAL

(* The replay of a batch from the root r and the anchor i stands at b. *)
Lawful(r, i, b) ==
  /\ b.root \in Roots
  /\ Pinned(r) => Pinned(b.root)
  /\ b.inbox_chain \in Seq(InboxEntry) /\ ChainExtends(i, b.inbox_chain)
  /\ b.payouts \in Seq(Payout) /\ Payable(b.payouts)
  /\ Funds(b.root) + Queued(b.payouts) = Funds(r) + DepositsFolded(i, b.inbox_chain)

(* The accounts under a root. *)
LEMMA AccountFields ==
  ASSUME NEW r \in Roots
  PROVE  /\ IsRoot(r)
         /\ \A a \in Addresses :
              /\ r[a] \in Account /\ r[a].nonce \in U64 /\ r[a].amount \in U64
              /\ r[a].auth_address \in Addresses \cup {NoKey}
BY DEF Roots, Account, IsRoot

(* A write of one slot. *)
LEMMA RootWrite ==
  ASSUME NEW r \in Roots, NEW a \in Addresses, NEW x \in Account
  PROVE  LET s == [r EXCEPT ![a] = x]
         IN /\ s \in Roots /\ Funds(r) \in Nat /\ Funds(s) \in Nat
            /\ Funds(s) + r[a].amount = Funds(r) + x.amount
            /\ Pinned(r) /\ x.auth_address = a => Pinned(s)
<1> DEFINE s == [r EXCEPT ![a] = x]
<1>1. s \in Roots /\ s[a] = x /\ \A b \in Addresses \ {a} : s[b] = r[b]
  BY DEF Roots
<1>. HIDE DEF s
<1>2. \A b \in Addresses : r[b].amount \in U64 /\ s[b].amount \in U64
  BY <1>1, AccountFields
<1>3. Funds(r) \in Nat /\ Funds(s) \in Nat /\ Funds(s) + r[a].amount = Funds(r) + s[a].amount
  BY <1>1, <1>2, FundsMove
<1>4. Pinned(r) /\ x.auth_address = a => Pinned(s)
  BY <1>1 DEF Pinned
<1>. QED BY <1>1, <1>3, <1>4 DEF s

(* A debit that is not refused takes amount and fee from the sender. *)
LEMMA DebitLaw ==
  ASSUME NEW d, NEW txn, WellFormed(txn), txn.sender \in Addresses, NEW w, NEW sig,
         NEW r \in Roots, debit(d, txn, w, sig, r) # Err
  PROVE  LET s == debit(d, txn, w, sig, r)
         IN /\ s \in Roots /\ Funds(r) \in Nat /\ Funds(s) \in Nat
            /\ Funds(s) + txn.amount + txn.fee = Funds(r)
            /\ Pinned(r) => Pinned(s)
<1> DEFINE s == debit(d, txn, w, sig, r)
           old == r[txn.sender]
           new == Spent(old, txn)
<1>1. /\ expect_pre_state(txn.sender, w, r)
      /\ w.old_account # NoAccount /\ w.old_account.nonce < MAX_U64
      /\ txn.amount <= w.old_account.amount
      /\ txn.fee <= w.old_account.amount - txn.amount
  BY DEF debit
<1>2. IsRoot(r) /\ old.nonce \in U64 /\ old.amount \in U64 /\ old.auth_address \in Addresses \cup {NoKey}
  BY AccountFields
<1>3. w.old_account = old /\ s = [r EXCEPT ![txn.sender] = new]
  <2>1. w.old_account = old
    BY <1>1, <1>2, WitnessPinned
  <2>2. s = Debited(txn, r)
    BY <1>2, DebitIs
  <2>. QED BY <2>1, <2>2 DEF Debited
<1>4. txn.amount \in U64 /\ txn.fee \in U64
  BY DEF WellFormed
<1>. HIDE DEF s, old
<1>5. /\ old.nonce + 1 \in U64 /\ old.amount - txn.amount - txn.fee \in U64
      /\ old.amount - txn.amount - txn.fee \in Nat /\ old.amount \in Nat
      /\ txn.amount \in Nat /\ txn.fee \in Nat
  BY <1>1, <1>2, <1>3, <1>4, Numbers
<1>6. /\ new \in Account /\ new.amount = old.amount - txn.amount - txn.fee
      /\ new.auth_address = old.auth_address
  BY <1>2, <1>5 DEF Account, Spent
<1>. HIDE DEF new
<1>7. /\ s \in Roots /\ Funds(r) \in Nat /\ Funds(s) \in Nat
      /\ Funds(s) + old.amount = Funds(r) + new.amount
      /\ Pinned(r) /\ new.auth_address = txn.sender => Pinned(s)
  BY <1>3, <1>6, RootWrite DEF old
<1>8. Pinned(r) => old.auth_address = txn.sender
  BY <1>1, <1>3 DEF Pinned, old
<1>9. Funds(s) + txn.amount + txn.fee = Funds(r)
  BY <1>5, <1>6, <1>7
<1>. QED BY <1>6, <1>7, <1>8, <1>9 DEF s

(* A credit that is not refused adds the amount. *)
LEMMA CreditLaw ==
  ASSUME NEW a \in Addresses, NEW w, NEW amount \in U64, NEW r \in Roots,
         credit(a, w, amount, r) # Err
  PROVE  LET s == credit(a, w, amount, r)
         IN /\ s \in Roots /\ Funds(r) \in Nat /\ Funds(s) \in Nat
            /\ Funds(s) = Funds(r) + amount
            /\ Pinned(r) => Pinned(s)
<1> DEFINE s == credit(a, w, amount, r)
           old == IF r[a] = NoAccount THEN empty(a) ELSE r[a]
           new == Richer(old, amount)
<1>1. IsRoot(r) /\ r[a].nonce \in U64 /\ r[a].amount \in U64 /\ r[a].auth_address \in Addresses \cup {NoKey}
  BY AccountFields
<1>2. expect_pre_state(a, w, r)
  BY DEF credit
<1>3. w.old_account = r[a]
  BY <1>1, <1>2, WitnessPinned
<1>4. s = [r EXCEPT ![a] = new]
  <2>1. s = CreditedTo(a, amount, r)
    BY <1>1, CreditIs
  <2>. QED BY <2>1 DEF CreditedTo
<1>5. old.amount + amount <= MAX_U64
  BY <1>3 DEF credit
<1>6. /\ old.nonce \in U64 /\ old.amount = r[a].amount
      /\ old.auth_address \in Addresses \cup {NoKey}
      /\ Pinned(r) => old.auth_address = a
  BY <1>1, Numbers DEF empty, NoAccount, Pinned
<1>. HIDE DEF s, old
<1>7. old.amount + amount \in U64 /\ r[a].amount \in Nat /\ amount \in Nat
  BY <1>1, <1>5, <1>6, Numbers
<1>8. /\ new \in Account /\ new.amount = r[a].amount + amount
      /\ new.auth_address = old.auth_address
  BY <1>6, <1>7 DEF Account, Richer
<1>. HIDE DEF new
<1>9. /\ s \in Roots /\ Funds(r) \in Nat /\ Funds(s) \in Nat
      /\ Funds(s) + r[a].amount = Funds(r) + new.amount
      /\ Pinned(r) /\ new.auth_address = a => Pinned(s)
  BY <1>4, <1>8, RootWrite
<1>10. Funds(s) = Funds(r) + amount
  BY <1>7, <1>8, <1>9
<1>. QED BY <1>6, <1>8, <1>9, <1>10 DEF s

(* The fee reaches the sink, if there is one. *)
LEMMA FeeLaw ==
  ASSUME NEW txn, WellFormed(txn), NEW entry, NEW r, r = Err \/ r \in Roots,
         payFee(txn, entry, r) # Err
  PROVE  LET s == payFee(txn, entry, r)
         IN /\ r # Err /\ s \in Roots /\ Funds(r) \in Nat /\ Funds(s) \in Nat
            /\ Funds(s) = Funds(r) + txn.fee
            /\ Pinned(r) => Pinned(s)
<1>1. FEE_SINK \in Addresses /\ txn.fee \in U64
  BY KeylessAssumption DEF WellFormed
<1>2. CASE txn.fee = 0
  <2>1. payFee(txn, entry, r) = r /\ r \in Roots
    BY <1>2 DEF payFee
  <2>2. Funds(r) \in Nat
    <3>1. r[FEE_SINK] \in Account
      BY <1>1, <2>1, AccountFields
    <3>. QED BY <1>1, <2>1, <3>1, RootWrite
  <2>. QED BY <1>2, <2>1, <2>2
<1>3. CASE txn.fee # 0
  <2>1. payFee(txn, entry, r) = credit(FEE_SINK, entry.witnesses[Len(entry.witnesses)], txn.fee, r)
    BY <1>3 DEF payFee
  <2>2. r # Err
    BY <2>1 DEF credit
  <2>. QED BY <1>1, <2>1, <2>2, CreditLaw
<1>. QED BY <1>2, <1>3

(* One payout more in the queue. *)
LEMMA PayoutLaw ==
  ASSUME NEW p \in Seq(Payout), Payable(p), NEW recipient \in L1Accounts,
         NEW amount \in U64, amount >= MIN_WITHDRAWAL
  PROVE  LET q == Append(p, [recipient |-> recipient, amount |-> amount])
         IN /\ q \in Seq(Payout) /\ Payable(q)
            /\ Queued(p) \in Nat /\ Queued(q) = Queued(p) + amount
<1> DEFINE x == [recipient |-> recipient, amount |-> amount]
           q == Append(p, x)
<1>1. x \in Payout /\ x.amount = amount
  BY DEF Payout
<1>. HIDE DEF x
<1>2. q \in Seq(Payout) /\ Queued(p) \in Nat /\ Queued(q) = Queued(p) + amount
  BY <1>1, QueueGrows
<1>3. /\ Len(p) \in Nat /\ Len(q) = Len(p) + 1 /\ q[Len(p) + 1] = x
      /\ \A j \in 1..Len(p) : q[j] = p[j]
  BY <1>1, AppendProperties, LenProperties
<1>4. Payable(q)
  <2>. HIDE DEF q
  <2> SUFFICES ASSUME NEW j \in 1..Len(q) PROVE q[j].amount >= MIN_WITHDRAWAL
    BY DEF Payable
  <2>1. j \in 1..Len(p) \/ j = Len(p) + 1
    BY <1>3
  <2>. QED BY <1>1, <1>3, <2>1 DEF Payable
<1>. QED BY <1>2, <1>4 DEF x

(* What a paid request does to a root. *)
LEMMA ForceLaw ==
  ASSUME NEW txn, txn.sender \in Addresses, NEW w, NEW r \in Roots,
         force(txn, w, r) # Err, r[txn.sender].amount >= MIN_WITHDRAWAL
  PROVE  LET s == force(txn, w, r)
         IN /\ s \in Roots /\ Funds(r) \in Nat /\ Funds(s) \in Nat
            /\ Funds(s) + r[txn.sender].amount = Funds(r)
            /\ Pinned(r) => Pinned(s)
<1> DEFINE s == force(txn, w, r)
           old == r[txn.sender]
           new == emptied(old)
<1>1. IsRoot(r) /\ old.nonce \in U64 /\ old.amount \in U64 /\ old.auth_address \in Addresses \cup {NoKey}
  BY AccountFields
<1>2. expect_pre_state(txn.sender, w, r)
  BY DEF force
<1>3. w.old_account = old /\ root_with(txn.sender, new, w.proof) = [r EXCEPT ![txn.sender] = new]
  <2>1. /\ w.old_account = old
        /\ \A x : root_with(txn.sender, x, w.proof) = [r EXCEPT ![txn.sender] = x]
    BY <1>1, <1>2, WitnessPinned
  <2>. HIDE DEF new
  <2>. QED BY <2>1
<1>4. ~(old.amount < MIN_WITHDRAWAL) /\ old.amount # 0 /\ old.amount \in Nat
  BY <1>1, Numbers
<1>5. old.nonce # MAX_U64 /\ s = [r EXCEPT ![txn.sender] = new]
  BY <1>2, <1>3, <1>4 DEF force
<1>6. Pinned(r) => old.auth_address = txn.sender
  BY <1>4 DEF Pinned, NoAccount
<1>. HIDE DEF s, old
<1>7. old.nonce + 1 \in U64 /\ 0 \in U64
  BY <1>1, <1>5, Numbers
<1>8. new \in Account /\ new.amount = 0 /\ new.auth_address = old.auth_address
  BY <1>1, <1>7 DEF emptied, Account
<1>. HIDE DEF new
<1>9. /\ s \in Roots /\ Funds(r) \in Nat /\ Funds(s) \in Nat
      /\ Funds(s) + old.amount = Funds(r) + new.amount
      /\ Pinned(r) /\ new.auth_address = txn.sender => Pinned(s)
  BY <1>5, <1>8, RootWrite DEF old
<1>10. Funds(s) + old.amount = Funds(r)
  BY <1>4, <1>8, <1>9
<1>. QED BY <1>6, <1>8, <1>9, <1>10 DEF s, old

(* The numbers a lawful standing adds up. *)
LEMMA LawfulNumbers ==
  ASSUME NEW r \in Roots, NEW i \in Seq(InboxEntry), NEW b, Lawful(r, i, b)
  PROVE  /\ Funds(r) \in Nat /\ Funds(b.root) \in Nat
         /\ Queued(b.payouts) \in Nat /\ DepositsFolded(i, b.inbox_chain) \in Nat
<1>1. FEE_SINK \in Addresses
  BY KeylessAssumption
<1>2. \A s \in Roots : Funds(s) \in Nat
  <2> SUFFICES ASSUME NEW s \in Roots PROVE Funds(s) \in Nat
    OBVIOUS
  <2>1. s[FEE_SINK] \in Account
    BY <1>1, AccountFields
  <2>. QED BY <1>1, <2>1, RootWrite
<1>3. PICK a : a \in L1Accounts \cup {NoRecipient}
  OBVIOUS
<1> DEFINE x == [kind |-> "w", address |-> FEE_SINK, recipient |-> a, amount |-> 0]
<1>4. x \in InboxEntry
  BY <1>1, <1>3, Numbers DEF InboxEntry
<1>. HIDE DEF x
<1>5. DepositsFolded(i, b.inbox_chain) \in Nat
  BY <1>4, FoldGrows DEF Lawful
<1>6. Queued(b.payouts) \in Nat
  BY QueuedType DEF Lawful
<1>. QED BY <1>2, <1>5, <1>6 DEF Lawful

(* A request is folded, worth nothing on the way in. *)
LEMMA RequestFolded ==
  ASSUME NEW r \in Roots, NEW i \in Seq(InboxEntry), NEW b, Lawful(r, i, b),
         NEW address \in Addresses, NEW recipient \in L1Accounts
  PROVE  LET c == accumulate_request(b.inbox_chain, address, recipient)
         IN /\ c \in Seq(InboxEntry) /\ ChainExtends(i, c)
            /\ DepositsFolded(i, c) = DepositsFolded(i, b.inbox_chain)
<1> DEFINE x == [kind |-> "w", address |-> address, recipient |-> recipient, amount |-> 0]
           c == accumulate_request(b.inbox_chain, address, recipient)
<1>1. c = Append(b.inbox_chain, x)
  BY DEF accumulate_request
<1>2. x \in InboxEntry /\ x.amount = 0
  BY Numbers DEF InboxEntry
<1>. HIDE DEF x
<1>. HIDE DEF c
<1>3. /\ Append(b.inbox_chain, x) \in Seq(InboxEntry) /\ ChainExtends(i, Append(b.inbox_chain, x))
      /\ DepositsFolded(i, b.inbox_chain) \in Nat
      /\ DepositsFolded(i, Append(b.inbox_chain, x)) = DepositsFolded(i, b.inbox_chain) + x.amount
  BY <1>2, FoldGrows DEF Lawful
<1>. QED BY <1>1, <1>2, <1>3 DEF c

(* A turn of the loop that is not refused keeps to the law. *)
LEMMA TurnLaw ==
  ASSUME NEW d, NEW txn, WellFormed(txn), NEW entry, NEW r \in Roots,
         NEW i \in Seq(InboxEntry), NEW b, Lawful(r, i, b),
         ReplayTxn(d, b, txn, entry).root # Err
  PROVE  Lawful(r, i, ReplayTxn(d, b, txn, entry))
<1> DEFINE w == entry.witnesses
           s == NextRoot(d, txn, entry, b.root)
           c == NextInbox(txn, b.inbox_chain)
           p == NextPayouts(txn, entry, b.payouts)
           D == debit(d, txn, w[1], entry.sig, b.root)
           F == Funds(b.root)
           Q == Queued(b.payouts)
           G == DepositsFolded(i, b.inbox_chain)
<1>1. /\ b.root \in Roots /\ (Pinned(r) => Pinned(b.root))
      /\ b.inbox_chain \in Seq(InboxEntry) /\ ChainExtends(i, b.inbox_chain)
      /\ b.payouts \in Seq(Payout) /\ Payable(b.payouts) /\ F + Q = Funds(r) + G
  BY DEF Lawful
<1>2. Funds(r) \in Nat /\ F \in Nat /\ Q \in Nat /\ G \in Nat
  BY LawfulNumbers
<1>3. ReplayTxn(d, b, txn, entry) = [root |-> s, inbox_chain |-> c, payouts |-> p] /\ s # Err
  BY DEF ReplayTxn
<1>4. IsRoot(b.root) /\ b.root # Err /\ IsTxn(txn) /\ txn.amount \in U64 /\ txn.fee \in U64
  BY <1>1, AccountFields, RootIsNoErr DEF WellFormed
<1>5. txn.amount \in Nat /\ txn.fee \in Nat
  BY <1>4, Numbers
<1>6. SUFFICES /\ s \in Roots /\ (Pinned(b.root) => Pinned(s))
               /\ c \in Seq(InboxEntry) /\ ChainExtends(i, c)
               /\ p \in Seq(Payout) /\ Payable(p)
               /\ Funds(s) + Queued(p) = Funds(r) + DepositsFolded(i, c)
  <2>. HIDE DEF s, c, p
  <2>. QED BY <1>1, <1>3 DEF Lawful
<1>7. CASE txn.kind = "PAY"
  <2> DEFINE C == credit(txn.destination, w[2], txn.amount, D)
  <2>1. s = payFee(txn, entry, C) /\ c = b.inbox_chain /\ p = b.payouts
    BY <1>7 DEF NextRoot, NextInbox, NextPayouts
  <2>2. txn.sender \in Addresses /\ txn.destination \in Addresses
    BY <1>4, <1>7 DEF IsTxn
  <2>3. D # Err => /\ D \in Roots /\ Funds(D) \in Nat
                   /\ Funds(D) + txn.amount + txn.fee = F /\ (Pinned(b.root) => Pinned(D))
    BY <1>1, <2>2, DebitLaw
  <2>4. C # Err => D # Err
    BY DEF credit
  <2>. HIDE DEF D
  <2>5. C # Err => /\ C \in Roots /\ Funds(C) \in Nat
                   /\ Funds(C) = Funds(D) + txn.amount /\ (Pinned(D) => Pinned(C))
    BY <1>4, <2>2, <2>3, <2>4, CreditLaw
  <2>. HIDE DEF C, s, c, p
  <2>6. /\ C # Err /\ s \in Roots /\ Funds(s) \in Nat
        /\ Funds(s) = Funds(C) + txn.fee /\ (Pinned(C) => Pinned(s))
    BY <1>3, <2>1, <2>5, FeeLaw
  <2>7. Funds(s) = F
    BY <1>2, <1>5, <2>3, <2>4, <2>5, <2>6
  <2>. QED BY <1>1, <2>1, <2>3, <2>4, <2>5, <2>6, <2>7
<1>8. CASE txn.kind = "WDR"
  <2>1. /\ s = payFee(txn, entry, D) /\ c = b.inbox_chain /\ txn.amount >= MIN_WITHDRAWAL
        /\ p = Append(b.payouts, [recipient |-> txn.destination, amount |-> txn.amount])
    <3>1. ~(txn.amount < MIN_WITHDRAWAL)
      BY <1>3, <1>8 DEF NextRoot
    <3>2. txn.amount >= MIN_WITHDRAWAL
      BY <1>5, <3>1, Numbers
    <3>. QED BY <1>8, <3>1, <3>2 DEF NextRoot, NextInbox, NextPayouts
  <2>2. txn.sender \in Addresses /\ txn.destination \in L1Accounts
    BY <1>4, <1>8 DEF IsTxn, WellFormed
  <2>3. D # Err => /\ D \in Roots /\ Funds(D) \in Nat
                   /\ Funds(D) + txn.amount + txn.fee = F /\ (Pinned(b.root) => Pinned(D))
    BY <1>1, <2>2, DebitLaw
  <2>. HIDE DEF D, s, c, p
  <2>4. /\ D # Err /\ s \in Roots /\ Funds(s) \in Nat
        /\ Funds(s) = Funds(D) + txn.fee /\ (Pinned(D) => Pinned(s))
    BY <1>3, <2>1, <2>3, FeeLaw
  <2>5. p \in Seq(Payout) /\ Payable(p) /\ Queued(p) = Q + txn.amount
    BY <1>1, <1>4, <2>1, <2>2, PayoutLaw
  <2>6. Funds(s) + Queued(p) = F + Q
    <3> DEFINE g == Funds(D)
               h == Funds(s)
               q == Queued(p)
               v == txn.amount
               u == txn.fee
    <3>1. /\ F \in Nat /\ g \in Nat /\ Q \in Nat /\ v \in Nat /\ u \in Nat
          /\ g + v + u = F /\ h = g + u /\ q = Q + v
      BY <1>2, <1>5, <2>3, <2>4, <2>5
    <3>. HIDE DEF F, Q, g, h, q, v, u
    <3>2. h + q = F + Q
      BY <3>1
    <3>. QED BY <3>2 DEF h, q
  <2>. QED BY <1>1, <2>1, <2>3, <2>4, <2>5, <2>6
<1>9. CASE txn.kind = "deposit"
  <2> DEFINE x == [kind |-> "d", address |-> txn.destination, recipient |-> NoRecipient,
                   amount |-> txn.amount]
  <2>1. /\ s = credit(txn.destination, w[1], txn.amount, b.root) /\ p = b.payouts
        /\ c = Append(b.inbox_chain, x)
    BY <1>9 DEF NextRoot, NextInbox, NextPayouts, accumulate_deposit
  <2>2. txn.destination \in Addresses
    BY <1>4, <1>9 DEF IsTxn
  <2>3. x \in InboxEntry /\ x.amount = txn.amount
    BY <1>4, <2>2 DEF InboxEntry
  <2>. HIDE DEF x, s, c, p
  <2>4. s \in Roots /\ Funds(s) \in Nat /\ Funds(s) = F + txn.amount /\ (Pinned(b.root) => Pinned(s))
    BY <1>1, <1>3, <1>4, <2>1, <2>2, CreditLaw
  <2>5. /\ c \in Seq(InboxEntry) /\ ChainExtends(i, c)
        /\ DepositsFolded(i, c) = G + txn.amount
    BY <1>1, <2>1, <2>3, FoldGrows
  <2>6. Funds(s) + Q = Funds(r) + DepositsFolded(i, c)
    <3> DEFINE g == Funds(r)
               h == Funds(s)
               k == DepositsFolded(i, c)
               v == txn.amount
    <3>1. /\ F \in Nat /\ g \in Nat /\ Q \in Nat /\ G \in Nat /\ v \in Nat
          /\ F + Q = g + G /\ h = F + v /\ k = G + v
      BY <1>1, <1>2, <1>5, <2>4, <2>5
    <3>. HIDE DEF F, Q, G, g, h, k, v
    <3>2. h + Q = g + k
      BY <3>1, Balance
    <3>. QED BY <3>2 DEF g, h, k
  <2>. QED BY <1>1, <2>1, <2>4, <2>5, <2>6
<1>10. CASE txn.kind = "forced"
  <2> DEFINE old == b.root[txn.sender]
  <2>1. /\ s = force(txn, w[1], b.root)
        /\ c = accumulate_request(b.inbox_chain, txn.sender, txn.destination)
    BY <1>10 DEF NextRoot, NextInbox
  <2>2. txn.sender \in Addresses /\ txn.destination \in L1Accounts
    BY <1>4, <1>10 DEF IsTxn, WellFormed
  <2>3. /\ c \in Seq(InboxEntry) /\ ChainExtends(i, c)
        /\ DepositsFolded(i, c) = G
    BY <2>1, <2>2, RequestFolded
  <2>4. w[1].old_account = old /\ old.amount \in U64 /\ old.amount \in Nat
    <3>1. w[1].old_account = old
      BY <1>3, <1>4, <1>10, NextRootIs
    <3>2. old.amount \in U64
      BY <1>1, <2>2, AccountFields
    <3>. QED BY <3>1, <3>2, Numbers
  <2>5. CASE old.amount < MIN_WITHDRAWAL
    <3>1. s = b.root
      BY <1>3, <2>1, <2>4, <2>5 DEF force
    <3>2. p = b.payouts
      BY <1>10, <2>4, <2>5, Numbers DEF NextPayouts
    <3>. HIDE DEF s, c, p
    <3>. QED BY <1>1, <2>3, <3>1, <3>2
  <2>6. CASE old.amount >= MIN_WITHDRAWAL
    <3>1. p = Append(b.payouts, [recipient |-> txn.destination, amount |-> old.amount])
      BY <1>10, <2>4, <2>6 DEF NextPayouts
    <3>. HIDE DEF s, c, p
    <3>2. s \in Roots /\ Funds(s) \in Nat /\ Funds(s) + old.amount = F /\ (Pinned(b.root) => Pinned(s))
      BY <1>1, <1>3, <2>1, <2>2, <2>6, ForceLaw
    <3>3. p \in Seq(Payout) /\ Payable(p) /\ Queued(p) = Q + old.amount
      BY <1>1, <2>2, <2>4, <2>6, <3>1, PayoutLaw
    <3>4. Funds(s) + Queued(p) = F + Q
      <4>. HIDE DEF old
      <4>. QED BY <1>2, <2>4, <3>2, <3>3
    <3>. QED BY <1>1, <2>3, <3>2, <3>3, <3>4
  <2>. QED BY <2>4, <2>5, <2>6, Numbers
<1>. QED BY <1>4, <1>7, <1>8, <1>9, <1>10 DEF IsTxn

(* So does the whole loop. *)
LEMMA LoopLaw ==
  ASSUME NEW d, NEW r \in Roots, NEW i \in Seq(InboxEntry), NEW t, NEW e, NEW N \in Nat,
         \A n \in 1..N : WellFormed(t[n]), NEW f, IsReplay(f, N, d, r, i, t, e)
  PROVE  \A n \in 0..N : f[n].root = Err \/ Lawful(r, i, f[n])
<1> DEFINE T == {n \in Nat : n <= N => f[n].root = Err \/ Lawful(r, i, f[n])}
<1>1. 0 \in T
  <2>1. f[0] = Begun(r, i)
    BY DEF IsReplay
  <2>2. /\ ChainExtends(i, i) /\ DepositsFolded(i, i) = 0
        /\ << >> \in Seq(Payout) /\ Len(<< >>) = 0 /\ Queued(<< >>) = 0
    BY NothingYet
  <2>3. Payable(<< >>)
    BY <2>2 DEF Payable
  <2>4. Lawful(r, i, Begun(r, i))
    BY <2>2, <2>3 DEF Lawful, Begun
  <2>. QED BY <2>1, <2>4
<1>2. ASSUME NEW n \in T PROVE n + 1 \in T
  <2>1. n \in Nat /\ (n <= N => f[n].root = Err \/ Lawful(r, i, f[n]))
    OBVIOUS
  <2>2. CASE n + 1 <= N
    <3>1. n + 1 \in 0..N /\ n + 1 \in 1..N /\ n + 1 # 0 /\ (n + 1) - 1 = n /\ n <= N
      BY <2>1, <2>2
    <3>2. f[n + 1] = ReplayTxn(d, f[n], t[n + 1], e[n + 1])
      BY <3>1 DEF IsReplay
    <3>3. f[n].root = Err => f[n + 1].root = Err
      BY <3>2 DEF ReplayTxn
    <3>4. Lawful(r, i, f[n]) => f[n + 1].root = Err \/ Lawful(r, i, f[n + 1])
      BY <3>1, <3>2, TurnLaw
    <3>. QED BY <2>1, <3>1, <3>3, <3>4
  <2>. QED BY <2>1, <2>2
<1>3. T \subseteq Nat
  OBVIOUS
<1>4. T = Nat
  <2>. HIDE DEF T
  <2>. QED BY <1>1, <1>2, <1>3, Induction
<1>. QED BY <1>4

(* The law of a block, which is all the settlement contract's solvency asks of
   a proof it accepts, for every batch and every sidecar verify_batch accepts,
   from every root and every inbox anchor: value enters only with the deposits
   folded and leaves only with the payouts committed, every payout is payable,
   and no account changes hands.  No witness and no signature is assumed to be
   right; whatever is wrong with them, the guest either refuses the batch or
   lands where the law allows. *)
THEOREM AcceptedBatchesObeyTheLaw ==
  ASSUME NEW d, NEW r \in Roots, NEW i \in Seq(InboxEntry), NEW S, NEW t \in Seq(S),
         NEW e, \A n \in 1..Len(t) : WellFormed(t[n]),
         verify_batch(d, r, i, t, e).root # Err
  PROVE  LET end == verify_batch(d, r, i, t, e)
         IN BlockLaw(Leaves(r), Leaves(end.root), i, end.inbox_chain,
                     withdrawal_chain(end.payouts))
<1> DEFINE end == verify_batch(d, r, i, t, e)
<1>1. Len(t) \in Nat /\ Len(e) = Len(t)
  BY LenProperties DEF verify_batch
<1>2. PICK f : IsReplay(f, Len(t), d, r, i, t, e) /\ end = f[Len(t)]
  BY <1>1, VerifyIs
<1>3. Lawful(r, i, end)
  <2>1. Len(t) \in 0..Len(t)
    BY <1>1
  <2>2. \A n \in 0..Len(t) : f[n].root = Err \/ Lawful(r, i, f[n])
    BY <1>1, <1>2, LoopLaw
  <2>. QED BY <1>2, <2>1, <2>2
<1>. HIDE DEF end
<1>4. /\ Sum(Balances(Leaves(r))) = Funds(r)
      /\ Sum(Balances(Leaves(end.root))) = Funds(end.root)
  BY DEF Balances, Leaves, Funds
<1>5. /\ AuthPinned(Leaves(r)) => Pinned(r)
      /\ Pinned(end.root) => AuthPinned(Leaves(end.root))
  BY DEF AuthPinned, Pinned, Leaves
<1>6. /\ PayoutTotal(withdrawal_chain(end.payouts)) = Queued(end.payouts)
      /\ \A k \in 1..Len(withdrawal_chain(end.payouts)) :
           withdrawal_chain(end.payouts)[k].amount >= MIN_WITHDRAWAL
  BY <1>3, QueueReversed DEF Lawful, Payable
<1>7. BlockLaw(Leaves(r), Leaves(end.root), i, end.inbox_chain, withdrawal_chain(end.payouts))
  BY <1>3, <1>4, <1>5, <1>6 DEF BlockLaw, Lawful
<1>. QED BY <1>7 DEF end

-----------------------------------------------------------------------------
(* What a signature is good for. *)

IsSpend(txn) == txn.kind \in {"PAY", "WDR"}

(* Writes and nonces: a credit leaves them all, a debit moves the sender's. *)
LEMMA CreditNonces ==
  ASSUME NEW a \in Addresses, NEW amount, NEW r, IsRoot(r)
  PROVE  \A x \in Addresses : CreditedTo(a, amount, r)[x].nonce = r[x].nonce
<1> DEFINE old == IF r[a] = NoAccount THEN empty(a) ELSE r[a]
           new == Richer(old, amount)
<1>1. new.nonce = r[a].nonce
  BY DEF Richer, empty, NoAccount
<1>2. CreditedTo(a, amount, r) = [r EXCEPT ![a] = new]
  BY DEF CreditedTo
<1>. HIDE DEF new
<1>. QED BY <1>1, <1>2 DEF IsRoot

LEMMA CreditedIsRoot ==
  ASSUME NEW a \in Addresses, NEW amount, NEW r, IsRoot(r)
  PROVE  IsRoot(CreditedTo(a, amount, r))
<1> DEFINE new == Richer(IF r[a] = NoAccount THEN empty(a) ELSE r[a], amount)
<1>1. CreditedTo(a, amount, r) = [r EXCEPT ![a] = new]
  BY DEF CreditedTo
<1>. HIDE DEF new
<1>2. IsRoot([r EXCEPT ![a] = new])
  BY WrittenIsRoot
<1>. QED BY <1>1, <1>2

LEMMA FeeNonces ==
  ASSUME NEW txn, NEW r, IsRoot(r)
  PROVE  \A x \in Addresses : FeePaid(txn, r)[x].nonce = r[x].nonce
BY CreditNonces, KeylessAssumption DEF FeePaid

LEMMA DebitNonces ==
  ASSUME NEW txn, txn.sender \in Addresses, NEW r, IsRoot(r)
  PROVE  /\ Debited(txn, r)[txn.sender].nonce = r[txn.sender].nonce + 1
         /\ \A x \in Addresses \ {txn.sender} : Debited(txn, r)[x] = r[x]
         /\ IsRoot(Debited(txn, r))
<1> DEFINE new == Spent(r[txn.sender], txn)
<1>1. new.nonce = r[txn.sender].nonce + 1 /\ Debited(txn, r) = [r EXCEPT ![txn.sender] = new]
  BY DEF Spent, Debited
<1>. HIDE DEF new
<1>2. IsRoot([r EXCEPT ![txn.sender] = new])
  BY WrittenIsRoot
<1>. QED BY <1>1, <1>2 DEF IsRoot

(* No transaction takes a nonce back, and a spend moves its sender's on. *)
LEMMA NoncesGrow ==
  ASSUME NEW txn, WellFormed(txn), NEW r \in Roots
  PROVE  /\ \A a \in Addresses : RootAfter(txn, r)[a].nonce >= r[a].nonce
         /\ IsSpend(txn) => RootAfter(txn, r)[txn.sender].nonce > r[txn.sender].nonce
<1>1. IsRoot(r) /\ \A a \in Addresses : r[a].nonce \in Nat
  BY AccountFields, Numbers
<1>2. CASE txn.kind = "PAY"
  <2> DEFINE D == Debited(txn, r)
             C == CreditedTo(txn.destination, txn.amount, D)
  <2>1. txn.sender \in Addresses /\ txn.destination \in Addresses
    BY <1>2 DEF WellFormed, IsTxn
  <2>2. /\ IsRoot(D) /\ D[txn.sender].nonce = r[txn.sender].nonce + 1
        /\ \A x \in Addresses \ {txn.sender} : D[x] = r[x]
    BY <1>1, <2>1, DebitNonces
  <2>. HIDE DEF D
  <2>3. \A x \in Addresses : C[x].nonce = D[x].nonce
    BY <2>1, <2>2, CreditNonces
  <2>4. IsRoot(C)
    BY <2>1, <2>2, CreditedIsRoot
  <2>. HIDE DEF C
  <2>5. \A x \in Addresses : FeePaid(txn, C)[x].nonce = C[x].nonce
    BY <2>4, FeeNonces
  <2>6. RootAfter(txn, r) = FeePaid(txn, C)
    BY <1>2 DEF RootAfter, C, D
  <2>7. /\ \A x \in Addresses \ {txn.sender} : RootAfter(txn, r)[x].nonce = r[x].nonce
        /\ RootAfter(txn, r)[txn.sender].nonce = r[txn.sender].nonce + 1
    BY <2>1, <2>2, <2>3, <2>5, <2>6
  <2>. QED BY <1>1, <2>1, <2>7
<1>3. CASE txn.kind = "WDR"
  <2> DEFINE D == Debited(txn, r)
  <2>1. txn.sender \in Addresses
    BY <1>3 DEF WellFormed, IsTxn
  <2>2. /\ IsRoot(D) /\ D[txn.sender].nonce = r[txn.sender].nonce + 1
        /\ \A x \in Addresses \ {txn.sender} : D[x] = r[x]
    BY <1>1, <2>1, DebitNonces
  <2>. HIDE DEF D
  <2>3. \A x \in Addresses : FeePaid(txn, D)[x].nonce = D[x].nonce
    BY <2>2, FeeNonces
  <2>4. RootAfter(txn, r) = FeePaid(txn, D)
    BY <1>3 DEF RootAfter, D
  <2>5. /\ \A x \in Addresses \ {txn.sender} : RootAfter(txn, r)[x].nonce = r[x].nonce
        /\ RootAfter(txn, r)[txn.sender].nonce = r[txn.sender].nonce + 1
    BY <2>1, <2>2, <2>3, <2>4
  <2>. QED BY <1>1, <2>1, <2>5
<1>4. CASE txn.kind = "deposit"
  <2>1. txn.destination \in Addresses
    BY <1>4 DEF WellFormed, IsTxn
  <2>2. RootAfter(txn, r) = CreditedTo(txn.destination, txn.amount, r) /\ ~IsSpend(txn)
    BY <1>4 DEF RootAfter, IsSpend
  <2>3. \A x \in Addresses : RootAfter(txn, r)[x].nonce = r[x].nonce
    BY <1>1, <2>1, <2>2, CreditNonces
  <2>. QED BY <1>1, <2>2, <2>3
<1>5. CASE txn.kind = "forced"
  <2> DEFINE new == emptied(r[txn.sender])
             s == [r EXCEPT ![txn.sender] = new]
  <2>1. txn.sender \in Addresses /\ ~IsSpend(txn)
    BY <1>5 DEF WellFormed, IsTxn, IsSpend
  <2>2. RootAfter(txn, r) = r \/ RootAfter(txn, r) = s
    BY <1>5 DEF RootAfter
  <2>3. new.nonce = r[txn.sender].nonce + 1
    BY DEF emptied
  <2>. HIDE DEF new
  <2>4. \A x \in Addresses : s[x].nonce >= r[x].nonce /\ r[x].nonce >= r[x].nonce
    BY <1>1, <2>1, <2>3 DEF IsRoot
  <2>. HIDE DEF s
  <2>. QED BY <2>1, <2>2, <2>4
<1>. QED BY <1>2, <1>3, <1>4, <1>5 DEF WellFormed, IsTxn

(* A spend that is not refused carries a signature by the key of the account it
   debits, over itself and the account's next nonce. *)
LEMMA SpendIsSigned ==
  ASSUME NEW d, NEW txn, WellFormed(txn), IsSpend(txn), NEW entry, NEW r \in Roots,
         Pinned(r), NextRoot(d, txn, entry, r) # Err
  PROVE  /\ entry.sig.key = txn.sender
         /\ crypto_verify(entry.sig, bytes_to_sign(d, txn, r[txn.sender].nonce + 1))
<1> DEFINE w == entry.witnesses[1]
           D == debit(d, txn, w, entry.sig, r)
<1>1. txn.sender \in Addresses
  BY DEF WellFormed, IsTxn, IsSpend
<1>2. D = Err \/ D \in Roots
  BY <1>1, DebitLaw
<1>3. D # Err
  <2>1. CASE txn.kind = "PAY"
    <3> DEFINE C == credit(txn.destination, entry.witnesses[2], txn.amount, D)
    <3>1. NextRoot(d, txn, entry, r) = payFee(txn, entry, C)
      BY <2>1 DEF NextRoot
    <3>2. txn.destination \in Addresses /\ txn.amount \in U64
      BY <2>1 DEF WellFormed, IsTxn
    <3>. HIDE DEF D
    <3>3. C # Err => D # Err
      BY DEF credit
    <3>4. C = Err \/ C \in Roots
      BY <1>2, <3>2, <3>3, CreditLaw
    <3>. HIDE DEF C
    <3>. QED BY <3>1, <3>3, <3>4, FeeLaw
  <2>2. CASE txn.kind = "WDR"
    <3>1. NextRoot(d, txn, entry, r) = payFee(txn, entry, D)
      BY <2>2 DEF NextRoot
    <3>. HIDE DEF D
    <3>. QED BY <1>2, <3>1, FeeLaw
  <2>. QED BY <2>1, <2>2 DEF IsSpend
<1>4. /\ expect_pre_state(txn.sender, w, r) /\ w.old_account # NoAccount
      /\ verify(entry.sig, w.old_account, bytes_to_sign(d, txn, w.old_account.nonce + 1))
  BY <1>3 DEF debit
<1>5. w.old_account = r[txn.sender]
  BY <1>1, <1>4, AccountFields, WitnessPinned
<1>6. r[txn.sender].auth_address = txn.sender
  BY <1>1, <1>4, <1>5 DEF Pinned
<1>. QED BY <1>4, <1>5, <1>6 DEF verify, verify_auth

(* A replay that has not failed at the end has not failed on the way. *)
LEMMA NoErrBefore ==
  ASSUME NEW d, NEW r, NEW i, NEW t, NEW e, NEW N \in Nat, NEW f,
         IsReplay(f, N, d, r, i, t, e), f[N].root # Err
  PROVE  \A n \in 0..N : f[n].root # Err
<1> DEFINE T == {k \in Nat : k <= N => f[N - k].root # Err}
<1>1. 0 \in T
  <2>1. N - 0 = N
    OBVIOUS
  <2>. QED BY <2>1
<1>2. ASSUME NEW k \in T PROVE k + 1 \in T
  <2>1. k \in Nat /\ (k <= N => f[N - k].root # Err)
    OBVIOUS
  <2>2. CASE k + 1 <= N
    <3>1. N - k \in 0..N /\ N - k # 0 /\ (N - k) - 1 = N - (k + 1) /\ k <= N
      BY <2>1, <2>2
    <3>2. f[N - k] = ReplayTxn(d, f[N - (k + 1)], t[N - k], e[N - k])
      BY <3>1 DEF IsReplay
    <3>3. f[N - (k + 1)].root # Err
      BY <2>1, <3>1, <3>2 DEF ReplayTxn
    <3>. QED BY <2>1, <3>3
  <2>. QED BY <2>1, <2>2
<1>3. T \subseteq Nat
  OBVIOUS
<1>4. T = Nat
  <2>. HIDE DEF T
  <2>. QED BY <1>1, <1>2, <1>3, Induction
<1>5. ASSUME NEW n \in 0..N PROVE f[n].root # Err
  <2>1. N - n \in Nat /\ N - n <= N /\ N - (N - n) = n
    OBVIOUS
  <2>. QED BY <1>4, <2>1
<1>. QED BY <1>5

(* Where the replay stands before a transaction it does not refuse. *)
LEMMA BeforeTurn ==
  ASSUME NEW d, NEW r \in Roots, Pinned(r), NEW i \in Seq(InboxEntry), NEW t, NEW e,
         NEW N \in Nat, \A n \in 1..N : WellFormed(t[n]), NEW f,
         IsReplay(f, N, d, r, i, t, e), f[N].root # Err, NEW n \in 1..N
  PROVE  /\ n - 1 \in 0..N
         /\ f[n - 1].root \in Roots /\ Pinned(f[n - 1].root) /\ f[n].root \in Roots
         /\ NextRoot(d, t[n], e[n], f[n - 1].root) # Err
         /\ f[n].root = RootAfter(t[n], f[n - 1].root)
<1>1. n \in 0..N /\ n # 0 /\ n - 1 \in 0..N
  OBVIOUS
<1>2. f[n] = ReplayTxn(d, f[n - 1], t[n], e[n])
  BY <1>1 DEF IsReplay
<1>3. f[n].root # Err /\ f[n - 1].root # Err
  BY <1>1, NoErrBefore
<1>4. \A m \in 0..N : f[m].root = Err \/ Lawful(r, i, f[m])
  BY LoopLaw
<1>5. f[n - 1].root \in Roots /\ Pinned(f[n - 1].root) /\ f[n].root \in Roots
  BY <1>1, <1>3, <1>4 DEF Lawful
<1>6. f[n].root = NextRoot(d, t[n], e[n], f[n - 1].root)
  BY <1>2, <1>3 DEF ReplayTxn
<1>7. IsTxn(t[n]) /\ IsRoot(f[n - 1].root)
  BY <1>5, AccountFields DEF WellFormed
<1>. QED BY <1>1, <1>3, <1>5, <1>6, <1>7, NextRootIs

(* Nonces over a stretch of the batch. *)
LEMMA NoncesGrowOn ==
  ASSUME NEW d, NEW r \in Roots, Pinned(r), NEW i \in Seq(InboxEntry), NEW t, NEW e,
         NEW N \in Nat, \A n \in 1..N : WellFormed(t[n]), NEW f,
         IsReplay(f, N, d, r, i, t, e), f[N].root # Err, NEW a \in Addresses,
         NEW n \in 1..N
  PROVE  \A m \in n..N : f[m].root[a].nonce >= f[n].root[a].nonce
<1>1. \A m \in 1..N : f[m].root \in Roots /\ f[m].root[a].nonce \in Nat
  <2> SUFFICES ASSUME NEW m \in 1..N
               PROVE  f[m].root \in Roots /\ f[m].root[a].nonce \in Nat
    OBVIOUS
  <2>1. f[m].root \in Roots
    BY BeforeTurn
  <2>. QED BY <2>1, AccountFields, Numbers
<1> DEFINE T == {k \in Nat : n + k <= N => f[n + k].root[a].nonce >= f[n].root[a].nonce}
<1>2. 0 \in T
  <2>1. n + 0 = n /\ f[n].root[a].nonce \in Nat
    BY <1>1
  <2>. QED BY <2>1
<1>3. ASSUME NEW k \in T PROVE k + 1 \in T
  <2>1. k \in Nat /\ (n + k <= N => f[n + k].root[a].nonce >= f[n].root[a].nonce)
    OBVIOUS
  <2>2. CASE n + (k + 1) <= N
    <3> DEFINE m == n + (k + 1)
    <3>1. m \in 1..N /\ m - 1 = n + k /\ n + k \in 1..N /\ n + k <= N
      BY <2>1, <2>2
    <3>. HIDE DEF m
    <3>2. f[m - 1].root \in Roots /\ f[m].root = RootAfter(t[m], f[m - 1].root)
      BY <3>1, BeforeTurn
    <3>3. f[m].root[a].nonce >= f[m - 1].root[a].nonce
      BY <3>1, <3>2, NoncesGrow
    <3>4. /\ f[m].root[a].nonce \in Nat /\ f[m - 1].root[a].nonce \in Nat
          /\ f[n].root[a].nonce \in Nat
      BY <1>1, <3>1
    <3>5. f[m].root[a].nonce >= f[n].root[a].nonce
      BY <2>1, <3>1, <3>3, <3>4
    <3>. QED BY <2>1, <3>5 DEF m
  <2>. QED BY <2>1, <2>2
<1>4. T \subseteq Nat
  OBVIOUS
<1>5. T = Nat
  <2>. HIDE DEF T
  <2>. QED BY <1>2, <1>3, <1>4, Induction
<1>6. ASSUME NEW m \in n..N PROVE f[m].root[a].nonce >= f[n].root[a].nonce
  <2>1. m - n \in Nat /\ n + (m - n) = m /\ m <= N
    OBVIOUS
  <2>. QED BY <1>5, <2>1
<1>. QED BY <1>6

(* Fixed-width fields: two messages that are the same say the same nonce. *)
LEMMA MessageSaysNonce ==
  ASSUME NEW d, NEW x, NEW y, NEW n, NEW m, bytes_to_sign(d, x, n) = bytes_to_sign(d, y, m)
  PROVE  n = m
BY DEF bytes_to_sign

(* What the theorem below says, of where the loop stands. *)
LEMMA SignedOnce ==
  ASSUME NEW d, NEW r \in Roots, Pinned(r), NEW i \in Seq(InboxEntry), NEW t, NEW e,
         NEW N \in Nat, \A n \in 1..N : WellFormed(t[n]), NEW f,
         IsReplay(f, N, d, r, i, t, e), f[N].root # Err
  PROVE  /\ \A n \in 1..N :
              IsSpend(t[n]) => /\ e[n].sig.key = t[n].sender
                               /\ \E nonce : crypto_verify(e[n].sig, bytes_to_sign(d, t[n], nonce))
         /\ \A n, m \in 1..N :
              IsSpend(t[n]) /\ IsSpend(t[m]) /\ n # m /\ e[n].sig = e[m].sig
                => SchemeOf[e[n].sig.key] = "man"
<1> DEFINE at(n) == f[n - 1].root[t[n].sender].nonce
<1>1. ASSUME NEW n \in 1..N, IsSpend(t[n])
      PROVE  /\ e[n].sig.key = t[n].sender /\ t[n].sender \in Addresses
             /\ crypto_verify(e[n].sig, bytes_to_sign(d, t[n], at(n) + 1))
             /\ at(n) \in Nat /\ f[n].root[t[n].sender].nonce \in Nat
             /\ f[n].root[t[n].sender].nonce > at(n)
  <2>1. /\ f[n - 1].root \in Roots /\ Pinned(f[n - 1].root) /\ f[n].root \in Roots
        /\ NextRoot(d, t[n], e[n], f[n - 1].root) # Err
        /\ f[n].root = RootAfter(t[n], f[n - 1].root)
    BY BeforeTurn
  <2>2. t[n].sender \in Addresses /\ WellFormed(t[n])
    BY <1>1 DEF WellFormed, IsTxn, IsSpend
  <2>3. at(n) \in Nat /\ f[n].root[t[n].sender].nonce \in Nat
    BY <2>1, <2>2, AccountFields, Numbers
  <2>4. f[n].root[t[n].sender].nonce > at(n)
    BY <1>1, <2>1, <2>2, NoncesGrow
  <2>5. /\ e[n].sig.key = t[n].sender
        /\ crypto_verify(e[n].sig, bytes_to_sign(d, t[n], at(n) + 1))
    BY <1>1, <2>1, <2>2, SpendIsSigned
  <2>. HIDE DEF at
  <2>. QED BY <2>2, <2>3, <2>4, <2>5
<1>2. ASSUME NEW n \in 1..N, NEW m \in 1..N, IsSpend(t[n]), IsSpend(t[m]), n < m,
             e[n].sig = e[m].sig
      PROVE  SchemeOf[e[n].sig.key] = "man"
  <2>1. SUFFICES ASSUME SchemeOf[e[n].sig.key] # "man" PROVE FALSE
    OBVIOUS
  <2>2. t[n].sender = t[m].sender
    BY <1>1, <1>2
  <2>3. /\ e[n].sig.message = bytes_to_sign(d, t[n], at(n) + 1)
        /\ e[m].sig.message = bytes_to_sign(d, t[m], at(m) + 1)
    <3>1. /\ crypto_verify(e[n].sig, bytes_to_sign(d, t[n], at(n) + 1))
          /\ crypto_verify(e[m].sig, bytes_to_sign(d, t[m], at(m) + 1))
      BY <1>1, <1>2
    <3>. QED BY <1>2, <2>1, <3>1 DEF crypto_verify
  <2>4. at(n) + 1 = at(m) + 1
    <3>. HIDE DEF at
    <3>. QED BY <1>2, <2>3, MessageSaysNonce
  <2>5. f[m - 1].root[t[n].sender].nonce >= f[n].root[t[n].sender].nonce
    <3>1. m - 1 \in n..N
      BY <1>2
    <3>2. t[n].sender \in Addresses
      BY <1>1, <1>2
    <3>. QED BY <3>1, <3>2, NoncesGrowOn
  <2>6. at(m) >= f[n].root[t[n].sender].nonce
    BY <2>2, <2>5
  <2>7. /\ at(n) \in Nat /\ at(m) \in Nat /\ f[n].root[t[n].sender].nonce \in Nat
        /\ f[n].root[t[n].sender].nonce > at(n)
    BY <1>1, <1>2
  <2>. HIDE DEF at
  <2>. QED BY <2>4, <2>6, <2>7
<1>3. \A n \in 1..N :
        IsSpend(t[n]) => /\ e[n].sig.key = t[n].sender
                         /\ \E nonce : crypto_verify(e[n].sig, bytes_to_sign(d, t[n], nonce))
  BY <1>1
<1>4. \A n, m \in 1..N :
        IsSpend(t[n]) /\ IsSpend(t[m]) /\ n # m /\ e[n].sig = e[m].sig
          => SchemeOf[e[n].sig.key] = "man"
  <2>1. \A n, m \in 1..N : n # m => n < m \/ m < n
    OBVIOUS
  <2>. QED BY <1>2, <2>1
<1>. QED BY <1>3, <1>4

(* The comment on bump_nonce, "a signature is only ever valid at one exact
   position in the account's history -- which is the replay protection the
   nonce existed for", for every batch verify_batch accepts and the sidecar it
   accepts it with, from any root whose accounts are held by their own keys:
   every payment and every withdrawal carries a signature of the sender's own
   key over that transaction, and no signature is executed twice.  A managed
   account's signature says nothing, and is not claimed to. *)
THEOREM SignaturesExecuteOnce ==
  ASSUME NEW d, NEW r \in Roots, Pinned(r), NEW i \in Seq(InboxEntry), NEW S,
         NEW t \in Seq(S), NEW e, \A n \in 1..Len(t) : WellFormed(t[n]),
         verify_batch(d, r, i, t, e).root # Err
  PROVE  /\ \A n \in 1..Len(t) :
              IsSpend(t[n]) => /\ e[n].sig.key = t[n].sender
                               /\ \E nonce : crypto_verify(e[n].sig, bytes_to_sign(d, t[n], nonce))
         /\ \A n, m \in 1..Len(t) :
              IsSpend(t[n]) /\ IsSpend(t[m]) /\ n # m /\ e[n].sig = e[m].sig
                => SchemeOf[e[n].sig.key] = "man"
<1>1. Len(t) \in Nat /\ Len(e) = Len(t)
  BY LenProperties DEF verify_batch
<1>2. PICK f : IsReplay(f, Len(t), d, r, i, t, e) /\ verify_batch(d, r, i, t, e) = f[Len(t)]
  BY <1>1, VerifyIs
<1>3. f[Len(t)].root # Err
  BY <1>2
<1>. QED BY <1>1, <1>2, <1>3, SignedOnce

-----------------------------------------------------------------------------
(* The list withdrawal_payouts reads back. *)

(* A list with the payout of one transaction more. *)
Paying(list, txn, entry) == list \o PaidBy(txn, entry)

IsCollected(f, N, t, e) ==
  f = [n \in 0..N |-> IF n = 0 THEN << >> ELSE Paying(f[n - 1], t[n], e[n])]

LEMMA CollectedExists ==
  ASSUME NEW t, NEW e, NEW N \in Nat
  PROVE  \E f : IsCollected(f, N, t, e)
<1> DEFINE Turn(n, x) == Paying(x, t[n], e[n])
<1>1. \E f : Falls(Turn, f, N, << >>)
  <2>. HIDE DEF Turn
  <2>. QED BY FallsExists
<1>. QED BY <1>1 DEF Falls, IsCollected

LEMMA CollectedPrefix ==
  ASSUME NEW t, NEW e, NEW f, NEW N \in Nat, NEW u, NEW c, NEW g, NEW M \in Nat, N <= M,
         IsCollected(f, N, t, e), IsCollected(g, M, u, c),
         \A n \in 1..N : t[n] = u[n] /\ e[n] = c[n]
  PROVE  \A n \in 0..N : f[n] = g[n]
<1>1. f[0] = g[0] /\ \A n \in 1..N : f[n - 1] = g[n - 1] => f[n] = g[n]
  BY DEF IsCollected
<1>. QED BY <1>1, FallsAgree

(* withdrawal_payouts is where the collecting ends. *)
LEMMA PayoutsAre ==
  ASSUME NEW t, NEW e, Len(t) \in Nat
  PROVE  \E f : IsCollected(f, Len(t), t, e) /\ withdrawal_payouts(t, e) = f[Len(t)]
<1> DEFINE f == CHOOSE f : IsCollected(f, Len(t), t, e)
<1>1. IsCollected(f, Len(t), t, e)
  <2>1. \E g : IsCollected(g, Len(t), t, e)
    BY CollectedExists
  <2>. QED BY <2>1
<1>2. withdrawal_payouts(t, e) = f[Len(t)]
  BY DEF withdrawal_payouts, IsCollected, Paying
<1>. QED BY <1>1, <1>2

(* No transactions, no payouts. *)
LEMMA PayoutsNone == withdrawal_payouts(<< >>, << >>) = << >>
<1>1. Len(<< >>) = 0
  OBVIOUS
<1>2. PICK f : IsCollected(f, Len(<< >>), << >>, << >>)
               /\ withdrawal_payouts(<< >>, << >>) = f[Len(<< >>)]
  BY <1>1, PayoutsAre
<1>. QED BY <1>2 DEF IsCollected

(* One transaction more adds what it pays. *)
LEMMA PayoutsOneMore ==
  ASSUME NEW S, NEW t \in Seq(S), NEW E, NEW e \in Seq(E), Len(t) = Len(e),
         NEW txn \in S, NEW entry \in E
  PROVE  withdrawal_payouts(Append(t, txn), Append(e, entry))
           = Paying(withdrawal_payouts(t, e), txn, entry)
<1> DEFINE u == Append(t, txn)
           c == Append(e, entry)
           N == Len(t)
<1>1. /\ N \in Nat /\ Len(u) = N + 1
      /\ \A n \in 1..N : t[n] = u[n] /\ e[n] = c[n]
      /\ u[N + 1] = txn /\ c[N + 1] = entry
  BY AppendProperties, LenProperties
<1>. HIDE DEF u, c, N
<1>2. PICK f : IsCollected(f, N, t, e) /\ withdrawal_payouts(t, e) = f[N]
  BY <1>1, PayoutsAre DEF N
<1>3. PICK g : IsCollected(g, N + 1, u, c) /\ withdrawal_payouts(u, c) = g[N + 1]
  <2>1. Len(u) \in Nat
    BY <1>1
  <2>2. \E g : IsCollected(g, Len(u), u, c) /\ withdrawal_payouts(u, c) = g[Len(u)]
    BY <2>1, PayoutsAre
  <2>. QED BY <1>1, <2>2
<1>4. f[N] = g[N]
  <2>1. N \in Nat /\ N + 1 \in Nat /\ N <= N + 1 /\ N \in 0..N
    BY <1>1
  <2>2. \A n \in 0..N : f[n] = g[n]
    BY <1>1, <1>2, <1>3, <2>1, CollectedPrefix
  <2>. QED BY <2>1, <2>2
<1>5. g[N + 1] = Paying(g[N], u[N + 1], c[N + 1])
  BY <1>1, <1>3 DEF IsCollected
<1>. QED BY <1>1, <1>2, <1>3, <1>4, <1>5 DEF u, c
=============================================================================
