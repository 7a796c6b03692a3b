--------------------------- MODULE Replay_proofs ---------------------------
(***************************************************************************)
(* What verify_batch guarantees for every value of the constants: amounts  *)
(* and nonces stay in u64, no nonce moves value twice, accounts only grow  *)
(* older, and every batch obeys BlockLaw, which is all that the contract's *)
(* solvency (RollupVerifier_proofs) assumes of a proof it accepts.         *)
(*                                                                         *)
(* Each of the four writes of the replay (a debit, a credit, the fee, an   *)
(* emptied account) has a lemma that says what it does to the total, to    *)
(* the nonces and to the keys; a transaction is a few of them in a row.    *)
(***************************************************************************)
EXTENDS Replay, PaymentRollup_proofs

Roots == [Addresses -> Account]

(* Accounts are held by the key their address derives. *)
Pinned(r) == \A a \in Addresses : r[a] = NoAccount \/ r[a].auth_address = a

(* No value has left an account at a nonce it has not reached. *)
NoncesAhead ==
  \A a \in Addresses : \A n \in 1..MAX_U64 : root[a].nonce < n => moves[a][n] = 0

(* BlockLaw, with the payouts in the order they were queued. *)
Conserved ==
  Funds(root) + Queued(payouts) = Funds(old_root) + DepositsFolded(inbox_anchor, inbox_chain)
QueuePayable == \A i \in 1..Len(payouts) : payouts[i].amount >= MIN_WITHDRAWAL

Replayed ==
  /\ TypeOK
  /\ Pinned(root)
  /\ NoncesAhead
  /\ OneMovePerNonce
  /\ ChainExtends(inbox_anchor, inbox_chain)
  /\ Conserved
  /\ QueuePayable

(* The account of `a' has grown older from r to s, or not at all. *)
Older(r, s) ==
  \A a \in Addresses :
    /\ s[a].nonce >= r[a].nonce
    /\ r[a] # NoAccount => s[a] # NoAccount /\ s[a].auth_address = r[a].auth_address

SameNonces(r, s) == \A a \in Addresses : s[a].nonce = r[a].nonce

(* Only the account of `a' has moved on, by one. *)
NextNonce(r, s, a) ==
  /\ s[a].nonce = r[a].nonce + 1
  /\ \A b \in Addresses \ {a} : s[b].nonce = r[b].nonce

-----------------------------------------------------------------------------
(* The fields of the accounts under a root. *)
LEMMA Fields ==
  ASSUME NEW r \in Roots, NEW a \in Addresses
  PROVE  /\ r[a] \in Account
         /\ r[a].nonce \in U64 /\ r[a].amount \in U64
         /\ r[a].auth_address \in Addresses \cup {NoKey}
BY DEF Roots, Account

(* The total under a root is a number, and one write moves it by what the
   account gains or loses. *)
LEMMA FundsWrite ==
  ASSUME NEW r \in Roots, NEW a \in Addresses, NEW account \in Account
  PROVE  /\ [r EXCEPT ![a] = account] \in Roots
         /\ Funds(r) \in Nat /\ Funds([r EXCEPT ![a] = account]) \in Nat
         /\ Funds([r EXCEPT ![a] = account]) + r[a].amount = Funds(r) + account.amount
<1> DEFINE s == [r EXCEPT ![a] = account]
<1>1. s \in Roots
  BY DEF Roots
<1>2. /\ s[a] = account /\ account.amount \in U64
      /\ \A b \in Addresses \ {a} : s[b].amount = r[b].amount
  BY DEF Roots, Account
<1>3. \A b \in Addresses : r[b].amount \in U64 /\ s[b].amount \in U64
  BY <1>1, Fields
<1>4. /\ Funds(r) \in Nat /\ Funds(s) \in Nat
      /\ Funds(s) + r[a].amount = Funds(r) + s[a].amount
  <2> HIDE DEF s
  <2> QED BY <1>2, <1>3, FundsMove
<1> QED BY <1>1, <1>2, <1>4

(* A debit takes amount and fee from the sender and uses up one nonce. *)
LEMMA DebitWrites ==
  ASSUME NEW r \in Roots, NEW sender \in Addresses, NEW amount \in U64, NEW fee \in U64,
         CanDebit(r, sender, amount, fee)
  PROVE  /\ debit(r, sender, amount, fee) \in Roots
         /\ Funds(r) \in Nat /\ Funds(debit(r, sender, amount, fee)) \in Nat
         /\ Funds(debit(r, sender, amount, fee)) + amount + fee = Funds(r)
         /\ NextNonce(r, debit(r, sender, amount, fee), sender)
         /\ Pinned(r) => Pinned(debit(r, sender, amount, fee))
         /\ Older(r, debit(r, sender, amount, fee))
<1> DEFINE old == r[sender]
           new == [nonce |-> old.nonce + 1, amount |-> old.amount - amount - fee,
                   auth_address |-> old.auth_address]
           s == [r EXCEPT ![sender] = new]
<1>1. /\ old.nonce \in Nat /\ old.nonce < MAX_U64 /\ old.amount \in U64
      /\ old.auth_address \in Addresses \cup {NoKey}
      /\ amount <= old.amount /\ fee <= old.amount - amount /\ old # NoAccount
  BY Fields, Numbers DEF CanDebit, CanBumpNonce
<1>2. /\ old.nonce + 1 \in U64 /\ old.amount - amount - fee \in U64
      /\ old.amount - amount - fee \in Nat /\ old.amount \in Nat
      /\ amount \in Nat /\ fee \in Nat
  BY <1>1, Numbers
<1>3. new \in Account /\ new.amount = old.amount - amount - fee
  BY <1>1, <1>2 DEF Account
<1>4. debit(r, sender, amount, fee) = s
  BY DEF debit
<1>5. /\ s \in Roots /\ Funds(r) \in Nat /\ Funds(s) \in Nat
      /\ Funds(s) + old.amount = Funds(r) + new.amount
  <2> HIDE DEF new
  <2> QED BY <1>3, FundsWrite
<1>6. Funds(s) + amount + fee = Funds(r)
  <2> HIDE DEF new, old, s
  <2> QED BY <1>2, <1>3, <1>5
<1>7. /\ s[sender] = new /\ \A b \in Addresses \ {sender} : s[b] = r[b]
      /\ new.nonce = old.nonce + 1 /\ new.auth_address = old.auth_address
      /\ new # NoAccount
  <2>1. new.nonce # NoAccount.nonce
    BY <1>1 DEF NoAccount
  <2> QED BY <2>1 DEF Roots
<1>8. \A b \in Addresses : r[b].nonce \in Nat
  BY Fields, Numbers
<1>9. NextNonce(r, s, sender)
  BY <1>7 DEF NextNonce
<1>10. Pinned(r) => Pinned(s)
  <2> HIDE DEF new, s
  <2> QED BY <1>1, <1>7 DEF Pinned
<1>11. Older(r, s)
  <2> HIDE DEF new, s
  <2> QED BY <1>1, <1>7, <1>8 DEF Older
<1> QED BY <1>4, <1>5, <1>6, <1>9, <1>10, <1>11

(* A credit adds the amount, creating the account where there is none. *)
LEMMA CreditWrites ==
  ASSUME NEW r \in Roots, NEW receiver \in Addresses, NEW amount \in U64,
         CanCredit(r, receiver, amount)
  PROVE  /\ credit(r, receiver, amount) \in Roots
         /\ Funds(r) \in Nat /\ Funds(credit(r, receiver, amount)) \in Nat
         /\ Funds(credit(r, receiver, amount)) = Funds(r) + amount
         /\ SameNonces(r, credit(r, receiver, amount))
         /\ Pinned(r) => Pinned(credit(r, receiver, amount))
         /\ Pinned(r) => Older(r, credit(r, receiver, amount))
<1> DEFINE old == r[receiver]
           key == IF old = NoAccount THEN receiver ELSE old.auth_address
           new == [nonce |-> old.nonce, amount |-> old.amount + amount,
                   auth_address |-> key]
           s == [r EXCEPT ![receiver] = new]
<1>1. /\ old.nonce \in U64 /\ old.amount \in U64
      /\ old.auth_address \in Addresses \cup {NoKey}
      /\ old.amount + amount <= MAX_U64
  BY Fields DEF CanCredit
<1>2. /\ old.amount + amount \in U64 /\ old.amount \in Nat /\ amount \in Nat
      /\ key \in Addresses \cup {NoKey}
  BY <1>1, Numbers
<1>3. new \in Account /\ new.amount = old.amount + amount
  BY <1>1, <1>2 DEF Account
<1>4. credit(r, receiver, amount) = s
  BY DEF credit
<1>5. /\ s \in Roots /\ Funds(r) \in Nat /\ Funds(s) \in Nat
      /\ Funds(s) + old.amount = Funds(r) + new.amount
  <2> HIDE DEF new
  <2> QED BY <1>3, FundsWrite
<1>6. Funds(s) = Funds(r) + amount
  <2> HIDE DEF new, old, s
  <2> QED BY <1>2, <1>3, <1>5
<1>7. /\ s[receiver] = new /\ \A b \in Addresses \ {receiver} : s[b] = r[b]
      /\ new.nonce = old.nonce /\ new.auth_address = key
  BY DEF Roots
<1>8. \A b \in Addresses : r[b].nonce \in Nat
  BY Fields, Numbers
<1>9. SameNonces(r, s)
  <2> HIDE DEF new, s
  <2> QED BY <1>7 DEF SameNonces
<1>10. Pinned(r) => key = receiver
  BY DEF Pinned
<1>11. Pinned(r) => Pinned(s)
  <2> HIDE DEF new, s, key
  <2> QED BY <1>7, <1>10 DEF Pinned
<1>12. Pinned(r) => Older(r, s)
  <2> SUFFICES ASSUME Pinned(r) PROVE Older(r, s)
    OBVIOUS
  <2>1. new # NoAccount
    <3>1. new.auth_address # NoAccount.auth_address
      <4> HIDE DEF new, key
      <4> QED BY <1>7, <1>10, ReplayAssumption DEF NoAccount
    <3> QED BY <3>1
  <2>2. old # NoAccount => old.auth_address = receiver
    BY DEF Pinned
  <2> HIDE DEF new, s, key
  <2> QED BY <1>7, <1>8, <1>10, <2>1, <2>2 DEF Older
<1> QED BY <1>4, <1>5, <1>6, <1>9, <1>11, <1>12

(* The fee reaches the sink, if there is one. *)
LEMMA FeeWrites ==
  ASSUME NEW r \in Roots, NEW fee \in U64, CanPayFee(r, fee)
  PROVE  /\ payFee(r, fee) \in Roots
         /\ Funds(r) \in Nat /\ Funds(payFee(r, fee)) \in Nat
         /\ Funds(payFee(r, fee)) = Funds(r) + fee
         /\ SameNonces(r, payFee(r, fee))
         /\ Pinned(r) => Pinned(payFee(r, fee))
         /\ Pinned(r) => Older(r, payFee(r, fee))
<1>1. FEE_SINK \in Addresses
  BY ReplayAssumption
<1>2. CASE fee = 0
  <2>1. payFee(r, fee) = r
    BY <1>2 DEF payFee
  <2>2. Funds(r) \in Nat
    <3>1. r[FEE_SINK] \in Account
      BY <1>1, Fields
    <3> QED BY <1>1, <3>1, FundsWrite
  <2>3. \A b \in Addresses : r[b].nonce \in Nat
    BY Fields, Numbers
  <2> QED BY <1>2, <2>1, <2>2, <2>3 DEF SameNonces, Older
<1>3. CASE fee # 0
  <2>1. payFee(r, fee) = credit(r, FEE_SINK, fee) /\ CanCredit(r, FEE_SINK, fee)
    BY <1>3 DEF payFee, CanPayFee
  <2> QED BY <1>1, <2>1, CreditWrites
<1> QED BY <1>2, <1>3

(* Growing older twice is growing older. *)
LEMMA OlderStill ==
  ASSUME NEW r \in Roots, NEW s \in Roots, NEW t \in Roots, Older(r, s), Older(s, t)
  PROVE  Older(r, t)
<1>1. \A a \in Addresses : r[a].nonce \in Nat /\ s[a].nonce \in Nat /\ t[a].nonce \in Nat
  BY Fields, Numbers
<1> QED BY <1>1 DEF Older

-----------------------------------------------------------------------------
-----------------------------------------------------------------------------
(* Counting up from nothing at one place. *)
LEMMA CountOne ==
  ASSUME NEW S, NEW h \in [S -> Nat], NEW j \in S, h[j] = 0
  PROVE  /\ [h EXCEPT ![j] = h[j] + 1] \in [S -> Nat]
         /\ [h EXCEPT ![j] = h[j] + 1][j] = 1
         /\ \A n \in S \ {j} : [h EXCEPT ![j] = h[j] + 1][n] = h[n]
<1>1. [h EXCEPT ![j] = h[j] + 1] = [h EXCEPT ![j] = 1]
  OBVIOUS
<1>2. /\ [h EXCEPT ![j] = 1] \in [S -> Nat] /\ [h EXCEPT ![j] = 1][j] = 1
      /\ \A n \in S \ {j} : [h EXCEPT ![j] = 1][n] = h[n]
  OBVIOUS
<1> QED BY <1>1, <1>2

(* A move at the next nonce is the first at that nonce. *)
LEMMA MoveIsFirst ==
  ASSUME Replayed, NEW a \in Addresses, CanBumpNonce(root[a]),
         moves' = recordMove(a), root' \in Roots, NextNonce(root, root', a)
  PROVE  /\ moves' \in [Addresses -> [1..MAX_U64 -> Nat]]
         /\ NoncesAhead' /\ OneMovePerNonce'
<1> DEFINE k == root[a].nonce + 1
<1>1. /\ moves \in [Addresses -> [1..MAX_U64 -> Nat]] /\ root \in Roots
      /\ NoncesAhead /\ OneMovePerNonce
  BY DEF Replayed, TypeOK, Roots
<1>2. \A b \in Addresses : root[b].nonce \in Nat /\ root'[b].nonce \in Nat
  BY <1>1, Fields, Numbers
<1>3. k \in 1..MAX_U64 /\ root[a].nonce < k /\ moves[a][k] = 0
  BY <1>1, <1>2, Numbers DEF CanBumpNonce, NoncesAhead
<1>4. /\ moves' \in [Addresses -> [1..MAX_U64 -> Nat]]
      /\ moves'[a][k] = 1
      /\ \A n \in 1..MAX_U64 \ {k} : moves'[a][n] = moves[a][n]
      /\ \A b \in Addresses \ {a} : moves'[b] = moves[b]
  <2> DEFINE row == [moves[a] EXCEPT ![k] = moves[a][k] + 1]
  <2>1. moves' = [moves EXCEPT ![a] = row]
    BY DEF recordMove
  <2>2. moves[a] \in [1..MAX_U64 -> Nat]
    BY <1>1
  <2>3. k \in 1..MAX_U64 /\ moves[a][k] = 0
    BY <1>3
  <2> HIDE DEF k
  <2>4. /\ row \in [1..MAX_U64 -> Nat]
        /\ row[k] = 1 /\ \A n \in 1..MAX_U64 \ {k} : row[n] = moves[a][n]
    BY <2>2, <2>3, CountOne
  <2> HIDE DEF row
  <2> QED BY <1>1, <2>1, <2>4
<1>5. root'[a].nonce = k /\ \A b \in Addresses \ {a} : root'[b].nonce = root[b].nonce
  BY DEF NextNonce
<1> HIDE DEF k
<1>6. NoncesAhead'
  <2> SUFFICES ASSUME NEW b \in Addresses, NEW n \in 1..MAX_U64, root'[b].nonce < n
               PROVE  moves'[b][n] = 0
    BY DEF NoncesAhead
  <2>1. CASE b = a
    <3>1. n # k /\ root[a].nonce < n
      BY <1>2, <1>3, <1>5, <2>1
    <3> QED BY <1>1, <1>4, <2>1, <3>1 DEF NoncesAhead
  <2>2. CASE b # a
    <3>1. moves'[b] = moves[b] /\ root[b].nonce < n
      BY <1>4, <1>5, <2>2
    <3> QED BY <1>1, <3>1 DEF NoncesAhead
  <2> QED BY <2>1, <2>2
<1>7. OneMovePerNonce'
  <2> SUFFICES ASSUME NEW b \in Addresses, NEW n \in 1..MAX_U64
               PROVE  moves'[b][n] <= 1
    BY DEF OneMovePerNonce
  <2>1. CASE b = a /\ n = k
    BY <1>4, <2>1
  <2>2. CASE b # a \/ n # k
    <3>1. moves'[b][n] = moves[b][n]
      BY <1>4, <2>2
    <3> QED BY <1>1, <3>1 DEF OneMovePerNonce
  <2> QED BY <2>1, <2>2
<1> QED BY <1>4, <1>6, <1>7

(* A credit from L1 is no move. *)
LEMMA NoMove ==
  ASSUME Replayed, UNCHANGED moves, SameNonces(root, root')
  PROVE  /\ moves' \in [Addresses -> [1..MAX_U64 -> Nat]]
         /\ NoncesAhead' /\ OneMovePerNonce'
BY DEF Replayed, TypeOK, NoncesAhead, OneMovePerNonce, SameNonces

(* What Replayed says, for a step to start from. *)
LEMMA Standing ==
  ASSUME Replayed
  PROVE  /\ root \in Roots /\ old_root \in Roots /\ Pinned(root)
         /\ inbox_anchor \in Seq(InboxEntry) /\ inbox_chain \in Seq(InboxEntry)
         /\ payouts \in Seq(Payout)
         /\ ChainExtends(inbox_anchor, inbox_chain) /\ Conserved /\ QueuePayable
         /\ Funds(root) \in Nat /\ Funds(old_root) \in Nat
         /\ Queued(payouts) \in Nat
         /\ DepositsFolded(inbox_anchor, inbox_chain) \in Nat
<1>1. /\ root \in Roots /\ old_root \in Roots /\ Pinned(root)
      /\ inbox_anchor \in Seq(InboxEntry) /\ inbox_chain \in Seq(InboxEntry)
      /\ payouts \in Seq(Payout)
      /\ ChainExtends(inbox_anchor, inbox_chain) /\ Conserved /\ QueuePayable
  BY DEF Replayed, TypeOK, Roots
<1>2. FEE_SINK \in Addresses
  BY ReplayAssumption
<1>3. Funds(root) \in Nat /\ Funds(old_root) \in Nat
  <2>1. root[FEE_SINK] \in Account /\ old_root[FEE_SINK] \in Account
    BY <1>1, <1>2, Fields
  <2> QED BY <1>1, <1>2, <2>1, FundsWrite
<1>4. Queued(payouts) \in Nat
  <2> DEFINE S == 1..Len(payouts)
             f == [i \in S |-> payouts[i].amount]
  <2>1. \A i \in S : payouts[i] \in Payout
    BY <1>1, ElementOfSeq
  <2>2. f \in [S -> U64]
    BY <2>1 DEF Payout
  <2>3. IsFiniteSet(S)
    BY <1>1, LenProperties, FS_Interval
  <2>4. Sum(f) \in Nat
    <3> HIDE DEF f, S
    <3> QED BY <2>2, <2>3, SumType
  <2> QED BY <2>4 DEF Queued
<1>5. DepositsFolded(inbox_anchor, inbox_chain) \in Nat
  <2> DEFINE e == [kind |-> "d", address |-> FEE_SINK, recipient |-> NoRecipient, amount |-> 0]
  <2>1. e \in InboxEntry
    BY <1>2, Numbers DEF InboxEntry
  <2> HIDE DEF e
  <2> QED BY <1>1, <2>1, FoldGrows
<1> QED BY <1>1, <1>3, <1>4, <1>5

-----------------------------------------------------------------------------
LEMMA ReplayInit == Init => Replayed
<1> SUFFICES ASSUME Init PROVE Replayed
  OBVIOUS
<1>1. NoAccount \in Account
  BY Numbers DEF NoAccount, Account
<1>2. root \in Roots /\ old_root = root /\ Pinned(root)
  BY <1>1 DEF Init, Roots, Pinned
<1>3. /\ inbox_anchor \in Seq(InboxEntry) /\ inbox_chain = inbox_anchor
      /\ payouts = << >>
  BY EmptySeq DEF Init, INBOX_CHAIN_GENESIS
<1>4. /\ ChainExtends(inbox_anchor, inbox_chain)
      /\ DepositsFolded(inbox_anchor, inbox_chain) = 0
      /\ payouts \in Seq(Payout) /\ Len(payouts) = 0 /\ Queued(payouts) = 0
  BY <1>3, NothingYet
<1>5. Conserved /\ QueuePayable
  BY <1>2, <1>4 DEF Conserved, QueuePayable
<1>6. /\ moves \in [Addresses -> [1..MAX_U64 -> Nat]]
      /\ \A a \in Addresses : \A n \in 1..MAX_U64 : moves[a][n] = 0
  BY DEF Init
<1>7. NoncesAhead /\ OneMovePerNonce
  BY <1>6 DEF NoncesAhead, OneMovePerNonce
<1> QED BY <1>2, <1>3, <1>4, <1>5, <1>6, <1>7 DEF Replayed, TypeOK, Roots

(* A payment moves value between accounts and to the sink; the total stays. *)
LEMMA PaymentReplays ==
  ASSUME Replayed, NEW sender \in Addresses, NEW receiver \in Addresses,
         NEW amount \in U64, NEW fee \in U64, Payment(sender, receiver, amount, fee)
  PROVE  Replayed' /\ Older(root, root')
<1> DEFINE d == debit(root, sender, amount, fee)
           c == credit(d, receiver, amount)
<1>1. /\ CanDebit(root, sender, amount, fee) /\ CanCredit(d, receiver, amount)
      /\ CanPayFee(c, fee) /\ root' = payFee(c, fee) /\ moves' = recordMove(sender)
      /\ UNCHANGED <<old_root, inbox_anchor, inbox_chain, payouts>>
  BY DEF Payment
<1>2. /\ d \in Roots /\ Funds(d) \in Nat /\ Funds(d) + amount + fee = Funds(root)
      /\ NextNonce(root, d, sender) /\ Pinned(d) /\ Older(root, d)
  BY <1>1, Standing, DebitWrites
<1> HIDE DEF d
<1>3. /\ c \in Roots /\ Funds(c) \in Nat /\ Funds(c) = Funds(d) + amount
      /\ SameNonces(d, c) /\ Pinned(c) /\ Older(d, c)
  BY <1>1, <1>2, CreditWrites
<1> HIDE DEF c
<1>4. /\ root' \in Roots /\ Funds(root') \in Nat /\ Funds(root') = Funds(c) + fee
      /\ SameNonces(c, root') /\ Pinned(root') /\ Older(c, root')
  BY <1>1, <1>3, FeeWrites
<1>5. NextNonce(root, root', sender)
  BY <1>2, <1>3, <1>4 DEF NextNonce, SameNonces
<1>6. /\ moves' \in [Addresses -> [1..MAX_U64 -> Nat]]
      /\ NoncesAhead' /\ OneMovePerNonce'
  BY <1>1, <1>4, <1>5, MoveIsFirst DEF CanDebit
<1>7. Funds(root') = Funds(root)
  <2>1. amount \in Nat /\ fee \in Nat /\ Funds(root) \in Nat
    BY Numbers, Standing
  <2> QED BY <1>2, <1>3, <1>4, <2>1
<1>8. Older(root, root')
  BY <1>2, <1>3, <1>4, Standing, OlderStill
<1>9. Conserved' /\ QueuePayable'
  BY <1>1, <1>7, Standing DEF Conserved, QueuePayable
<1> QED BY <1>1, <1>4, <1>6, <1>8, <1>9, Standing DEF Replayed, TypeOK, Roots

(* A deposit brings in what the entry folded says. *)
LEMMA DepositReplays ==
  ASSUME Replayed, NEW receiver \in Addresses, NEW amount \in U64,
         Deposit(receiver, amount)
  PROVE  Replayed' /\ Older(root, root')
<1> DEFINE e == [kind |-> "d", address |-> receiver, recipient |-> NoRecipient,
                 amount |-> amount]
<1>1. /\ CanCredit(root, receiver, amount) /\ root' = credit(root, receiver, amount)
      /\ inbox_chain' = Append(inbox_chain, e)
      /\ UNCHANGED <<old_root, inbox_anchor, payouts, moves>>
  BY DEF Deposit, accumulate_deposit
<1>2. e \in InboxEntry /\ e.amount = amount
  BY DEF InboxEntry
<1> HIDE DEF e
<1>3. /\ root' \in Roots /\ Funds(root') \in Nat /\ Funds(root') = Funds(root) + amount
      /\ SameNonces(root, root') /\ Pinned(root') /\ Older(root, root')
  BY <1>1, Standing, CreditWrites
<1>4. /\ inbox_chain' \in Seq(InboxEntry) /\ ChainExtends(inbox_anchor, inbox_chain')
      /\ DepositsFolded(inbox_anchor, inbox_chain')
           = DepositsFolded(inbox_anchor, inbox_chain) + amount
  BY <1>1, <1>2, Standing, FoldGrows
<1>5. /\ moves' \in [Addresses -> [1..MAX_U64 -> Nat]]
      /\ NoncesAhead' /\ OneMovePerNonce'
  BY <1>1, <1>3, NoMove
<1>6. Conserved'
  <2>1. amount \in Nat
    BY Numbers
  <2>2. /\ Funds(root) + Queued(payouts)
             = Funds(old_root) + DepositsFolded(inbox_anchor, inbox_chain)
        /\ Funds(root) \in Nat /\ Funds(old_root) \in Nat /\ Queued(payouts) \in Nat
        /\ DepositsFolded(inbox_anchor, inbox_chain) \in Nat
    BY Standing DEF Conserved
  <2>3. /\ Funds(root') = Funds(root) + amount
        /\ DepositsFolded(inbox_anchor, inbox_chain')
             = DepositsFolded(inbox_anchor, inbox_chain) + amount
    BY <1>3, <1>4
  <2>4. Funds(root') + Queued(payouts)
          = Funds(old_root) + DepositsFolded(inbox_anchor, inbox_chain')
    BY <2>1, <2>2, <2>3, Balance
  <2> QED BY <1>1, <2>4 DEF Conserved
<1>7. QueuePayable'
  BY <1>1, Standing DEF QueuePayable
<1> QED BY <1>1, <1>3, <1>4, <1>5, <1>6, <1>7, Standing DEF Replayed, TypeOK, Roots

(* What one more payout does to the queue. *)
LEMMA OneMorePayout ==
  ASSUME Replayed, NEW recipient \in L1Accounts, NEW amount \in U64,
         amount >= MIN_WITHDRAWAL,
         payouts' = Append(payouts, [recipient |-> recipient, amount |-> amount])
  PROVE  /\ payouts' \in Seq(Payout) /\ QueuePayable'
         /\ Queued(payouts') = Queued(payouts) + amount
<1> DEFINE x == [recipient |-> recipient, amount |-> amount]
<1>1. x \in Payout /\ x.amount = amount
  BY DEF Payout
<1> HIDE DEF x
<1>2. payouts' = Append(payouts, x)
  BY DEF x
<1>3. payouts' \in Seq(Payout) /\ Queued(payouts') = Queued(payouts) + amount
  BY <1>1, <1>2, Standing, QueueGrows
<1>4. /\ Len(payouts) \in Nat /\ Len(payouts') = Len(payouts) + 1
      /\ payouts'[Len(payouts) + 1] = x
      /\ \A i \in 1..Len(payouts) : payouts'[i] = payouts[i]
  BY <1>1, <1>2, Standing, AppendProperties, LenProperties
<1>5. QueuePayable'
  <2> SUFFICES ASSUME NEW i \in 1..Len(payouts') PROVE payouts'[i].amount >= MIN_WITHDRAWAL
    BY DEF QueuePayable
  <2>1. CASE i = Len(payouts) + 1
    BY <1>1, <1>4, <2>1
  <2>2. CASE i # Len(payouts) + 1
    <3>1. i \in 1..Len(payouts)
      BY <1>4, <2>2
    <3> QED BY <1>4, <3>1, Standing DEF QueuePayable
  <2> QED BY <2>1, <2>2
<1> QED BY <1>3, <1>5

(* A withdrawal takes out what it queues. *)
LEMMA WithdrawalReplays ==
  ASSUME Replayed, NEW sender \in Addresses, NEW recipient \in L1Accounts,
         NEW amount \in U64, NEW fee \in U64, Withdrawal(sender, recipient, amount, fee)
  PROVE  Replayed' /\ Older(root, root')
<1> DEFINE d == debit(root, sender, amount, fee)
<1>1. /\ CanDebit(root, sender, amount, fee) /\ amount >= MIN_WITHDRAWAL
      /\ CanPayFee(d, fee) /\ root' = payFee(d, fee) /\ moves' = recordMove(sender)
      /\ payouts' = Append(payouts, [recipient |-> recipient, amount |-> amount])
      /\ UNCHANGED <<old_root, inbox_anchor, inbox_chain>>
  BY DEF Withdrawal
<1>2. /\ d \in Roots /\ Funds(d) \in Nat /\ Funds(d) + amount + fee = Funds(root)
      /\ NextNonce(root, d, sender) /\ Pinned(d) /\ Older(root, d)
  BY <1>1, Standing, DebitWrites
<1> HIDE DEF d
<1>3. /\ root' \in Roots /\ Funds(root') \in Nat /\ Funds(root') = Funds(d) + fee
      /\ SameNonces(d, root') /\ Pinned(root') /\ Older(d, root')
  BY <1>1, <1>2, FeeWrites
<1>4. NextNonce(root, root', sender)
  BY <1>2, <1>3 DEF NextNonce, SameNonces
<1>5. /\ moves' \in [Addresses -> [1..MAX_U64 -> Nat]]
      /\ NoncesAhead' /\ OneMovePerNonce'
  BY <1>1, <1>3, <1>4, MoveIsFirst DEF CanDebit
<1>6. /\ payouts' \in Seq(Payout) /\ QueuePayable'
      /\ Queued(payouts') = Queued(payouts) + amount
  BY <1>1, OneMorePayout
<1>7. Conserved'
  <2>1. amount \in Nat /\ fee \in Nat
    BY Numbers
  <2>2. Funds(root') + amount = Funds(root)
    BY <1>2, <1>3, <2>1, Standing
  <2>3. Funds(root') + Queued(payouts')
          = Funds(old_root) + DepositsFolded(inbox_anchor, inbox_chain)
    BY <1>3, <1>6, <2>1, <2>2, Standing DEF Conserved
  <2> QED BY <1>1, <2>3 DEF Conserved
<1>8. Older(root, root')
  BY <1>2, <1>3, Standing, OlderStill
<1> QED BY <1>1, <1>3, <1>5, <1>6, <1>7, <1>8, Standing DEF Replayed, TypeOK, Roots

(* A request is folded, worth nothing on the way in. *)
LEMMA RequestFolds ==
  ASSUME Replayed, NEW address \in Addresses, NEW recipient \in L1Accounts,
         inbox_chain' = accumulate_request(inbox_chain, address, recipient)
  PROVE  /\ inbox_chain' \in Seq(InboxEntry) /\ ChainExtends(inbox_anchor, inbox_chain')
         /\ DepositsFolded(inbox_anchor, inbox_chain')
              = DepositsFolded(inbox_anchor, inbox_chain)
<1> DEFINE e == [kind |-> "w", address |-> address, recipient |-> recipient,
                 amount |-> 0]
<1>1. inbox_chain' = Append(inbox_chain, e)
  BY DEF accumulate_request
<1>2. e \in InboxEntry /\ e.amount = 0
  BY Numbers DEF InboxEntry
<1> HIDE DEF e
<1> QED BY <1>1, <1>2, Standing, FoldGrows

(* A forced withdrawal pays out all there is and uses up a nonce. *)
LEMMA ForcedReplays ==
  ASSUME Replayed, NEW address \in Addresses, NEW recipient \in L1Accounts,
         ForcedWithdrawalPaid(address, recipient)
  PROVE  Replayed' /\ Older(root, root')
<1> DEFINE old == root[address]
           new == [nonce |-> old.nonce + 1, amount |-> 0, auth_address |-> old.auth_address]
<1>1. /\ old.amount >= MIN_WITHDRAWAL /\ CanBumpNonce(old)
      /\ root' = [root EXCEPT ![address] = new]
      /\ payouts' = Append(payouts, [recipient |-> recipient, amount |-> old.amount])
      /\ inbox_chain' = accumulate_request(inbox_chain, address, recipient)
      /\ moves' = recordMove(address) /\ UNCHANGED <<old_root, inbox_anchor>>
  BY DEF ForcedWithdrawalPaid, emptied
<1>2. root \in Roots /\ Pinned(root)
  BY Standing
<1>3. /\ old.nonce \in Nat /\ old.nonce < MAX_U64 /\ old.amount \in U64
      /\ old.auth_address \in Addresses \cup {NoKey}
  BY <1>1, <1>2, Fields, Numbers DEF CanBumpNonce
<1>4. new \in Account /\ new.amount = 0
  BY <1>3, Numbers DEF Account
<1>5. old # NoAccount /\ old.auth_address = address
  <2>1. old.amount # NoAccount.amount
    BY <1>1, <1>3, Numbers DEF NoAccount
  <2> QED BY <1>2, <2>1 DEF Pinned
<1>6. /\ root'[address] = new /\ \A b \in Addresses \ {address} : root'[b] = root[b]
      /\ new.nonce = old.nonce + 1 /\ new.auth_address = address /\ new # NoAccount
  <2>1. new.nonce # NoAccount.nonce
    BY <1>3 DEF NoAccount
  <2> QED BY <1>1, <1>2, <1>5, <2>1 DEF Roots
<1>7. /\ root' \in Roots /\ Funds(root') \in Nat
      /\ Funds(root') + old.amount = Funds(root)
  <2>1. /\ root' \in Roots /\ Funds(root') \in Nat /\ Funds(root) \in Nat
        /\ Funds(root') + old.amount = Funds(root) + new.amount
    <3> HIDE DEF new
    <3> QED BY <1>1, <1>2, <1>4, FundsWrite
  <2> HIDE DEF new
  <2> QED BY <1>4, <2>1
<1> HIDE DEF new
<1>8. \A b \in Addresses : root[b].nonce \in Nat
  BY <1>2, Fields, Numbers
<1>9. /\ NextNonce(root, root', address) /\ Pinned(root') /\ Older(root, root')
  BY <1>2, <1>3, <1>5, <1>6, <1>8 DEF NextNonce, Pinned, Older
<1>10. /\ moves' \in [Addresses -> [1..MAX_U64 -> Nat]]
       /\ NoncesAhead' /\ OneMovePerNonce'
  BY <1>1, <1>7, <1>9, MoveIsFirst
<1>11. /\ payouts' \in Seq(Payout) /\ QueuePayable'
       /\ Queued(payouts') = Queued(payouts) + old.amount
  BY <1>1, <1>3, OneMorePayout
<1>12. /\ inbox_chain' \in Seq(InboxEntry) /\ ChainExtends(inbox_anchor, inbox_chain')
       /\ DepositsFolded(inbox_anchor, inbox_chain')
            = DepositsFolded(inbox_anchor, inbox_chain)
  BY <1>1, RequestFolds
<1>13. Conserved'
  <2>1. old.amount \in Nat
    BY <1>3, Numbers
  <2>2. /\ Funds(root) + Queued(payouts)
             = Funds(old_root) + DepositsFolded(inbox_anchor, inbox_chain)
        /\ Funds(root) \in Nat /\ Funds(old_root) \in Nat /\ Queued(payouts) \in Nat
        /\ DepositsFolded(inbox_anchor, inbox_chain) \in Nat
    BY Standing DEF Conserved
  <2> HIDE DEF old
  <2>3. Funds(root') + Queued(payouts')
          = Funds(old_root) + DepositsFolded(inbox_anchor, inbox_chain')
    BY <1>7, <1>11, <1>12, <2>1, <2>2
  <2> QED BY <1>1, <2>3 DEF Conserved
<1> QED BY <1>1, <1>7, <1>9, <1>10, <1>11, <1>12, <1>13, Standing
        DEF Replayed, TypeOK, Roots

(* Nothing moves under a request that is dropped. *)
LEMMA DroppedReplays ==
  ASSUME Replayed, NEW address \in Addresses, NEW recipient \in L1Accounts,
         ForcedWithdrawalDropped(address, recipient)
  PROVE  Replayed' /\ UNCHANGED root
<1>1. /\ inbox_chain' = accumulate_request(inbox_chain, address, recipient)
      /\ UNCHANGED <<root, old_root, inbox_anchor, payouts, moves>>
  BY DEF ForcedWithdrawalDropped
<1>2. /\ inbox_chain' \in Seq(InboxEntry) /\ ChainExtends(inbox_anchor, inbox_chain')
      /\ DepositsFolded(inbox_anchor, inbox_chain')
           = DepositsFolded(inbox_anchor, inbox_chain)
  BY <1>1, RequestFolds
<1> QED BY <1>1, <1>2 DEF Replayed, TypeOK, Pinned, NoncesAhead, OneMovePerNonce,
                          Conserved, QueuePayable

(* The next batch starts where this one ended, with nothing folded or queued. *)
LEMMA NextBatchReplays ==
  ASSUME Replayed, NextBatch
  PROVE  Replayed' /\ UNCHANGED root
<1>1. /\ old_root' = root /\ inbox_anchor' = inbox_chain /\ payouts' = << >>
      /\ UNCHANGED <<root, inbox_chain, moves>>
  BY DEF NextBatch
<1>2. /\ ChainExtends(inbox_anchor', inbox_chain')
      /\ DepositsFolded(inbox_anchor', inbox_chain') = 0
      /\ payouts' \in Seq(Payout) /\ Len(payouts') = 0 /\ Queued(payouts') = 0
  BY <1>1, Standing, NothingYet
<1>3. Conserved' /\ QueuePayable'
  BY <1>1, <1>2 DEF Conserved, QueuePayable
<1> QED BY <1>1, <1>2, <1>3 DEF Replayed, TypeOK, Pinned, NoncesAhead, OneMovePerNonce

(* Every step keeps the invariant, and accounts only grow older. *)
LEMMA ReplayStep ==
  ASSUME Replayed, [Next]_vars
  PROVE  Replayed' /\ (UNCHANGED root \/ Older(root, root'))
<1>1. DepositAmounts \subseteq U64 /\ Amounts \subseteq U64 /\ Fees \subseteq U64
  BY ReplayAssumption
<1>2. ASSUME NEW sender \in Addresses, NEW receiver \in Addresses,
             NEW amount \in Amounts, NEW fee \in Fees,
             Payment(sender, receiver, amount, fee)
      PROVE  Replayed' /\ Older(root, root')
  BY <1>1, <1>2, PaymentReplays
<1>3. ASSUME NEW receiver \in Addresses, NEW amount \in DepositAmounts,
             Deposit(receiver, amount)
      PROVE  Replayed' /\ Older(root, root')
  BY <1>1, <1>3, DepositReplays
<1>4. ASSUME NEW sender \in Addresses, NEW recipient \in L1Accounts,
             NEW amount \in Amounts, NEW fee \in Fees,
             Withdrawal(sender, recipient, amount, fee)
      PROVE  Replayed' /\ Older(root, root')
  BY <1>1, <1>4, WithdrawalReplays
<1>5. ASSUME NEW address \in Addresses, NEW recipient \in L1Accounts,
             ForcedWithdrawalPaid(address, recipient)
      PROVE  Replayed' /\ Older(root, root')
  BY <1>5, ForcedReplays
<1>6. ASSUME NEW address \in Addresses, NEW recipient \in L1Accounts,
             ForcedWithdrawalDropped(address, recipient)
      PROVE  Replayed' /\ UNCHANGED root
  BY <1>6, DroppedReplays
<1>7. CASE NextBatch
  BY <1>7, NextBatchReplays
<1>8. CASE UNCHANGED vars
  BY <1>8 DEF vars, Replayed, TypeOK, Pinned, NoncesAhead, OneMovePerNonce,
              Conserved, QueuePayable
<1> QED BY <1>2, <1>3, <1>4, <1>5, <1>6, <1>7, <1>8 DEF Next

LEMMA ReplayedAlways == Spec => []Replayed
<1>1. Replayed /\ [Next]_vars => Replayed'
  BY ReplayStep
<1> QED BY <1>1, ReplayInit, PTL DEF Spec

-----------------------------------------------------------------------------
(* Whatever is in a batch, no amount and no nonce leaves u64: every add and
   every subtraction of verify_batch is covered by its check. *)
THEOREM ReplayTypeCorrect == Spec => []TypeOK
<1>1. Replayed => TypeOK
  BY DEF Replayed
<1> QED BY <1>1, ReplayedAlways, PTL

(* At each nonce of each account value leaves at most once, for any number of
   accounts, transactions and batches. *)
THEOREM NoNonceMovesTwice == Spec => []OneMovePerNonce
<1>1. Replayed => OneMovePerNonce
  BY DEF Replayed
<1> QED BY <1>1, ReplayedAlways, PTL

(* The words verify_batch commits obey the law the settlement contract relies
   on: what AlwaysSolvent assumes of a proof is what the guest guarantees. *)
THEOREM EveryBatchObeysTheLaw == Spec => []BlockLawHolds
<1>1. ASSUME Replayed PROVE BlockLawHolds
  <2>1. /\ Balances(Leaves(root)) = [a \in Addresses |-> root[a].amount]
        /\ Balances(Leaves(old_root)) = [a \in Addresses |-> old_root[a].amount]
    BY DEF Balances, Leaves
  <2>2. /\ PayoutTotal(withdrawal_chain(payouts)) = Queued(payouts)
        /\ \A i \in 1..Len(withdrawal_chain(payouts)) :
             withdrawal_chain(payouts)[i].amount >= MIN_WITHDRAWAL
    BY <1>1, Standing, QueueReversed DEF QueuePayable
  <2>3. AuthPinned(Leaves(root))
    BY <1>1, Standing DEF Pinned, AuthPinned, Leaves
  <2>4. Sum(Balances(Leaves(root))) + PayoutTotal(withdrawal_chain(payouts))
          = Sum(Balances(Leaves(old_root))) + DepositsFolded(inbox_anchor, inbox_chain)
    BY <1>1, <2>1, <2>2, Standing DEF Conserved, Funds
  <2> QED BY <1>1, <2>2, <2>3, <2>4, Standing DEF BlockLawHolds, BlockLaw
<1> QED BY <1>1, ReplayedAlways, PTL

(* No step takes an account out of the tree, hands it to another key or turns
   its nonce back. *)
THEOREM AccountsOnlyGrowOlder == Spec => HistoryGrows
<1> DEFINE Grows == \A a \in Addresses :
                      root[a] # NoAccount =>
                        /\ root'[a] # NoAccount
                        /\ root'[a].auth_address = root[a].auth_address
                        /\ root'[a].nonce >= root[a].nonce
<1>1. ASSUME Replayed, [Next]_vars PROVE [Grows]_vars
  <2>1. CASE Older(root, root')
    BY <2>1 DEF Older
  <2>2. CASE UNCHANGED root
    <3>1. \A a \in Addresses : root[a].nonce \in Nat
      BY <1>1, Standing, Fields, Numbers
    <3> QED BY <2>2, <3>1
  <2> QED BY <1>1, <2>1, <2>2, ReplayStep
<1>2. Spec => [][Grows]_vars
  <2> HIDE DEF Grows
  <2> QED BY <1>1, ReplayedAlways, PTL DEF Spec
<1> QED BY <1>2 DEF HistoryGrows
=============================================================================
