------------------------------- MODULE Merkle -------------------------------
(***************************************************************************)
(* crates/payment-rollup/src/merkle.rs: the compressed sparse Merkle tree  *)
(* the sequencer keeps, the proofs it hands out, the fold the guest checks *)
(* them with, and the fold forceExit checks them with on L1.               *)
(*                                                                         *)
(* The other modules let a state root be the map it commits to.  Here it   *)
(* is a hash, and the properties say when that is justified.  A hash is    *)
(* the term it was computed from, tag included, so two hashes are equal    *)
(* exactly when everything under them is.  An address is its bits.         *)
(***************************************************************************)
EXTENDS Naturals, Sequences

CONSTANTS
  DEPTH,           \* bits of an address: 256 in the code
  Paths,           \* the addresses in play
  Accounts,        \* what a leaf can hold
  NoAccount        \* what an empty slot holds

ASSUME MerkleAssumption ==
  /\ DEPTH \in Nat \ {0}
  /\ Paths \subseteq [1..DEPTH -> {0, 1}]
  /\ NoAccount \notin Accounts

VARIABLES
  tree,            \* SparseMerkleTree.root, a node with its cached hashes
  contents         \* history: the last write to every slot

vars == <<tree, contents>>

-----------------------------------------------------------------------------
EMPTY_SUBTREE == <<"EMPTY">>
leaf_hash(address, account) == <<"LEAF", address, account>>
node_hash(left, right) == <<"NODE", left, right>>

bit_at(address, depth) == address[depth + 1]

common_prefix_len(a, b) ==
  IF a = b THEN DEPTH
  ELSE CHOOSE n \in 0..(DEPTH - 1) :
         bit_at(a, n) # bit_at(b, n) /\ \A i \in 0..(n - 1) : bit_at(a, i) = bit_at(b, i)

(* A node holds nothing, one account, or two or more under a cached hash. *)
Empty == [kind |-> "empty"]
Leaf(address, account) ==
  [kind |-> "leaf", address |-> address, account |-> account]

hash(node) ==
  CASE node.kind = "empty"  -> EMPTY_SUBTREE
    [] node.kind = "leaf"   -> leaf_hash(node.address, node.account)
    [] node.kind = "branch" -> node.hash

(* A new branch, and what a branch is once its hash is refreshed. *)
branch(left, right) ==
  [kind |-> "branch", hash |-> node_hash(hash(left), hash(right)),
   children |-> <<left, right>>]

(* The left or the right of a pair, by the bit that was followed. *)
Beside(Join(_, _), bit, own, other) ==
  IF bit = 0 THEN Join(own, other) ELSE Join(other, own)

(* From level `from' up to level `to', joining the sibling passed at each. *)
Climb(Join(_, _), address, from, to, start, siblings) ==
  LET up[level \in 0..from] ==
        IF level = from THEN start
        ELSE Beside(Join, bit_at(address, level), up[level + 1], siblings[level + 1])
  IN up[to]

(* Two leaves just under the bit where they part, and one-child branches from
   there up to `depth'. *)
split(depth, a, b) ==
  LET at == common_prefix_len(a.address, b.address)
      pair == Beside(branch, bit_at(a.address, at), a, b)
  IN Climb(branch, a.address, at, depth, pair, [i \in 1..DEPTH |-> Empty])

Turn(address, depth) == bit_at(address, depth) + 1

(* The nodes an operation visits from the root towards an address; past the end
   of the path, the last of them again. *)
Descend(node, address) ==
  LET visit[level \in 0..DEPTH] ==
        IF level = 0 THEN node
        ELSE IF visit[level - 1].kind # "branch" THEN visit[level - 1]
        ELSE visit[level - 1].children[Turn(address, level - 1)]
  IN visit

End(path) ==
  CHOOSE n \in 0..DEPTH :
    path[n].kind # "branch" /\ \A i \in 0..(n - 1) : path[i].kind = "branch"

(* The children turned away from on the way down. *)
Passed(path, address) ==
  [i \in 1..End(path) |-> path[i - 1].children[3 - Turn(address, i - 1)]]

(* What the node at the end of the path becomes. *)
Placed(node, depth, address, account) ==
  IF node.kind = "leaf" /\ node.address # address
  THEN split(depth, node, Leaf(address, account))
  ELSE Leaf(address, account)

insert(node, address, account) ==
  LET path == Descend(node, address)
      end == End(path)
  IN Climb(branch, address, end, 0, Placed(path[end], end, address, account),
           Passed(path, address))

\* Bug: a branch over a single leaf is left standing.
collapseNothing(node) == node

(* A branch emptied down to one account or none becomes what it holds. *)
collapse(node) ==
  LET left == node.children[1]
      right == node.children[2]
  IN CASE left.kind = "empty" /\ right.kind # "branch" -> right
       [] left.kind = "leaf" /\ right.kind = "empty"  -> left
       [] OTHER -> node

shrunk(left, right) == collapse(branch(left, right))

Vacated(node, address) ==
  IF node.kind = "leaf" /\ node.address = address THEN Empty ELSE node

remove(node, address) ==
  LET path == Descend(node, address)
      end == End(path)
  IN Climb(shrunk, address, end, 0, Vacated(path[end], address),
           Passed(path, address))

-----------------------------------------------------------------------------
(* Proofs: the siblings passed on the way down, root first, and the slot the
   path runs into. *)
Own == [kind |-> "own"]
Neighbor(address, account) ==
  [kind |-> "neighbor", address |-> address, account |-> account]

prove(node, address) ==
  LET path == Descend(node, address)
      last == path[End(path)]
      passed == Passed(path, address)
  IN [siblings |-> [i \in 1..End(path) |-> hash(passed[i])],
      slot |-> IF last.kind = "leaf" /\ last.address # address
               THEN Neighbor(last.address, last.account) ELSE Own]

proof(address) == prove(tree, address)

\* Bug: the chain above the split stops a level short.
subtree_too_short(depth, address, account, slot) ==
  LET at == common_prefix_len(address, slot.address)
      pair == Beside(node_hash, bit_at(address, at), leaf_hash(address, account),
                     leaf_hash(slot.address, slot.account))
  IN Climb(node_hash, address, at, IF depth < at THEN depth + 1 ELSE depth,
           pair, [i \in 1..DEPTH |-> EMPTY_SUBTREE])

check_neighbor(address, neighbor, depth) ==
  neighbor # address /\ common_prefix_len(address, neighbor) >= depth

(* The hash of the subtree once `address' moves in beside its neighbour. *)
subtree_with_both(depth, address, account, slot) ==
  LET at == common_prefix_len(address, slot.address)
      pair == Beside(node_hash, bit_at(address, at), leaf_hash(address, account),
                     leaf_hash(slot.address, slot.account))
  IN Climb(node_hash, address, at, depth, pair, [i \in 1..DEPTH |-> EMPTY_SUBTREE])

(* The hash the path ends in, with `account' in the slot of `address'. *)
SlotHash(address, account, p) ==
  IF p.slot = Own
  THEN IF account = NoAccount THEN EMPTY_SUBTREE ELSE leaf_hash(address, account)
  ELSE IF account = NoAccount THEN leaf_hash(p.slot.address, p.slot.account)
       ELSE subtree_with_both(Len(p.siblings), address, account, p.slot)

Malformed == <<"NONE">>

\* Bug: the neighbour is not checked when absence is claimed.
root_from_any_absence(address, account, p) ==
  LET depth == Len(p.siblings)
  IN IF \/ depth > DEPTH
        \/ /\ p.slot # Own /\ account # NoAccount
           /\ ~check_neighbor(address, p.slot.address, depth)
     THEN Malformed
     ELSE Climb(node_hash, address, depth, 0, SlotHash(address, account, p), p.siblings)

root_from_proof(address, account, p) ==
  LET depth == Len(p.siblings)
  IN IF \/ depth > DEPTH
        \/ p.slot # Own /\ ~check_neighbor(address, p.slot.address, depth)
     THEN Malformed
     ELSE Climb(node_hash, address, depth, 0, SlotHash(address, account, p), p.siblings)

\* Bug: the path is read from the leaf's end of the address.
exitRootReversed(address, account, siblings) ==
  IF Len(siblings) > DEPTH THEN Malformed
  ELSE Climb(node_hash, [i \in 1..DEPTH |-> address[DEPTH + 1 - i]],
             Len(siblings), 0, leaf_hash(address, account), siblings)

(* The same fold in forceExit: a leaf of its own and nothing else. *)
exitRoot(address, account, siblings) ==
  IF Len(siblings) > DEPTH THEN Malformed
  ELSE Climb(node_hash, address, Len(siblings), 0, leaf_hash(address, account), siblings)

-----------------------------------------------------------------------------
(* SparseMerkleTree::update, with an account and without one. *)
Write(address, account) ==
  /\ tree' = insert(tree, address, account)
  /\ contents' = [contents EXCEPT ![address] = account]

Clear(address) ==
  /\ tree' = remove(tree, address)
  /\ contents' = [contents EXCEPT ![address] = NoAccount]

Init ==
  /\ tree = Empty
  /\ contents = [a \in Paths |-> NoAccount]

Next ==
  \/ \E address \in Paths, account \in Accounts : Write(address, account)
  \/ \E address \in Paths : Clear(address)

Spec == Init /\ [][Next]_vars

-----------------------------------------------------------------------------
(* The tree of a map of accounts, from the map alone: under every prefix of an
   address there is nothing, one account, or the two halves by the next bit. *)
Strings(n) == [1..n -> {0, 1}]
Prefix(address, n) == [i \in 1..n |-> address[i]]
Longer(prefix, n, bit) == [i \in 1..(n + 1) |-> IF i <= n THEN prefix[i] ELSE bit]

Under(c, n, prefix) == {a \in Paths : c[a] # NoAccount /\ Prefix(a, n) = prefix}

Subtree(c, n, prefix, below) ==
  LET held == Under(c, n, prefix)
  IN IF held = {} THEN Empty
     ELSE IF \A a, b \in held : a = b
     THEN LET a == CHOOSE a \in held : TRUE IN Leaf(a, c[a])
     ELSE branch(below[Longer(prefix, n, 0)], below[Longer(prefix, n, 1)])

Subtrees(c) ==
  LET at[n \in 0..DEPTH] ==
        [prefix \in Strings(n) |->
           Subtree(c, n, prefix, IF n = DEPTH THEN << >> ELSE at[n + 1])]
  IN at

TreeOf(c) == Subtrees(c)[0][<< >>]
RootOf(c) == hash(TreeOf(c))

(* What anyone could try to pass as a proof.  A sibling that is not a hash of
   the tree at its level cannot reproduce the root, so those and the empty
   subtree are all there is to try; the longest lists exceed an address by one. *)
HashesAt(n) ==
  LET at == Subtrees(contents)
  IN {EMPTY_SUBTREE} \cup
     IF n > DEPTH THEN {}
     ELSE {hash(at[n][s]) :
             s \in {s \in Strings(n) : at[n - 1][Prefix(s, n - 1)].kind = "branch"}}

OneMore(n, lists) == {Append(s, h) : s \in lists, h \in HashesAt(n)}

SiblingLists ==
  LET lists[n \in 0..(DEPTH + 1)] ==
        IF n = 0 THEN {<< >>} ELSE OneMore(n, lists[n - 1])
  IN lists

AllSiblings == UNION {SiblingLists[n] : n \in 0..(DEPTH + 1)}

(* Two ledgers that hold the same accounts agree on the root, however they got
   there: every insert, split, removal and collapse leaves the canonical shape
   and no cached hash behind. *)
RootIsContents == hash(tree) = RootOf(contents)

(* The witness the ledger captures before a write serves the guest twice: it
   reproduces the root for what the slot held, and the root after any write,
   the neighbour pushed down included. *)
WitnessesWork ==
  \A a \in Paths :
    /\ root_from_proof(a, contents[a], proof(a)) = RootOf(contents)
    /\ \A new \in Accounts :
         root_from_proof(a, new, proof(a)) = RootOf([contents EXCEPT ![a] = new])

(* A witness that reproduces the root tells the truth, whoever made it: the
   slot holds what it says, absence included, and the root it gives after a
   write is the root of the tree with that write and nothing else changed. *)
WitnessesAreTrue ==
  LET root == RootOf(contents)
      slots == {Own} \cup {Neighbor(b, held) : b \in Paths, held \in Accounts}
  IN \A a \in Paths, siblings \in AllSiblings, slot \in slots,
        old \in Accounts \cup {NoAccount} :
       LET p == [siblings |-> siblings, slot |-> slot]
       IN root_from_proof(a, old, p) = root =>
            /\ old = contents[a]
            /\ \A new \in Accounts :
                 root_from_proof(a, new, p) = RootOf([contents EXCEPT ![a] = new])

(* The contract's fold and the guest's accept the same paths: an account that
   is in the settled tree can be proven to forceExit, and nothing else can. *)
ExitProofsAgree ==
  \A a \in Paths :
    /\ contents[a] # NoAccount =>
         exitRoot(a, contents[a], proof(a).siblings) = RootOf(contents)
    /\ \A account \in Accounts, siblings \in AllSiblings :
         exitRoot(a, account, siblings) = RootOf(contents) => contents[a] = account
=============================================================================
