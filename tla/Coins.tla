------------------------------- MODULE Coins -------------------------------
(***************************************************************************)
(* Adding up amounts of microALGO.                                         *)
(*                                                                         *)
(* The rollup never writes a sum down: a balance lives in a leaf, a        *)
(* deposit in a box, a payout in a chain, and what makes the system sound  *)
(* is that the totals of the three agree with what the application account *)
(* holds.  Sum(f) adds the values of a function f whose values are u64.    *)
(* It counts coins: a value of k at x is the k pairs <<x, 1>> .. <<x, k>>. *)
(* Written so, a sum is the cardinality of a set, and its laws follow from *)
(* the laws of cardinality.                                                *)
(***************************************************************************)
EXTENDS Naturals, FiniteSets

CONSTANT MAX_U64   \* the largest u64: 2^64 - 1 in the code, small in a model

ASSUME MaxU64Assumption == MAX_U64 \in Nat \ {0}

U64 == 0..MAX_U64

CoinsOf(f) == UNION {{<<x, n>> : n \in 1..f[x]} : x \in DOMAIN f}

Sum(f) == Cardinality(CoinsOf(f))
=============================================================================
