------------------------------ MODULE MCMerkle ------------------------------
(* Four bits of address; six addresses that part at the first, the second, the
   third and the last bit, so that leaves split several levels down. *)
EXTENDS Merkle

SixPaths == {<<0, 0, 0, 0>>, <<0, 0, 0, 1>>, <<0, 0, 1, 0>>,
             <<0, 1, 1, 1>>, <<1, 1, 0, 0>>, <<1, 1, 0, 1>>}
=============================================================================
