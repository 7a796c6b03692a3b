------------------------------ MODULE MCReplay ------------------------------
(* Replay on two key-holding addresses, the fee sink and the zero address. *)
EXTENDS Replay, TLC

CONSTANTS a, m, sink, zero, l

SchemesOfFour == (a :> "edd") @@ (m :> "man") @@ (sink :> "none") @@ (zero :> "none")
=============================================================================
