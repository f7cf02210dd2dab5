---------------------------- MODULE MCNodeAgent ----------------------------
(* Instances of NodeAgent for TLC.                                         *)
EXTENDS NodeAgent

CONSTANTS a1, a2, a3, home, roaming

\* The two sides of the threshold, at two addresses.
LowThenMoved == {[memory |-> 511, address |-> home],
                 [memory |-> 512, address |-> roaming]}
=============================================================================
