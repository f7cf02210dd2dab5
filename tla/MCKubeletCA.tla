---------------------------- MODULE MCKubeletCA ----------------------------
(* Instances of KubeletCA for TLC.                                         *)
EXTENDS KubeletCA

CONSTANTS a1, a2, k1, k2, k3, k4
=============================================================================
