---------------------------- MODULE MCReconciler ----------------------------
(* Instances of Reconciler for TLC.                                        *)
EXTENDS Reconciler, TLC

CONSTANTS p1, p2, p3

\* Every pod object has a name of its own.
OwnName == [u \in Uid |-> u]

\* Every pod object is created under the same name, one after the other.
SameName == [u \in Uid |-> CHOOSE n \in Name : TRUE]

\* p1 and p3 share a name.
Namesakes == [u \in Uid |-> IF u = p3 THEN p1 ELSE u]

PodSymmetry == Permutations(Uid)
=============================================================================
