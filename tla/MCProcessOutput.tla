-------------------------- MODULE MCProcessOutput --------------------------
(* Instances of ProcessOutput for TLC.                                     *)
EXTENDS ProcessOutput

CONSTANTS w1, w2, q1, pod

\* Two workloads of one name: one pod after another, or in two namespaces.
SameName == [w \in Workload |-> pod]
\* Two workloads write into the same log, each may fill a pipe and be held up,
\* one has lines that are not UTF-8, with another one behind them; the probe
\* fills a pipe that nobody reads.
Lines ==
  [p \in Process |-> [s \in Stream |->
     CASE s = "stdout" /\ p \in {w2, q1} -> 2
       [] s = "stdout" -> 1
       [] s = "stderr" /\ p = w1 -> 2
       [] OTHER -> 0]]
=============================================================================
