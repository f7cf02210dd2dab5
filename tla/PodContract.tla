---------------------------- MODULE PodContract ----------------------------
(***************************************************************************)
(* What the node owes every pod bound to it, without a reconciliation loop:*)
(* one process per run of the agent, ended only for a pod that is gone, and*)
(* let go of only when the world knows how it ended.                       *)
(***************************************************************************)
EXTENDS Naturals

CONSTANT Uid

VARIABLES
  stage,  \* "waiting", "executing", "finished", "settled"
  due,    \* what the API shows: "open", "verdict", "gone"
  ended   \* pods of which some process has ended

cvars == <<stage, due, ended>>

Launch(u) ==
  /\ stage[u] = "waiting"
  /\ stage' = [stage EXCEPT ![u] = "executing"]
  /\ UNCHANGED <<due, ended>>

Finish(u) ==
  /\ stage[u] = "executing"
  /\ stage' = [stage EXCEPT ![u] = "finished"]
  /\ ended' = ended \cup {u}
  /\ UNCHANGED due

\* Only a process that has ended has a verdict.
Publish(u) ==
  /\ due[u] = "open" /\ u \in ended
  /\ due' = [due EXCEPT ![u] = "verdict"]
  /\ UNCHANGED <<stage, ended>>

\* A finished pod is let go of once nobody waits for its verdict.
Settle(S) ==
  /\ \A u \in S : stage[u] = "finished" /\ due[u] # "open"
  /\ stage' = [u \in Uid |-> IF u \in S THEN "settled" ELSE stage[u]]
  /\ UNCHANGED <<due, ended>>

\* The handle of a pod that is gone is closed, its process killed.
Kill(u) ==
  /\ due[u] = "gone" /\ stage[u] \in {"executing", "finished"}
  /\ stage' = [stage EXCEPT ![u] = "settled"]
  /\ UNCHANGED <<due, ended>>

Withdraw(u) ==
  /\ due' = [due EXCEPT ![u] = "gone"]
  /\ UNCHANGED <<stage, ended>>

\* The agent loses its memory, its processes go on and end later.
Forget ==
  /\ stage' = [u \in Uid |-> "waiting"]
  /\ UNCHANGED <<due, ended>>

LostProcessEnds(u) ==
  /\ ended' = ended \cup {u}
  /\ UNCHANGED <<stage, due>>

ContractInit ==
  /\ stage = [u \in Uid |-> "waiting"]
  /\ due = [u \in Uid |-> "open"]
  /\ ended = {}

ContractNext ==
  \/ \E u \in Uid : \/ Launch(u) \/ Finish(u) \/ Publish(u) \/ Kill(u)
                    \/ Withdraw(u) \/ LostProcessEnds(u)
  \/ \E S \in SUBSET Uid : Settle(S)
  \/ Forget

Contract == ContractInit /\ [][ContractNext]_cvars
=============================================================================
