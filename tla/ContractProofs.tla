--------------------------- MODULE ContractProofs ---------------------------
(***************************************************************************)
(* The reconciliation loop implements PodContract, for any pods and bounds:*)
(* the inductive invariant, what it says of each variable of the contract, *)
(* and the step of the contract each step of the loop is.                  *)
(***************************************************************************)
EXTENDS ReconcilerProofs

-----------------------------------------------------------------------------
(* No verdict is taken back.                                               *)

LEMMA ContractInvInit == Init => ContractInv
  BY RealInit, OnceInit
     DEF Init, ContractInv, VerdictsAreReaped, ReportsAgree,
         StartedHaveNoVerdict, IsVerdict, Outcome, Filling

\* What PatchStatus leaves behind, when the report was for that pod.
LEMMA PatchedPhase ==
  ASSUME NamesDistinct, TypeOK, NEW u \in Uid, NEW s \in Phase,
         NEW t \in Target(u), PatchStatus(t, s)
  PROVE  /\ t = u /\ Exists(u)
         /\ \A v \in Uid : v # u => phase'[v] = phase[v]
         /\ phase'[u] \in {phase[u], s}
         /\ IsVerdict(s) => phase'[u] = s
<1>1. t = u /\ Exists(u)
  BY DEF Target, NamesDistinct
<1>2. IsVerdict(s) => ~Refused(t, s)
  BY DEF IsVerdict, Outcome, Refused
<1> QED
  BY <1>1, <1>2 DEF PatchStatus, TypeOK

Final == VerdictsAreReaped /\ ReportsAgree /\ StartedHaveNoVerdict

\* A report that answers a poll agrees with the verdict there may be.
LEMMA PollAgrees ==
  ASSUME OnceInv, VerdictsAreReaped, NEW u \in running, NEW s \in Phase,
         PollChild(u, s)
  PROVE  /\ IsVerdict(phase[u]) => IsVerdict(s)
         /\ IsVerdict(s) => u \in reaped'
         /\ \A v \in reaped' : child[v] \in Outcome
         /\ reaped \subseteq reaped'
<1>1. u \in Uid /\ child[u] \in {"alive"} \cup Outcome
  BY DEF OnceInv, HandleInv, HandlesAreStarted, TypeOK
<1>2. CASE /\ s = IF child[u] = "alive" THEN "Running" ELSE child[u]
           /\ reaped' = IF child[u] = "alive" THEN reaped ELSE reaped \cup {u}
  BY <1>1, <1>2 DEF VerdictsAreReaped, IsVerdict, Outcome
<1>3. CASE s = "Unknown" /\ u \notin reaped /\ reaped' = reaped
  BY <1>1, <1>3 DEF VerdictsAreReaped, IsVerdict, Outcome
<1> QED
  BY <1>2, <1>3 DEF PollChild

\* An answered report, in 3a or 3c.
LEMMA ReportKeepsFinal ==
  ASSUME NamesDistinct, OnceInv, Final, pc \in {"refresh", "report"},
         UNCHANGED <<child, reaped, running>>, stray' = stray,
         pc' \in {"pods", "sync", "idle"}, todo' \subseteq todo,
         pc' = "pods" => pc = "refresh" /\ skip' = skip,
         \/ phase' = phase
         \/ \E t \in Target(cur) : PatchStatus(t, obs)
  PROVE  Final'
<1> USE DEF Final, OnceInv, HandleInv
<1>1. cur \in Uid /\ obs \in Phase /\ cur \in running /\ cur \notin todo
  BY DEF TypeOK, HandIsListed
<1>2. /\ \A v \in Uid : v # cur => phase'[v] = phase[v]
      /\ phase'[cur] \in {phase[cur], obs}
  BY <1>1, PatchedPhase
<1>3. VerdictsAreReaped'
  BY <1>1, <1>2 DEF VerdictsAreReaped, ReportsAgree, IsVerdict, TypeOK
<1>4. ReportsAgree'
  BY DEF ReportsAgree, NoneIsLate
<1>5. StartedHaveNoVerdict'
  BY <1>1, <1>2 DEF StartedHaveNoVerdict, IsVerdict, Filling, TypeOK
<1> QED
  BY <1>3, <1>4, <1>5

LEMMA FinalNext ==
  NamesDistinct /\ ~LateArrivals /\ OnceInv /\ Final /\ [Next]_vars => Final'
<1> SUFFICES ASSUME NamesDistinct, ~LateArrivals, OnceInv, Final, [Next]_vars
             PROVE  Final'
  OBVIOUS
<1>0. TypeOK
  BY DEF OnceInv, HandleInv
<1> USE DEF Final, VerdictsAreReaped, ReportsAgree, StartedHaveNoVerdict,
            Filling
\* A step that touches no phase, process, patch or report.
<1>a. ASSUME UNCHANGED <<phase, child, reaped, running, stray>>,
             pc' \notin {"refresh", "report"}, StartedHaveNoVerdict'
      PROVE  Final'
  BY <1>a DEF IsVerdict
<1>1. CASE ListPods
  BY <1>a, <1>1 DEF ListPods, api, device, IsVerdict
<1>2. CASE ListFails \/ UNCHANGED vars
  BY <1>2 DEF ListFails, vars, api, device, locals, IsVerdict
<1>3. ASSUME NEW u \in Uid, RefreshPod(u) \/ CheckWorkload(u) PROVE Final'
  <2>1. PICK s \in Phase : PollChild(u, s) /\ obs' = s
    BY <1>3 DEF RefreshPod, CheckWorkload
  <2>2. u \in running
    BY <1>3 DEF RefreshPod, CheckWorkload, OnceInv, HandleInv, LoopsAreBounded,
                Syncing
  <2>3. /\ cur' = u /\ pc' \in {"refresh", "report"}
        /\ UNCHANGED <<phase, child, running, stray, skip>>
        /\ todo' \subseteq todo
        /\ pc' = "refresh" => pc = "pods"
    BY <1>3 DEF RefreshPod, CheckWorkload, api
  <2> QED
    BY <2>1, <2>2, <2>3, PollAgrees DEF IsVerdict
<1>4. ASSUME NEW u \in Uid, SkipFinishedPod(u) \/ PreparePod(u) PROVE Final'
  BY <1>a, <1>4 DEF SkipFinishedPod, PreparePod, api, device, IsVerdict
<1>5. CASE GiveUpPod
  BY <1>a, <1>5 DEF GiveUpPod, api, device, IsVerdict
<1>6. CASE StartWorkload
  <2>1. cur \in Uid /\ cur \notin running /\ cur \notin reaped
    BY <1>0, <1>6 DEF StartWorkload, OnceInv, HandleInv, NewPodsAreNew,
                      HandIsListed, HandlesAreStarted, TypeOK, Outcome
  <2> QED
    BY <1>0, <1>6, <2>1 DEF StartWorkload, api, IsVerdict, TypeOK
<1>7. CASE ReportSucceeds
  BY <1>7, ReportKeepsFinal DEF ReportSucceeds, device
<1>8. CASE ReportNotFound
  BY <1>a, <1>8 DEF ReportNotFound, EndPass, api, device
<1>9. CASE ReportFails
  BY <1>9, ReportKeepsFinal DEF ReportFails, EndPass, device
<1>10. CASE BeginStop \/ BeginSync
  BY <1>a, <1>10 DEF BeginStop, BeginSync, api, device
<1>11. CASE ForgetFinished
  BY <1>0, <1>11 DEF ForgetFinished, EndPass, api, IsVerdict, TypeOK
<1>12. ASSUME NEW u \in Uid, StopWorkload(u) PROVE Final'
  BY <1>0, <1>12 DEF StopWorkload, api, IsVerdict, TypeOK
<1>13. CASE AgentDies
  <2>1. stray = {}
    BY <1>13 DEF AgentDies, OnceInv, NoneIsLate
  <2> QED
    BY <1>13, <2>1 DEF AgentDies, InFlight, IsVerdict
<1>14. CASE AgentRestarts
  BY <1>a, <1>14 DEF AgentRestarts, api, device, locals
<1>15. CASE StrayPatch
  <2>1. PICK r \in stray : stray' = stray \ {r}
    BY <1>15 DEF StrayPatch
  <2>2. pc = "down" /\ running = {} /\ stray' = {}
    BY <1>15, <2>1 DEF StrayPatch, OnceInv, HandleInv, DeathForgets
  <2> QED
    BY <1>15, <2>2 DEF StrayPatch, device, locals
<1>16. ASSUME NEW u \in Uid, ProcessExits(u) PROVE Final'
  BY <1>0, <1>16 DEF ProcessExits, api, locals, IsVerdict, TypeOK, Outcome
<1>17. ASSUME NEW u \in Uid,
              OrphanExits(u) \/ CreatePod(u) \/ DeletePod(u) \/ ForceDeletePod(u)
       PROVE  Final'
  BY <1>17 DEF OrphanExits, CreatePod, DeletePod, ForceDeletePod, api, device,
               locals, IsVerdict
<1>18. CASE SmokeTestFails \/ \E u \in Uid : MendImage(u)
  BY <1>18 DEF SmokeTestFails, MendImage, api, locals, IsVerdict
<1> QED
  BY <1>1, <1>2, <1>3, <1>4, <1>5, <1>6, <1>7, <1>8, <1>9, <1>10, <1>11, <1>12,
     <1>13, <1>14, <1>15, <1>16, <1>17, <1>18 DEF Next, Reconcile, Environment

LEMMA ContractInvNext ==
  NamesDistinct /\ ~LateArrivals /\ ContractInv /\ [Next]_vars => ContractInv'
  BY RealNext, OnceNext, FinalNext DEF ContractInv, Final

-----------------------------------------------------------------------------
(* The refinement mapping, and how a step of the loop is read as one of    *)
(* the contract.                                                           *)

stage == [u \in Uid |-> Stage(u)]
due   == [u \in Uid |-> Due(u)]
ended == {u \in Uid : outcomes[u] # {}}

ContractStep == C!ContractNext \/ UNCHANGED <<stage, due, ended>>

\* The three variables depend on three parts of the state.
LEMMA StageKeeps == UNCHANGED <<running, child, starts>> => stage' = stage
  BY DEF stage, Stage

LEMMA DueKeeps == UNCHANGED <<object, phase>> => due' = due
  BY DEF due, Due

LEMMA EndedKeeps == UNCHANGED outcomes => ended' = ended
  BY DEF ended

\* 3a starts a pod.
LEMMA StartIsLaunch == OnceInv /\ StartWorkload => ContractStep
<1> SUFFICES ASSUME OnceInv, StartWorkload PROVE ContractStep
  OBVIOUS
<1>1. cur \in Uid /\ cur \notin running /\ starts[cur] = 0
  BY DEF StartWorkload, OnceInv, HandleInv, NewPodsAreNew, HandIsListed, TypeOK
<1>2. stage[cur] = "waiting"
  BY <1>1 DEF stage, Stage
<1>3. stage' = [stage EXCEPT ![cur] = "executing"]
  BY <1>1 DEF StartWorkload, stage, Stage, OnceInv, HandleInv, TypeOK
<1>4. UNCHANGED <<due, ended>>
  BY DueKeeps, EndedKeeps DEF StartWorkload, api
<1>5. C!Launch(cur)
  BY <1>2, <1>3, <1>4 DEF C!Launch, stage, due, ended
<1> QED
  BY <1>1, <1>5 DEF ContractStep, C!ContractNext

\* A workload ends.
LEMMA ExitIsFinish ==
  ASSUME OnceInv, NEW u \in Uid, ProcessExits(u)
  PROVE  ContractStep
<1>1. PICK o \in Outcome : /\ child' = [child EXCEPT ![u] = o]
                           /\ outcomes' = [outcomes EXCEPT ![u] = @ \cup {o}]
  BY DEF ProcessExits
<1>2. u \in running /\ child[u] = "alive"
  BY DEF ProcessExits, OnceInv, HandleInv, HandlesAreStarted
<1>3. stage[u] = "executing"
  BY <1>2 DEF stage, Stage
<1>4. stage' = [stage EXCEPT ![u] = "finished"]
  <2>1. UNCHANGED <<running, starts>>
    BY DEF ProcessExits
  <2>2. /\ child'[u] # "alive"
        /\ \A v \in Uid : v # u => child'[v] = child[v]
    BY <1>1 DEF OnceInv, HandleInv, TypeOK, Outcome
  <2>3. Stage(u)' = "finished" /\ \A v \in Uid : v # u => Stage(v)' = Stage(v)
    BY <1>2, <2>1, <2>2 DEF Stage
  <2> QED
    BY <2>3 DEF stage
<1>5. ended' = ended \cup {u}
  BY <1>1 DEF ended, OnceInv, HandleInv, TypeOK
<1>6. UNCHANGED due
  BY DueKeeps DEF ProcessExits, api
<1>7. C!Finish(u)
  BY <1>3, <1>4, <1>5, <1>6 DEF C!Finish, stage, due, ended
<1> QED
  BY <1>7 DEF ContractStep, C!ContractNext

\* 3b stops a pod.
LEMMA StopIsKill ==
  ASSUME OnceInv, NEW u \in Uid, StopWorkload(u)
  PROVE  ContractStep
<1>1. object[u] = "gone"
  BY StoppedAreGone DEF StopWorkload, OnceInv
<1>2. u \in running /\ starts[u] > 0
  BY DEF StopWorkload, OnceInv, HandleInv, LoopsAreBounded, HandlesAreStarted
<1>3. due[u] = "gone" /\ stage[u] \in {"executing", "finished"}
  BY <1>1, <1>2 DEF due, Due, stage, Stage
<1>4. stage' = [stage EXCEPT ![u] = "settled"]
  <2>1. running' = running \ {u} /\ starts' = starts
    BY DEF StopWorkload
  <2>2. \A v \in Uid : v # u => child'[v] = child[v]
    BY DEF StopWorkload, OnceInv, HandleInv, TypeOK
  <2>3. Stage(u)' = "settled" /\ \A v \in Uid : v # u => Stage(v)' = Stage(v)
    BY <1>2, <2>1, <2>2 DEF Stage, OnceInv, HandleInv, TypeOK
  <2> QED
    BY <2>3 DEF stage
<1>5. UNCHANGED <<due, ended>>
  BY DueKeeps, EndedKeeps DEF StopWorkload, api
<1>6. C!Kill(u)
  BY <1>3, <1>4, <1>5 DEF C!Kill, stage, due, ended
<1> QED
  BY <1>6 DEF ContractStep, C!ContractNext

\* 3c lets go of what has finished and is reported.
LEMMA ForgetIsSettle == OnceInv /\ ForgetFinished => ContractStep
<1> SUFFICES ASSUME OnceInv, ForgetFinished PROVE ContractStep
  OBVIOUS
<1>1. finished \subseteq Uid /\ finished \subseteq running
  BY DEF OnceInv, HandleInv, TypeOK, FinishedAreReported, FinishedHaveEnded
<1>2. \A u \in finished : Settled(u) /\ child[u] \in Outcome /\ starts[u] > 0
  BY <1>1 DEF ForgetFinished, OnceInv, HandleInv, FinishedAreReported,
              FinishedHaveEnded, HandlesAreStarted
<1>3. \A u \in finished : stage[u] = "finished" /\ due[u] # "open"
  BY <1>1, <1>2 DEF stage, Stage, due, Due, Settled, Outcome
<1>4. stage' = [u \in Uid |-> IF u \in finished THEN "settled" ELSE stage[u]]
  BY <1>1, <1>2 DEF ForgetFinished, stage, Stage
<1>5. UNCHANGED <<due, ended>>
  BY DueKeeps, EndedKeeps DEF ForgetFinished, api
<1>6. C!Settle(finished)
  BY <1>3, <1>4, <1>5 DEF C!Settle, stage, due, ended
<1> QED
  BY <1>1, <1>6 DEF ContractStep, C!ContractNext

\* A patch reaches the API: in 3a, in 3c, or after the death of its sender.
LEMMA PatchIsPublish ==
  ASSUME NamesDistinct, TypeOK, NEW u \in Uid, NEW s \in Phase,
         NEW t \in Target(u), PatchStatus(t, s),
         Real(u, s), IsVerdict(phase[u]) => IsVerdict(s),
         UNCHANGED <<object, running, child, starts, outcomes>>
  PROVE  ContractStep
<1>1. /\ Exists(u) /\ \A v \in Uid : v # u => phase'[v] = phase[v]
      /\ phase'[u] \in {phase[u], s}
      /\ IsVerdict(s) => phase'[u] = s
  BY PatchedPhase
<1>2. UNCHANGED <<stage, ended>>
  BY StageKeeps, EndedKeeps
<1>3. CASE IsVerdict(s) /\ ~IsVerdict(phase[u])
  <2>1. due[u] = "open" /\ due' = [due EXCEPT ![u] = "verdict"]
    BY <1>1, <1>3 DEF due, Due, IsVerdict, Exists
  <2>2. u \in ended
    BY <1>3 DEF ended, Real, IsVerdict
  <2>3. C!Publish(u)
    BY <1>2, <2>1, <2>2 DEF C!Publish, stage, due, ended
  <2> QED
    BY <2>3 DEF ContractStep, C!ContractNext
<1>4. CASE ~(IsVerdict(s) /\ ~IsVerdict(phase[u]))
  <2>1. \A v \in Uid : IsVerdict(phase'[v]) <=> IsVerdict(phase[v])
    BY <1>1, <1>4
  <2>2. UNCHANGED due
    BY <2>1 DEF due, Due, IsVerdict
  <2> QED
    BY <1>2, <2>2 DEF ContractStep
<1> QED
  BY <1>3, <1>4

\* The agent dies; its processes are forgotten.
LEMMA DeathIsForget == TypeOK /\ AgentDies => ContractStep
<1> SUFFICES ASSUME TypeOK, AgentDies PROVE ContractStep
  OBVIOUS
<1>1. stage' = [u \in Uid |-> "waiting"]
  BY DEF AgentDies, stage, Stage
<1>2. UNCHANGED <<due, ended>>
  BY DueKeeps, EndedKeeps DEF AgentDies
<1>3. C!Forget
  BY <1>1, <1>2 DEF C!Forget, stage, due, ended
<1> QED
  BY <1>3 DEF ContractStep, C!ContractNext

LEMMA OrphanEnds ==
  ASSUME TypeOK, NEW u \in Uid, OrphanExits(u)
  PROVE  ContractStep
<1>1. ended' = ended \cup {u}
  BY DEF OrphanExits, ended, TypeOK
<1>2. UNCHANGED <<stage, due>>
  BY StageKeeps, DueKeeps DEF OrphanExits, api
<1>3. C!LostProcessEnds(u)
  BY <1>1, <1>2 DEF C!LostProcessEnds, stage, due, ended
<1> QED
  BY <1>3 DEF ContractStep, C!ContractNext

\* A pod appears or is deleted.
LEMMA DeletionIsWithdraw ==
  ASSUME TypeOK, NEW u \in Uid,
         CreatePod(u) \/ DeletePod(u) \/ ForceDeletePod(u)
  PROVE  ContractStep
<1>1. UNCHANGED <<stage, ended, phase>>
  BY StageKeeps, EndedKeeps DEF CreatePod, DeletePod, ForceDeletePod, device
<1>2. CASE object'[u] = "gone"
  <2>1. due' = [due EXCEPT ![u] = "gone"]
    BY <1>1, <1>2 DEF CreatePod, DeletePod, ForceDeletePod, due, Due, TypeOK
  <2>2. C!Withdraw(u)
    BY <1>1, <2>1 DEF C!Withdraw, stage, due, ended
  <2> QED
    BY <2>2 DEF ContractStep, C!ContractNext
<1>3. CASE object'[u] # "gone"
  <2>1. \A v \in Uid : object'[v] = "gone" <=> object[v] = "gone"
    BY <1>3 DEF CreatePod, DeletePod, ForceDeletePod, TypeOK
  <2>2. UNCHANGED due
    BY <1>1, <2>1 DEF due, Due
  <2> QED
    BY <1>1, <2>2 DEF ContractStep
<1> QED
  BY <1>2, <1>3

-----------------------------------------------------------------------------
LEMMA InitRefines == Init => C!ContractInit
  BY DEF Init, C!ContractInit, Stage, Due, Outcome

LEMMA NextRefines == NamesDistinct /\ ContractInv /\ [Next]_vars => ContractStep
<1> SUFFICES ASSUME NamesDistinct, ContractInv, [Next]_vars PROVE ContractStep
  OBVIOUS
<1>0. OnceInv /\ RealInv /\ TypeOK
  BY DEF ContractInv, OnceInv, HandleInv
\* Most steps are within the pass.
<1>a. ASSUME UNCHANGED <<object, phase, running, child, starts, outcomes>>
      PROVE  ContractStep
  BY <1>a, StageKeeps, DueKeeps, EndedKeeps DEF ContractStep
<1>1. CASE ListPods \/ ListFails \/ GiveUpPod \/ ReportNotFound \/ BeginStop
           \/ BeginSync \/ AgentRestarts \/ UNCHANGED vars
  BY <1>a, <1>1 DEF ListPods, ListFails, GiveUpPod, ReportNotFound, BeginStop,
                    BeginSync, AgentRestarts, vars, api, device
<1>2. ASSUME NEW u \in Uid, RefreshPod(u) \/ SkipFinishedPod(u) \/ PreparePod(u)
                            \/ CheckWorkload(u)
      PROVE  ContractStep
  BY <1>a, <1>2 DEF RefreshPod, SkipFinishedPod, PreparePod, CheckWorkload, api,
                    device
<1>3. CASE ReportSucceeds \/ ReportFails
  <2>1. /\ cur \in Uid /\ obs \in Phase /\ Real(cur, obs)
        /\ IsVerdict(phase[cur]) => IsVerdict(obs)
        /\ UNCHANGED <<object, running, child, starts, outcomes>>
    BY <1>0, <1>3 DEF ReportSucceeds, ReportFails, device, TypeOK, RealInv,
                      ContractInv, ReportsAgree
  <2>2. CASE phase' = phase
    BY <1>a, <2>1, <2>2
  <2>3. CASE \E t \in Target(cur) : PatchStatus(t, obs)
    BY <1>0, <2>1, <2>3, PatchIsPublish
  <2> QED
    BY <1>3, <2>2, <2>3 DEF ReportSucceeds, ReportFails
<1>4. CASE StrayPatch
  <2>1. PICK r \in stray :
          \/ phase' = phase
          \/ \E t \in Target(r.uid) : PatchStatus(t, r.phase)
    BY <1>4 DEF StrayPatch
  <2>2. /\ r.uid \in Uid /\ r.phase \in Phase /\ Real(r.uid, r.phase)
        /\ IsVerdict(phase[r.uid]) => IsVerdict(r.phase)
    BY <1>0 DEF TypeOK, Report, RealInv, ContractInv, ReportsAgree
  <2>3. UNCHANGED <<object, running, child, starts, outcomes>>
    BY <1>4 DEF StrayPatch, device
  <2>4. CASE phase' = phase
    BY <1>a, <2>3, <2>4
  <2>5. CASE \E t \in Target(r.uid) : PatchStatus(t, r.phase)
    BY <1>0, <2>2, <2>3, <2>5, PatchIsPublish
  <2> QED
    BY <2>1, <2>4, <2>5
<1>5. CASE SmokeTestFails \/ \E u \in Uid : MendImage(u)
  BY <1>a, <1>5 DEF SmokeTestFails, MendImage, api
<1> QED
  BY <1>0, <1>1, <1>2, <1>3, <1>4, <1>5, StartIsLaunch, ExitIsFinish, StopIsKill,
     ForgetIsSettle, DeathIsForget, OrphanEnds, DeletionIsWithdraw
     DEF Next, Reconcile, Environment

\* The loop implements the contract for every pod bound to the node: one
\* launch per run of the agent, a verdict that comes from a process of the pod
\* and is never taken back, a handle that is closed only with the verdict
\* published or the pod gone.  Names are used once and no patch outlives its
\* agent; with either, the loop breaks the contract.
THEOREM ImplementsContract ==
  NamesDistinct /\ ~LateArrivals => (Spec => KeepsContract)
<1> SUFFICES ASSUME NamesDistinct, ~LateArrivals PROVE Spec => KeepsContract
  OBVIOUS
<1>1. ContractInv /\ [Next]_vars => ContractInv'
  BY ContractInvNext
<1>2. ContractInv /\ [Next]_vars => [C!ContractNext]_(C!cvars)
  BY NextRefines DEF ContractStep, C!cvars, stage, due, ended
<1> QED
  BY InitRefines, ContractInvInit, <1>1, <1>2, PTL
     DEF Spec, KeepsContract, C!Contract
=============================================================================
