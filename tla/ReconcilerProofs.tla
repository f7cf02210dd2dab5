-------------------------- MODULE ReconcilerProofs --------------------------
(* Theorems about Reconciler, for any pods, names and bounds.              *)
EXTENDS Reconciler, TLAPS

USE ReconcilerAssumption

-----------------------------------------------------------------------------
(* Type correctness.                                                       *)

LEMMA TypeInit == Init => TypeOK
  BY DEF Init, TypeOK, Phase, Outcome, Report, PC

\* A patch, refused or not, leaves phases and containerStatuses well typed.
LEMMA PatchTyped ==
  ASSUME TypeOK, NEW t \in Uid, NEW s \in Phase, PatchStatus(t, s)
  PROVE  phase' \in [Uid -> Phase] /\ cterm' \in [Uid -> BOOLEAN]
<1>1. CASE Refused(t, s)
  BY <1>1 DEF TypeOK, PatchStatus
<1>2. CASE ~Refused(t, s)
  <2> DEFINE terminated == s # "Running"
  <2>1. phase' = [phase EXCEPT ![t] = s] /\ cterm' = [cterm EXCEPT ![t] = terminated]
    BY <1>2 DEF PatchStatus
  <2>2. terminated \in BOOLEAN
    OBVIOUS
  <2> HIDE DEF terminated
  <2> QED
    BY <2>1, <2>2 DEF TypeOK
<1> QED
  BY <1>1, <1>2

\* So do the pods a lost layer breaks.
LEMMA BrokenTyped ==
  ASSUME TypeOK, NEW u \in Uid, LayerIsLost(u)
  PROVE  broken' \subseteq Uid
  BY DEF TypeOK, LayerIsLost

LEMMA TypeNext == TypeOK /\ [Next]_vars => TypeOK'
<1> SUFFICES ASSUME TypeOK, [Next]_vars PROVE TypeOK'
  OBVIOUS
<1> USE DEF TypeOK, Outcome, Phase, PC, Report
<1>1. CASE ListPods
  BY <1>1 DEF ListPods, api, device, counts
<1>2. CASE ListFails
  BY <1>2 DEF ListFails, Fault, api, device, locals
<1>3. ASSUME NEW u \in Uid, RefreshPod(u) PROVE TypeOK'
  BY <1>3 DEF RefreshPod, PollChild, Fault, api
<1>4. ASSUME NEW u \in Uid, SkipFinishedPod(u) PROVE TypeOK'
  BY <1>4 DEF SkipFinishedPod, api, device, counts
<1>5. ASSUME NEW u \in Uid, PreparePod(u) PROVE TypeOK'
  BY <1>5 DEF PreparePod, api, device, counts
<1>6. CASE GiveUpPod
  <2>1. cur \in Uid
    BY <1>6 DEF GiveUpPod
  <2>2. broken' \subseteq Uid /\ faults' \in 0 .. MaxFaults
    BY <1>6, <2>1, BrokenTyped DEF GiveUpPod, PrepareFails, Fault
  <2> QED
    BY <1>6, <2>2 DEF GiveUpPod, api
<1>7. CASE StartWorkload
  BY <1>7 DEF StartWorkload, api, counts
<1>8. CASE ReportSucceeds
  BY <1>8 DEF ReportSucceeds, PatchStatus, Target, device, counts
<1>9. CASE ReportNotFound
  BY <1>9 DEF ReportNotFound, EndPass, api, device, counts
<1>10. CASE ReportFails
  <2>1. phase' \in [Uid -> Phase] /\ cterm' \in [Uid -> BOOLEAN]
    BY <1>10, PatchTyped DEF ReportFails, Target
  <2> QED
    BY <1>10, <2>1 DEF ReportFails, EndPass, Fault, device
<1>11. CASE BeginStop
  BY <1>11 DEF BeginStop, api, device, counts
<1>12. CASE BeginSync
  BY <1>12 DEF BeginSync, api, device, counts
<1>13. CASE ForgetFinished
  BY <1>13 DEF ForgetFinished, EndPass, api, counts
<1>14. ASSUME NEW u \in Uid, StopWorkload(u) PROVE TypeOK'
  BY <1>14 DEF StopWorkload, api, counts
<1>15. ASSUME NEW u \in Uid, CheckWorkload(u) PROVE TypeOK'
  BY <1>15 DEF CheckWorkload, PollChild, Fault, api
<1>16. CASE AgentDies
  <2>1. broken' \subseteq Uid
    BY <1>16, BrokenTyped DEF AgentDies
  <2> QED
    BY <1>16, <2>1 DEF AgentDies, InFlight
<1>17. CASE AgentRestarts
  BY <1>17 DEF AgentRestarts, api, device, locals, counts
<1>18. CASE StrayPatch
  BY <1>18 DEF StrayPatch, PatchStatus, Target, device, locals, counts
<1>19. ASSUME NEW u \in Uid, ProcessExits(u) PROVE TypeOK'
  BY <1>19 DEF ProcessExits, api, locals, counts
<1>20. ASSUME NEW u \in Uid, OrphanExits(u) PROVE TypeOK'
  BY <1>20 DEF OrphanExits, api, locals, counts
<1>21. ASSUME NEW u \in Uid, CreatePod(u) PROVE TypeOK'
  BY <1>21 DEF CreatePod, device, locals, counts
<1>22. ASSUME NEW u \in Uid, DeletePod(u) PROVE TypeOK'
  BY <1>22 DEF DeletePod, device, locals, counts
<1>23. ASSUME NEW u \in Uid, ForceDeletePod(u) PROVE TypeOK'
  BY <1>23 DEF ForceDeletePod, device, locals, counts
<1>24. CASE UNCHANGED vars
  BY <1>24 DEF vars, api, device, locals, counts
<1>25. CASE SmokeTestFails
  <2>1. broken' \subseteq Uid
    BY <1>25, BrokenTyped DEF SmokeTestFails
  <2> QED
    BY <1>25, <2>1 DEF SmokeTestFails, Fault, api, locals
<1>26. ASSUME NEW u \in Uid, MendImage(u) PROVE TypeOK'
  BY <1>26 DEF MendImage, api, locals, counts
<1> QED
  BY <1>1, <1>2, <1>3, <1>4, <1>5, <1>6, <1>7, <1>8, <1>9, <1>10, <1>11,
     <1>12, <1>13, <1>14, <1>15, <1>16, <1>17, <1>18, <1>19, <1>20, <1>21,
     <1>22, <1>23, <1>24, <1>25, <1>26 DEF Next, Reconcile, Environment

\* Every reachable state of the loop, the API and the device is well typed,
\* and the hand of the loop holds a pod wherever the code uses one.
THEOREM TypeCorrect == Spec => []TypeOK
  BY TypeInit, TypeNext, PTL DEF Spec

-----------------------------------------------------------------------------
(* Verdicts.                                                               *)

LEMMA RealInit == Init => RealInv
  BY TypeInit DEF Init, RealInv, VerdictIsReal, Real, Outcome

\* A patch with a real phase, sent to the pod that has the name, keeps every
\* published verdict real.
LEMMA PatchKeepsReal ==
  ASSUME NamesDistinct, TypeOK, VerdictIsReal, outcomes' = outcomes,
         NEW u \in Uid, NEW s \in Phase, Real(u, s),
         NEW t \in Target(u), PatchStatus(t, s)
  PROVE  VerdictIsReal'
<1>1. t = u
  BY DEF Target, NamesDistinct
<1>2. \A v \in Uid : phase'[v] \in {phase[v], IF v = u THEN s ELSE phase[v]}
  BY <1>1 DEF PatchStatus, TypeOK
<1> QED
  BY <1>2 DEF VerdictIsReal, Real

LEMMA RealNext == NamesDistinct /\ RealInv /\ [Next]_vars => RealInv'
<1> SUFFICES ASSUME NamesDistinct, RealInv, [Next]_vars PROVE RealInv'
  OBVIOUS
<1> USE DEF RealInv
<1>0. TypeOK'
  BY TypeNext
<1> DEFINE Sources == /\ \A u \in Uid : Real(u, child[u])
                      /\ \A r \in stray : Real(r.uid, r.phase)
           InHand == pc \in {"refresh", "report"} => Real(cur, obs)
\* A step that touches no phase, outcome, process, patch or report.
<1>1. ASSUME UNCHANGED <<phase, child, outcomes, stray>>, InHand'
      PROVE  RealInv'
  BY <1>0, <1>1 DEF VerdictIsReal, Real
<1>2. CASE ListPods
  BY <1>1, <1>2 DEF ListPods, api, device
<1>3. CASE ListFails
  BY <1>1, <1>3 DEF ListFails, api, device, locals, Real
<1>4. ASSUME NEW u \in Uid, RefreshPod(u) \/ CheckWorkload(u) PROVE RealInv'
  <2>1. PICK s \in Phase : PollChild(u, s) /\ obs' = s
    BY <1>4 DEF RefreshPod, CheckWorkload
  <2>2. Real(u, s)
    BY <2>1 DEF PollChild, Real, Outcome
  <2>3. cur' = u /\ UNCHANGED <<phase, child, outcomes, stray>>
    BY <1>4 DEF RefreshPod, CheckWorkload, api
  <2> QED
    BY <1>1, <2>1, <2>2, <2>3 DEF Real
<1>5. ASSUME NEW u \in Uid, SkipFinishedPod(u) \/ PreparePod(u) PROVE RealInv'
  BY <1>1, <1>5 DEF SkipFinishedPod, PreparePod, api, device
<1>6. CASE GiveUpPod
  BY <1>1, <1>6 DEF GiveUpPod, api, device
<1>7. CASE StartWorkload
  BY <1>0, <1>7 DEF StartWorkload, api, VerdictIsReal, Real, Outcome, TypeOK
<1>8. CASE ReportSucceeds \/ ReportFails
  <2>1. outcomes' = outcomes /\ child' = child /\ stray' = stray
        /\ pc' \notin {"refresh", "report"}
    BY <1>8 DEF ReportSucceeds, ReportFails, EndPass, device
  <2>2. cur \in Uid /\ obs \in Phase /\ Real(cur, obs)
    BY <1>8 DEF ReportSucceeds, ReportFails, TypeOK
  <2>3. \/ phase' = phase
        \/ \E t \in Target(cur) : PatchStatus(t, obs)
    BY <1>8 DEF ReportSucceeds, ReportFails
  <2>4. VerdictIsReal'
    BY <2>1, <2>2, <2>3, PatchKeepsReal DEF VerdictIsReal
  <2> QED
    BY <1>0, <2>1, <2>4 DEF Real
<1>9. CASE ReportNotFound
  BY <1>1, <1>9 DEF ReportNotFound, EndPass, api, device
<1>10. CASE BeginStop \/ BeginSync
  BY <1>1, <1>10 DEF BeginStop, BeginSync, api, device
<1>11. CASE ForgetFinished
  BY <1>0, <1>11 DEF ForgetFinished, EndPass, api, VerdictIsReal, Real, Outcome
<1>12. ASSUME NEW u \in Uid, StopWorkload(u) PROVE RealInv'
  BY <1>0, <1>12 DEF StopWorkload, api, VerdictIsReal, Real, Outcome, TypeOK
<1>13. CASE AgentDies
  <2>1. \A r \in InFlight : Real(r.uid, r.phase)
    BY DEF InFlight
  <2> QED
    BY <1>0, <1>13, <2>1 DEF AgentDies, VerdictIsReal, Real, Outcome
<1>14. CASE AgentRestarts
  BY <1>1, <1>14 DEF AgentRestarts, api, device, locals
<1>15. CASE StrayPatch
  <2>1. PICK r \in stray :
          /\ stray' = stray \ {r}
          /\ \/ phase' = phase
             \/ \E t \in Target(r.uid) : PatchStatus(t, r.phase)
    BY <1>15 DEF StrayPatch
  <2>2. r.uid \in Uid /\ r.phase \in Phase /\ Real(r.uid, r.phase)
    BY DEF TypeOK, Report
  <2>3. UNCHANGED <<outcomes, child, pc, cur, obs>>
    BY <1>15 DEF StrayPatch, device, locals
  <2>4. VerdictIsReal'
    BY <2>1, <2>2, <2>3, PatchKeepsReal DEF VerdictIsReal
  <2> QED
    BY <1>0, <2>1, <2>3, <2>4 DEF Real
<1>16. ASSUME NEW u \in Uid, ProcessExits(u) PROVE RealInv'
  <2>1. PICK o \in Outcome :
          /\ child' = [child EXCEPT ![u] = o]
          /\ outcomes' = [outcomes EXCEPT ![u] = @ \cup {o}]
    BY <1>16 DEF ProcessExits
  <2>2. /\ \A v \in Uid : outcomes[v] \subseteq outcomes'[v]
        /\ o \in outcomes'[u]
    BY <2>1 DEF TypeOK
  <2>3. UNCHANGED <<phase, stray, pc, cur, obs>>
    BY <1>16 DEF ProcessExits, api, locals
  <2>4. Sources' /\ InHand'
    BY <2>1, <2>2, <2>3 DEF Real, TypeOK, Report
  <2> QED
    BY <1>0, <2>2, <2>3, <2>4 DEF VerdictIsReal
<1>17. ASSUME NEW u \in Uid, OrphanExits(u) PROVE RealInv'
  <2>1. \A v \in Uid : outcomes[v] \subseteq outcomes'[v]
    BY <1>17 DEF OrphanExits, TypeOK
  <2>2. UNCHANGED <<phase, child, stray, pc, cur, obs>>
    BY <1>17 DEF OrphanExits, api, locals
  <2>3. Sources' /\ InHand'
    BY <2>1, <2>2 DEF Real, TypeOK, Report
  <2> QED
    BY <1>0, <2>1, <2>2, <2>3 DEF VerdictIsReal
<1>18. ASSUME NEW u \in Uid, CreatePod(u) \/ DeletePod(u) \/ ForceDeletePod(u)
       PROVE  RealInv'
  BY <1>1, <1>18 DEF CreatePod, DeletePod, ForceDeletePod, device, locals, Real
<1>19. CASE UNCHANGED vars
  BY <1>1, <1>19 DEF vars, api, device, locals, Real
<1>20. CASE SmokeTestFails \/ \E u \in Uid : MendImage(u)
  BY <1>1, <1>20 DEF SmokeTestFails, MendImage, api, locals, Real
<1> QED
  BY <1>2, <1>3, <1>4, <1>5, <1>6, <1>7, <1>8, <1>9, <1>10, <1>11, <1>12,
     <1>13, <1>14, <1>15, <1>16, <1>17, <1>18, <1>19, <1>20
     DEF Next, Reconcile, Environment

\* If no name is ever used twice, a terminal phase in the API is the way a
\* process of that pod has ended, whatever fails, dies or arrives late.
THEOREM VerdictsAreReal == NamesDistinct => (Spec => []VerdictIsReal)
<1> SUFFICES ASSUME NamesDistinct PROVE Spec => []VerdictIsReal
  OBVIOUS
<1>1. RealInv /\ [Next]_vars => RealInv'
  BY RealNext
<1>2. RealInv => VerdictIsReal
  BY DEF RealInv
<1> QED
  BY RealInit, <1>1, <1>2, PTL DEF Spec

-----------------------------------------------------------------------------
(* Handles.                                                                *)

LEMMA HandleInit == Init => HandleInv
  BY TypeInit
     DEF Init, HandleInv, DeathForgets, HandlesAreStarted, StartedAreListed,
         LoopsAreBounded, HandIsListed, FinishedHaveEnded, Exists, Filling, Syncing, PC

\* What 3b is about to stop is gone: it has a handle, so it was started, and a
\* started pod that exists is listed.
LEMMA StoppedAreGone ==
  HandleInv /\ pc = "stop" => \A u \in todo : object[u] = "gone"
<1> SUFFICES ASSUME HandleInv, pc = "stop", NEW u \in todo
             PROVE  object[u] = "gone"
  OBVIOUS
<1>1. u \in Uid /\ u \in running /\ u \notin desired
  BY DEF HandleInv, LoopsAreBounded, TypeOK
<1>2. starts[u] > 0
  BY <1>1 DEF HandleInv, HandlesAreStarted
<1>3. ~Exists(u)
  BY <1>1, <1>2 DEF HandleInv, StartedAreListed
<1>4. object[u] # "none"
  BY <1>1, <1>2 DEF HandleInv, StartedAreListed
<1> QED
  BY <1>1, <1>3, <1>4 DEF HandleInv, TypeOK, Exists

LEMMA HandleNext == HandleInv /\ [Next]_vars => HandleInv'
<1> SUFFICES ASSUME HandleInv, [Next]_vars PROVE HandleInv'
  OBVIOUS
<1>0. TypeOK /\ TypeOK'
  BY TypeNext DEF HandleInv
<1> USE DEF HandleInv, DeathForgets, HandlesAreStarted, StartedAreListed,
            LoopsAreBounded, HandIsListed, FinishedHaveEnded, Exists, Filling,
            Syncing, Outcome
<1>1. CASE ListPods
  BY <1>0, <1>1 DEF ListPods, api, device, TypeOK
<1>2. CASE ListFails
  BY <1>0, <1>2 DEF ListFails, api, device, locals
<1>3. ASSUME NEW u \in Uid, RefreshPod(u) PROVE HandleInv'
  BY <1>0, <1>3 DEF RefreshPod, api
<1>4. ASSUME NEW u \in Uid, SkipFinishedPod(u) \/ PreparePod(u) PROVE HandleInv'
  BY <1>0, <1>4 DEF SkipFinishedPod, PreparePod, api, device
<1>5. CASE GiveUpPod
  BY <1>0, <1>5 DEF GiveUpPod, api, device
<1>6. CASE StartWorkload
  BY <1>0, <1>6 DEF StartWorkload, api, TypeOK
\* A report changes phases, which no handle depends on.
<1>7. CASE ReportSucceeds
  BY <1>0, <1>7 DEF ReportSucceeds, device
<1>8. CASE ReportNotFound
  BY <1>0, <1>8 DEF ReportNotFound, EndPass, api, device
<1>9. CASE ReportFails
  BY <1>0, <1>9 DEF ReportFails, EndPass, device
<1>10. CASE BeginStop \/ BeginSync
  BY <1>0, <1>10 DEF BeginStop, BeginSync, api, device
<1>11. CASE ForgetFinished
  BY <1>0, <1>11 DEF ForgetFinished, EndPass, api, TypeOK
<1>12. ASSUME NEW u \in Uid, StopWorkload(u) PROVE HandleInv'
  BY <1>0, <1>12 DEF StopWorkload, api, TypeOK
<1>13. ASSUME NEW u \in Uid, CheckWorkload(u) PROVE HandleInv'
  BY <1>0, <1>13 DEF CheckWorkload, PollChild, api, TypeOK
<1>14. CASE AgentDies
  BY <1>0, <1>14 DEF AgentDies
<1>15. CASE AgentRestarts
  BY <1>0, <1>15 DEF AgentRestarts, api, device, locals
<1>16. CASE StrayPatch
  BY <1>0, <1>16 DEF StrayPatch, device, locals
<1>17. ASSUME NEW u \in Uid, ProcessExits(u) PROVE HandleInv'
  BY <1>0, <1>17 DEF ProcessExits, api, locals, TypeOK
<1>18. ASSUME NEW u \in Uid, OrphanExits(u) PROVE HandleInv'
  BY <1>0, <1>18 DEF OrphanExits, api, locals
\* A pod that appears has not been started.
<1>19. ASSUME NEW u \in Uid, CreatePod(u) PROVE HandleInv'
  <2>1. object[u] = "none" /\ starts[u] = 0
    BY <1>19 DEF CreatePod
  <2>2. \A v \in Uid : v # u => object'[v] = object[v]
    BY <1>0, <1>19 DEF CreatePod, TypeOK
  <2>3. object'[u] = "live"
    BY <1>0, <1>19 DEF CreatePod, TypeOK
  <2>4. /\ UNCHANGED <<device, pc, running, locals>>
    BY <1>19 DEF CreatePod
  <2> QED
    BY <1>0, <2>1, <2>2, <2>3, <2>4 DEF device, locals
<1>20. ASSUME NEW u \in Uid, DeletePod(u) \/ ForceDeletePod(u) PROVE HandleInv'
  BY <1>0, <1>20 DEF DeletePod, ForceDeletePod, device, locals, TypeOK
<1>21. CASE UNCHANGED vars
  BY <1>0, <1>21 DEF vars, api, device, locals
<1>22. CASE SmokeTestFails \/ \E u \in Uid : MendImage(u)
  BY <1>0, <1>22 DEF SmokeTestFails, MendImage, api, locals
<1> QED
  BY <1>1, <1>2, <1>3, <1>4, <1>5, <1>6, <1>7, <1>8, <1>9, <1>10, <1>11,
     <1>12, <1>13, <1>14, <1>15, <1>16, <1>17, <1>18, <1>19, <1>20, <1>21,
     <1>22
     DEF Next, Reconcile, Environment

\* No pass of the loop lets go of a process that is alive: only the death of
\* the agent leaves processes without a handle.
THEOREM OrphansAreOfTheDead == Spec => OrphansOnlyByDeath
<1> DEFINE Step == \A u \in Uid : orphans'[u] > orphans[u] => pc' = "down"
<1>1. HandleInv /\ [Next]_vars => [Step]_vars
  <2> SUFFICES ASSUME HandleInv, Next PROVE Step
    OBVIOUS
  <2>1. \A u \in Uid : orphans[u] \in Nat
    BY DEF HandleInv, TypeOK
  <2>2. ASSUME orphans' = orphans PROVE Step
    BY <2>1, <2>2
  <2>3. CASE StartWorkload
    <3>1. child[cur] = "none"
      BY <2>3 DEF StartWorkload, HandleInv, HandIsListed, HandlesAreStarted, TypeOK
    <3> QED
      BY <2>2, <2>3, <3>1 DEF StartWorkload
  <2>4. CASE ForgetFinished
    <3>1. \A u \in finished : child[u] # "alive"
      BY DEF HandleInv, FinishedHaveEnded, Outcome
    <3> QED
      BY <2>1, <2>4, <3>1 DEF ForgetFinished
  <2>5. ASSUME NEW u \in Uid, OrphanExits(u) PROVE Step
    <3>1. \A v \in Uid : orphans'[v] \in {orphans[v], orphans[v] - 1}
      BY <2>5 DEF OrphanExits, HandleInv, TypeOK
    <3> QED
      BY <2>1, <3>1
  <2>6. CASE AgentDies
    BY <2>6 DEF AgentDies
  <2> QED
    BY <2>2, <2>3, <2>4, <2>5, <2>6
       DEF Next, Reconcile, Environment, ListPods, ListFails, RefreshPod,
           SkipFinishedPod, PreparePod, GiveUpPod, ReportSucceeds,
           ReportNotFound, ReportFails, BeginStop, BeginSync, StopWorkload,
           CheckWorkload, AgentRestarts, StrayPatch, ProcessExits, CreatePod,
           DeletePod, ForceDeletePod, SmokeTestFails, MendImage, device
<1> QED
  BY HandleInit, HandleNext, <1>1, PTL DEF Spec, OrphansOnlyByDeath

\* While it is up, the agent takes the process only of pods that are gone.
THEOREM StopsOnlyTheGone == Spec => StopOnlyUndesired
<1> DEFINE Step == \A u \in Uid : /\ child[u] = "alive" /\ child'[u] = "none"
                                  /\ pc' # "down"
                                  => object[u] = "gone"
<1>1. HandleInv /\ [Next]_vars => [Step]_vars
  <2> SUFFICES ASSUME HandleInv, Next PROVE Step
    OBVIOUS
  <2>1. ASSUME child' = child PROVE Step
    BY <2>1
  <2>2. CASE StartWorkload
    BY <2>2 DEF StartWorkload, HandleInv, TypeOK
  <2>3. CASE ForgetFinished
    <3>1. \A u \in finished : child[u] # "alive"
      BY DEF HandleInv, FinishedHaveEnded, Outcome
    <3> QED
      BY <2>3, <3>1 DEF ForgetFinished
  <2>4. ASSUME NEW u \in Uid, StopWorkload(u) PROVE Step
    <3>1. object[u] = "gone"
      BY <2>4, StoppedAreGone DEF StopWorkload
    <3>2. \A v \in Uid : v # u => child'[v] = child[v]
      BY <2>4 DEF StopWorkload, HandleInv, TypeOK
    <3> QED
      BY <3>1, <3>2
  <2>5. ASSUME NEW u \in Uid, ProcessExits(u) PROVE Step
    BY <2>5 DEF ProcessExits, HandleInv, TypeOK, Outcome
  <2>6. CASE AgentDies
    BY <2>6 DEF AgentDies
  <2> QED
    BY <2>1, <2>2, <2>3, <2>4, <2>5, <2>6
       DEF Next, Reconcile, Environment, ListPods, ListFails, RefreshPod,
           SkipFinishedPod, PreparePod, GiveUpPod, ReportSucceeds,
           ReportNotFound, ReportFails, BeginStop, BeginSync, CheckWorkload,
           AgentRestarts, StrayPatch, OrphanExits, CreatePod, DeletePod,
           ForceDeletePod, SmokeTestFails, MendImage, device
<1> QED
  BY HandleInit, HandleNext, <1>1, PTL DEF Spec, StopOnlyUndesired

-----------------------------------------------------------------------------
(* One start per run of the agent.                                         *)

LEMMA OnceInit == Init => OnceInv
  BY HandleInit
     DEF Init, OnceInv, RunOnce, NoneIsLate, NamesInUse, NewPodsAreNew,
         ForgottenAreSettled, FinishedAreReported, Exists, Filling

LEMMA OnceNext == ~LateArrivals /\ OnceInv /\ [Next]_vars => OnceInv'
<1> SUFFICES ASSUME ~LateArrivals, OnceInv, [Next]_vars PROVE OnceInv'
  OBVIOUS
<1>0. TypeOK /\ HandleInv'
  BY HandleNext DEF OnceInv, HandleInv
<1> USE DEF OnceInv, RunOnce, NoneIsLate, NamesInUse, NewPodsAreNew,
            ForgottenAreSettled, FinishedAreReported, Exists, Settled, Filling,
            Syncing, Outcome
<1>a. /\ DeathForgets /\ HandlesAreStarted /\ StartedAreListed
      /\ LoopsAreBounded /\ HandIsListed /\ FinishedHaveEnded
  BY DEF HandleInv
<1> USE <1>a DEF DeathForgets, HandlesAreStarted, StartedAreListed, LoopsAreBounded,
                 HandIsListed, FinishedHaveEnded
<1>1. CASE ListPods
  <2>1. RunOnce'
    BY <1>0, <1>1 DEF ListPods, api, device
  <2>2. NoneIsLate'
    BY <1>0, <1>1 DEF ListPods, api, device
  <2>3. NamesInUse'
    BY <1>0, <1>1 DEF ListPods, api, device
  <2>4. NewPodsAreNew'
    <3>1. \A u \in Uid : Exists(u) /\ u \notin running /\ phase[u] \notin Outcome
                        => starts[u] = 0
      BY <1>0, <1>1 DEF ListPods, TypeOK
    <3> QED
      BY <1>0, <1>1, <3>1 DEF ListPods, api, device
  <2>5. ForgottenAreSettled'
    BY <1>0, <1>1 DEF ListPods, api, device
  <2>6. FinishedAreReported'
    BY <1>0, <1>1 DEF ListPods, api, device
  <2> QED
    BY <1>0, <2>1, <2>2, <2>3, <2>4, <2>5, <2>6
<1>2. CASE ListFails
  BY <1>0, <1>2 DEF ListFails, api, device, locals
<1>3. ASSUME NEW u \in Uid, RefreshPod(u) PROVE OnceInv'
  BY <1>0, <1>3 DEF RefreshPod, api
<1>4. ASSUME NEW u \in Uid, SkipFinishedPod(u) PROVE OnceInv'
  BY <1>0, <1>4 DEF SkipFinishedPod, api, device
<1>5. ASSUME NEW u \in Uid, PreparePod(u) PROVE OnceInv'
  BY <1>0, <1>5 DEF PreparePod, api, device
<1>6. CASE GiveUpPod
  BY <1>0, <1>6 DEF GiveUpPod, api, device
<1>7. CASE StartWorkload
  BY <1>0, <1>7 DEF StartWorkload, api, TypeOK
<1>8. CASE ReportSucceeds
  <2>1. RunOnce'
    BY <1>0, <1>8 DEF ReportSucceeds, device, PatchStatus, Target, Refused, TypeOK
  <2>2. NoneIsLate'
    BY <1>0, <1>8 DEF ReportSucceeds, device, PatchStatus, Target, Refused, TypeOK
  <2>3. NamesInUse'
    BY <1>0, <1>8 DEF ReportSucceeds, device, PatchStatus, Target, Refused, TypeOK
  <2>4. NewPodsAreNew'
    BY <1>0, <1>8 DEF ReportSucceeds, device, PatchStatus, Target, Refused, TypeOK
  <2>5. ForgottenAreSettled'
    BY <1>0, <1>8 DEF ReportSucceeds, device, PatchStatus, Target, Refused, TypeOK
  <2>6. FinishedAreReported'
    <3>1. PICK t \in Target(cur) : PatchStatus(t, obs)
      BY <1>8 DEF ReportSucceeds
    <3>2. /\ UNCHANGED <<object, device, running, todo, finished>>
          /\ pc' \in {"pods", "sync"}
          /\ pc = "refresh" <=> pc' = "pods"
          /\ pc \in {"refresh", "report"}
      BY <1>8 DEF ReportSucceeds
    <3>3. cur \in desired /\ cur \in Uid
      BY <1>0, <3>2 DEF TypeOK
    <3>4. ASSUME \A u \in finished : Settled(u)' PROVE FinishedAreReported'
      BY <3>2, <3>4 DEF device
    \* The patch of a pod that no longer exists lands on one not listed.
    <3>5. CASE t # cur
      <4>1. Exists(t) /\ t \in Uid /\ NameOf[t] = NameOf[cur]
        BY <3>1 DEF Target
      <4>2. ~Exists(cur) /\ t \notin desired
        BY <3>3, <3>5, <4>1
      <4>3. object[cur] = "gone"
        BY <1>0, <3>3, <4>2 DEF TypeOK
      <4>4. \A u \in Uid : u # t => phase'[u] = phase[u]
        BY <1>0, <3>1 DEF PatchStatus, TypeOK
      <4>5. \A u \in finished : Settled(u)'
        BY <1>0, <3>2, <4>2, <4>3, <4>4 DEF TypeOK
      <4> QED
        BY <3>4, <4>5
    <3>6. CASE t = cur
      <4>1. \A u \in Uid : u # cur => phase'[u] = phase[u]
        BY <1>0, <3>1, <3>6 DEF PatchStatus, TypeOK
      <4>2. obs \in Outcome => phase'[cur] = obs
        BY <1>0, <3>1, <3>3, <3>6 DEF PatchStatus, Refused, TypeOK
      <4>3. \A u \in finished : Settled(u)'
        BY <1>0, <3>2, <4>1, <4>2 DEF TypeOK
      <4> QED
        BY <3>4, <4>3
    <3> QED
      BY <3>5, <3>6
  <2> QED
    BY <1>0, <2>1, <2>2, <2>3, <2>4, <2>5, <2>6
<1>9. CASE ReportNotFound
  BY <1>0, <1>9 DEF ReportNotFound, EndPass, api, device
<1>10. CASE ReportFails
  BY <1>0, <1>10 DEF ReportFails, EndPass, device, PatchStatus, Target, Refused, TypeOK
<1>11. CASE BeginStop
  BY <1>0, <1>11 DEF BeginStop, api, device
<1>12. CASE BeginSync
  BY <1>0, <1>12 DEF BeginSync, api, device
<1>13. CASE ForgetFinished
  BY <1>0, <1>13 DEF ForgetFinished, EndPass, api, TypeOK
<1>14. ASSUME NEW u \in Uid, StopWorkload(u) PROVE OnceInv'
  <2>1. RunOnce'
    BY <1>0, <1>14 DEF StopWorkload, api, TypeOK
  <2>2. NoneIsLate'
    BY <1>0, <1>14 DEF StopWorkload, api, TypeOK
  <2>3. NamesInUse'
    BY <1>0, <1>14 DEF StopWorkload, api, TypeOK
  <2>4. NewPodsAreNew'
    BY <1>0, <1>14 DEF StopWorkload, api, TypeOK
  <2>5. ForgottenAreSettled'
    <3>1. object[u] = "gone"
      BY <1>14, StoppedAreGone DEF StopWorkload
    <3> QED
      BY <1>14, <3>1 DEF StopWorkload, api
  <2>6. FinishedAreReported'
    BY <1>0, <1>14 DEF StopWorkload, api, TypeOK
  <2> QED
    BY <1>0, <2>1, <2>2, <2>3, <2>4, <2>5, <2>6
<1>15. ASSUME NEW u \in Uid, CheckWorkload(u) PROVE OnceInv'
  BY <1>0, <1>15 DEF CheckWorkload, PollChild, api, TypeOK
<1>16. CASE AgentDies
  BY <1>0, <1>16 DEF AgentDies
<1>17. CASE AgentRestarts
  BY <1>0, <1>17 DEF AgentRestarts, api, device, locals
<1>18. CASE StrayPatch
  BY <1>0, <1>18 DEF StrayPatch, device, locals
<1>19. ASSUME NEW u \in Uid, ProcessExits(u) PROVE OnceInv'
  BY <1>0, <1>19 DEF ProcessExits, api, locals, TypeOK
<1>20. ASSUME NEW u \in Uid, OrphanExits(u) PROVE OnceInv'
  BY <1>0, <1>20 DEF OrphanExits, api, locals
<1>21. ASSUME NEW u \in Uid, CreatePod(u) PROVE OnceInv'
  <2>1. RunOnce'
    BY <1>0, <1>21 DEF CreatePod, Target, device, locals, TypeOK
  <2>2. NoneIsLate'
    BY <1>0, <1>21 DEF CreatePod, Target, device, locals, TypeOK
  <2>3. NamesInUse'
    BY <1>0, <1>21 DEF CreatePod, Target, device, locals, TypeOK
  <2>4. NewPodsAreNew'
    BY <1>0, <1>21 DEF CreatePod, Target, device, locals, TypeOK
  <2>5. ForgottenAreSettled'
    BY <1>0, <1>21 DEF CreatePod, Target, device, locals, TypeOK
  <2>6. FinishedAreReported'
    BY <1>0, <1>21 DEF CreatePod, Target, device, locals, TypeOK
  <2> QED
    BY <1>0, <2>1, <2>2, <2>3, <2>4, <2>5, <2>6
<1>22. ASSUME NEW u \in Uid, DeletePod(u) PROVE OnceInv'
  BY <1>0, <1>22 DEF DeletePod, device, locals, TypeOK
<1>23. ASSUME NEW u \in Uid, ForceDeletePod(u) PROVE OnceInv'
  BY <1>0, <1>23 DEF ForceDeletePod, device, locals, TypeOK
<1>24. CASE UNCHANGED vars
  BY <1>0, <1>24 DEF vars, api, device, locals
<1>25. CASE SmokeTestFails \/ \E u \in Uid : MendImage(u)
  BY <1>0, <1>25 DEF SmokeTestFails, MendImage, api, locals
<1> QED
  BY <1>1, <1>2, <1>3, <1>4, <1>5, <1>6, <1>7, <1>8, <1>9, <1>10, <1>11,
     <1>12, <1>13, <1>14, <1>15, <1>16, <1>17, <1>18, <1>19, <1>20, <1>21,
     <1>22, <1>23, <1>24, <1>25 DEF Next, Reconcile, Environment

\* One run of the agent spawns at most one process for a pod, whatever is
\* created, deleted or fails between its awaits, if no patch of a dead agent
\* arrives after the restart.
THEOREM RunsOnce == ~LateArrivals => (Spec => []RunOnce)
<1> SUFFICES ASSUME ~LateArrivals PROVE Spec => []RunOnce
  OBVIOUS
<1>1. OnceInv /\ [Next]_vars => OnceInv'
  BY OnceNext
<1>2. OnceInv => RunOnce
  BY DEF OnceInv
<1> QED
  BY OnceInit, <1>1, <1>2, PTL DEF Spec
=============================================================================
