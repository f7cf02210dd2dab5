-------------------------- MODULE SupervisorProofs --------------------------
(* Theorems about Supervisor, for any instances, agents and bounds.        *)
EXTENDS Supervisor, TLAPS

USE SupervisorAssumption

-----------------------------------------------------------------------------
(* Type correctness.                                                       *)

LEMMA TypeInit == Init => TypeOK
<1> SUFFICES ASSUME Init PROVE TypeOK
  OBVIOUS
<1> USE DEF Init
<1>1. /\ service \in past \cup {NoService} /\ past \subseteq Service
      /\ at \in [Loop -> {"none", "top", "ready", "unready", "exit", "kill", "forget",
                          "clear", "stopped", "start", "spawn", "know", "announce"}]
      /\ of \in [Loop -> Service \cup {NoService}]
      /\ \A l \in Loop : at[l] # "none" => of[l] \in past
      /\ again \subseteq {l \in Loop : at[l] \in {"kill", "forget", "clear", "stopped"}}
  OBVIOUS
<1>2. /\ spawned \in [Loop -> Agent \cup {NoAgent}]
      /\ \A l \in Loop : spawned[l] # NoAgent <=> at[l] \in {"know", "announce"}
      /\ process \in [Service -> Agent \cup {NoAgent}]
      /\ known \in [Service -> Agent \cup {NoAgent}]
      /\ alive \subseteq Agent /\ readers \subseteq Agent
  OBVIOUS
<1>3. /\ faults \in 0 .. MaxFaults /\ exits \in 0 .. MaxExits
      /\ appDeaths \in 0 .. MaxAppDeaths
  OBVIOUS
<1> QED
  BY <1>1, <1>2, <1>3 DEF TypeOK

LEMMA TypeNext == TypeOK /\ [Next]_vars => TypeOK'
<1> SUFFICES ASSUME TypeOK, [Next]_vars PROVE TypeOK'
  OBVIOUS
<1> USE DEF TypeOK, Goto, At, app, device, handles, counts
<1>1. ASSUME NEW l \in Loop, Evaluate(l) \/ CheckUnready(l) \/ CheckReady(l)
      PROVE TypeOK'
  BY <1>1 DEF Evaluate, CheckUnready, CheckReady
<1>2. ASSUME NEW l \in Loop, CheckExitCode(l) PROVE TypeOK'
  BY <1>2 DEF CheckExitCode
<1>3. ASSUME NEW l \in Loop, Kill(l) \/ ForgetHandle(l) \/ ClearAgentProcess(l)
      PROVE TypeOK'
  BY <1>3 DEF Kill, ForgetHandle, ClearAgentProcess
<1>4. ASSUME NEW l \in Loop, TellStopped(l) PROVE TypeOK'
  BY <1>4 DEF TellStopped
<1>5. ASSUME NEW l \in Loop, CheckAgentProcess(l) PROVE TypeOK'
  BY <1>5 DEF CheckAgentProcess
<1>6. ASSUME NEW l \in Loop, Spawn(l) PROVE TypeOK'
  BY <1>6 DEF Spawn
<1>7. ASSUME NEW l \in Loop, SpawnFails(l) PROVE TypeOK'
  BY <1>7 DEF SpawnFails
<1>8. ASSUME NEW l \in Loop, SetAgentProcess(l) \/ TellStarted(l) PROVE TypeOK'
  BY <1>8 DEF SetAgentProcess, TellStarted
<1>9. ASSUME NEW l \in Loop, Cancelled(l) PROVE TypeOK'
  BY <1>9 DEF Cancelled
<1>10. ASSUME NEW l \in Loop, StartCommand(l) PROVE TypeOK'
  <2>1. service' \in past' /\ past' \subseteq Service /\ past \subseteq past'
    BY <1>10 DEF StartCommand
  <2> QED
    BY <1>10, <2>1 DEF StartCommand
<1>11. ASSUME NEW a \in Agent, ReaderEnds(a) PROVE TypeOK'
  BY <1>11 DEF ReaderEnds
<1>12. ASSUME NEW a \in Agent, AgentExits(a) PROVE TypeOK'
  BY <1>12 DEF AgentExits
<1>13. CASE Destroy
  BY <1>13 DEF Destroy
<1>14. CASE FitChanges
  BY <1>14 DEF FitChanges
<1>15. CASE AppDies
  <2>1. /\ at' \in [Loop -> {"none"}] /\ \A l \in Loop : at'[l] = "none"
        /\ again' = {} /\ service' = NoService
        /\ spawned' \in [Loop -> {NoAgent}] /\ \A l \in Loop : spawned'[l] = NoAgent
    BY <1>15 DEF AppDies
  <2>2. /\ process' \in [Service -> Agent \cup {NoAgent}]
        /\ known' \in [Service -> Agent \cup {NoAgent}]
        /\ alive' = {} /\ readers' = {}
    BY <1>15 DEF AppDies
  <2>3. UNCHANGED <<past, of, fit, faults, exits>>
    BY <1>15 DEF AppDies
  <2>4. appDeaths' \in 0 .. MaxAppDeaths
    BY <1>15 DEF AppDies
  <2>5. status' \in BOOLEAN
    BY <1>15 DEF AppDies
  <2> QED
    BY <2>1, <2>2, <2>3, <2>4, <2>5
<1>16. CASE UNCHANGED vars
  BY <1>16 DEF vars
<1> QED
  BY <1>1, <1>2, <1>3, <1>4, <1>5, <1>6, <1>7, <1>8, <1>9, <1>10, <1>11,
     <1>12, <1>13, <1>14, <1>15, <1>16 DEF Next, RunLoop

\* The service, its loops and the agents stay well typed; in particular a
\* process is in the hands of a loop only between its spawn and its report.
THEOREM TypeCorrect == Spec => []TypeOK
  BY TypeInit, TypeNext, PTL DEF Spec

-----------------------------------------------------------------------------
(* A loop that is alone loses no agent.                                    *)

\* One loop, in an instance that lives as long as the app.
OneLoop == ~Destroyable /\ \A l, m \in Loop : l = m

LoopsAreActive == \A l \in Loop : at[l] # "none" => Active(l)

\* Between a stop and the next spawn nothing runs.
NothingRuns ==
  \A l \in Loop :
    at[l] \in {"forget", "clear", "stopped", "spawn"} => alive = {}

\* The handle of the broker is the process that was spawned, and the lifecycle
\* service knows it, except between the two assignments.
HandlesAgree ==
  \A l \in Loop :
    /\ at[l] = "know" => process[of[l]] = spawned[l]
    /\ at[l] \notin {"none", "know"} /\ process[of[l]] \in alive
         => known[of[l]] = process[of[l]]

\* While no loop runs, no agent does.
NoLoopNoAgent == (\A l \in Loop : at[l] = "none") => alive = {}

LossInv ==
  LoopsAreActive /\ NothingRuns /\ HandlesAgree /\ NoLoopNoAgent /\ NoAgentIsLost

LEMMA LossInit == Init => LossInv
  BY DEF Init, LossInv, LoopsAreActive, NothingRuns, HandlesAgree,
         NoLoopNoAgent, NoAgentIsLost

LEMMA LossNext == OneLoop /\ TypeOK /\ LossInv /\ [Next]_vars => LossInv'
<1> SUFFICES ASSUME OneLoop, TypeOK, LossInv, [Next]_vars PROVE LossInv'
  OBVIOUS
<1> USE DEF LossInv, LoopsAreActive, NothingRuns, HandlesAgree, NoLoopNoAgent,
            NoAgentIsLost, Active, Running, Goto, At, app, device, handles, counts
\* A step of a loop is a step of the only one, in the instance that is alive.
<1>a. ASSUME NEW l \in Loop, at[l] # "none"
      PROVE  /\ of[l] = service /\ service \in Service /\ service # NoService
             /\ \A m \in Loop : m = l
             /\ alive \subseteq {process[service]}
  BY <1>a DEF OneLoop, TypeOK
<1>1. ASSUME NEW l \in Loop,
             Evaluate(l) \/ CheckUnready(l) \/ CheckReady(l) \/ CheckExitCode(l)
      PROVE  LossInv'
  BY <1>1, <1>a DEF Evaluate, CheckUnready, CheckReady, CheckExitCode, TypeOK
<1>2. ASSUME NEW l \in Loop, Kill(l) PROVE LossInv'
  BY <1>2, <1>a DEF Kill, TypeOK
<1>3. ASSUME NEW l \in Loop, ForgetHandle(l) \/ ClearAgentProcess(l)
      PROVE  LossInv'
  BY <1>3, <1>a DEF ForgetHandle, ClearAgentProcess, TypeOK
<1>4. ASSUME NEW l \in Loop, TellStopped(l) PROVE LossInv'
  BY <1>4, <1>a DEF TellStopped, TypeOK
<1>5. ASSUME NEW l \in Loop, CheckAgentProcess(l) PROVE LossInv'
  BY <1>5, <1>a DEF CheckAgentProcess, TypeOK
<1>6. ASSUME NEW l \in Loop, Spawn(l) PROVE LossInv'
  BY <1>6, <1>a DEF Spawn, TypeOK
<1>7. ASSUME NEW l \in Loop, SpawnFails(l) PROVE LossInv'
  BY <1>7, <1>a DEF SpawnFails, TypeOK
<1>8. ASSUME NEW l \in Loop, SetAgentProcess(l) \/ TellStarted(l)
      PROVE  LossInv'
  BY <1>8, <1>a DEF SetAgentProcess, TellStarted, TypeOK
<1>9. ASSUME NEW l \in Loop, Cancelled(l) PROVE LossInv'
  BY <1>9, <1>a DEF Cancelled
<1>10. ASSUME NEW l \in Loop, StartCommand(l) PROVE LossInv'
  <2>1. alive = {}
    BY <1>10 DEF StartCommand, OneLoop
  <2> QED
    BY <1>10, <2>1 DEF StartCommand, OneLoop, TypeOK
<1>11. ASSUME NEW a \in Agent, ReaderEnds(a) \/ AgentExits(a) PROVE LossInv'
  BY <1>11, <1>a DEF ReaderEnds, AgentExits
<1>12. CASE Destroy \/ FitChanges \/ UNCHANGED vars
  BY <1>12 DEF Destroy, FitChanges, vars, OneLoop
<1>13. CASE AppDies
  BY <1>13 DEF AppDies
<1> QED
  BY <1>1, <1>2, <1>3, <1>4, <1>5, <1>6, <1>7, <1>8, <1>9, <1>10, <1>11,
     <1>12, <1>13 DEF Next, RunLoop

\* A loop that is alone, in a service that lives as long as the app, never
\* loses hold of an agent it has started, however often agents end, spawns
\* fail and the app is killed between any two accesses to the handles.
THEOREM LosesNoAgent == OneLoop => (Spec => []NoAgentIsLost)
<1> SUFFICES ASSUME OneLoop PROVE Spec => []NoAgentIsLost
  OBVIOUS
<1>1. LossInv => NoAgentIsLost
  BY DEF LossInv
<1>2. TypeOK /\ LossInv /\ [Next]_vars => LossInv'
  BY LossNext
<1> QED
  BY TypeInit, TypeNext, LossInit, <1>1, <1>2, PTL DEF Spec
=============================================================================
