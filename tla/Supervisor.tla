----------------------------- MODULE Supervisor -----------------------------
(***************************************************************************)
(* The Android side: the foreground service (ForegroundServiceExposer.kt), *)
(* the loops that keep the agent alive (NodeReadinessService.kt over       *)
(* ResourceGuardService.kt), the start and stop of the agent process       *)
(* (AgentLifecycleService.kt, RustProcessBroker.kt) and the running state  *)
(* shown to the user.                                                      *)
(*                                                                         *)
(* Every delivered start command launches another loop on the same objects *)
(* (the boot receiver and the activity both send one), the IO dispatcher   *)
(* runs start and stop of different loops in parallel, and the objects use *)
(* no lock: a step is one access to a field they share.  Cancelling a loop *)
(* takes effect where it suspends, not inside start or stop.               *)
(***************************************************************************)
EXTENDS FiniteSets, Naturals

CONSTANTS
  Loop,         \* coroutines of runLoop, used again once they have ended
  Service,      \* service instances, one alive at a time
  Agent,        \* agent processes; the id of a forgotten one is used again
  NoAgent,      \* a null handle
  NoService,    \* no instance is alive
  Destroyable,  \* may an instance be destroyed while the app lives on?
  MaxFaults,    \* bound: spawns that fail
  MaxExits,     \* bound: agents that end by themselves
  MaxAppDeaths  \* bound: deaths of the app process

ASSUME SupervisorAssumption ==
  /\ NoAgent \notin Agent /\ NoService \notin Service
  /\ Destroyable \in BOOLEAN
  /\ MaxFaults \in Nat /\ MaxExits \in Nat /\ MaxAppDeaths \in Nat

VARIABLES
  service,   \* the instance that is alive
  past,      \* instances that have been
  at,        \* per loop: where it is, "none" when it does not run
  of,        \* per loop: the instance it belongs to
  again,     \* loops whose stop is the first half of a restart
  spawned,   \* per loop: the process start has in hand
  process,   \* per instance: the handle of the broker
  known,     \* per instance: agentProcess of the lifecycle service
  alive,     \* agent processes that run
  readers,   \* processes whose log reader thread has not ended
  status,    \* isAgentRunning
  fit,       \* the verdict the resource guard would give now
  faults, exits, appDeaths

app     == <<service, past, of>>
device  == <<alive, readers, fit>>
handles == <<process, known>>
counts  == <<faults, exits, appDeaths>>
vars    == <<app, at, again, spawned, handles, device, status, counts>>

Goto(l, where) == at' = [at EXCEPT ![l] = where]
At(l, where) == at[l] = where

\* The loop's scope has not been cancelled.
Active(l) == of[l] = service

\* isRunning: the process behind the broker's handle is alive.
Running(l) == process[of[l]] \in alive

-----------------------------------------------------------------------------
(* runLoop.  From "top", where delay may have suspended it, to the entry   *)
(* of start or stop nothing suspends.                                      *)

Evaluate(l) ==
  /\ At(l, "top") /\ Active(l)
  /\ Goto(l, IF fit THEN "ready" ELSE "unready")
  /\ UNCHANGED <<app, again, spawned, handles, device, status, counts>>

CheckUnready(l) ==
  /\ At(l, "unready") /\ Active(l)
  /\ Goto(l, IF Running(l) THEN "kill" ELSE "top")
  /\ UNCHANGED <<app, again, spawned, handles, device, status, counts>>

CheckReady(l) ==
  /\ At(l, "ready") /\ Active(l)
  /\ Goto(l, IF Running(l) THEN "exit" ELSE "start")
  /\ UNCHANGED <<app, again, spawned, handles, device, status, counts>>

\* exitCode: a null handle or a live process has none.
CheckExitCode(l) ==
  /\ At(l, "exit") /\ Active(l)
  /\ LET ended == process[of[l]] \notin alive \cup {NoAgent}
     IN  /\ Goto(l, IF ended THEN "kill" ELSE "top")
         /\ again' = IF ended THEN again \cup {l} ELSE again
  /\ UNCHANGED <<app, spawned, handles, device, status, counts>>

-----------------------------------------------------------------------------
(* stop                                                                    *)

\* Mutant: the process does not obey.
AskToStop(l) ==
  /\ At(l, "kill")
  /\ Goto(l, "forget")
  /\ UNCHANGED <<app, again, spawned, handles, device, status, counts>>

\* destroyForcibly: nothing the loop looks at tells how long the process takes
\* to go, its handle is dropped next.
Kill(l) ==
  /\ At(l, "kill")
  /\ alive' = alive \ {process[of[l]]}
  /\ Goto(l, "forget")
  /\ UNCHANGED <<app, again, spawned, handles, readers, fit, status, counts>>

ForgetHandle(l) ==
  /\ At(l, "forget")
  /\ process' = [process EXCEPT ![of[l]] = NoAgent]
  /\ Goto(l, "clear")
  /\ UNCHANGED <<app, again, spawned, known, device, status, counts>>

ClearAgentProcess(l) ==
  /\ At(l, "clear")
  /\ known' = [known EXCEPT ![of[l]] = NoAgent]
  /\ Goto(l, "stopped")
  /\ UNCHANGED <<app, again, spawned, process, device, status, counts>>

\* Mutant: the loop does not forget that it was restarting.
TellStoppedAgain(l) ==
  /\ At(l, "stopped")
  /\ status' = FALSE
  /\ Goto(l, CASE ~Active(l)               -> "none"
               [] Active(l) /\ l \in again  -> "start"
               [] OTHER                     -> "top")
  /\ UNCHANGED <<app, again, spawned, handles, device, counts>>

\* The end of stop, where a cancelled loop ends; a restart goes on to start.
TellStopped(l) ==
  /\ At(l, "stopped")
  /\ status' = FALSE
  /\ Goto(l, CASE ~Active(l)               -> "none"
               [] Active(l) /\ l \in again  -> "start"
               [] OTHER                     -> "top")
  /\ again' = again \ {l}
  /\ UNCHANGED <<app, spawned, handles, device, counts>>

-----------------------------------------------------------------------------
(* start                                                                   *)

\* Mutant: a handle is taken for a process that runs.
CheckHandle(l) ==
  /\ At(l, "start")
  /\ Goto(l, CASE known[of[l]] = NoAgent -> "spawn"
               [] OTHER                  -> IF Active(l) THEN "top" ELSE "none")
  /\ UNCHANGED <<app, again, spawned, handles, device, status, counts>>

CheckAgentProcess(l) ==
  /\ At(l, "start")
  /\ Goto(l, CASE known[of[l]] \notin alive -> "spawn"
               [] OTHER                     -> IF Active(l) THEN "top" ELSE "none")
  /\ UNCHANGED <<app, again, spawned, handles, device, status, counts>>

\* No id that is still in use anywhere; enough of them exist.
Unused(a) ==
  /\ a \notin alive \cup readers
  /\ \A i \in Service : a \notin {process[i], known[i]}
  /\ \A l \in Loop : a # spawned[l]

\* Mutant: the handle is left to the caller.
SpawnUnrecorded(l) ==
  /\ At(l, "spawn")
  /\ \E a \in Agent :
       /\ Unused(a)
       /\ alive' = alive \cup {a}
       /\ spawned' = [spawned EXCEPT ![l] = a]
  /\ Goto(l, "know")
  /\ UNCHANGED <<app, again, handles, readers, fit, status, counts>>

\* The process starts and is behind the handle; nothing suspends in between.
Spawn(l) ==
  /\ At(l, "spawn")
  /\ \E a \in Agent :
       /\ Unused(a)
       /\ alive' = alive \cup {a}
       /\ spawned' = [spawned EXCEPT ![l] = a]
       /\ process' = [process EXCEPT ![of[l]] = a]
  /\ Goto(l, "know")
  /\ UNCHANGED <<app, again, known, readers, fit, status, counts>>

\* No binary, no fork: the exception is logged by runLoop.
SpawnFails(l) ==
  /\ At(l, "spawn")
  /\ faults < MaxFaults /\ faults' = faults + 1
  /\ Goto(l, IF Active(l) THEN "top" ELSE "none")
  /\ UNCHANGED <<app, again, spawned, handles, device, status, exits, appDeaths>>

SetAgentProcess(l) ==
  /\ At(l, "know")
  /\ known' = [known EXCEPT ![of[l]] = spawned[l]]
  /\ Goto(l, "announce")
  /\ UNCHANGED <<app, again, spawned, process, device, status, counts>>

TellStarted(l) ==
  /\ At(l, "announce")
  /\ status' = TRUE
  /\ readers' = readers \cup {spawned[l]}
  /\ spawned' = [spawned EXCEPT ![l] = NoAgent]
  /\ Goto(l, IF Active(l) THEN "top" ELSE "none")
  /\ UNCHANGED <<app, again, handles, alive, fit, counts>>

-----------------------------------------------------------------------------
(* The reader thread of a process, until the end of its output.            *)

\* Mutant: the end of the output is not reported.
ReaderEndsSilently(a) ==
  /\ a \in readers \ alive
  /\ readers' = readers \ {a}
  /\ UNCHANGED <<app, at, again, spawned, handles, alive, fit, status, counts>>

ReaderEnds(a) ==
  /\ a \in readers \ alive
  /\ readers' = readers \ {a}
  /\ status' = FALSE
  /\ UNCHANGED <<app, at, again, spawned, handles, alive, fit, counts>>

-----------------------------------------------------------------------------
(* Android.                                                                *)

\* onStartCommand, after onCreate when no instance is alive.
StartCommand(l) ==
  /\ At(l, "none")
  /\ \/ /\ service # NoService
        /\ UNCHANGED <<service, past>>
     \/ /\ service = NoService
        /\ \E i \in Service \ past : service' = i /\ past' = past \cup {i}
  /\ of' = [of EXCEPT ![l] = service']
  /\ Goto(l, "top")
  /\ UNCHANGED <<again, spawned, handles, device, status, counts>>

\* onDestroy: the scope is cancelled, the agent is not stopped.
Destroy ==
  /\ service # NoService /\ Destroyable
  /\ service' = NoService
  /\ UNCHANGED <<past, of, at, again, spawned, handles, device, status, counts>>

\* A cancelled loop ends where it suspends or would enter start or stop.
Cancelled(l) ==
  /\ at[l] \in {"top", "ready", "unready", "exit", "kill", "start"}
  /\ ~Active(l)
  /\ Goto(l, "none")
  /\ again' = again \ {l}
  /\ UNCHANGED <<app, spawned, handles, device, status, counts>>

\* Android kills the app and, with it, the processes the app has started.
AppDies ==
  /\ service # NoService
  /\ appDeaths < MaxAppDeaths /\ appDeaths' = appDeaths + 1
  /\ service' = NoService
  /\ at' = [l \in Loop |-> "none"]
  /\ again' = {}
  /\ spawned' = [l \in Loop |-> NoAgent]
  /\ process' = [i \in Service |-> NoAgent]
  /\ known' = [i \in Service |-> NoAgent]
  /\ alive' = {} /\ readers' = {}
  /\ status' = FALSE
  /\ UNCHANGED <<past, of, fit, faults, exits>>

AgentExits(a) ==
  /\ a \in alive
  /\ exits < MaxExits /\ exits' = exits + 1
  /\ alive' = alive \ {a}
  /\ UNCHANGED <<app, at, again, spawned, handles, readers, fit, status, faults,
                 appDeaths>>

FitChanges ==
  /\ fit' = ~fit
  /\ UNCHANGED <<app, at, again, spawned, handles, alive, readers, status, counts>>

-----------------------------------------------------------------------------
Init ==
  /\ service = NoService /\ past = {}
  /\ at = [l \in Loop |-> "none"]
  /\ of = [l \in Loop |-> NoService]
  /\ again = {}
  /\ spawned = [l \in Loop |-> NoAgent]
  /\ process = [i \in Service |-> NoAgent]
  /\ known = [i \in Service |-> NoAgent]
  /\ alive = {} /\ readers = {}
  /\ status = FALSE
  /\ fit \in BOOLEAN
  /\ faults = 0 /\ exits = 0 /\ appDeaths = 0

RunLoop(l) ==
  \/ Evaluate(l) \/ CheckUnready(l) \/ CheckReady(l) \/ CheckExitCode(l)
  \/ Kill(l) \/ ForgetHandle(l) \/ ClearAgentProcess(l) \/ TellStopped(l)
  \/ CheckAgentProcess(l) \/ Spawn(l) \/ SetAgentProcess(l) \/ TellStarted(l)
  \/ Cancelled(l)

Next ==
  \/ \E l \in Loop : RunLoop(l) \/ SpawnFails(l) \/ StartCommand(l)
  \/ \E a \in Agent : ReaderEnds(a) \/ AgentExits(a)
  \/ Destroy \/ AppDies \/ FitChanges

Spec == Init /\ [][Next]_vars

\* Coroutines and reader threads are scheduled, and a delay comes to its end.
FairSpec == /\ Spec
            /\ \A l \in Loop : WF_vars(RunLoop(l))
            /\ \A a \in Agent : WF_vars(ReaderEnds(a))

-----------------------------------------------------------------------------
TypeOK ==
  /\ service \in past \cup {NoService} /\ past \subseteq Service
  /\ at \in [Loop -> {"none", "top", "ready", "unready", "exit", "kill", "forget",
                      "clear", "stopped", "start", "spawn", "know", "announce"}]
  /\ of \in [Loop -> Service \cup {NoService}]
  /\ \A l \in Loop : at[l] # "none" => of[l] \in past
  /\ again \subseteq {l \in Loop : at[l] \in {"kill", "forget", "clear", "stopped"}}
  /\ spawned \in [Loop -> Agent \cup {NoAgent}]
  /\ \A l \in Loop : spawned[l] # NoAgent <=> at[l] \in {"know", "announce"}
  /\ process \in [Service -> Agent \cup {NoAgent}]
  /\ known \in [Service -> Agent \cup {NoAgent}]
  /\ alive \subseteq Agent /\ readers \subseteq Agent
  /\ status \in BOOLEAN /\ fit \in BOOLEAN
  /\ faults \in 0 .. MaxFaults /\ exits \in 0 .. MaxExits
  /\ appDeaths \in 0 .. MaxAppDeaths

\* Every process that runs can be stopped, whatever fails, ends or is killed
\* between the checks and the calls of a loop that is alone: it is the one
\* behind the handle of the instance that is alive.
NoAgentIsLost ==
  alive \subseteq (IF service = NoService THEN {} ELSE {process[service]})

Supervised == \E l \in Loop : Active(l) /\ at[l] # "none"

\* While the device is not ready for good and a loop runs, no agent runs.
PressureStopsAgent == <>[](~fit /\ Supervised) => <>[](alive = {})

\* While the device is ready for good and a loop runs, an agent runs: one that
\* has ended is replaced, though spawns fail.
AgentIsKept == <>[](fit /\ Supervised) => <>[](alive # {})

\* Several loops may go on killing what another has just started, but never
\* come to rest without an agent.
AgentReturns == <>[](fit /\ Supervised) => []<>(alive # {})

\* When no agent runs any more the user is told so, whichever of stop, start
\* and the reader thread comes last.
EndIsShown == <>[](alive = {}) => <>[](~status)

(* Claims the code does not keep.                                          *)

\* README:23: the service "spawns the Rust agent": one.
OneAgent == Cardinality(alive) <= 1

\* README:233: the debug page shows the "running state" of the agent.
StatusIsShown == <>[](Cardinality(alive) = 1) => <>[]status
=============================================================================
