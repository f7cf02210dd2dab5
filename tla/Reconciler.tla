----------------------------- MODULE Reconciler -----------------------------
(***************************************************************************)
(* The reconciliation loop of the node agent (reconciliation_service.rs),  *)
(* the workload handles it keeps (workload_lifecycle_service.rs,           *)
(* workload_execution_service.rs), the pod calls of control_plane_broker.rs*)
(* and what surrounds them: the API server, the container processes, and   *)
(* the death and restart of the agent.                                     *)
(*                                                                         *)
(* One pass of the loop is a sequence of awaits.  A step of the module is  *)
(* the code between two awaits, so everything else (the API server, users, *)
(* containers, a kill of the agent) may move in between.                   *)
(***************************************************************************)
EXTENDS Naturals

CONSTANTS
  Uid,          \* pod uids: every pod object that is ever created
  Name,         \* namespace/name pairs, what a status patch is addressed to
  NameOf,       \* the name each pod object is created under
  Restartable,  \* pods with restartPolicy Always
  NoPod,        \* "no pod in hand"
  LateArrivals, \* may a patch of a dead agent arrive after its restart?
  MaxCrashes,   \* bound: deaths of the agent process
  MaxFaults     \* bound: failed calls (API, image, spawn, try_wait)

ASSUME ReconcilerAssumption ==
  /\ NameOf \in [Uid -> Name]
  /\ Restartable \subseteq Uid
  /\ NoPod \notin Uid
  /\ LateArrivals \in BOOLEAN
  /\ MaxCrashes \in Nat
  /\ MaxFaults \in Nat

VARIABLES
  \* the API server, per pod object
  object,    \* "none", "live", "terminating" (deletionTimestamp set), "gone"
  phase,     \* status.phase
  cterm,     \* do its containerStatuses say terminated?
  stray,     \* patches of a dead agent still on their way
  \* the device
  child,     \* process behind the handle of a pod, "none" without a handle
  reaped,    \* handles whose exit status was already collected
  orphans,   \* live processes of a pod that no handle refers to
  outcomes,  \* history: the ways in which processes of a pod have ended
  starts,    \* history: processes spawned for a pod by this agent process
  broken,    \* pods no attempt gets to prepare: no image, an unread reference,
             \* a layer cached without its tarball
  \* the agent
  pc,        \* where reconcile_once is
  running,   \* the keys of the map `running`
  desired,   \* pods of the last list
  skip,      \* those listed as Succeeded or Failed
  todo,      \* pods the current loop has not reached yet
  cur,       \* the pod the loop is awaiting on
  obs,       \* the phase in the report being sent
  finished,  \* to_restart
  crashes, faults

api     == <<object, phase, cterm, stray>>
device  == <<child, reaped, orphans, outcomes, starts, broken>>
locals  == <<desired, skip, todo, cur, obs, finished>>
counts  == <<crashes, faults>>
vars    == <<api, device, pc, running, locals, counts>>

Outcome == {"Succeeded", "Failed"}
Phase   == {"Pending", "Running", "Unknown"} \cup Outcome
Report  == [uid : Uid, phase : Phase]
PC      == {"down", "idle", "pods", "refresh", "prepare", "stop", "sync",
            "report"}

Exists(u) == object[u] \in {"live", "terminating"}

\* The pod object a patch sent for u lands on: looked up by name, not by uid.
Target(u) == {t \in Uid : Exists(t) /\ NameOf[t] = NameOf[u]}

Fault == faults < MaxFaults /\ faults' = faults + 1

-----------------------------------------------------------------------------
(* report_pod_status as the API server executes it on pod t.  Going back   *)
(* from a terminated container is refused with 422, which the broker takes *)
(* for success; restartPolicy Always lifts the refusal.                    *)

Refused(t, s) == cterm[t] /\ t \notin Restartable /\ s = "Running"

PatchStatus(t, s) ==
  IF Refused(t, s)
  THEN UNCHANGED <<phase, cterm>>
  ELSE /\ phase' = [phase EXCEPT ![t] = s]
       /\ cterm' = [cterm EXCEPT ![t] = s # "Running"]

-----------------------------------------------------------------------------
(* WorkloadLifecycleService::status: a poll of the child that may fail as  *)
(* long as its exit status has not been collected.                         *)

\* Mutant: a failed poll is taken for the end of the process.
PollErrorIsFailure(u, s) ==
  \/ /\ s = IF child[u] = "alive" THEN "Running" ELSE child[u]
     /\ reaped' = IF child[u] = "alive" THEN reaped ELSE reaped \cup {u}
     /\ UNCHANGED faults
  \/ /\ s = "Failed"
     /\ u \notin reaped
     /\ Fault
     /\ UNCHANGED reaped

\* Mutant: a process killed by a signal has not failed.
SignalsAreUnknown(u, s) ==
  /\ s = CASE child[u] = "alive" -> "Running"
           [] child[u] = "Failed" -> "Unknown"
           [] OTHER -> child[u]
  /\ reaped' = IF child[u] = "alive" THEN reaped ELSE reaped \cup {u}
  /\ UNCHANGED faults

PollChild(u, s) ==
  \/ /\ s = IF child[u] = "alive" THEN "Running" ELSE child[u]
     /\ reaped' = IF child[u] = "alive" THEN reaped ELSE reaped \cup {u}
     /\ UNCHANGED faults
  \/ /\ s = "Unknown"
     /\ u \notin reaped
     /\ Fault
     /\ UNCHANGED reaped

\* The end of a pass, reached or aborted by `?`: its local state is dropped.
EndPass ==
  /\ pc' = "idle"
  /\ desired' = {} /\ skip' = {} /\ todo' = {} /\ finished' = {}
  /\ cur' = NoPod /\ obs' = "Pending"

-----------------------------------------------------------------------------
(* 1. The desired state.                                                   *)

\* Mutant: every pod that has left Pending is skipped.
ListSkipsStarted ==
  /\ pc = "idle"
  /\ pc' = "pods"
  /\ desired' = {u \in Uid : Exists(u)}
  /\ todo' = desired'
  /\ skip' = {u \in desired' : phase[u] # "Pending"}
  /\ UNCHANGED <<api, device, running, cur, obs, finished, counts>>

ListPods ==
  /\ pc = "idle"
  /\ pc' = "pods"
  /\ desired' = {u \in Uid : Exists(u)}
  /\ todo' = desired'
  /\ skip' = {u \in desired' : phase[u] \in Outcome}
  /\ UNCHANGED <<api, device, running, cur, obs, finished, counts>>

\* Mutant: a failed list is taken for an empty one.
FailedListIsEmpty ==
  /\ pc = "idle"
  /\ Fault
  /\ pc' = "pods"
  /\ UNCHANGED <<api, device, running, locals, crashes>>

ListFails ==
  /\ pc = "idle"
  /\ Fault
  /\ UNCHANGED <<api, device, pc, running, locals, crashes>>

-----------------------------------------------------------------------------
(* 3a. Desired pods.                                                       *)

\* A pod with a handle: poll it and send its status.
RefreshPod(u) ==
  /\ pc = "pods" /\ u \in todo /\ u \in running
  /\ \E s \in Phase : PollChild(u, s) /\ obs' = s
  /\ pc' = "refresh"
  /\ cur' = u
  /\ todo' = todo \ {u}
  /\ UNCHANGED <<api, child, orphans, outcomes, starts, broken, running, desired,
                 skip, finished, crashes>>

\* A pod without a handle that was listed in a terminal phase is left alone.
SkipFinishedPod(u) ==
  /\ pc = "pods" /\ u \in todo /\ u \notin running
  /\ u \in skip
  /\ todo' = todo \ {u}
  /\ UNCHANGED <<api, device, pc, running, desired, skip, cur, obs, finished,
                 counts>>

\* Mutant: the terminal phases are not looked at.
PrepareAnyPod(u) ==
  /\ pc = "pods" /\ u \in todo /\ u \notin running
  /\ pc' = "prepare"
  /\ cur' = u
  /\ todo' = todo \ {u}
  /\ UNCHANGED <<api, device, running, desired, skip, obs, finished, counts>>

\* Mutant: the map of handles is not looked at.
PrepareRunningPod(u) ==
  /\ pc = "pods" /\ u \in todo
  /\ u \notin skip
  /\ pc' = "prepare"
  /\ cur' = u
  /\ todo' = todo \ {u}
  /\ UNCHANGED <<api, device, running, desired, skip, obs, finished, counts>>

\* Any other pod is new: its image is prepared ...
PreparePod(u) ==
  /\ pc = "pods" /\ u \in todo /\ u \notin running
  /\ u \notin skip
  /\ pc' = "prepare"
  /\ cur' = u
  /\ todo' = todo \ {u}
  /\ UNCHANGED <<api, device, running, desired, skip, obs, finished, counts>>

\* A layer is not fetched after its directory was made: the pods whose images
\* have that layer are broken, u's and maybe others', unless they have run, for
\* then the rootfs of their image is complete and its layers are not looked at.
HasRun(u) == starts[u] > 0 \/ orphans[u] > 0 \/ outcomes[u] # {}

LayerIsLost(u) ==
  \E s \in SUBSET {v \in Uid : ~HasRun(v)} : u \in s /\ broken' = broken \cup s

\* prepare_image or start fails, for now or, with a layer, for good; or it cannot
\* but fail.
PrepareFails ==
  \/ Fault /\ (UNCHANGED broken \/ LayerIsLost(cur))
  \/ cur \in broken /\ UNCHANGED <<broken, faults>>

\* Mutant: the image is tried again at once, the pod is forgotten.
GiveUpRetries ==
  /\ pc = "prepare"
  /\ PrepareFails
  /\ cur' = NoPod
  /\ UNCHANGED <<api, child, reaped, orphans, outcomes, starts, pc, running,
                 desired, skip, todo, obs, finished, crashes>>

\* ... which fails, or the workload cannot be started: a warning event, and
\* on to the next pod ...
GiveUpPod ==
  /\ pc = "prepare"
  /\ PrepareFails
  /\ pc' = "pods"
  /\ cur' = NoPod
  /\ UNCHANGED <<api, child, reaped, orphans, outcomes, starts, running, desired,
                 skip, todo, obs, finished, crashes>>

\* ... or a process is spawned and its handle inserted.  A handle that was
\* there is dropped, which does not end its process.
StartWorkload ==
  /\ pc = "prepare"
  /\ cur \notin broken
  /\ orphans' = IF child[cur] = "alive" THEN [orphans EXCEPT ![cur] = @ + 1]
                                        ELSE orphans
  /\ child' = [child EXCEPT ![cur] = "alive"]
  /\ starts' = [starts EXCEPT ![cur] = @ + 1]
  /\ running' = running \cup {cur}
  /\ pc' = "pods"
  /\ cur' = NoPod
  /\ UNCHANGED <<api, reaped, outcomes, broken, desired, skip, todo, obs,
                 finished, counts>>

-----------------------------------------------------------------------------
(* The answer to a report, in 3a and in 3c.                                *)

ReportSucceeds ==
  /\ pc \in {"refresh", "report"}
  /\ \E t \in Target(cur) : PatchStatus(t, obs)
  /\ pc' = IF pc = "refresh" THEN "pods" ELSE "sync"
  /\ cur' = NoPod /\ obs' = "Pending"
  /\ UNCHANGED <<object, stray, device, running, desired, skip, todo, finished,
                 counts>>

\* Nothing has that name any more: 404, and the pass is over.
ReportNotFound ==
  /\ pc \in {"refresh", "report"}
  /\ Target(cur) = {}
  /\ EndPass
  /\ UNCHANGED <<api, device, running, counts>>

\* Mutant: a failed report is logged and the pass goes on.
ReportErrorIgnored ==
  /\ pc \in {"refresh", "report"}
  /\ Fault
  /\ \/ UNCHANGED <<phase, cterm>>
     \/ \E t \in Target(cur) : PatchStatus(t, obs)
  /\ pc' = IF pc = "refresh" THEN "pods" ELSE "sync"
  /\ cur' = NoPod /\ obs' = "Pending"
  /\ UNCHANGED <<object, stray, device, running, desired, skip, todo, finished,
                 crashes>>

\* The call fails before or after it took effect; the pass is over.
ReportFails ==
  /\ pc \in {"refresh", "report"}
  /\ Fault
  /\ \/ UNCHANGED <<phase, cterm>>
     \/ \E t \in Target(cur) : PatchStatus(t, obs)
  /\ EndPass
  /\ UNCHANGED <<object, stray, device, running, crashes>>

-----------------------------------------------------------------------------
(* 3b. Pods with a handle that are not desired.                            *)

\* Mutant: nothing is ever stopped.
StopNothing ==
  /\ pc = "pods" /\ todo = {}
  /\ pc' = "stop"
  /\ todo' = {}
  /\ UNCHANGED <<api, device, running, desired, skip, cur, obs, finished,
                 counts>>

BeginStop ==
  /\ pc = "pods" /\ todo = {}
  /\ pc' = "stop"
  /\ todo' = running \ desired
  /\ UNCHANGED <<api, device, running, desired, skip, cur, obs, finished,
                 counts>>

\* The handle is removed, the process killed and waited for; the kill of a
\* process already waited for is an error that is only logged.
StopWorkload(u) ==
  /\ pc = "stop" /\ u \in todo
  /\ todo' = todo \ {u}
  /\ running' = running \ {u}
  /\ child' = [child EXCEPT ![u] = "none"]
  /\ reaped' = reaped \ {u}
  /\ UNCHANGED <<api, orphans, outcomes, starts, broken, pc, desired, skip, cur,
                 obs, finished, counts>>

-----------------------------------------------------------------------------
(* 3c. The status of every handle, and the handles of finished workloads.  *)

BeginSync ==
  /\ pc = "stop" /\ todo = {}
  /\ pc' = "sync"
  /\ todo' = running
  /\ UNCHANGED <<api, device, running, desired, skip, cur, obs, finished,
                 counts>>

CheckWorkload(u) ==
  /\ pc = "sync" /\ u \in todo
  /\ \E s \in Phase :
       /\ PollChild(u, s)
       /\ obs' = s
       /\ finished' = IF s \in Outcome THEN finished \cup {u} ELSE finished
  /\ pc' = "report"
  /\ cur' = u
  /\ todo' = todo \ {u}
  /\ UNCHANGED <<api, child, orphans, outcomes, starts, broken, running, desired,
                 skip, crashes>>

\* Only a pass whose reports all went through gets here.  Dropping a handle
\* does not end its process.
ForgetFinished ==
  /\ pc = "sync" /\ todo = {}
  /\ running' = running \ finished
  /\ orphans' = [u \in Uid |-> IF u \in finished /\ child[u] = "alive"
                              THEN orphans[u] + 1 ELSE orphans[u]]
  /\ child' = [u \in Uid |-> IF u \in finished THEN "none" ELSE child[u]]
  /\ reaped' = reaped \ finished
  /\ EndPass
  /\ UNCHANGED <<api, outcomes, starts, broken, counts>>

-----------------------------------------------------------------------------
(* The agent process dies (killed by the Android service, SIGINT, a task   *)
(* of main that ends) and is started again.  Its map is gone, the          *)
(* containers are not: nothing kills them, and kill_on_drop is not set.  A *)
(* fetch of the loop or of the smoke test may be cut by it.                *)

InFlight == IF pc \in {"refresh", "report"}
            THEN {[uid |-> cur, phase |-> obs]}
            ELSE {}

AgentDies ==
  /\ pc # "down"
  /\ crashes < MaxCrashes /\ crashes' = crashes + 1
  /\ pc' = "down"
  /\ stray' = stray \cup InFlight
  /\ orphans' = [u \in Uid |-> IF child[u] = "alive" THEN orphans[u] + 1
                                                     ELSE orphans[u]]
  /\ child' = [u \in Uid |-> "none"]
  /\ starts' = [u \in Uid |-> 0]
  /\ running' = {} /\ reaped' = {}
  /\ desired' = {} /\ skip' = {} /\ todo' = {} /\ finished' = {}
  /\ cur' = NoPod /\ obs' = "Pending"
  /\ UNCHANGED broken \/ \E u \in Uid : LayerIsLost(u)
  /\ UNCHANGED <<object, phase, cterm, outcomes, faults>>

AgentRestarts ==
  /\ pc = "down"
  /\ LateArrivals \/ stray = {}
  /\ pc' = "idle"
  /\ UNCHANGED <<api, device, running, locals, counts>>

\* A patch the dead agent had sent takes effect, or never does.
StrayPatch ==
  /\ LateArrivals \/ pc = "down"
  /\ \E r \in stray :
       /\ stray' = stray \ {r}
       /\ \/ UNCHANGED <<phase, cterm>>
          \/ \E t \in Target(r.uid) : PatchStatus(t, r.phase)
  /\ UNCHANGED <<object, device, pc, running, locals, counts>>

-----------------------------------------------------------------------------
(* Containers and users.                                                   *)

ProcessExits(u) ==
  /\ child[u] = "alive"
  /\ \E o \in Outcome :
       /\ child' = [child EXCEPT ![u] = o]
       /\ outcomes' = [outcomes EXCEPT ![u] = @ \cup {o}]
  /\ UNCHANGED <<api, reaped, orphans, starts, broken, pc, running, locals, counts>>

OrphanExits(u) ==
  /\ orphans[u] > 0
  /\ orphans' = [orphans EXCEPT ![u] = @ - 1]
  /\ \E o \in Outcome : outcomes' = [outcomes EXCEPT ![u] = @ \cup {o}]
  /\ UNCHANGED <<api, child, reaped, starts, broken, pc, running, locals, counts>>

\* The smoke test of main.rs, which prepares an image beside the loop, fails to
\* fetch a layer.
SmokeTestFails ==
  /\ pc # "down"
  /\ Fault
  /\ \E u \in Uid : LayerIsLost(u)
  /\ UNCHANGED <<api, child, reaped, orphans, outcomes, starts, pc, running, locals,
                 crashes>>

\* The agent repairs none of this: the image of the pod is edited, its tag moves
\* to other layers, or the cache is cleared.
MendImage(u) ==
  /\ broken' = broken \ {u}
  /\ UNCHANGED <<api, child, reaped, orphans, outcomes, starts, pc, running, locals,
                 counts>>

\* A pod bound to this node appears; a name is in use by one object at a time.
CreatePod(u) ==
  /\ object[u] = "none"
  /\ Target(u) = {}
  /\ object' = [object EXCEPT ![u] = "live"]
  /\ UNCHANGED <<phase, cterm, stray, device, pc, running, locals, counts>>

\* kubectl delete: a pod in a terminal phase goes at once, any other waits
\* for its kubelet to confirm that the containers have ended.
DeletePod(u) ==
  /\ object[u] = "live"
  /\ object' = [object EXCEPT ![u] = IF phase[u] \in Outcome THEN "gone"
                                     ELSE "terminating"]
  /\ UNCHANGED <<phase, cterm, stray, device, pc, running, locals, counts>>

\* kubectl delete --force, or the pod garbage collector.
ForceDeletePod(u) ==
  /\ Exists(u)
  /\ object' = [object EXCEPT ![u] = "gone"]
  /\ UNCHANGED <<phase, cterm, stray, device, pc, running, locals, counts>>

-----------------------------------------------------------------------------
Init ==
  /\ object = [u \in Uid |-> "none"]
  /\ phase = [u \in Uid |-> "Pending"]
  /\ cterm = [u \in Uid |-> FALSE]
  /\ stray = {}
  /\ child = [u \in Uid |-> "none"]
  /\ reaped = {}
  /\ orphans = [u \in Uid |-> 0]
  /\ outcomes = [u \in Uid |-> {}]
  /\ starts = [u \in Uid |-> 0]
  /\ broken \in SUBSET Uid
  /\ pc = "idle"
  /\ running = {} /\ desired = {} /\ skip = {} /\ todo = {} /\ finished = {}
  /\ cur = NoPod /\ obs = "Pending"
  /\ crashes = 0 /\ faults = 0

Reconcile ==
  \/ ListPods \/ ListFails
  \/ \E u \in Uid : RefreshPod(u) \/ SkipFinishedPod(u) \/ PreparePod(u)
  \/ GiveUpPod \/ StartWorkload
  \/ ReportSucceeds \/ ReportNotFound \/ ReportFails
  \/ BeginStop \/ BeginSync \/ ForgetFinished
  \/ \E u \in Uid : StopWorkload(u) \/ CheckWorkload(u)

Environment ==
  \/ AgentDies \/ AgentRestarts \/ StrayPatch \/ SmokeTestFails
  \/ \E u \in Uid : ProcessExits(u) \/ OrphanExits(u) \/ MendImage(u)
  \/ \E u \in Uid : CreatePod(u) \/ DeletePod(u) \/ ForceDeletePod(u)

Next == Reconcile \/ Environment

Spec == Init /\ [][Next]_vars

(* The loop runs forever on its own tokio task and every call it awaits    *)
(* returns; the Android service restarts a dead agent; a patch in flight   *)
(* is delivered or lost.  Nothing is assumed of users and containers.      *)
FairSpec == Spec /\ WF_vars(Reconcile) /\ WF_vars(AgentRestarts)
                 /\ WF_vars(StrayPatch)
-----------------------------------------------------------------------------
TypeOK ==
  /\ object \in [Uid -> {"none", "live", "terminating", "gone"}]
  /\ phase \in [Uid -> Phase]
  /\ cterm \in [Uid -> BOOLEAN]
  /\ stray \subseteq Report
  /\ child \in [Uid -> {"none", "alive"} \cup Outcome]
  /\ reaped \subseteq Uid
  /\ orphans \in [Uid -> Nat]
  /\ outcomes \in [Uid -> SUBSET Outcome]
  /\ starts \in [Uid -> Nat]
  /\ broken \subseteq Uid
  /\ pc \in PC
  /\ running \subseteq Uid /\ desired \subseteq Uid /\ skip \subseteq Uid
  /\ todo \subseteq Uid /\ finished \subseteq Uid
  /\ cur \in Uid \cup {NoPod} /\ obs \in Phase
  /\ pc \in {"refresh", "report", "prepare"} => cur \in Uid
  /\ crashes \in 0 .. MaxCrashes /\ faults \in 0 .. MaxFaults

-----------------------------------------------------------------------------
(* Properties.                                                             *)

\* One run of the agent spawns at most one process for a pod: a finished pod
\* is skipped by its listed phase, a running one by the map of handles, and
\* between the two the list that a pass works from may be stale.
RunOnce == \A u \in Uid : starts[u] <= 1

\* A terminal phase in the API is the way a process of that very pod has
\* ended, across failed polls, failed reports, lost and late patches and
\* deaths of the agent.
VerdictIsReal == \A u \in Uid : phase[u] \in Outcome => phase[u] \in outcomes[u]

\* A process loses its handle only when the agent dies: no pass drops the
\* handle of a process that is still alive without killing it.
OrphansOnlyByDeath ==
  [][\A u \in Uid : orphans'[u] > orphans[u] => pc' = "down"]_vars

\* While the agent is up it kills no process of a pod that still exists:
\* whatever calls fail, 3b acts on a list that was really received.
StopOnlyUndesired ==
  [][\A u \in Uid : /\ child[u] = "alive" /\ child'[u] = "none"
                    /\ pc' # "down"
                    => object[u] = "gone"]_vars

\* A pod that is gone is stopped (3b), although its own deletion makes a
\* report in 3a fail with 404 and abort the pass before it gets there.
GonePodsAreStopped ==
  \A u \in Uid : (object[u] = "gone" /\ u \in running) ~> u \notin running

\* The end of a process whose handle is held reaches the API, unless the pod
\* goes or the agent dies first.
ResultsArePublished ==
  \A u \in Uid : child[u] \in Outcome
                 ~> phase[u] \in Outcome \/ object[u] = "gone" \/ pc = "down"

\* A pod bound to the node is started by the current run of the agent, or its
\* verdict is known, or it goes, or it cannot be prepared.  For that one failed
\* fetch is enough (image_pull_service.rs:62-65), which the agent never repairs; a
\* pod with its layers, mended ones included, is owed a start for all else that fails.
PodsAreAttended ==
  \A u \in Uid : Exists(u)
                 ~> \/ starts[u] > 0 \/ phase[u] \in Outcome \/ object[u] = "gone"
                    \/ u \in broken

\* The loop implements the contract of PodContract: across all its awaits, a
\* pod is launched once, its verdict comes from a process of its own, and its
\* handle is closed only with the verdict published or the pod gone.
Stage(u) == CASE u \in running /\ child[u] = "alive" -> "executing"
              [] u \in running /\ child[u] # "alive" -> "finished"
              [] u \notin running /\ starts[u] = 0   -> "waiting"
              [] OTHER                               -> "settled"

Due(u) == CASE object[u] = "gone"                           -> "gone"
            [] object[u] # "gone" /\ phase[u] \in Outcome   -> "verdict"
            [] OTHER                                        -> "open"

C == INSTANCE PodContract
       WITH stage <- [u \in Uid |-> Stage(u)],
            due   <- [u \in Uid |-> Due(u)],
            ended <- {u \in Uid : outcomes[u] # {}}

KeepsContract == C!Contract

-----------------------------------------------------------------------------
(* Why OrphansOnlyByDeath and StopOnlyUndesired hold, whatever arrives late *)
(* and whatever names are used again: the inductive invariant of the       *)
(* handles, part by part.                                                  *)

Filling == pc \in {"pods", "refresh", "prepare"}
Syncing == pc \in {"sync", "report"}

\* A dead agent remembers nothing.
DeathForgets == pc = "down" => running = {} /\ \A u \in Uid : starts[u] = 0

\* A handle belongs to a process of this run of the agent.
HandlesAreStarted ==
  \A u \in Uid :
    /\ u \in running <=> child[u] # "none"
    /\ u \in running => starts[u] > 0

\* A started pod that still exists is in the list of the current pass.
StartedAreListed ==
  \A u \in Uid :
    /\ object[u] = "none" => starts[u] = 0 /\ u \notin desired
    /\ pc \notin {"idle", "down"} /\ Exists(u) /\ starts[u] > 0
       => u \in desired

\* What is left to do, loop by loop.
LoopsAreBounded ==
  /\ Filling => todo \subseteq desired
  /\ pc = "stop" => todo = running \ desired
  /\ Syncing => todo \subseteq running /\ running \subseteq desired

\* A pod the loop has in hand is listed, and has a handle unless 3a is about to
\* start it.
HandIsListed ==
  /\ pc \in {"refresh", "prepare", "report"} => cur \in desired \ todo
  /\ pc = "prepare" => cur \notin running
  /\ pc \in {"refresh", "report"} => cur \in running

\* The handles 3c is about to forget are of processes that have ended.
FinishedHaveEnded ==
  /\ ~Syncing => finished = {}
  /\ finished \subseteq running
  /\ \A u \in finished : child[u] \in Outcome /\ u \notin todo

HandleInv ==
  /\ TypeOK /\ DeathForgets /\ HandlesAreStarted /\ StartedAreListed
  /\ LoopsAreBounded /\ HandIsListed /\ FinishedHaveEnded

-----------------------------------------------------------------------------
(* Why RunOnce holds when no patch outlives its agent.                     *)

Settled(u) == object[u] = "gone" \/ phase[u] \in Outcome

\* No patch is on its way to the API of a live agent.
NoneIsLate == pc # "down" => stray = {}

\* Among pods that exist, and among pods of one list, a name is unique.
NamesInUse ==
  \A u, t \in Uid :
    /\ NameOf[u] = NameOf[t]
    /\ (Exists(u) /\ Exists(t)) \/ {u, t} \subseteq desired
    => u = t

\* A pod that 3a is about to start has not been started before.
NewPodsAreNew ==
  /\ Filling => \A u \in todo : u \in running \/ u \in skip \/ starts[u] = 0
  /\ pc = "prepare" => starts[cur] = 0

\* A pod without a handle that was started is settled.
ForgottenAreSettled ==
  pc # "down" => \A u \in Uid : starts[u] > 0 /\ u \notin running => Settled(u)

\* So is a pod whose handle 3c is about to forget, once it is reported.
FinishedAreReported ==
  \A u \in finished : IF pc = "report" /\ u = cur THEN obs \in Outcome
                                                 ELSE Settled(u)

OnceInv ==
  /\ HandleInv /\ RunOnce /\ NoneIsLate /\ NamesInUse
  /\ NewPodsAreNew /\ ForgottenAreSettled /\ FinishedAreReported

-----------------------------------------------------------------------------
(* Why VerdictIsReal holds when no name is used twice, whatever arrives    *)
(* late: every phase on its way to the API, too, is one of its own pod.    *)

NamesDistinct == \A u, t \in Uid : NameOf[u] = NameOf[t] => u = t

Real(u, s) == s \in Outcome => s \in outcomes[u]

RealInv ==
  /\ TypeOK /\ VerdictIsReal
  /\ \A u \in Uid : Real(u, child[u])
  /\ \A r \in stray : Real(r.uid, r.phase)
  /\ pc \in {"refresh", "report"} => Real(cur, obs)

-----------------------------------------------------------------------------
(* Why KeepsContract holds when, in addition, no patch outlives its agent: *)
(* nothing on its way takes a verdict back.                                *)

IsVerdict(s) == s \in Outcome

\* A handle whose exit status has been collected answers with it for good, and
\* the verdict of a pod with a handle comes from there.
VerdictsAreReaped ==
  /\ \A u \in reaped : child[u] \in Outcome
  /\ \A u \in running : IsVerdict(phase[u]) => u \in reaped

\* Neither the report being sent nor that of a dead agent takes one back ...
ReportsAgree ==
  /\ pc \in {"refresh", "report"} =>
       /\ IsVerdict(phase[cur]) => IsVerdict(obs)
       /\ IsVerdict(obs) => cur \in reaped
  /\ \A r \in stray : IsVerdict(phase[r.uid]) => IsVerdict(r.phase)
  /\ \A r, q \in stray : r = q

\* ... and a pod that 3a starts has none.
StartedHaveNoVerdict ==
  /\ Filling => \A u \in todo : u \in running \/ u \in skip \/ ~IsVerdict(phase[u])
  /\ pc = "prepare" => ~IsVerdict(phase[cur])

ContractInv == RealInv /\ OnceInv /\ VerdictsAreReaped /\ ReportsAgree
                 /\ StartedHaveNoVerdict

-----------------------------------------------------------------------------
(* Claims of the comments and the README that the code does not keep.      *)

\* control_plane_broker.rs:250-251, on a refused patch: "the pod ran and
\* completed, our status is stale".
RefusalMeansCompleted ==
  pc \in {"refresh", "report"} =>
    \A t \in Target(cur) : Refused(t, obs) => outcomes[t] # {}

\* reconciliation_service.rs:87-89 skips terminal pods since those are pods
\* kept "after completion": a pod that is skipped has been executed.
SkippedPodsHaveRun == \A u \in skip : outcomes[u] # {}

\* README, limitations: "pods run once".  No two live copies of a pod.
OneLiveCopy ==
  \A u \in Uid : orphans[u] + (IF child[u] = "alive" THEN 1 ELSE 0) <= 1

\* README, limitations: deleted containers receive SIGKILL.  A pod the user
\* has deleted stops running.
DeletedPodsAreStopped ==
  \A u \in Uid : (object[u] = "terminating" /\ u \in running)
                 ~> u \notin running
=============================================================================
