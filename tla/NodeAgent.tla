----------------------------- MODULE NodeAgent -----------------------------
(***************************************************************************)
(* The life of an agent process: the tasks main.rs launches and waits for, *)
(* registration and heartbeats (node_registration_service.rs over the node *)
(* calls of control_plane_broker.rs), the kubelet port                     *)
(* (virtual_kubelet_exposer.rs) and the Node object they all share with    *)
(* any other agent process of the same device.                             *)
(*                                                                         *)
(* main waits in a select!; the tasks it has spawned go on while it        *)
(* deregisters, until the process ends.  A request already sent may take   *)
(* effect after that.                                                      *)
(***************************************************************************)
EXTENDS Naturals, FiniteSets

CONSTANTS
  Agent,      \* agent processes, one after the other or at once
  NoAgent, NoAddress,
  MaxAlive,   \* agents that may run at the same time
  MaxFaults,  \* bound: calls that fail
  MaxDeletes, \* bound: deletions of the Node object by somebody else
  Killable,   \* may an agent be killed (it always may be interrupted)?
  Reading,    \* what the device may be like: MemAvailable in MiB (0 when it
              \* cannot be read) and the address its packets leave from
  Absent, Bare, \* the Node object: not there; there, without a status
  Create, Delete \* requests, besides the status patches

ASSUME NodeAgentAssumption ==
  /\ NoAgent \notin Agent
  /\ \A r \in Reading : r.memory \in Nat
  /\ MaxAlive \in Nat /\ MaxFaults \in Nat /\ MaxDeletes \in Nat
  /\ Killable \in BOOLEAN

VARIABLES
  node,     \* the Node object: Absent, Bare, or its status
  late,     \* requests of processes that have ended
  proc,     \* "unborn", "alive", "dead"
  step,     \* main: "select" or "deregister"
  reg,      \* the registration task
  kubelet,  \* the kubelet server task
  seen,     \* the status a task has made up to send, Bare when there is none
  port,     \* the agent that listens on the kubelet port
  san,      \* the address in the certificate that one serves with, if any
  device,   \* the present reading
  disturbed, \* history: has the node been deleted, or may it be, by another
             \* one than the agent that is alive?
  faults, deletes

vars == <<node, late, proc, step, reg, kubelet, seen, port, san, device,
          disturbed, faults, deletes>>

LowMemory == 512
LowBattery == 20

\* What the readers of battery and network report.
Battery == [percent |-> 100, charging |-> TRUE]
Network == "wifi"

BatteryPressure(battery) == battery.percent < LowBattery /\ ~battery.charging

IsReady(available) ==
  available >= LowMemory /\ ~BatteryPressure(Battery) /\ Network # "none"

\* The part of the status that varies: conditions, allocatable memory, address.
StatusOf(available, ip) ==
  [ready |-> IsReady(available), memory_pressure |-> available < LowMemory,
   allocatable |-> available, address |-> ip]

Address == {r.address : r \in Reading}
Status == {StatusOf(r.memory, ip) : r \in Reading, ip \in Address}

\* Requests, statuses and the markers are told apart.
ASSUME ValuesAreDistinct ==
  /\ Absent # Bare /\ Create # Delete /\ NoAddress \notin Address
  /\ \A request \in {Create, Delete} : request \notin Status \cup {Bare}
  /\ {Absent, Bare} \cap Status = {}

\* get_profile, and local_ip when the patch is put together.
StatusNow == StatusOf(device.memory, device.address)

Alive(a) == proc[a] = "alive"
Fault == faults < MaxFaults /\ faults' = faults + 1

(* The API server.  A status can only be patched on a node that exists,    *)
(* creating one that exists is 409 and taken for success.                  *)
Apply(request) ==
  node' = CASE request = Delete                    -> Absent
            [] request = Create /\ node = Absent   -> Bare
            [] request \in Status /\ node # Absent -> request
            [] OTHER                               -> node

\* The request a task of a is waiting for.
Sent(a) ==
  CASE reg[a] = "create"           -> {Create}
    [] reg[a] \in {"status", "beat"} -> {seen[a]}
    [] OTHER                       -> {}

\* The process ends: the port is free, what was sent may still arrive.
Exit(a, requests) ==
  /\ proc' = [proc EXCEPT ![a] = "dead"]
  /\ port' = IF port = a THEN NoAgent ELSE port
  /\ san' = IF port = a THEN NoAddress ELSE san
  /\ late' = late \cup requests
  /\ reg' = [reg EXCEPT ![a] = "ended"]
  /\ seen' = [seen EXCEPT ![a] = Bare]
  /\ kubelet' = [kubelet EXCEPT ![a] = "ended"]

-----------------------------------------------------------------------------
(* main: launch all tasks.  The profile to register with is read first.    *)

Boot(a) ==
  /\ proc[a] = "unborn"
  /\ Cardinality({b \in Agent : Alive(b)}) < MaxAlive
  /\ proc' = [proc EXCEPT ![a] = "alive"]
  /\ reg' = [reg EXCEPT ![a] = "create"]
  /\ kubelet' = [kubelet EXCEPT ![a] = "bind"]
  /\ seen' = [seen EXCEPT ![a] = StatusNow]
  /\ disturbed' = (disturbed \/ \E b \in Agent : Alive(b))
  /\ UNCHANGED <<node, late, step, port, san, device, faults, deletes>>

-----------------------------------------------------------------------------
(* The registration task.                                                  *)

CreateNode(a) ==
  /\ Alive(a) /\ reg[a] = "create"
  /\ Apply(Create)
  /\ reg' = [reg EXCEPT ![a] = "status"]
  /\ seen' = [seen EXCEPT ![a].address = device.address]
  /\ UNCHANGED <<late, proc, step, kubelet, port, san, device, disturbed, faults,
                 deletes>>

\* Mutant: the status is sent with the registration only.
SendStatusOnce(a) ==
  /\ Alive(a) /\ reg[a] \in {"status", "beat"}
  /\ node' = IF reg[a] = "status" /\ node # Absent THEN seen[a] ELSE node
  /\ reg' = [reg EXCEPT ![a] =
               IF node = Absent /\ @ = "status" THEN "ended" ELSE "sleep"]
  /\ seen' = [seen EXCEPT ![a] = Bare]
  /\ UNCHANGED <<late, proc, step, kubelet, port, san, device, disturbed, faults,
                 deletes>>

\* send_heartbeat.  A 404 ends the task when it comes with the registration;
\* later it is logged and the loop goes on.
SendHeartbeat(a) ==
  /\ Alive(a) /\ reg[a] \in {"status", "beat"}
  /\ Apply(seen[a])
  /\ reg' = [reg EXCEPT ![a] =
               IF node = Absent /\ @ = "status" THEN "ended" ELSE "sleep"]
  /\ seen' = [seen EXCEPT ![a] = Bare]
  /\ UNCHANGED <<late, proc, step, kubelet, port, san, device, disturbed, faults,
                 deletes>>

\* Mutant: the heartbeat repeats what the Node object says.
WakeWithNodeStatus(a) ==
  /\ Alive(a) /\ reg[a] = "sleep"
  /\ reg' = [reg EXCEPT ![a] = "beat"]
  /\ seen' = [seen EXCEPT ![a] = node]
  /\ UNCHANGED <<node, late, proc, step, kubelet, port, san, device, disturbed, faults,
                 deletes>>

\* 30 s later, with the profile of that moment.
Wake(a) ==
  /\ Alive(a) /\ reg[a] = "sleep"
  /\ reg' = [reg EXCEPT ![a] = "beat"]
  /\ seen' = [seen EXCEPT ![a] = StatusNow]
  /\ UNCHANGED <<node, late, proc, step, kubelet, port, san, device, disturbed, faults,
                 deletes>>

\* Mutant: a failed registration is logged like a failed heartbeat.
CallFailsAndIsLogged(a) ==
  /\ Alive(a) /\ Fault
  /\ \E request \in Sent(a) : node' = node \/ Apply(request)
  /\ reg' = [reg EXCEPT ![a] = "sleep"]
  /\ seen' = [seen EXCEPT ![a] = Bare]
  /\ UNCHANGED <<late, proc, step, kubelet, port, san, device, disturbed, deletes>>

\* A call fails, before or after it took effect.
CallFails(a) ==
  /\ Alive(a) /\ Fault
  /\ \E request \in Sent(a) : node' = node \/ Apply(request)
  /\ reg' = [reg EXCEPT ![a] = IF @ = "beat" THEN "sleep" ELSE "ended"]
  /\ seen' = [seen EXCEPT ![a] = Bare]
  /\ UNCHANGED <<late, proc, step, kubelet, port, san, device, disturbed, deletes>>

-----------------------------------------------------------------------------
(* The kubelet server.                                                     *)

\* The certificate is made for the address of this moment.
Listen(a) ==
  /\ Alive(a) /\ kubelet[a] = "bind" /\ port = NoAgent
  /\ port' = a
  /\ san' = device.address
  /\ kubelet' = [kubelet EXCEPT ![a] = "serve"]
  /\ UNCHANGED <<node, late, proc, step, reg, seen, device, disturbed, faults,
                 deletes>>

PortTaken(a) ==
  /\ Alive(a) /\ kubelet[a] = "bind" /\ port # NoAgent
  /\ kubelet' = [kubelet EXCEPT ![a] = "ended"]
  /\ UNCHANGED <<node, late, proc, step, reg, seen, port, san, device, disturbed, faults,
                 deletes>>

\* The key or the certificate can be neither read nor made.
ServeFails(a) ==
  /\ Alive(a) /\ kubelet[a] = "bind" /\ Fault
  /\ kubelet' = [kubelet EXCEPT ![a] = "ended"]
  /\ UNCHANGED <<node, late, proc, step, reg, seen, port, san, device, disturbed, deletes>>

-----------------------------------------------------------------------------
(* main: the select!, then the deregistration and the end.                 *)

Interrupt(a) ==
  /\ Alive(a) /\ step[a] = "select"
  /\ step' = [step EXCEPT ![a] = "deregister"]
  /\ UNCHANGED <<node, late, proc, reg, kubelet, seen, port, san, device, disturbed, faults,
                 deletes>>

\* Mutant: main does not wait for the kubelet server.
RegistrationEnded(a) ==
  /\ Alive(a) /\ step[a] = "select"
  /\ reg[a] = "ended"
  /\ step' = [step EXCEPT ![a] = "deregister"]
  /\ UNCHANGED <<node, late, proc, reg, kubelet, seen, port, san, device, disturbed, faults,
                 deletes>>

TaskEnded(a) ==
  /\ Alive(a) /\ step[a] = "select"
  /\ reg[a] = "ended" \/ kubelet[a] = "ended"
  /\ step' = [step EXCEPT ![a] = "deregister"]
  /\ UNCHANGED <<node, late, proc, reg, kubelet, seen, port, san, device, disturbed, faults,
                 deletes>>

Deregister(a) ==
  /\ Alive(a) /\ step[a] = "deregister"
  /\ Apply(Delete)
  /\ Exit(a, Sent(a))
  /\ UNCHANGED <<step, device, disturbed, faults, deletes>>

\* It fails before it took effect, after it, or to take effect when the agent
\* has ended.
DeregisterFails(a) ==
  /\ Alive(a) /\ step[a] = "deregister" /\ Fault
  /\ \/ /\ node' = node \/ Apply(Delete)
        /\ Exit(a, Sent(a))
        /\ disturbed' = disturbed
     \/ /\ node' = node
        /\ Exit(a, Sent(a) \cup {Delete})
        /\ disturbed' = TRUE
  /\ UNCHANGED <<step, device, deletes>>

-----------------------------------------------------------------------------
(* Around the agent.                                                       *)

Kill(a) ==
  /\ Alive(a) /\ Killable
  /\ Exit(a, Sent(a) \cup (IF step[a] = "deregister" THEN {Delete} ELSE {}))
  /\ disturbed' = (disturbed \/ step[a] = "deregister")
  /\ UNCHANGED <<node, step, device, faults, deletes>>

LateRequest ==
  /\ \E request \in late :
       /\ late' = late \ {request}
       /\ node' = node \/ Apply(request)
  /\ UNCHANGED <<proc, step, reg, kubelet, seen, port, san, device, disturbed, faults, deletes>>

\* kubectl delete node, or a cloud controller.
NodeDeleted ==
  /\ node # Absent /\ deletes < MaxDeletes
  /\ node' = Absent /\ deletes' = deletes + 1
  /\ disturbed' = TRUE
  /\ UNCHANGED <<late, proc, step, reg, kubelet, seen, port, san, device, faults>>

DeviceChanges ==
  /\ device' \in Reading
  /\ UNCHANGED <<node, late, proc, step, reg, kubelet, seen, port, san, disturbed,
                 faults, deletes>>

-----------------------------------------------------------------------------
Init ==
  /\ node = Absent /\ late = {}
  /\ proc = [a \in Agent |-> "unborn"]
  /\ step = [a \in Agent |-> "select"]
  /\ reg = [a \in Agent |-> "ended"]
  /\ kubelet = [a \in Agent |-> "ended"]
  /\ device \in Reading
  /\ seen = [a \in Agent |-> Bare]
  /\ san = NoAddress
  /\ port = NoAgent
  /\ disturbed = FALSE
  /\ faults = 0 /\ deletes = 0

RegistrationTask(a) == CreateNode(a) \/ SendHeartbeat(a) \/ Wake(a)
KubeletTask(a) == Listen(a) \/ PortTaken(a)
Main(a) == TaskEnded(a) \/ Deregister(a)

Next ==
  \/ \E a \in Agent : \/ Boot(a) \/ RegistrationTask(a) \/ KubeletTask(a)
                      \/ Main(a) \/ CallFails(a) \/ ServeFails(a)
                      \/ DeregisterFails(a) \/ Interrupt(a) \/ Kill(a)
  \/ LateRequest \/ NodeDeleted \/ DeviceChanges

Spec == Init /\ [][Next]_vars

\* Each task of a process is scheduled, and its calls return.
FairSpec == /\ Spec
            /\ \A a \in Agent : /\ WF_vars(RegistrationTask(a))
                                /\ WF_vars(KubeletTask(a))
                                /\ WF_vars(Main(a))

-----------------------------------------------------------------------------
TypeOK ==
  /\ node \in {Absent, Bare} \cup Status
  /\ late \subseteq {Create, Delete} \cup Status
  /\ proc \in [Agent -> {"unborn", "alive", "dead"}]
  /\ step \in [Agent -> {"select", "deregister"}]
  /\ reg \in [Agent -> {"create", "status", "sleep", "beat", "ended"}]
  /\ kubelet \in [Agent -> {"bind", "serve", "ended"}]
  /\ seen \in [Agent -> Status \cup {Bare}]
  /\ port \in Agent \cup {NoAgent}
  /\ san \in Address \cup {NoAddress}
  /\ device \in Reading
  /\ disturbed \in BOOLEAN
  /\ faults \in 0 .. MaxFaults /\ deletes \in 0 .. MaxDeletes

Registered(a) == Alive(a) /\ step[a] = "select" /\ reg[a] \in {"sleep", "beat"}

\* As long as nobody else deletes it, the heartbeat loop of an agent that is
\* not on its way out finds its node, whatever agents came before and however
\* they ended: the loop would only log that it does not.
HeartbeatsFindNode ==
  ~disturbed => \A a \in Agent : Registered(a) => node # Absent

\* While the device stays as it is and the agent stays up undisturbed, the
\* node's status becomes what the device is, although each heartbeat sends
\* what was read before it was sent, some fail, and requests of earlier agents
\* arrive late.
StatusCatchesUp ==
  \A a \in Agent, r \in Reading :
    <>[](Registered(a) /\ ~disturbed /\ device = r)
      => <>[](node = StatusOf(r.memory, r.address))

\* An agent that has lost one of its tasks, be it that another one listens on
\* the port, ends instead of lingering half alive.
HalfAliveEnds ==
  \A a \in Agent : (reg[a] = "ended" \/ kubelet[a] = "ended") ~> ~Alive(a)

\* virtual_kubelet_exposer.rs:209: "The IP must be a SAN - k3s connects to the
\* InternalIP we advertise."  When the device has come to rest and its agent
\* is up, it is.  The certificate is made once, the address is read anew for
\* every heartbeat: the code does not keep this.
AdvertisedIsCertified ==
  \A a \in Agent, r \in Reading :
    <>[](Registered(a) /\ port = a /\ device = r)
      => <>[](node \in Status => node.address = san)

(* Claims the code does not keep.                                          *)

\* main.rs:170: "Deregister node on clean shutdown".
CleanShutdownDeregisters ==
  /\ \A a \in Agent : ~Alive(a)
  /\ \A a \in Agent : proc[a] = "dead" => step[a] = "deregister"
  /\ ~disturbed /\ faults = 0 /\ late = {}
  => node = Absent

\* README:24: the agent "registers the device" and opens the endpoint.  One
\* that serves and has registered is registered.
ServingIsRegistered ==
  \A a \in Agent :
    (Registered(a) /\ port = a) ~> (node # Absent \/ ~Registered(a))
=============================================================================
