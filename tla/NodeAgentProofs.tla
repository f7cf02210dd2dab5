-------------------------- MODULE NodeAgentProofs --------------------------
(***************************************************************************)
(* For any number of agent processes, readings of the device, faults and   *)
(* kills: the heartbeats of an undisturbed agent find its node.            *)
(***************************************************************************)
EXTENDS NodeAgent, TLAPS

\* Only a delete takes the node away.
LEMMA OnlyDeleteRemoves ==
  ASSUME NEW request, Apply(request), node # Absent, request # Delete
  PROVE  node' # Absent
  BY ValuesAreDistinct DEF Apply

\* What the API server makes of a request is a node.
LEMMA ApplyIsTyped ==
  ASSUME NEW request, Apply(request), node \in {Absent, Bare} \cup Status
  PROVE  node' \in {Absent, Bare} \cup Status
  BY DEF Apply

\* A status made for an address of the device is a status.
LEMMA StatusIsTyped ==
  ASSUME NEW r \in Reading, NEW ip \in Address
  PROVE  StatusOf(r.memory, ip) \in Status
  BY DEF Status

\* A task that has a request under way knows the status to send.
Prepared == \A a \in Agent : reg[a] \in {"create", "status", "beat"} => seen[a] \in Status

\* Undisturbed means that one agent runs at most and that no delete is on
\* its way.
Undisturbed ==
  ~disturbed => /\ \A a, b \in Agent : Alive(a) /\ Alive(b) => a = b
                /\ Delete \notin late


-----------------------------------------------------------------------------
(* Type correctness.                                                       *)

TypeInv == TypeOK /\ Prepared

LEMMA TypeInit == Init => TypeInv
<1> SUFFICES ASSUME Init PROVE TypeInv
  OBVIOUS
<1>1. Prepared
  BY DEF Init, Prepared
<1>2. /\ seen \in [Agent -> Status \cup {Bare}]
      /\ node \in {Absent, Bare} \cup Status
      /\ late \subseteq {Create, Delete} \cup Status
  BY DEF Init
<1>3. /\ proc \in [Agent -> {"unborn", "alive", "dead"}]
      /\ step \in [Agent -> {"select", "deregister"}]
      /\ reg \in [Agent -> {"create", "status", "sleep", "beat", "ended"}]
      /\ kubelet \in [Agent -> {"bind", "serve", "ended"}]
  BY DEF Init
<1>4. port \in Agent \cup {NoAgent} /\ san \in Address \cup {NoAddress}
  BY DEF Init
<1>5. faults \in 0 .. MaxFaults /\ deletes \in 0 .. MaxDeletes
  BY NodeAgentAssumption DEF Init
<1> QED
  BY <1>1, <1>2, <1>3, <1>4, <1>5 DEF Init, TypeInv, TypeOK

LEMMA SentIsTyped ==
  ASSUME TypeInv, NEW a \in Agent
  PROVE  Sent(a) \subseteq {Create} \cup Status
  BY DEF Sent, TypeInv, TypeOK, Prepared

\* The end of a process leaves what it changes well typed.
LEMMA ExitIsTyped ==
  ASSUME TypeInv, NEW a \in Agent,
         NEW requests \in SUBSET ({Create, Delete} \cup Status),
         Exit(a, requests)
  PROVE  /\ late' \subseteq {Create, Delete} \cup Status
         /\ proc' \in [Agent -> {"unborn", "alive", "dead"}]
         /\ reg' \in [Agent -> {"create", "status", "sleep", "beat", "ended"}]
         /\ kubelet' \in [Agent -> {"bind", "serve", "ended"}]
         /\ seen' \in [Agent -> Status \cup {Bare}]
         /\ port' \in Agent \cup {NoAgent}
         /\ san' \in Address \cup {NoAddress}
         /\ Prepared'
  BY DEF Exit, TypeInv, TypeOK, Prepared

LEMMA TypeNext == TypeInv /\ [Next]_vars => TypeInv'
<1> SUFFICES ASSUME TypeInv, [Next]_vars PROVE TypeInv'
  OBVIOUS
<1> USE NodeAgentAssumption
<1> USE DEF TypeInv, TypeOK
<1>a. StatusNow \in Status
  BY StatusIsTyped DEF StatusNow, Address
<1>b. ASSUME NEW a \in Agent, reg[a] = "create"
      PROVE  [seen[a] EXCEPT !.address = device.address] \in Status
  <2>1. PICK r \in Reading, ip \in Address : seen[a] = StatusOf(r.memory, ip)
    BY <1>b DEF Prepared, Status
  <2>2. [seen[a] EXCEPT !.address = device.address]
          = StatusOf(r.memory, device.address)
    BY <2>1 DEF StatusOf
  <2> QED
    BY <2>2, StatusIsTyped DEF Address
<1>1. ASSUME NEW a \in Agent, Boot(a) PROVE TypeInv'
  BY <1>1, <1>a DEF Boot, Prepared
<1>2. ASSUME NEW a \in Agent, CreateNode(a) PROVE TypeInv'
  <2>1. node' \in {Absent, Bare} \cup Status
    BY <1>2, ApplyIsTyped DEF CreateNode
  <2>2. /\ seen' = [seen EXCEPT ![a] = [seen[a] EXCEPT !.address = device.address]]
        /\ reg' = [reg EXCEPT ![a] = "status"] /\ reg[a] = "create"
    BY <1>2 DEF CreateNode
  <2>3. Prepared' /\ seen' \in [Agent -> Status \cup {Bare}]
    BY <2>2, <1>b DEF Prepared
  <2> QED
    BY <1>2, <2>1, <2>2, <2>3 DEF CreateNode
<1>3. ASSUME NEW a \in Agent, SendHeartbeat(a) PROVE TypeInv'
  <2>1. node' \in {Absent, Bare} \cup Status
    BY <1>3, ApplyIsTyped DEF SendHeartbeat
  <2> QED
    BY <1>3, <2>1 DEF SendHeartbeat, Prepared
<1>4. ASSUME NEW a \in Agent, Wake(a) PROVE TypeInv'
  BY <1>4, <1>a DEF Wake, Prepared
<1>5. ASSUME NEW a \in Agent, CallFails(a) PROVE TypeInv'
  <2>1. node' \in {Absent, Bare} \cup Status
    BY <1>5, ApplyIsTyped DEF CallFails
  <2> QED
    BY <1>5, <2>1 DEF CallFails, Fault, Prepared
<1>6. ASSUME NEW a \in Agent, KubeletTask(a) \/ ServeFails(a) PROVE TypeInv'
  BY <1>6 DEF KubeletTask, Listen, PortTaken, ServeFails, Fault, Prepared, Address
<1>7. ASSUME NEW a \in Agent, Interrupt(a) \/ TaskEnded(a) PROVE TypeInv'
  BY <1>7 DEF Interrupt, TaskEnded, Prepared
<1>8. ASSUME NEW a \in Agent, Deregister(a) PROVE TypeInv'
  BY <1>8, ApplyIsTyped, ExitIsTyped, SentIsTyped DEF Deregister
<1>9. ASSUME NEW a \in Agent, DeregisterFails(a) PROVE TypeInv'
  <2>1. node' \in {Absent, Bare} \cup Status /\ disturbed' \in BOOLEAN
    BY <1>9, ApplyIsTyped DEF DeregisterFails
  <2>2. \E requests \in SUBSET ({Create, Delete} \cup Status) : Exit(a, requests)
    BY <1>9, SentIsTyped DEF DeregisterFails
  <2> QED
    BY <1>9, <2>1, <2>2, ExitIsTyped DEF DeregisterFails, Fault
<1>10. ASSUME NEW a \in Agent, Kill(a) PROVE TypeInv'
  <2> DEFINE requests == Sent(a) \cup (IF step[a] = "deregister" THEN {Delete} ELSE {})
  <2>1. requests \in SUBSET ({Create, Delete} \cup Status)
    BY SentIsTyped
  <2>2. Exit(a, requests) /\ UNCHANGED <<node, step, device, faults, deletes>>
    BY <1>10 DEF Kill
  <2>3. disturbed' \in BOOLEAN
    BY <1>10 DEF Kill
  <2> HIDE DEF requests
  <2> QED
    BY <2>1, <2>2, <2>3, ExitIsTyped
<1>11. CASE LateRequest
  BY <1>11, ApplyIsTyped DEF LateRequest, Prepared
<1>12. CASE NodeDeleted
  BY <1>12 DEF NodeDeleted, Prepared
<1>13. CASE DeviceChanges
  BY <1>13 DEF DeviceChanges, Prepared
<1>14. CASE UNCHANGED vars
  BY <1>14 DEF vars, Prepared
<1> QED
  BY <1>1, <1>2, <1>3, <1>4, <1>5, <1>6, <1>7, <1>8, <1>9, <1>10, <1>11,
     <1>12, <1>13, <1>14 DEF Next, RegistrationTask, Main

\* The state of an agent and of the API server stays well typed, whatever the
\* processes, the device and the network do.
THEOREM TypeCorrect == Spec => []TypeOK
<1>1. TypeInv => TypeOK
  BY DEF TypeInv
<1> QED
  BY TypeInit, TypeNext, <1>1, PTL DEF Spec

-----------------------------------------------------------------------------
(* The heartbeats find their node.                                         *)

IInv == Undisturbed /\ HeartbeatsFindNode

LEMMA FindInit == Init => IInv
  BY DEF Init, IInv, Undisturbed, HeartbeatsFindNode, Registered, Alive

\* The node outlives every request but a delete.
LEMMA NodeStays ==
  ASSUME TypeInv, NEW a \in Agent, NEW request \in Sent(a), Apply(request),
         node # Absent
  PROVE  node' # Absent
  BY SentIsTyped, OnlyDeleteRemoves, ValuesAreDistinct

\* What keeps the processes that run, the requests of those that have ended
\* and the history keeps Undisturbed.
LEMMA SameProcesses ==
  ASSUME IInv, UNCHANGED <<proc, late, disturbed>>
  PROVE  Undisturbed'
  BY DEF IInv, Undisturbed, Alive

\* When the only agent ends there is none left to look for a node.
LEMMA LastExit ==
  ASSUME TypeInv, IInv, NEW a \in Agent, Alive(a),
         NEW requests, Delete \notin requests,
         Exit(a, requests), UNCHANGED disturbed
  PROVE  IInv'
<1> SUFFICES ASSUME ~disturbed PROVE IInv'
  BY DEF IInv, Undisturbed, HeartbeatsFindNode
<1>1. \A b \in Agent : ~Alive(b)'
  BY DEF IInv, Undisturbed, Alive, Exit, TypeInv, TypeOK
<1> QED
  BY <1>1 DEF IInv, Undisturbed, HeartbeatsFindNode, Registered, Exit

LEMMA FindNext == TypeInv /\ IInv /\ [Next]_vars => IInv'
<1> SUFFICES ASSUME TypeInv, IInv, [Next]_vars, ~disturbed' PROVE IInv'
  BY DEF IInv, Undisturbed, HeartbeatsFindNode
<1> USE DEF IInv, HeartbeatsFindNode, Registered
<1>a. ~disturbed
  BY DEF Next, RegistrationTask, KubeletTask, Main, Boot, CreateNode,
         SendHeartbeat, Wake, CallFails, Listen, PortTaken, ServeFails, Interrupt,
         TaskEnded, Deregister, DeregisterFails, Kill, LateRequest,
         NodeDeleted, DeviceChanges, vars
<1>1. ASSUME NEW a \in Agent, Boot(a) PROVE IInv'
  <2>1. \A b \in Agent : Alive(b)' => b = a
    BY <1>1 DEF Boot, Alive, TypeInv, TypeOK
  <2>2. reg'[a] = "create" /\ late' = late
    BY <1>1 DEF Boot, TypeInv, TypeOK
  <2> QED
    BY <1>a, <2>1, <2>2 DEF Undisturbed
<1>2. ASSUME NEW a \in Agent, CreateNode(a) PROVE IInv'
  <2>1. node' # Absent
    BY <1>2, ValuesAreDistinct DEF CreateNode, Apply
  <2> QED
    BY <1>2, <2>1, SameProcesses DEF CreateNode
<1>3. ASSUME NEW a \in Agent, SendHeartbeat(a) PROVE IInv'
  <2>1. node # Absent => node' # Absent
    BY <1>3, NodeStays DEF SendHeartbeat, Sent
  <2>2. ASSUME NEW b \in Agent, Registered(b)' PROVE node' # Absent
    <3>1. CASE b = a
      BY <1>a, <1>3, <2>1, <2>2, <3>1 DEF SendHeartbeat, Alive, TypeInv, TypeOK
    <3>2. CASE b # a
      BY <1>a, <1>3, <2>1, <2>2, <3>2 DEF SendHeartbeat, Alive, TypeInv, TypeOK
    <3> QED
      BY <3>1, <3>2
  <2> QED
    BY <1>3, <2>2, SameProcesses DEF SendHeartbeat
<1>4. ASSUME NEW a \in Agent, Wake(a) PROVE IInv'
  BY <1>a, <1>4, SameProcesses DEF Wake, Alive, TypeInv, TypeOK
<1>5. ASSUME NEW a \in Agent, CallFails(a) PROVE IInv'
  <2>1. node # Absent => node' # Absent
    BY <1>5, NodeStays DEF CallFails
  <2>2. ASSUME NEW b \in Agent, Registered(b)' PROVE Registered(b)
    BY <1>5, <2>2 DEF CallFails, Alive, TypeInv, TypeOK
  <2> QED
    BY <1>a, <1>5, <2>1, <2>2, SameProcesses DEF CallFails
<1>6. ASSUME NEW a \in Agent, KubeletTask(a) \/ ServeFails(a) PROVE IInv'
  BY <1>a, <1>6, SameProcesses DEF KubeletTask, Listen, PortTaken, ServeFails, Alive
<1>7. ASSUME NEW a \in Agent, Interrupt(a) \/ TaskEnded(a) PROVE IInv'
  BY <1>a, <1>7, SameProcesses DEF Interrupt, TaskEnded, Alive, TypeInv, TypeOK
<1>8. ASSUME NEW a \in Agent, Deregister(a) \/ DeregisterFails(a) PROVE IInv'
  <2>1. Delete \notin Sent(a)
    BY SentIsTyped, ValuesAreDistinct
  <2>2. Alive(a) /\ Exit(a, Sent(a)) /\ UNCHANGED disturbed
    BY <1>8 DEF Deregister, DeregisterFails
  <2> QED
    BY <2>1, <2>2, LastExit
<1>9. ASSUME NEW a \in Agent, Kill(a) PROVE IInv'
  <2>1. Delete \notin Sent(a) /\ step[a] # "deregister"
    BY <1>9, SentIsTyped, ValuesAreDistinct DEF Kill
  <2>2. Alive(a) /\ Exit(a, Sent(a)) /\ UNCHANGED disturbed
    <3>1. Sent(a) \cup (IF step[a] = "deregister" THEN {Delete} ELSE {}) = Sent(a)
      BY <2>1
    <3>2. Alive(a) /\ Exit(a, Sent(a))
      BY <1>9, <3>1 DEF Kill
    <3>3. disturbed' = FALSE /\ disturbed = FALSE
      BY <1>9, <1>a DEF Kill, TypeInv, TypeOK
    <3> QED
      BY <3>2, <3>3
  <2> QED
    BY <2>1, <2>2, LastExit
<1>10. CASE LateRequest
  <2>1. node # Absent => node' # Absent
    BY <1>a, <1>10, OnlyDeleteRemoves DEF LateRequest, Undisturbed
  <2> QED
    BY <1>a, <1>10, <2>1 DEF LateRequest, Undisturbed, Alive
<1>11. CASE NodeDeleted
  BY <1>11 DEF NodeDeleted
<1>12. CASE DeviceChanges \/ UNCHANGED vars
  BY <1>a, <1>12, SameProcesses DEF DeviceChanges, vars, Alive
<1> QED
  BY <1>1, <1>2, <1>3, <1>4, <1>5, <1>6, <1>7, <1>8, <1>9, <1>10, <1>11,
     <1>12 DEF Next, RegistrationTask, Main

\* Unless somebody else deletes its node, the heartbeat loop of an agent
\* never misses it: for any number of agents one after the other, any faults,
\* kills and late requests.
THEOREM FindsNode == Spec => []HeartbeatsFindNode
<1>1. IInv => HeartbeatsFindNode
  BY DEF IInv
<1> QED
  BY TypeInit, TypeNext, FindInit, FindNext, <1>1, PTL DEF Spec
=============================================================================
