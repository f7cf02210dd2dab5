--------------------------- MODULE ProcessOutput ---------------------------
(***************************************************************************)
(* What the children of the agent write, and who reads it: workloads,      *)
(* whose output two tasks each drain into the kubelet's log buffer         *)
(* (workload_lifecycle_service.rs, virtual_kubelet_exposer.rs), and the    *)
(* exec probes, whose output nobody reads (health_probe_service.rs).       *)
(* Both are spawned by proot_broker.rs with piped stdout and stderr.       *)
(*                                                                         *)
(* A process stands for proot and what runs under it.  A line is who wrote *)
(* it, where, its number there, and whether it is UTF-8.                   *)
(***************************************************************************)
EXTENDS Naturals, Sequences, FiniteSets

CONSTANTS
  Workload,   \* workloads, each one start of a pod
  Probe,      \* calls of run_probe
  Name,       \* names of pods, the keys of the log buffers
  NameOf,     \* workload -> name; pods of two namespaces may share one
  Binary,     \* processes that may write a line that is not UTF-8
  Room,       \* lines that fit into a pipe
  Keep,       \* lines a log buffer keeps, 10 000 in the code
  MaxLines,   \* bound: lines a process writes to each of its streams
  MaxCalls,   \* bound: calls of start and of run_probe
  MaxCrashes, \* bound: deaths of the agent
  NoStream

Stream == {"stdout", "stderr"}
Process == Workload \cup Probe

ASSUME ProcessOutputAssumption ==
  /\ Workload \cap Probe = {}
  /\ NameOf \in [Workload -> Name]
  /\ Binary \subseteq Process
  /\ Room \in Nat \ {0} /\ Keep \in Nat \ {0}
  /\ MaxLines \in [Process -> [Stream -> Nat]]
  /\ MaxCalls \in Nat /\ MaxCrashes \in Nat
  /\ NoStream \notin Stream

VARIABLES
  life,    \* a process: "new", "runs", "ok" or "failed"
  writing, \* the stream in whose write() a process is
  wrote,   \* lines a process has written to a stream
  pipe,    \* lines in the pipe
  tap,     \* the read end: "none", "held" by a Child, "drained", "closed"
  hand,    \* the line its reader is about to append, if any
  logs,    \* KubeletState.pod_logs
  probe,   \* a probe: "idle", "exec", "http", "passed", "failed", "lost"
  crashes

vars == <<life, writing, wrote, pipe, tap, hand, logs, probe, crashes>>

Line == [of : Process, on : Stream, n : Nat, text : BOOLEAN]
Ended(p) == life[p] \in {"ok", "failed"}
Open(p, s) == tap[p][s] \in {"held", "drained"}
Asking(q) == probe[q] \in {"exec", "http"}

\* One more call may be made.
Callable ==
  Cardinality({w \in Workload : life[w] # "new"})
    + Cardinality({q \in Probe : probe[q] # "idle"}) < MaxCalls

\* Both ends of p's pipes that the agent holds are dropped.
Drop(p) ==
  /\ tap' = [tap EXCEPT ![p] = [s \in Stream |-> "closed"]]
  /\ pipe' = [pipe EXCEPT ![p] = [s \in Stream |-> <<>>]]

\* The process behind p runs; somebody has the read ends of its pipes.
Spawn(p, use) ==
  /\ life[p] = "new"
  /\ life' = [life EXCEPT ![p] = "runs"]
  /\ tap' = [tap EXCEPT ![p] = use]

-----------------------------------------------------------------------------
(* Workloads.                                                              *)

Start(w) ==
  /\ Callable
  /\ Spawn(w, [s \in Stream |-> "drained"])
  /\ UNCHANGED <<writing, wrote, pipe, hand, logs, probe, crashes>>

\* stop: SIGKILL.  Android does the same to a process it wants to be rid of.
Stop(w) ==
  /\ life[w] = "runs"
  /\ life' = [life EXCEPT ![w] = "failed"]
  /\ writing' = [writing EXCEPT ![w] = NoStream]
  /\ UNCHANGED <<wrote, pipe, tap, hand, logs, probe, crashes>>

\* Mutant: one task drains stdout, then stderr.
ReadLineInTurn(w, s) ==
  /\ tap[w][s] = "drained" /\ hand[w][s] = <<>> /\ pipe[w][s] # <<>>
  /\ s = "stderr" => tap[w]["stdout"] = "closed"
  /\ Head(pipe[w][s]).text
  /\ hand' = [hand EXCEPT ![w][s] = <<Head(pipe[w][s])>>]
  /\ pipe' = [pipe EXCEPT ![w][s] = Tail(@)]
  /\ UNCHANGED <<life, writing, wrote, tap, logs, probe, crashes>>

\* next_line
ReadLine(w, s) ==
  /\ tap[w][s] = "drained" /\ hand[w][s] = <<>> /\ pipe[w][s] # <<>>
  /\ Head(pipe[w][s]).text
  /\ hand' = [hand EXCEPT ![w][s] = <<Head(pipe[w][s])>>]
  /\ pipe' = [pipe EXCEPT ![w][s] = Tail(@)]
  /\ UNCHANGED <<life, writing, wrote, tap, logs, probe, crashes>>

\* next_line fails on a line that is not UTF-8: the task is done and drops
\* the read end with all that is in it.
ReadFails(w, s) ==
  /\ tap[w][s] = "drained" /\ hand[w][s] = <<>> /\ pipe[w][s] # <<>>
  /\ ~Head(pipe[w][s]).text
  /\ tap' = [tap EXCEPT ![w][s] = "closed"]
  /\ pipe' = [pipe EXCEPT ![w][s] = <<>>]
  /\ UNCHANGED <<life, writing, wrote, hand, logs, probe, crashes>>

\* Mutant: the task ends with the process.
EndWithProcess(w, s) ==
  /\ tap[w][s] = "drained" /\ hand[w][s] = <<>>
  /\ Ended(w)
  /\ tap' = [tap EXCEPT ![w][s] = "closed"]
  /\ pipe' = [pipe EXCEPT ![w][s] = <<>>]
  /\ UNCHANGED <<life, writing, wrote, hand, logs, probe, crashes>>

\* next_line is None: the pipe is empty and nobody can write to it.
EndOfOutput(w, s) ==
  /\ tap[w][s] = "drained" /\ hand[w][s] = <<>> /\ pipe[w][s] = <<>>
  /\ Ended(w)
  /\ tap' = [tap EXCEPT ![w][s] = "closed"]
  /\ UNCHANGED <<life, writing, wrote, pipe, hand, logs, probe, crashes>>

\* Mutant: the buffer is truncated.
FirstLines(buf) == IF Len(buf) > Keep THEN SubSeq(buf, 1, Keep) ELSE buf

\* Mutant: one line more is kept.
LastLinesAndOne(buf) ==
  IF Len(buf) > Keep THEN SubSeq(buf, Len(buf) - Keep, Len(buf)) ELSE buf

\* The lines that are kept of a buffer.
LastLines(buf) ==
  IF Len(buf) > Keep THEN SubSeq(buf, Len(buf) - Keep + 1, Len(buf)) ELSE buf

\* append_log
AppendLog(w, s) ==
  /\ hand[w][s] # <<>>
  /\ logs' = [logs EXCEPT ![NameOf[w]] = LastLines(@ \o hand[w][s])]
  /\ hand' = [hand EXCEPT ![w][s] = <<>>]
  /\ UNCHANGED <<life, writing, wrote, pipe, tap, probe, crashes>>

\* container_logs: what GET /containerLogs/<namespace>/<id>/<container> has.
ContainerLogs(id) == IF id \in Name THEN logs[id] ELSE <<>>

-----------------------------------------------------------------------------
(* Processes.  A write waits for room, and fails when the read end is gone: *)
(* most programs are killed by that.                                       *)

BeginWrite(p, s) ==
  /\ life[p] = "runs" /\ writing[p] = NoStream /\ wrote[p][s] < MaxLines[p][s]
  /\ writing' = [writing EXCEPT ![p] = s]
  /\ UNCHANGED <<life, wrote, pipe, tap, hand, logs, probe, crashes>>

EndWrite(p) ==
  \E s \in Stream, text \in {TRUE} \cup {p \notin Binary} :
    /\ writing[p] = s /\ Open(p, s) /\ Len(pipe[p][s]) < Room
    /\ wrote' = [wrote EXCEPT ![p][s] = @ + 1]
    /\ pipe' = [pipe EXCEPT ![p][s] =
         Append(@, [of |-> p, on |-> s, n |-> wrote[p][s] + 1, text |-> text])]
    /\ writing' = [writing EXCEPT ![p] = NoStream]
    /\ UNCHANGED <<life, tap, hand, logs, probe, crashes>>

BrokenPipe(p) ==
  \E s \in Stream :
    /\ writing[p] = s /\ ~Open(p, s)
    /\ \/ life' = [life EXCEPT ![p] = "failed"] /\ UNCHANGED wrote
       \/ wrote' = [wrote EXCEPT ![p][s] = @ + 1] /\ UNCHANGED life
    /\ writing' = [writing EXCEPT ![p] = NoStream]
    /\ UNCHANGED <<pipe, tap, hand, logs, probe, crashes>>

Exit(p) ==
  /\ life[p] = "runs" /\ writing[p] = NoStream
  /\ \E status \in {"ok", "failed"} : life' = [life EXCEPT ![p] = status]
  /\ UNCHANGED <<writing, wrote, pipe, tap, hand, logs, probe, crashes>>

-----------------------------------------------------------------------------
(* Probes: run_probe, a timeout around execute_probe.                      *)

ProbeExec(q) ==
  /\ probe[q] = "idle" /\ Callable
  /\ Spawn(q, [s \in Stream |-> "held"])
  /\ probe' = [probe EXCEPT ![q] = "exec"]
  /\ UNCHANGED <<writing, wrote, pipe, hand, logs, crashes>>

ProbeHttp(q) ==
  /\ probe[q] = "idle" /\ Callable
  /\ probe' = [probe EXCEPT ![q] = "http"]
  /\ UNCHANGED <<life, writing, wrote, pipe, tap, hand, logs, crashes>>

\* Nothing is configured, or nothing can be spawned.
ProbeFails(q) ==
  /\ probe[q] = "idle" /\ Callable
  /\ probe' = [probe EXCEPT ![q] = "failed"]
  /\ UNCHANGED <<life, writing, wrote, pipe, tap, hand, logs, crashes>>

\* wait() returns.
ProbeExits(q) ==
  /\ probe[q] = "exec" /\ Ended(q)
  /\ probe' = [probe EXCEPT ![q] = IF life[q] = "ok" THEN "passed" ELSE "failed"]
  /\ Drop(q)
  /\ UNCHANGED <<life, writing, wrote, hand, logs, crashes>>

HttpAnswers(q) ==
  /\ probe[q] = "http"
  /\ \E verdict \in {"passed", "failed"} : probe' = [probe EXCEPT ![q] = verdict]
  /\ UNCHANGED <<life, writing, wrote, pipe, tap, hand, logs, crashes>>

\* Mutant: only the HTTP client has a timeout.
HttpTimesOut(q) ==
  /\ probe[q] = "http"
  /\ probe' = [probe EXCEPT ![q] = "failed"]
  /\ UNCHANGED <<life, writing, wrote, pipe, tap, hand, logs, crashes>>

\* The call is dropped, and with it the Child, but not the process.
ProbeTimesOut(q) ==
  /\ Asking(q)
  /\ probe' = [probe EXCEPT ![q] = "failed"]
  /\ IF probe[q] = "exec" THEN Drop(q) ELSE UNCHANGED <<tap, pipe>>
  /\ UNCHANGED <<life, writing, wrote, hand, logs, crashes>>

-----------------------------------------------------------------------------
\* The agent dies, with its tasks, buffers and read ends; its children run on.
AgentDies ==
  /\ crashes < MaxCrashes /\ crashes' = crashes + 1
  /\ tap' = [p \in Process |->
               [s \in Stream |-> IF tap[p][s] = "none" THEN "none" ELSE "closed"]]
  /\ pipe' = [p \in Process |-> [s \in Stream |-> <<>>]]
  /\ hand' = [w \in Workload |-> [s \in Stream |-> <<>>]]
  /\ logs' = [n \in Name |-> <<>>]
  /\ probe' = [q \in Probe |-> IF Asking(q) THEN "lost" ELSE probe[q]]
  /\ UNCHANGED <<life, writing, wrote>>

Init ==
  /\ life = [p \in Process |-> "new"]
  /\ writing = [p \in Process |-> NoStream]
  /\ wrote = [p \in Process |-> [s \in Stream |-> 0]]
  /\ pipe = [p \in Process |-> [s \in Stream |-> <<>>]]
  /\ tap = [p \in Process |-> [s \in Stream |-> "none"]]
  /\ hand = [w \in Workload |-> [s \in Stream |-> <<>>]]
  /\ logs = [n \in Name |-> <<>>]
  /\ probe = [q \in Probe |-> "idle"]
  /\ crashes = 0

Reader(w, s) ==
  ReadLine(w, s) \/ ReadFails(w, s) \/ EndOfOutput(w, s) \/ AppendLog(w, s)

Answer(q) == ProbeExits(q) \/ HttpAnswers(q) \/ ProbeTimesOut(q)

Next ==
  \/ \E w \in Workload : Start(w) \/ Stop(w) \/ \E s \in Stream : Reader(w, s)
  \/ \E p \in Process : \/ \E s \in Stream : BeginWrite(p, s)
                        \/ EndWrite(p) \/ BrokenPipe(p) \/ Exit(p)
  \/ \E q \in Probe : ProbeExec(q) \/ ProbeHttp(q) \/ ProbeFails(q) \/ Answer(q)
  \/ AgentDies

Spec == Init /\ [][Next]_vars

\* Tasks are scheduled, the kernel lets a write go on that can, timers fire.
\* Nothing says that a process ends or that a probe's child does.
FairSpec ==
  /\ Spec
  /\ \A w \in Workload, s \in Stream : WF_vars(Reader(w, s))
  /\ \A p \in Process : WF_vars(EndWrite(p) \/ BrokenPipe(p))
  /\ \A q \in Probe : WF_vars(ProbeTimesOut(q))

-----------------------------------------------------------------------------
TypeOK ==
  /\ life \in [Process -> {"new", "runs", "ok", "failed"}]
  /\ writing \in [Process -> Stream \cup {NoStream}]
  /\ wrote \in [Process -> [Stream -> Nat]]
  /\ pipe \in [Process -> [Stream -> Seq(Line)]]
  /\ tap \in [Process -> [Stream -> {"none", "held", "drained", "closed"}]]
  /\ hand \in [Workload -> [Stream -> Seq(Line)]]
  /\ logs \in [Name -> Seq(Line)]
  /\ probe \in [Probe -> {"idle", "exec", "http", "passed", "failed", "lost"}]
  /\ crashes \in 0 .. MaxCrashes
  /\ \A n \in Name : Len(logs[n]) <= Keep
  /\ \A p \in Process, s \in Stream : Len(pipe[p][s]) <= Room

Of(line, w, s) == line.of = w /\ line.on = s

\* Lines of w and s whose reader has appended them.
Appended(w, s) == wrote[w][s] - Len(pipe[w][s]) - Len(hand[w][s])

\* Of the lines 1 to top of w and s the log has all but the first lost ones,
\* each once and in order; it has lost one only if it is full.
HasAllBut(log, w, s, lost, top) ==
  /\ \A i \in 1 .. Len(log) : Of(log[i], w, s) => log[i].n \in lost + 1 .. top
  /\ \A n \in lost + 1 .. top :
       \E i \in 1 .. Len(log) : Of(log[i], w, s) /\ log[i].n = n
  /\ \A i, j \in 1 .. Len(log) :
       Of(log[i], w, s) /\ Of(log[j], w, s) /\ i < j => log[i].n < log[j].n
  /\ lost > 0 => Len(log) = Keep

\* The reader's hand and the pipe have the lines that come next.
HoldsTheRest(w, s) ==
  /\ \A i \in 1 .. Len(hand[w][s]) :
       /\ Of(hand[w][s][i], w, s)
       /\ hand[w][s][i].n = Appended(w, s) + i
  /\ \A i \in 1 .. Len(pipe[w][s]) :
       /\ Of(pipe[w][s][i], w, s)
       /\ pipe[w][s][i].n = Appended(w, s) + Len(hand[w][s]) + i

Accounted(w, s) ==
  /\ HoldsTheRest(w, s)
  /\ \E lost \in 0 .. Appended(w, s) :
       HasAllBut(ContainerLogs(NameOf[w]), w, s, lost, Appended(w, s))

\* Of what a workload has written to a stream, its pod's log and the pipe have
\* the last lines, in order and without a gap: with two readers and two pods
\* of one name appending, the buffer being cut and processes being killed,
\* nothing is lost but the oldest, and that only when the buffer is full.
LogsAreTheLastLines ==
  \A w \in Workload, s \in Stream :
    tap[w][s] = "drained" => Accounted(w, s)

\* What a process has left in its pipes when it ended, by itself or killed,
\* still gets into the log, unless the agent dies or a line is not UTF-8.
OutputIsDrained ==
  \A w \in Workload, s \in Stream, c \in 0 .. MaxCrashes :
    (/\ Ended(w) /\ crashes = c
     /\ hand[w][s] \o pipe[w][s] # <<>>
     /\ \A i \in 1 .. Len(pipe[w][s]) : pipe[w][s][i].text)
    ~> (\/ crashes # c
        \/ \E i \in 1 .. Len(logs[NameOf[w]]) :
             LET line == logs[NameOf[w]][i]
             IN  line.of = w /\ line.on = s /\ line.n = wrote[w][s])

\* No write blocks forever: a workload's pipes are drained, each on its own, or
\* closed, whatever the order it writes in; a probe's are closed in time.
WritesReturn == \A p \in Process : writing[p] # NoStream ~> writing[p] = NoStream

\* Every probe is answered, also one whose process hangs or is held up by a
\* pipe nobody reads.
ProbesAreAnswered == \A q \in Probe : Asking(q) ~> ~Asking(q)

(* Why LogsAreTheLastLines holds, for OutputProofs.                        *)

\* A process that was not started has written nothing, and no log has a line
\* of it.
NewIsSilent ==
  /\ \A p \in Process : life[p] = "new" =>
       /\ writing[p] = NoStream
       /\ \A s \in Stream : wrote[p][s] = 0 /\ ~Open(p, s)
  /\ \A n \in Name : \A i \in 1 .. Len(logs[n]) : life[logs[n][i].of] # "new"

\* There is something in a pipe only as long as somebody holds its read end.
ClosedIsEmpty ==
  \A p \in Process, s \in Stream : ~Open(p, s) => pipe[p][s] = <<>>

\* A reader has at most one line in its hand, and a task that is done none.
HandIsOfReader ==
  \A w \in Workload, s \in Stream :
    /\ Len(hand[w][s]) <= 1
    /\ hand[w][s] # <<>> => tap[w][s] = "drained"

OutputInv ==
  /\ TypeOK
  /\ NewIsSilent
  /\ ClosedIsEmpty
  /\ HandIsOfReader
  /\ LogsAreTheLastLines

(* Claims the code does not keep.                                          *)

\* workload_lifecycle_service.rs:78: "drain stdout/stderr into the kubelet log
\* ring buffer".  A reader goes on as long as its process.
DrainedToTheEnd ==
  \A w \in Workload, s \in Stream :
    life[w] = "runs" /\ crashes = 0 => tap[w][s] = "drained"

\* health_probe_service.rs:52: a probe that has answered is over.
AnsweredProbesAreOver ==
  \A q \in Probe : probe[q] \in {"passed", "failed"} => life[q] # "runs"

\* virtual_kubelet_exposer.rs:47: "Keep last 10 000 lines per pod".
LogsAreOfOnePod ==
  \A n \in Name : \A i, j \in 1 .. Len(logs[n]) : logs[n][i].of = logs[n][j].of
=============================================================================
