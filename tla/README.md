# droidnode in TLA+

droidnode turns an Android phone into a Kubernetes node: an app keeps a native
agent alive, the agent registers the device as a node, pulls images, runs pods
under proot and reports how they end. This directory models the parts of it
that decide something, checks them with TLC and proves the core with TLAPS.
Paths below are relative to the repository; `executor` stands for
`src/agent/executor/src`, `droidnode` for
`src/android/app/src/main/java/com/droidnode`.

## 1. The system

| Part | State it keeps | Operations | Interacts with |
|------|----------------|------------|----------------|
| Reconciliation loop (`executor/services/orchestration/reconciliation_service.rs`) | the map `running`: uid to handle, locked for a whole pass | `reconcile_once` every 15 s: list, refresh or start (3a), stop (3b), report and forget (3c) | control plane broker, image store, workload lifecycle |
| Workload lifecycle and execution (`workload_lifecycle_service.rs`, `workload_execution_service.rs`, `proot_broker.rs`) | a child process per handle | start, stop, status | proot, the kubelet's log buffers |
| Control plane broker (`control_plane_broker.rs`) | none | list pods, report a pod, register, heartbeat, deregister, record an event | API server |
| Image store (`image_orchestration_service.rs`, `image_pull_service.rs`, `image_unpack_service.rs`, `filesystem_broker.rs`) | layer cache, one rootfs per image reference, its config and its sentinel, all on disk | `prepare_image` | registry; called by the loop and by the smoke test of `main.rs` |
| OCI registry broker (`oci_registry_broker.rs`) | none | manifest, layer, config, each with a token exchange | registry |
| Agent process (`node-agent/src/main.rs`, `node_registration_service.rs`) | its tasks | launch, register, beat every 30 s, wait in `select!`, deregister | all of the above |
| Virtual kubelet (`virtual_kubelet_exposer.rs`) | the port; the key and the certificate of its authority on disk; log lines per pod name | `serve` (`make_tls_config`), append a line, four GET handlers | API server, containers' output |
| Health probes (`health_probe_service.rs`) | none | `run_probe`: a command or an HTTP request, with a timeout | proot, a pod's port; offered by the lifecycle service |
| Node capability, events (`node_capability_service.rs`, `event_recording_service.rs`) | none | read the device, record | heartbeats, API server |
| Android supervisor (`ForegroundServiceExposer.kt`, `NodeReadinessService.kt`, `AgentLifecycleService.kt`, `RustProcessBroker.kt`, `ResourceGuardService.kt`) | `process`, `agentProcess`, `isAgentRunning`; one coroutine per start command; a reader thread per agent | evaluate, start, stop, restart, tell | the agent process, battery, network |
| Entry points and UI (`BootReceiver.kt`, `MainActivity.kt`, `DebugActivity.kt`, `LogBuffer.kt`) | 500 log lines | start command, display | supervisor |

### What is hard about it

* **Long passes over stale lists.** One pass of the loop works from one list
  through image pulls that take minutes. Pods go, end and are replaced by pods
  of the same name meanwhile. A status patch is addressed by name, a handle is
  kept by uid.
* **Errors that abort.** `?` on one report ends the pass; a failed preparation
  only skips a pod. A failed poll is reported as `Unknown` with a *terminated*
  container, after which the API server refuses `Running` (422), which the
  broker takes for success.
* **Deaths.** The handles live in memory, the containers survive the agent.
  Requests in flight may still arrive. The disk survives too, in whatever state
  the last attempt to prepare an image has left it.
* **No locks.** Two tasks prepare the same image; two loops start and stop the
  same agent; a reader thread and the loops write the same flag; two agents of
  one device share one Node object, one port and one data directory.
* **Pipes.** Every child of the agent writes into two pipes of a fixed size. A
  workload's are drained by two tasks that go on after its end, a probe's by
  nobody; a pipe that is full holds the writer up, one without a reader kills
  it, and the agent's death closes them all.
* **Order.** Layers and the entries in them, settings of a variable, the parts
  of an image reference: what counts is which comes first or last.

What makes each part correct is stated in its module and listed in section 3;
the hazards, line by line, are in `PROJECT.json`.

## 2. The modules

### Reconciler, PodContract

`Reconciler.tla` is one agent at a time: `reconcile_once` with a step per
stretch of code between two awaits, the API server's pods, the containers, the
death and restart of the agent.

| Variable | Code |
|----------|------|
| `object`, `phase`, `cterm` | the pod object, its `status.phase`, and whether its `containerStatuses` say terminated |
| `stray` | patches a dead agent had sent |
| `running`, `child`, `reaped` | keys of the map, the `Child` behind each handle, and whether `try_wait` has returned its status (after that it cannot fail) |
| `orphans` | live processes without a handle |
| `desired`, `skip` | the list of the pass, and the pods listed in a terminal phase |
| `pc`, `todo`, `cur`, `obs`, `finished` | where the pass is, what its loop has left, the pod in hand, the report being sent, `to_restart` |
| `outcomes`, `starts` | history: how a pod's processes ended, how many this agent has spawned |
| `broken` | pods no attempt gets to prepare: without an image, with a reference that is not read, or with a layer that is cached without its tarball |

The actions follow the code: `ListPods`, `ListFails`; `RefreshPod`,
`SkipFinishedPod`, `PreparePod`, `GiveUpPod`, `StartWorkload` (3a);
`ReportSucceeds`, `ReportNotFound`, `ReportFails` (shared by 3a and 3c);
`BeginStop`, `StopWorkload` (3b); `BeginSync`, `CheckWorkload`,
`ForgetFinished` (3c). The environment is `AgentDies`, `AgentRestarts`,
`StrayPatch`, `ProcessExits`, `OrphanExits`, `CreatePod`, `DeletePod`,
`ForceDeletePod`, `SmokeTestFails`, `MendImage`. The order of the loops over
lists and maps is any order.

A preparation that fails may be one that works in the next pass, or one that has
made the directory of a layer and not its tarball: then every image with that
layer is `broken`, unless its rootfs is complete already (`LayerIsLost`; the
walk itself is in `ImageStore`, `images_poisoned`). A death and the smoke test of
`main.rs` may break images in the same way. Pods may be `broken` from the start.
The agent repairs none of it; `MendImage` is a user who edits the pod, moves its
tag, or clears the cache.

The API server is modelled from how the code uses it: a name is held by one
object at a time, a patch applies to whatever object has the name or is
answered 404, a container that was terminated does not run again unless its
restartPolicy is Always, a deleted pod in a terminal phase goes at once and any
other waits for its kubelet.

`PodContract.tla` is what the loop promises of one pod when the agent does not
forget: waiting, executing, finished, settled; a verdict that is published
comes from a process of the pod; a handle is closed only with the verdict
published or the pod gone. `Reconciler!KeepsContract` is the refinement.

### ImageStore

`prepare_image` for several tasks: `Ask` (no sentinel), `FetchManifest`; per
layer `SeeCached` or `SeeMissing`, `CreateLayerDir`, `BeginWrite`, `EndWrite`,
then `EndPull`; per layer `OpenLayer`, the entries of its archive, `EndUnpack`;
`SaveConfig`, `WriteSentinel`. A request or a file operation may fail at any
step (`Fail`), the removal of what is in a directory also in its middle
(`ClearPartly`), a tarball that is cut breaks the stream (`OpenFails`,
`UnpackBreaks`), the agent may die (`AgentDies`: the disk stays), a tag may
move (`MoveTag`). A death in the middle of a removal leaves what a failure there
and a death after it leave.

The entries follow `extract_layer`: `OpenFile` and `WriteFile` (a file),
`MakeSymlink`, `ApplyWhiteout` (of a file or of a directory), and for a hard
link `MakeLink`, `CopyLink` (the kernel refuses, or the name is taken; a copy
follows a symbolic link that leads nowhere out of the rootfs, `CopiedTo`) or
`DeferLink`, with `ResolveLink` and `LinkFails` after the end of the archive.
Two tasks in one rootfs may make each other's entries fail (`Collide`).

| Variable | Code |
|----------|------|
| `current` | the registry: the layers a tag points to |
| `tarball` | `layers/<digest>/layer.tar.gz`: nothing, a directory without it, cut, whole |
| `tree`, `twins` | the rootfs: what each name holds (a layer stands for the content it brings), and which names are names of one file; the open file of a task is a name too |
| `config`, `ready` | `.droidnode_image_config.json`, `.droidnode_ready` |
| `job` | where a call of `prepare_image` is |

`Merged` is the reference: what a list of layers should give by the rule of the
OCI image format, written without regard to the order of entries in an archive.

`TidyArchives.tla` says for which archives the code gives it, and why: `Tidy`
is a condition on the entries of an image's layers, `TidyInv` what holds of an
attempt at every step if they meet it. `SharedImages.tla` says the same of two
tasks that unpack one image over each other: `Shareable` is the condition,
`SharedInv` what holds of both attempts together. Neither adds behaviour to
`ImageStore`.

### NodeAgent

Agents of one device, one after the other or at once: `Boot`, `CreateNode`,
`SendHeartbeat`, `Wake`, `CallFails` (registration task), `Listen`, `PortTaken`,
`ServeFails` (kubelet), `Interrupt`, `TaskEnded`, `Deregister`, `DeregisterFails` (main),
and around them `Kill`, `LateRequest`, `NodeDeleted`, `DeviceChanges`.

`device` is what the device is like at the moment: `MemAvailable` and the
address its packets leave from. `StatusOf` is the part of a node's status that
varies with it: `IsReady` and memory pressure by the thresholds of
`node_capability_service.rs`, the allocatable memory, the address. The readers
of battery and network are stubs (`Battery`, `Network`), so neither threshold
ever acts in the agent: on Android the supervisor looks at them. `seen` is the
status a task has made up to send; the conditions of a registration are read
before the node is created, its address after. `san` is the address in the
certificate, read once when the server starts.

The reconciliation task
never returns and so never ends the `select!`. `disturbed` is history: an agent
may have deleted the Node object of another (an agent was started while one
ran, or the deregistration of one is still on its way after it was killed or
after its client had given up), or somebody else has.

### KubeletCA

`serve` up to the open port, a step per access to a file: `SeeKey`, `Generate`,
`ReadKey`, `ReadFails` (is there a key?), `KeepKey`, `SeeNoKey` (asked a second
time), `BeginWriteKey`, `EndWriteKey`, the same for the certificate, `Serve`,
`PortTaken`. A write truncates and then fills, and an agent may die in between
(`Fail`). `CopyCert` is the one-time setup of k3s, which loads a whole
certificate or none. `key`, `cert` and `trusted`
hold key pairs: the certificate is derived from the key and stands for it.
`contended` and `cut` are history: two agents had a new key at once; a write
was left unfinished.

### Launch

The data on the way from a pod to a process, for one start of one pod: `Parse`
(`ImageRef::parse`), the manifest and its platform (`Answered`, `Challenged`,
`ResolveToken`, `TakeManifest`, `ChoosePlatform`, `NoPlatform`, `TakePlatform`,
`TakeBlob`), `ResolveCommand`, `ResolveEnv`, `ResolveMounts`, `WorkingDir`, and
`Spawn` or `SpawnFails` (no program; a directory that cannot be made, no process:
it may always fail). A reference is a sequence of words and separators, and
a pod carries it as its author means it (host, path, tag, digest), so that what
is parsed can be compared with what was meant. Files, layers and the process
that follow are in the other modules.

### ProcessOutput

What the children of the agent write and who reads it. `Start` spawns a
workload with its two readers; `ReadLine`, `AppendLog`, `ReadFails`,
`EndOfOutput` are the loop of a reader around `next_line` and `append_log`.
`ProbeExec`, `ProbeHttp`, `ProbeFails`, `ProbeExits`, `HttpAnswers`,
`ProbeTimesOut` are `run_probe`. Processes are the environment: `BeginWrite`,
`EndWrite` (when the pipe has room), `BrokenPipe` (when its read end is gone:
killed, or the line is lost), `Exit`, `Stop`, and `AgentDies`, which takes
readers, pipes and buffers and leaves the processes.

| Variable | Code |
|----------|------|
| `life`, `writing`, `wrote` | a process, the stream in whose write it is, the lines it has written |
| `pipe`, `tap` | what is in a pipe; who has the read end: a `Child` (`held`), a reader (`drained`), nobody (`closed`) |
| `hand` | the line between `next_line` and `append_log` |
| `logs` | `KubeletState.pod_logs`; `ContainerLogs` is what the handler shows of it |
| `probe` | where a call of `run_probe` is, and its verdict |

A line is who wrote it, where, its number and whether it is UTF-8: enough to
say which lines a log has and in which order. A pipe counts lines, and with it
the 8 KiB a `BufReader` holds.

### Supervisor

The service instance, its loops, the two handles (`process` of the broker,
`known` for `agentProcess`), the reader threads and `isAgentRunning`. A step is
one access to a shared field: loops run on a pool, `start` and `stop` on the IO
dispatcher, and nothing locks. A cancelled loop ends at `delay` or at the entry
of `withContext`, never inside. Android is taken to kill the agent with the
app's process (`AppDies`), which favours the code. `pb.start()` and the assignment
of its process are one step: nothing suspends in between. A kill takes effect at
once: nothing a loop looks at tells how long it takes.

## 3. The runs

Bounds are constants: deaths of the agent (`MaxCrashes`), failed calls
(`MaxFaults`), moves of a tag, deletions of the Node object, exits, deaths of
the app. Every failure and every death may fall between any two steps, so one
or two of each exhaust the combinations one pass can meet; two pods are the
fewest that share a name or a pass, two tasks, loops or agents the fewest that
race.

| Run | Instance | Shows |
|-----|----------|-------|
| `reconciler_safety` | 2 pods with names of their own, 1 death, 2 failures; pods are symmetric | `VerdictIsReal`, `OrphansOnlyByDeath`, `StopOnlyUndesired`, `KeepsContract` |
| `reconciler_liveness` | 2 pods of one name, 1 death, 1 failure, fair | `RunOnce`, `GonePodsAreStopped`, `ResultsArePublished`, `PodsAreAttended` |
| `images_retried` | 1 task, 2 images that share a layer, one of them of tidy archives, with links, whiteouts and a broken link, 2 failures, 1 death | `TidyInv`, `ReadyIsPrepared` |
| `images_shared` | 2 tasks, 1 image whose tag may move, of archives two tasks can share, fair | `SharedHolds`, `ReadyAtRest`, `WantedBecomesReady`, `SealedSettles` |
| `images_poisoned` | 1 task, 1 failure | `UnpackFindsTarball` is violated |
| `agent` | 2 agents, in turn or at once, kills, 1 deletion of the node, 1 failure, late requests, memory on both sides of the threshold at two addresses, fair | `HeartbeatsFindNode`, `StatusCatchesUp`, `HalfAliveEnds` |
| `agent_moved` | 1 agent, 2 addresses, fair | `AdvertisedIsCertified` is violated |
| `output` | 2 workloads of one name or 1 and a probe, pipes of 1 line, logs of 2, up to 2 lines per stream, 1 death, fair | `LogsAreTheLastLines`, `OutputIsDrained`, `WritesReturn`, `ProbesAreAnswered` |
| `kubelet_ca` | 2 agents, 4 key pairs, 2 deaths or failed writes, fair | `ServedCertIsTrusted`, `KeyIsKept`, `ServesInTheEnd` |
| `supervisor_one` | 1 loop per instance, 2 instances, failing spawn, 2 exits, death of the app, fair | `NoAgentIsLost`, `PressureStopsAgent`, `AgentIsKept` |
| `supervisor_two` | 2 loops, destruction, 1 exit, fair | `AgentReturns`, `EndIsShown` |
| `launch` | 48 references, 16 commands, 24 environments with mounts and directories, 4 answers of a registry, 17 configs | `ReferenceIsRead`, `PlatformIsRight`, `RunsWhatPodSays`, `PodHasLastWord` |

`TypeOK` of each module is checked in one of its runs. Where it says more than
types it says what the module's other properties build on: in `ImageStore` that
names of one file agree and that a file is open only while its task writes it,
in `ProcessOutput` that no buffer exceeds its limit, in `Launch` that a start
holds one manifest and never a list. Deadlock is checked for
the reconciler, whose loop never stops, and for the certificate authority. It
is switched off where the program or the bounded instance may stop: nothing is
left to prepare, the agents or services have had their turn, the pod is
started.

Patches that outlive their agent (`LateArrivals`) are in no run: with them
`VerdictIsReal`, `OrphansOnlyByDeath` and `StopOnlyUndesired` are proved, for
every instance, and `RunOnce` is false.

The bounds, one by one. In `output` a pipe of one line is full after one and
holds its writer up at the second; a log of two lines is cut by the third of
four. Workload and probe share nothing but the agent, so two calls (`MaxCalls`)
are every pair of them; the workload with a line that is not UTF-8 has another
behind it, in whose write it is broken. An entry of an archive is one step or two, and the
archives of one to four entries have a hard link before its target, after it,
under a name that is taken and to nothing, a file and a directory hidden from
the layer below, a link that is written anew by another layer, and a link that
leads nowhere replaced by another. In `images_retried` `alpine` has two tidy
layers in either order, so that `TidyInv` speaks of it, and `app` a link in
front of its target or to nothing; two failures and a death leave an attempt at
any entry to each later one, of the same archives or of the shared layer. In
`images_shared` the upper layer hides a file of the lower one, so that the task
behind lays it again and hides it again; its one image is in `SharedImage`. Four
key pairs are two per agent: one that is lost with a death and one after it;
`ServedCertIsTrusted` is proved for any number. Three agent processes under the
supervisor are a first, its replacement, and one spawned by the other loop. The
references of `launch` are all combinations of no host, a host and a host with a
port, one to three words of path or one word with a dot, tag or none, digest or
none; what a word, a program, a variable or a path is (`Word`, `Program`,
`Name`, `Value`, `Place`) is given by the sets of those that occur, and
`WellFormed` is the grammar of references the proofs assume.

Why some properties need a restriction: `RunOnce` fails when a patch of a dead
agent arrives after the restart (a finished pod is set back to `Unknown` and
executed again), so it assumes `~LateArrivals`; `VerdictIsReal` fails when
names are used again, so it assumes `NamesDistinct`; `HeartbeatsFindNode` and
`StatusCatchesUp` are about nodes nobody else deletes (`~disturbed`);
`ServedCertIsTrusted` and `KeyIsKept` about keys nobody else generates
(`~contended`); `NoAgentIsLost` fails with two loops; `ReadyIsPrepared` fails
with a tag that moves, a second task on the image, or archives that are not tidy
(below). `ReadyAtRest` fails with two tasks and hard links, or two layers that
write one path (below), and after a failure or a death: the task that is behind
may have undone part of the rootfs the other has just sealed, and no later
attempt looks past a sentinel.

`PodsAreAttended` ends at pods that are `broken`. A pod that is not, or is mended,
is started whatever else fails. In `reconciler_liveness` the two pods exist one
after the other. That a broken pod, tried again in every pass, keeps no other
from being started is in no run; TLC finds it true of the same instance with
`NameOf <- OwnName` and `MaxCrashes = 0`.

`SealedSettles` is what is left of "nobody rewrites a rootfs once its sentinel
exists" (`ReadyIsStable`, below). With two tasks, one that saw no sentinel goes on
and unpacks into the rootfs the other has sealed; a container may run in it. What
holds is that this ends, with the rootfs as the layers say, because who asks
later finds the sentinel. It needs the fairness of the task that is behind, and
no failure of it.

### What the code does not keep

Two runs show a violation. `images_poisoned`: the directory of a layer is
created before the layer is fetched, and the directory alone counts as cached;
after one failed fetch the image can never be unpacked again. `agent_moved`: the
address of the certificate is read when the server starts, the advertised one
before every heartbeat; a phone that has changed networks advertises, from the
next heartbeat on, an address its certificate does not have.

Other statements of the documents and comments are definitions at the end of
the modules. They are false of the model, for the reasons given here, and no
run lists them.

| Definition | What happens |
|------------|--------------|
| `Reconciler!RefusalMeansCompleted` | a failed poll marks a live container terminated; later `Running` reports are refused and taken for "ran and completed" |
| `Reconciler!SkippedPodsHaveRun` | the verdict of a deleted pod lands on its namesake, which is then never executed |
| `Reconciler!OneLiveCopy` | a restarted agent starts a pod next to its surviving container |
| `Reconciler!DeletedPodsAreStopped` | a gracefully deleted pod keeps running: nothing confirms its deletion |
| `ImageStore!ReadyIsStable` | a task that saw no sentinel rewrites, under a running container, the rootfs another has sealed |
| `NodeAgent!CleanShutdownDeregisters` | a create in flight at SIGINT brings the node back after the deregistration |
| `NodeAgent!ServingIsRegistered` | a second agent deregisters the node of the first, which never registers again |
| `ProcessOutput!DrainedToTheEnd` | a line that is not UTF-8 ends its reader: the rest is lost, and the next write breaks the workload |
| `ProcessOutput!AnsweredProbesAreOver` | a probe that timed out leaves its process running |
| `ProcessOutput!LogsAreOfOnePod` | the log of a name has the lines of every pod of that name, of any namespace, and keeps those of earlier ones |
| `KubeletCA!TrustsEveryCert` | two first starts at once serve with different keys |
| `Supervisor!OneAgent` | two start commands, two loops, two agents, one of them out of reach |
| `Supervisor!StatusIsShown` | the running flag stays false while an agent runs |

Met on the way, and left out of the instances or of the statement of a
property:

* A tag and a digest in one reference: the tag stays in the repository name
  (`models.rs:21`). `docker.io/...` is asked for at docker.io, not at the
  registry of the short form.
* With a `command` and no `args` the image's CMD is still appended, where
  Kubernetes drops it. Variables with `valueFrom` are dropped, a container
  inherits the environment of the agent, a mount without a source is skipped.
* The whiteout of a symbolic link that leads nowhere on the device, as an
  absolute one of an image does, is not applied, since `exists()` follows links:
  the link stays and the rootfs gets its sentinel.
* What `Tidy` excludes besides, because the rootfs is then not what the layers say. A
  whiteout, opaque or not, that stands behind a file of its own archive deletes
  it. A hard link copied onto another name of the same file empties both, which
  happens when an archive has the link twice and when two tasks unpack it;
  copied onto a name that a layer below has linked, it overwrites that layer's
  other name too. A hard link in
  front of its target, after an attempt that has failed, finds that attempt's
  file, cut as it may be, and becomes a name of it; the target then gets a file
  of its own. (The link of `app` in `images_retried` stands in front of its
  target; the layer above writes the two anew.)
* Two layers that write the same two paths, unpacked by two tasks: the one behind
  writes the lower layer's file over the upper's, which the other has laid, then
  meets that one at the second path, where the other removes what it is about to
  write, fails and gives up. The other seals a rootfs with the lower layer's file.
  The image of the smoke test (alpine, `main.rs:238`) has one layer, so that this
  cannot happen to it; another image is not shared by two tasks.
* `GET /pods` and `GET /metrics` are always empty: nothing calls
  `update_status` or sets `node_profile`.
* An exec probe that writes more than its pipes hold cannot pass: nobody reads
  them while it is waited for.
* A key file that was cut by a death is never repaired: every later start fails
  (`cut` in `ServesInTheEnd`).

## 4. Fairness

* `Reconciler`: weak fairness of the loop (its task always runs again and every
  awaited call returns), of `AgentRestarts` (the Android loop restarts a dead
  agent, `AgentIsKept`) and of `StrayPatch`. None of users and containers. The
  OCI client has no timeout, so "every call returns" is an assumption about the
  registry; a call that never returns holds the loop for good.
* `ImageStore`: weak fairness of each task's calls; the loop asks again every
  15 s for a pod it could not start.
* `KubeletCA`: weak fairness of each agent: file operations return, and the
  supervisor starts an agent again that has ended. None of deaths and of the
  administrator. `Launch` has no liveness: a start is finite.
* `NodeAgent`: weak fairness of each task. None of interrupts, kills, late
  requests.
* `ProcessOutput`: weak fairness of each reader (its task is scheduled and the
  lock of the buffers is free again after every append), of a write that can
  go on (the kernel), and of the timeout of a probe (the timer). None of
  `ProbeExits`, `HttpAnswers`, `Exit`, `Stop`: nothing says that a process ends.
* `Supervisor`: weak fairness of each loop and each reader thread; a delay
  ends.

## 5. The proofs

`ReconcilerProofs.tla`, for every set of pods, names, restart policies and
every bound:

* `TypeCorrect`: `Spec => []TypeOK`.
* `VerdictsAreReal`: `NamesDistinct => (Spec => []VerdictIsReal)`, by `RealInv`.
  A phase is on its way in three places before it is in the API: in `obs`, in a
  stray patch, in the child's exit status. The invariant says of each what the
  property says of the API. `PatchKeepsReal` is the lemma on a patch.
* `RunsOnce`: `~LateArrivals => (Spec => []RunOnce)`, by `OnceInv`. `RunOnce`
  alone is not inductive: that a pod about to be started was not started before
  needs that a started pod without a handle has its verdict or is gone
  (`ForgottenAreSettled`), which needs that a handle is dropped only after its
  report (`FinishedAreReported`), which needs that reports reach the right pod
  (`NamesInUse`, `StartedAreListed`), and what is left in each loop
  (`LoopsAreBounded`, `NewPodsAreNew`).
* `OrphansAreOfTheDead`: `Spec => OrphansOnlyByDeath`, and `StopsOnlyTheGone`:
  `Spec => StopOnlyUndesired`, the two action properties, step by step from
  `HandleInv`, the part of `OnceInv` that says nothing of phases: who has a
  handle, what each loop has left and what it has in hand. No hypothesis is
  needed: a patch that arrives late, or at a namesake, changes a phase and no
  handle, and that the pod is started once more costs no process its handle.
  `StoppedAreGone` is the lemma on 3b.

`KubeletCAProofs.tla`, for every set of agents and keys and any number of
deaths:

* `TypeCorrect`: `Spec => []TypeOK`.
* `ServesTrusted`, `KeepsKey`: `[]ServedCertIsTrusted` and `KeyIsKept`, by
  `CAInv`. What is served is right because what was persisted is what the key
  file holds (`PersistedHaveKey`) and the certificate is of that key
  (`CertIsOfKey`). That needs that whoever writes the key file is the only one
  who could (`OneNewKey`), and what the file holds before and during the write
  (`KeyFileFollows`).

`NodeAgentProofs.tla`, for every set of agents, any readings of the device and
any number of faults, kills and deletions:

* `TypeCorrect`: `Spec => []TypeOK`, with `Prepared`: a task that waits for a
  request has made up the status it sends.
* `FindsNode`: `Spec => []HeartbeatsFindNode`, by `IInv`. That no heartbeat
  removes the node is not enough: `Undisturbed` adds that at most one agent is
  alive, so that none deregisters the node of another, and that no deletion is
  among the late requests. The lemmas are `OnlyDeleteRemoves` (what the API
  server does with a request) and `LastExit` (when the only agent ends, no
  heartbeat is left).

`SupervisorProofs.tla`, for every set of loops, instances and agents:

* `TypeCorrect`: `Spec => []TypeOK`.
* `LosesNoAgent`: `OneLoop => (Spec => []NoAgentIsLost)`, by `LossInv`. The
  handle of the broker decides what can be killed, the handle of the lifecycle
  service whether another agent is spawned. The property holds because they
  agree outside the two assignments of `start` (`HandlesAgree`) and because
  nothing runs between a stop and the next spawn (`NothingRuns`). With two loops
  both fail. `OneLoop` excludes a second start command and the destruction of
  the service while the app lives on.

`ContractProofs.tla`, for every set of pods, names and policies and every bound:

* `ImplementsContract`: `NamesDistinct /\ ~LateArrivals => (Spec =>
  KeepsContract)`. `ContractInv` joins `RealInv` and `OnceInv` and adds that no
  verdict is taken back: the report on its way agrees with a verdict the API
  already has (`ReportsAgree`, `VerdictsAreReaped`), and a pod that is about to
  be started has none (`StartedHaveNoVerdict`). One lemma per action of
  `PodContract` says which steps of the loop are that action:
  `StartIsLaunch`, `ExitIsFinish`, `StopIsKill`, `ForgetIsSettle`,
  `PatchIsPublish`, `DeathIsForget`, `DeletionIsWithdraw`; every other step
  stutters. Both hypotheses are needed: with names used again, or patches that
  outlive their agent, a verdict reaches another pod or is overwritten.

`OutputProofs.tla`, for any processes, probes, pipe sizes, buffer sizes and
deaths:

* `TypeCorrect`: `Spec => []TypeOK`.
* `LogsKeepTheLast`: `Spec => []LogsAreTheLastLines`, by `OutputInv`. The
  property is about a log, the reader's hand and the pipe together
  (`Accounted`), so that each line is in exactly one of them. It needs that a
  stream nobody drains has an empty pipe and hand (`ClosedIsEmpty`,
  `HandIsOfReader`) and that a workload yet to start has written nothing
  (`NewIsSilent`). The lemmas are on `LastLines`: appending to a buffer moves it
  by no place or one (`LastLinesOf`), and of a stream's own line and of another
  stream's, what is then kept and what is lost (`AppendOwn`, `AppendOther`).

`ImageStoreProofs.tla`, for any images, layers, archives, tasks, failures,
deaths and moves of tags:

* `TypeCorrect`: `Spec => []TypeOK`, by `ImageInv`. That the names of one file
  agree is inductive only with `LinksAreShared`, which makes sharing a file an
  equivalence: whatever is written through one name is then seen through all.
  `Parted`, `Filled` and `Joined` say of a rootfs what removing names, writing a
  file and linking a name do to it, and every entry of an archive is one of the
  three.
* `UnsharedStaysStable`: `Spec => UnsharedIsStable`, by `WorkIsUnsealed`: an
  image in `Unshared`, which no two tasks want, is not worked on once it has its
  sentinel. Every image but the smoke test's is such a one, and that too unless
  a pod has it: the pods among themselves are one task, the pass of the loop.
  With two tasks on one image TLC finds one that unpacks on after the other has
  written the sentinel (`ReadyIsStable`, section 3); that is nothing to the
  other images.
* `AttemptsAreTidy`: `Spec => [](moves = 0 => TidyInv)`; `TidyImagesArePrepared`:
  `Spec => [](moves = 0 => TidyIsPrepared)`, which is `ReadyIsPrepared` of the
  images in `TidyImage`; `ReadyImagesArePrepared`: `ReadyIsPrepared` itself, where
  all images are in it. An image is in `TidyImage` if no two tasks want it and
  its archives are `Tidy`; what tasks do to other images is free. That
  a sentinel stands in a complete rootfs is about the last step of a long walk,
  so `TidyInv` says what each stretch of it has achieved. What the attempt in
  progress has been through is laid as its layers say (`LayersAreLaid`); what it
  has not is something an attempt may have left there (`FilesAreOfImage`,
  `ConfigsAreOfImages`), never more. Links are why this is not enough: a write
  through one name changes another path. So names share a file only if an
  archive links them, and then the file is of that layer (`TwinsAreLinked`,
  `OpenIsPath`), and once a link's target has been written in this attempt, the
  link that is to be made again is no name of it (`LinksAreNew`), because
  unpacking a file removes the name that was there; without that the copy which
  stands in for the link would empty both.

  `EntryDone` is the step to the next entry; one lemma for each kind of entry
  says that it lays its path and no other (`WriteCompletes`, `LinkCompletes`,
  `CopyCompletes`, ...), one for each other step that it undoes nothing.
  `SealedIsPrepared` joins what the walk has laid with `Merged`, and `MergedIs`
  computes that one, by induction over the layers: of each path, what the last
  layer that has it says.

  The hypotheses: with a tag that moves an attempt goes over files of another
  image, which nothing removes, hence `moves = 0`; two tasks on one image
  overwrite each other's files, hence `Unshared`. `Tidy` is about archives
  alone and has four parts: whiteouts come before the files of their layer that
  they would hide (where image builders write the opaque ones); a hard link has
  its path to itself and comes after its target, a file of its archive; a path
  with a symbolic link is given only to another one, to a file of another layer,
  or to the whiteout of its directory; two layers do not link the same names.
  For each of the four TLC finds archives that break it and with it
  `ReadyIsPrepared` (section 3). `Tidy` is a little stronger than needed: of
  a link to a file of a lower layer, of a link over a file of its own archive,
  and of a file and a symbolic link at one path of an archive TLC finds no
  violation.

* `SharedImagesAreMerged`: `TwoTasks => (Spec => []SharedHolds)`, and
  `ReadyAtRestHolds`: `ReadyAtRest`, where every image is in `SharedImage`, or in
  `TidyImage` and one task's alone. Of two tasks that unpack one image over each
  other neither can be said to lay anything: the one behind removes a file the
  other has written, and writes it again. So `SharedInv` is about both at once,
  path by path (`PathsAreMerged`): if one of them has been through a path, or the
  image is sealed, and none has an entry for it in front of it (`Due`), the path
  is as the layers say. Whoever does the last entry of a path leaves the last
  word on it; a task that goes through an entry while the other is due there
  owes nothing.

  The hard case is a task that gives up, because then nobody is due any more and
  the path may be as it left it. `SharedNext` shows that it was not the last: if
  it finds no tarball (`OpenFails`) nobody has got past that layer, since a
  tarball that has been opened stays (`LayersAreFound`); if the tarball is cut
  under it (`UnpackBreaks`), the other task is the one that writes it
  (`PartsAreWritten`), has not come to unpacking, and the image is not sealed
  (`SealedAreFiled`); and if the other makes its entry fail (`Collide`), that one
  has the path in front of it. The last is what `UpperOnlyHides` and
  `EntriesAreApart` are for.

  The hypotheses: `TwoTasks`, the reconciler and the smoke test of `main.rs` (a
  third could write a tarball anew under two that unpack it); `Shareable`, tidy archives
  with one entry per path, without hard links (copying a link empties it under
  the other task), of which an upper layer at most hides what a lower one has;
  and that no tag has moved and nothing has failed or died (section 3).

`LaunchProofs.tla`, for any pods of well-formed references, answers of the
registry, configs and devices:

* `TypeCorrect`: `Spec => []TypeOK`, by `LaunchInv`: what a start has done so far
  is what its pod, its image and the registry's answer say.
* `ReadsReference`: `ParseIs` says what `Parse` returns of a reference of any
  length that `WellFormed` allows, from where its separators stand (`FindIs`,
  `FindLastIs`, `Around`).
* `TakesPlatform`, by `PlatformIs`, for a list of any length.
* `RunsTheCommand`, by `BeginsAndEnds`.
* `PodSpeaksLast`, for any number of settings, repeated ones included. The loops
  over settings are folds, and what a fold computes is shown by induction. The
  library's induction theorems take an operator as parameter, which none of the
  provers instantiates; `Induction` here is about a set of numbers, and rests on
  `NatLessThanWellFounded` and `WFMin`. `FoldsExist` shows that the function a
  fold is defined by exists, `KeptIs` and `LastOfKept` what the filtering loop
  keeps, `SetAllIs` what setting variables one after the other leaves.

The assumptions used are `ReconcilerAssumption`, `KubeletCAAssumption`,
`NodeAgentAssumption`, `ValuesAreDistinct`, `SupervisorAssumption`,
`ProcessOutputAssumption`, `ImageStoreAssumption` and `LaunchAssumption`, which
TLC evaluates in the runs of these modules. They say what the parameters stand
for and that the markers differ from the values; `LaunchAssumption` also that a
pod's reference follows the grammar by which a host is told from a path
(`WellFormed`).

Only model-checked: liveness, `SealedSettles` with it, and `ENABLED`, which are
out of the prover's reach; `ReadyIsPrepared` of archives that are not tidy and
yet come out right, such as those of `app` in `images_retried`.

## 6. Not modelled

Events (write-only), `remove_layer` (no caller), the wake
lock and the Unix socket broker, the handlers of the kubelet that show nothing,
drawing in the UI and its ring buffer (the last 500 lines, as the kubelet keeps
the last 10 000), the check of a certificate against its chain, what containers
write into their (shared) rootfs, processes that outlive the proot that started
them, and the parsing of /proc and of /sys.

## 7. Plan

1. `Reconciler`, `PodContract`, `ImageStore`, `NodeAgent`, `KubeletCA`,
   `Supervisor`, `Launch`, `ProcessOutput` and their proofs: done as described.
2. `Device`: Supervisor and NodeAgent composed over one set of processes, so
   that a lost agent meets the port of the next one; whether the node comes to
   rest registered.
3. `Supervisor` with the addresses of `NodeAgent`: whether a restart on a change
   of network would close the gap `agent_moved` shows.
4. Proofs: `ReadyIsPrepared` for links to files of lower layers, which needs of
   `TwinsAreLinked` that a file may be of an earlier layer than its link;
   `SharedImagesAreMerged` after a failure, of a task that no other has sealed.
