---------------------------- MODULE ImageStore ----------------------------
(***************************************************************************)
(* The images on the device: prepare_image (image_orchestration_service.rs)*)
(* over pull_image, unpack_layer and the two brokers they call.            *)
(*                                                                         *)
(* Several tasks of one agent prepare images without any lock: the         *)
(* reconciler and, once per start, the proot smoke test of main.rs.  A step*)
(* is the code between two awaits; extraction runs on a blocking thread of *)
(* its own and is one step per archive entry.  What is on disk survives    *)
(* the death of the agent.                                                 *)
(***************************************************************************)
EXTENDS Naturals, Sequences

CONSTANTS
  Task,       \* callers of prepare_image
  Once,       \* those that call it once per start of the agent
  Image,      \* image references, each with a rootfs of its own
  Wants,      \* the images each task asks for
  Layer,      \* layer digests
  Path,       \* files of a rootfs
  Dir, Inside, \* directories of a rootfs, and the files in each
  Entries,    \* the archive of each layer
  Manifests,  \* per image, the layer lists its tag may point to
  Bare,       \* layer lists whose image has no container config
  NoFile, Torn, NoImage,
  MaxMoves,   \* bound: a tag pointed elsewhere
  MaxFaults,  \* bound: failed requests and file operations
  MaxCrashes  \* bound: deaths of the agent

\* An opaque whiteout is one of its directory.  "symlink" stands for a symbolic
\* link whose target does not exist for the agent, which is outside the rootfs.
HardLink == [op : {"link"}, path : Path, from : Path]
Entry == [op : {"write", "symlink"}, path : Path]
         \cup [op : {"whiteout"}, path : Path \cup Dir]
         \cup HardLink

\* Names of files: paths, and each task's open file.
FileName == Path \cup Task
Symlink(d) == [symlink |-> d]
Content == {NoFile, Torn} \cup Layer \cup {Symlink(d) : d \in Layer}

ASSUME ImageStoreAssumption ==
  /\ Once \subseteq Task
  /\ Wants \in [Task -> SUBSET Image]
  /\ Inside \in [Dir -> SUBSET Path] /\ Dir \cap Path = {}
  /\ Path \cap Task = {}
  /\ Entries \in [Layer -> Seq(Entry)]
  /\ \A i \in Image : Manifests[i] # {} /\ Manifests[i] \subseteq Seq(Layer)
  /\ {NoFile, Torn} \cap Layer = {} /\ NoFile # Torn /\ NoImage \notin Image
  /\ \A d \in Layer : Symlink(d) \notin Layer \cup {NoFile, Torn}
  /\ MaxMoves \in Nat /\ MaxFaults \in Nat /\ MaxCrashes \in Nat

VARIABLES
  current,  \* the registry: what each tag points to
  tarball,  \* per layer: "absent", "empty" (a directory), "partial", "whole"
  tree,     \* per image and name, a file or the open file of a task: what it holds
  twins,    \* per image: pairs of names of one file (hard links, open files)
  config,   \* per image: the layer list its saved config belongs to
  ready,    \* images whose rootfs has the sentinel file
  job,      \* per task: where it is in prepare_image
  asked,    \* one-shot tasks that have asked
  moves, faults, crashes

rootfs == <<tree, twins>>
disk   == <<tarball, rootfs, config, ready>>
counts == <<moves, faults, crashes>>
vars   == <<current, disk, job, asked, counts>>

\* k and e: the layer and the archive entry in hand; intact: the archive was
\* complete when it was opened; deferred: hard links whose target was missing.
NoJob == [pc |-> "idle", image |-> NoImage, manifest |-> <<>>, k |-> 0,
          e |-> 0, intact |-> FALSE, deferred |-> <<>>]

Job == [pc : {"idle", "manifest", "pull", "mkdir", "fetch", "write", "open",
              "unpack", "file", "seal"},
        image : Image \cup {NoImage}, manifest : Seq(Layer), k : Nat, e : Nat,
        intact : BOOLEAN, deferred : Seq(HardLink)]

At(t, pc) == job[t].pc = pc
InHand(t) == job[t].manifest[job[t].k]
LayersLeft(t) == job[t].k <= Len(job[t].manifest)
EntryInHand(t) == Entries[InHand(t)][job[t].e]
EntriesLeft(t) == job[t].e <= Len(Entries[InHand(t)])

Goto(t, pc) == job' = [job EXCEPT ![t].pc = pc]
NextLayer(t, pc) == job' = [job EXCEPT ![t].pc = pc, ![t].k = @ + 1]

\* Mutant: the rest of the job is kept.
DropPcOnly(t) == job' = [job EXCEPT ![t].pc = "idle"]

Drop(t) == job' = [job EXCEPT ![t] = NoJob]

NextEntry(t, pc) == job' = [job EXCEPT ![t].pc = pc, ![t].e = @ + 1]
AtEntry(t, op) ==
  At(t, "unpack") /\ EntriesLeft(t) /\ EntryInHand(t).op = op

-----------------------------------------------------------------------------
(* The files of a rootfs.                                                  *)

\* The files an entry of an archive is about.
Touched(e) == IF e.path \in Dir THEN Inside[e.path] ELSE {e.path}

\* The names of the file that n is a name of.
SameFile(i, n) == {n} \cup {m \in FileName : {m, n} \in twins[i]}

\* What links are left when some names are no longer names of what they were.
Apart(i, names) == {pair \in twins[i] : pair \cap names = {}}

\* Paths at which exists() finds nothing.
Unseen(i) == {p \in Path : tree[i][p] \in {NoFile} \cup {Symlink(d) : d \in Layer}}

Remove(i, names) ==
  /\ tree' = [tree EXCEPT ![i] =
                [n \in DOMAIN @ |-> IF n \in names THEN NoFile ELSE @[n]]]
  /\ twins' = [twins EXCEPT ![i] = Apart(i, names)]

\* Tasks that end in the middle of a file close it.
Close(tasks) ==
  /\ tree' = [i \in Image |-> [n \in DOMAIN tree[i] |->
                              IF n \in tasks THEN NoFile ELSE tree[i][n]]]
  /\ twins' = [i \in Image |-> Apart(i, tasks)]

\* The names fs::copy writes to at p: it follows a symbolic link, here to
\* something outside the rootfs.
CopiedTo(i, p) ==
  IF \E d \in Layer : tree[i][p] = Symlink(d) THEN {} ELSE SameFile(i, p)

\* The target is truncated and then filled from the source; if both are names
\* of one file there is nothing left to read.
HardlinkCopy(i, q, p) ==
  /\ tree' = [tree EXCEPT ![i] = [n \in DOMAIN @ |->
                 IF n \notin CopiedTo(i, p) THEN @[n]
                 ELSE IF q \in SameFile(i, p) THEN Torn ELSE @[q]]]
  /\ UNCHANGED twins

-----------------------------------------------------------------------------
(* prepare_image: the sentinel decides whether there is anything to do.    *)

\* Mutant: no sentinel is looked for.
AskAlways(t, i) ==
  /\ At(t, "idle") /\ i \in Wants[t]
  /\ t \in Once => t \notin asked
  /\ job' = [job EXCEPT ![t].pc = "manifest", ![t].image = i]
  /\ asked' = asked \cup (Once \cap {t})
  /\ UNCHANGED <<current, disk, counts>>

Ask(t, i) ==
  /\ At(t, "idle") /\ i \in Wants[t]
  /\ t \in Once => t \notin asked
  /\ i \notin ready
  /\ job' = [job EXCEPT ![t].pc = "manifest", ![t].image = i]
  /\ asked' = asked \cup (Once \cap {t})
  /\ UNCHANGED <<current, disk, counts>>

\* A directory that was to be cleared has lost some of its files.
ClearPartly(t) ==
  /\ AtEntry(t, "whiteout") /\ EntryInHand(t).path \in Dir
  /\ \E gone \in SUBSET Touched(EntryInHand(t)) : Remove(job[t].image, gone)

\* Any request or file operation may fail, a removal in the middle: `?` up to
\* the caller.
Fail(t) ==
  /\ ~At(t, "idle")
  /\ faults < MaxFaults /\ faults' = faults + 1
  /\ Close({t}) \/ ClearPartly(t)
  /\ Drop(t)
  /\ UNCHANGED <<current, tarball, config, ready, asked, moves, crashes>>

-----------------------------------------------------------------------------
(* 1. pull_image: what the tag points to now, and every layer of it whose  *)
(* directory does not exist.                                               *)

\* Mutant: the base layer is passed over.
FetchManifestPastBase(t) ==
  /\ At(t, "manifest")
  /\ job' = [job EXCEPT ![t].pc = "pull", ![t].k = 2,
                        ![t].manifest = current[job[t].image]]
  /\ UNCHANGED <<current, disk, asked, counts>>

FetchManifest(t) ==
  /\ At(t, "manifest")
  /\ job' = [job EXCEPT ![t].pc = "pull", ![t].k = 1,
                        ![t].manifest = current[job[t].image]]
  /\ UNCHANGED <<current, disk, asked, counts>>

SeeCached(t) ==
  /\ At(t, "pull") /\ LayersLeft(t)
  /\ tarball[InHand(t)] # "absent"
  /\ NextLayer(t, "pull")
  /\ UNCHANGED <<current, disk, asked, counts>>

SeeMissing(t) ==
  /\ At(t, "pull") /\ LayersLeft(t)
  /\ tarball[InHand(t)] = "absent"
  /\ Goto(t, "mkdir")
  /\ UNCHANGED <<current, disk, asked, counts>>

CreateLayerDir(t) ==
  /\ At(t, "mkdir")
  /\ tarball' = [tarball EXCEPT ![InHand(t)] = IF @ = "absent" THEN "empty" ELSE @]
  /\ Goto(t, "fetch")
  /\ UNCHANGED <<current, rootfs, config, ready, asked, counts>>

\* The blob is in memory; fs::write truncates the file ...
BeginWrite(t) ==
  /\ At(t, "fetch")
  /\ tarball' = [tarball EXCEPT ![InHand(t)] = "partial"]
  /\ Goto(t, "write")
  /\ UNCHANGED <<current, rootfs, config, ready, asked, counts>>

\* ... and fills it.  Of several writers only the last leaves it whole.
EndWrite(t) ==
  /\ At(t, "write")
  /\ LET others == {u \in Task \ {t} : At(u, "write") /\ InHand(u) = InHand(t)}
     IN  tarball' = IF others = {} THEN [tarball EXCEPT ![InHand(t)] = "whole"]
                                   ELSE tarball
  /\ NextLayer(t, "pull")
  /\ UNCHANGED <<current, rootfs, config, ready, asked, counts>>

EndPull(t) ==
  /\ At(t, "pull") /\ ~LayersLeft(t)
  /\ job' = [job EXCEPT ![t].pc = "open", ![t].k = 1]
  /\ UNCHANGED <<current, disk, asked, counts>>

-----------------------------------------------------------------------------
(* 2. unpack_layer, base to top, into the one rootfs of the image.         *)

OpenLayer(t) ==
  /\ At(t, "open") /\ LayersLeft(t)
  /\ tarball[InHand(t)] \in {"partial", "whole"}
  /\ job' = [job EXCEPT ![t].pc = "unpack", ![t].e = 1,
                        ![t].intact = tarball[InHand(t)] = "whole"]
  /\ UNCHANGED <<current, disk, asked, counts>>

\* No such file; unpack_layer has created the directory, if need be.
OpenFails(t) ==
  /\ At(t, "open") /\ LayersLeft(t)
  /\ tarball[InHand(t)] \in {"absent", "empty"}
  /\ tarball' = [tarball EXCEPT ![InHand(t)] = "empty"]
  /\ Drop(t)
  /\ UNCHANGED <<current, rootfs, config, ready, asked, counts>>

\* Mutant: what stood at its path is opened and emptied, with all its names.
OpenInPlace(t) ==
  /\ AtEntry(t, "write")
  /\ LET i == job[t].image  same == SameFile(i, EntryInHand(t).path)
     IN  /\ tree' = [tree EXCEPT ![i] = [n \in DOMAIN @ |->
                        IF n \in same \cup {t} THEN Torn ELSE @[n]]]
         /\ twins' = [twins EXCEPT ![i] = @ \cup {{n, t} : n \in same}]
  /\ Goto(t, "file")
  /\ UNCHANGED <<current, tarball, config, ready, asked, counts>>

\* A file: what stood at its path is removed, a new one created ...
OpenFile(t) ==
  /\ AtEntry(t, "write")
  /\ LET i == job[t].image  p == EntryInHand(t).path
     IN  /\ tree' = [tree EXCEPT ![i][p] = Torn, ![i][t] = Torn]
         /\ twins' = [twins EXCEPT ![i] = Apart(i, {p}) \cup {{p, t}}]
  /\ Goto(t, "file")
  /\ UNCHANGED <<current, tarball, config, ready, asked, counts>>

\* ... and filled, whatever names it has by then.
WriteFile(t) ==
  /\ At(t, "file")
  /\ LET i == job[t].image
     IN  /\ tree' = [tree EXCEPT ![i] = [n \in DOMAIN @ |->
                        IF n = t THEN NoFile
                        ELSE IF n \in SameFile(i, t) THEN InHand(t) ELSE @[n]]]
         /\ twins' = [twins EXCEPT ![i] = Apart(i, {t})]
  /\ NextEntry(t, "unpack")
  /\ UNCHANGED <<current, tarball, config, ready, asked, counts>>

MakeSymlink(t) ==
  /\ AtEntry(t, "symlink")
  /\ LET i == job[t].image  p == EntryInHand(t).path
     IN  /\ tree' = [tree EXCEPT ![i][p] = Symlink(InHand(t))]
         /\ twins' = [twins EXCEPT ![i] = Apart(i, {p})]
  /\ NextEntry(t, "unpack")
  /\ UNCHANGED <<current, tarball, config, ready, asked, counts>>

\* A whiteout: target_file.exists() follows links, so that one which leads
\* nowhere is not seen and stays; with a directory it goes.
ApplyWhiteout(t) ==
  /\ AtEntry(t, "whiteout")
  /\ Remove(job[t].image, IF EntryInHand(t).path \in Dir
                         THEN Touched(EntryInHand(t))
                         ELSE Touched(EntryInHand(t)) \ Unseen(job[t].image))
  /\ NextEntry(t, "unpack")
  /\ UNCHANGED <<current, tarball, config, ready, asked, counts>>

\* A hard link to a file that is there, under a name that is free ...
MakeLink(t) ==
  /\ AtEntry(t, "link")
  /\ LET i == job[t].image  p == EntryInHand(t).path  q == EntryInHand(t).from
     IN  /\ q \notin Unseen(i) /\ tree[i][p] = NoFile
         /\ tree' = [tree EXCEPT ![i][p] = tree[i][q]]
         /\ twins' = [twins EXCEPT ![i] = @ \cup {{p, n} : n \in SameFile(i, q)}]
  /\ NextEntry(t, "unpack")
  /\ UNCHANGED <<current, tarball, config, ready, asked, counts>>

\* ... or, where the kernel does not allow it or the name is taken, a copy.
CopyLink(t) ==
  /\ AtEntry(t, "link")
  /\ EntryInHand(t).from \notin Unseen(job[t].image)
  /\ HardlinkCopy(job[t].image, EntryInHand(t).from, EntryInHand(t).path)
  /\ NextEntry(t, "unpack")
  /\ UNCHANGED <<current, tarball, config, ready, asked, counts>>

\* A link to what is not there yet waits for the end of the archive.
DeferLink(t) ==
  /\ AtEntry(t, "link")
  /\ EntryInHand(t).from \in Unseen(job[t].image)
  /\ job' = [job EXCEPT ![t].e = @ + 1,
                        ![t].deferred = Append(@, EntryInHand(t))]
  /\ UNCHANGED <<current, disk, asked, counts>>

\* Two tasks at entries that touch the same path: of the file one removes the
\* other finds nothing, or creates it anew first, a directory one clears is not
\* empty in the end.  The entry fails, whatever it has removed.
Collide(t) ==
  /\ At(t, "unpack") /\ EntriesLeft(t) /\ EntryInHand(t).op # "link"
  /\ \E u \in Task \ {t} :
       /\ job[u].image = job[t].image /\ At(u, "unpack") /\ EntriesLeft(u)
       /\ Touched(EntryInHand(u)) \cap Touched(EntryInHand(t)) # {}
       /\ EntryInHand(t).op = "whiteout" \/ EntryInHand(u).op # "whiteout"
  /\ \E gone \in IF EntryInHand(t).path \in Dir
               THEN SUBSET Inside[EntryInHand(t).path] ELSE {{}} :
       Remove(job[t].image, gone)
  /\ Drop(t)
  /\ UNCHANGED <<current, tarball, config, ready, asked, counts>>

\* The stream breaks off in the middle of a file that is, or has been, cut.
UnpackBreaks(t) ==
  /\ At(t, "unpack") \/ At(t, "file")
  /\ tarball[InHand(t)] # "whole"
  /\ Drop(t) /\ Close({t})
  /\ UNCHANGED <<current, tarball, config, ready, asked, counts>>

\* The end of the archive, if it is there or had been read before it was cut.
AtEnd(t) == /\ At(t, "unpack") /\ ~EntriesLeft(t)
            /\ job[t].intact \/ tarball[InHand(t)] = "whole"

ResolveLink(t) ==
  /\ AtEnd(t) /\ job[t].deferred # <<>>
  /\ LET l == Head(job[t].deferred)
     IN  /\ l.from \notin Unseen(job[t].image)
         /\ HardlinkCopy(job[t].image, l.from, l.path)
  /\ job' = [job EXCEPT ![t].deferred = Tail(@)]
  /\ UNCHANGED <<current, tarball, config, ready, asked, counts>>

LinkFails(t) ==
  /\ AtEnd(t) /\ job[t].deferred # <<>>
  /\ Head(job[t].deferred).from \in Unseen(job[t].image)
  /\ Drop(t)
  /\ UNCHANGED <<current, disk, asked, counts>>

EndUnpack(t) ==
  /\ AtEnd(t) /\ job[t].deferred = <<>>
  /\ NextLayer(t, "open")
  /\ UNCHANGED <<current, disk, asked, counts>>

-----------------------------------------------------------------------------
(* 3. and 4. The config of the image, then the sentinel.                   *)

\* Mutant: the sentinel is written before the last layer.
SealEarly(t) ==
  /\ At(t, "open") /\ job[t].k >= Len(job[t].manifest)
  /\ config' = [config EXCEPT ![job[t].image] = IF job[t].manifest \in Bare
                                                THEN @ ELSE job[t].manifest]
  /\ Goto(t, "seal")
  /\ UNCHANGED <<current, tarball, rootfs, ready, asked, counts>>

SaveConfig(t) ==
  /\ At(t, "open") /\ ~LayersLeft(t)
  /\ config' = [config EXCEPT ![job[t].image] = IF job[t].manifest \in Bare
                                                THEN @ ELSE job[t].manifest]
  /\ Goto(t, "seal")
  /\ UNCHANGED <<current, tarball, rootfs, ready, asked, counts>>

WriteSentinel(t) ==
  /\ At(t, "seal")
  /\ ready' = ready \cup {job[t].image}
  /\ Drop(t)
  /\ UNCHANGED <<current, tarball, rootfs, config, asked, counts>>

-----------------------------------------------------------------------------
(* The registry and the agent.                                             *)

MoveTag(i) ==
  /\ moves < MaxMoves /\ moves' = moves + 1
  /\ \E m \in Manifests[i] \ {current[i]} : current' = [current EXCEPT ![i] = m]
  /\ UNCHANGED <<disk, job, asked, faults, crashes>>

AgentDies ==
  /\ crashes < MaxCrashes /\ crashes' = crashes + 1
  /\ job' = [t \in Task |-> NoJob]
  /\ asked' = {} /\ Close(Task)
  /\ UNCHANGED <<current, tarball, config, ready, moves, faults>>

-----------------------------------------------------------------------------
Init ==
  /\ current \in {c \in [Image -> UNION {Manifests[i] : i \in Image}] :
                    \A i \in Image : c[i] \in Manifests[i]}
  /\ tarball = [d \in Layer |-> "absent"]
  /\ tree = [i \in Image |-> [n \in FileName |-> NoFile]]
  /\ twins = [i \in Image |-> {}]
  /\ config = [i \in Image |-> <<>>]
  /\ ready = {}
  /\ job = [t \in Task |-> NoJob]
  /\ asked = {}
  /\ moves = 0 /\ faults = 0 /\ crashes = 0

PrepareImage(t) ==
  \/ \E i \in Image : Ask(t, i)
  \/ FetchManifest(t) \/ SeeCached(t) \/ SeeMissing(t) \/ CreateLayerDir(t)
  \/ BeginWrite(t) \/ EndWrite(t) \/ EndPull(t)
  \/ OpenLayer(t) \/ OpenFails(t) \/ OpenFile(t) \/ WriteFile(t)
  \/ MakeSymlink(t) \/ ApplyWhiteout(t) \/ MakeLink(t) \/ CopyLink(t)
  \/ DeferLink(t) \/ Collide(t) \/ UnpackBreaks(t) \/ ResolveLink(t)
  \/ LinkFails(t) \/ EndUnpack(t) \/ SaveConfig(t) \/ WriteSentinel(t)

Next ==
  \/ \E t \in Task : PrepareImage(t) \/ Fail(t)
  \/ \E i \in Image : MoveTag(i)
  \/ AgentDies

Spec == Init /\ [][Next]_vars

\* Requests and file operations return, and a pod that was not started is
\* prepared again by the next pass of the reconciler.
FairSpec == Spec /\ \A t \in Task : WF_vars(PrepareImage(t))

-----------------------------------------------------------------------------
TypeOK ==
  /\ current \in [Image -> Seq(Layer)]
  /\ \A i \in Image : current[i] \in Manifests[i]
  /\ tarball \in [Layer -> {"absent", "empty", "partial", "whole"}]
  /\ tree \in [Image -> [FileName -> Content]]
  /\ twins \in [Image -> SUBSET SUBSET FileName]
  /\ \A i \in Image : \A pair \in twins[i] :
       \E m, n \in pair : pair = {m, n} /\ m # n /\ tree[i][m] = tree[i][n]
  /\ \A i \in Image, t \in Task :
       tree[i][t] # NoFile <=> At(t, "file") /\ job[t].image = i
  /\ ready \subseteq Image
  /\ config \in [Image -> Seq(Layer)]
  /\ \A i \in Image : config[i] \in Manifests[i] \cup {<<>>}
  /\ job \in [Task -> Job]
  /\ \A t \in Task :
       /\ At(t, "idle") <=> job[t] = NoJob
       /\ ~At(t, "idle") => job[t].image \in Image
       /\ job[t].pc \in {"mkdir", "fetch", "write", "unpack", "file"} =>
            job[t].k \in DOMAIN job[t].manifest
  /\ asked \subseteq Once
  /\ moves \in 0 .. MaxMoves /\ faults \in 0 .. MaxFaults
  /\ crashes \in 0 .. MaxCrashes

-----------------------------------------------------------------------------
(* What a rootfs should hold: of every file, what the last layer that has it *)
(* says; the whiteouts of a layer hide what is below it, wherever they stand *)
(* in its archive.                                                           *)

EntriesFor(d, p) == {e \in {Entries[d][n] : n \in DOMAIN Entries[d]} : p \in Touched(e)}

Merged(m) ==
  LET after[k \in 0 .. Len(m)] ==
        [p \in Path |->
           IF k = 0 THEN NoFile
           ELSE LET own(q) == {e.op : e \in EntriesFor(m[k], q)}
                    source == {e.from : e \in {x \in EntriesFor(m[k], p) : x.op = "link"}}
                    file(q) == IF "write" \in own(q) THEN m[k] ELSE after[k - 1][q]
                IN  IF source # {} THEN file(CHOOSE q \in source : TRUE)
                    ELSE IF "symlink" \in own(p) THEN Symlink(m[k])
                    ELSE IF own(p) = {"whiteout"} THEN NoFile
                    ELSE file(p)]
  IN  after[Len(m)]

Prepared(i) ==
  \E m \in Manifests[i] : /\ \A p \in Path : tree[i][p] = Merged(m)[p]
                          /\ config[i] = IF m \in Bare THEN <<>> ELSE m

\* image_orchestration_service.rs:77: "Sentinel file marks this rootfs as
\* fully prepared".  Retries re-apply layers over what a failed or killed
\* attempt has left behind.
ReadyIsPrepared == \A i \in ready : Prepared(i)

\* The same, when no task is at work on the image: tasks that unpack the same
\* layers over each other leave the right tree once they have all ended, unless a
\* tag has moved or one of them has failed or died: behind the sentinel of the
\* other it leaves what it has undone.
ReadyAtRest ==
  \A i \in ready :
    /\ moves = 0 /\ faults = 0 /\ crashes = 0
    /\ \A t \in Task : job[t].image # i
    => Prepared(i)

\* A task that saw no sentinel goes on to rewrite a rootfs the other has sealed
\* meanwhile, under the container that may run in it by then.  In the end the
\* rootfs is right and stays so, unless a tag has moved: who asks later finds
\* the sentinel.
SealedSettles ==
  \A i \in Image : i \in ready ~> [](Prepared(i) \/ moves > 0)

\* Containers run in a rootfs from the moment its sentinel exists.  Not so that
\* nobody rewrites it after that: a task that was ahead has sealed it, one that
\* was behind goes on.
ReadyIsStable ==
  [][\A i \in ready : tree'[i] = tree[i] /\ config'[i] = config[i]]_vars

\* Images only one task prepares: not that of the smoke test, when a pod has it.
Unshared == {i \in Image : \A t, u \in Task : i \in Wants[t] \cap Wants[u] => t = u}

UnsharedIsStable ==
  [][\A i \in ready \cap Unshared : tree'[i] = tree[i] /\ config'[i] = config[i]]_vars

(* Why that holds, for ImageStoreProofs.                                   *)

\* Being names of one file is an equivalence among names that have a file.
LinksAreShared ==
  \A i \in Image :
    /\ \A m, n \in FileName : {m, n} \in twins[i] => tree[i][m] # NoFile
    /\ \A l, m, n \in FileName :
         {l, m} \in twins[i] /\ {m, n} \in twins[i] /\ l # n => {l, n} \in twins[i]

\* A task that has its manifest counts the layers, and the entries of one.
JobsCount ==
  \A t \in Task :
    /\ job[t].pc \notin {"idle", "manifest"} =>
         job[t].manifest \in Manifests[job[t].image] /\ job[t].k > 0
    /\ job[t].pc \in {"unpack", "file"} => job[t].e > 0

ImageInv == TypeOK /\ LinksAreShared /\ JobsCount

\* A task is at work only on an image it wants, whose sentinel it did not find,
\* and that nobody else has sealed since unless another task wants it.
WorkIsUnsealed ==
  \A t \in Task : ~At(t, "idle") =>
    job[t].image \in Wants[t] /\ job[t].image \notin ready \cap Unshared

\* An image the reconciler asks for becomes ready, although its attempts may
\* fail on a layer another task has begun to fetch.
WantedBecomesReady ==
  \A i \in Image : (\E t \in Task \ Once : job[t].image = i) ~> i \in ready

\* image_unpack_service.rs:38: "The tarball was written to <layers_root>/
\* <digest>/layer.tar.gz by ImagePullService".
UnpackFindsTarball ==
  \A t \in Task : At(t, "open") /\ LayersLeft(t) => tarball[InHand(t)] # "empty"
=============================================================================
