------------------------------- MODULE Launch -------------------------------
(***************************************************************************)
(* From a pod to a process: how the image reference is read                *)
(* (models.rs), the manifest asked for (oci_registry_broker.rs), and the   *)
(* command, the environment and the mounts put together                    *)
(* (workload_execution_service.rs, proot_broker.rs).  What the image store *)
(* and the reconciler do around it is in ImageStore and Reconciler; here   *)
(* the data counts, and one start of one pod is followed to its end.       *)
(*                                                                         *)
(* An image reference is a sequence of words and of the separators "/", ":"*)
(* and "@"; a digest is the sequence <<algorithm, ":", hash>>.             *)
(***************************************************************************)
EXTENDS SequencesExt

CONSTANTS
  Word, Program, Name, Value, Place, \* of references, commands, settings, paths
  Manifests,    \* of one platform: [os, arch]
  Pods,         \* pod specs; the image is as its author means it
  Bodies,       \* what a registry answers for a tag: a manifest, or [entries]
  Configs,      \* container configs of images, or None
  Present,      \* programs that are in the rootfs
  HostPaths,    \* paths that exist on the device
  Dotted,       \* words with a dot
  Hub, Library, Latest, \* registry-1.docker.io, library, latest
  Root,         \* the directory "/"
  Arch,         \* the architecture the agent was built for
  Inherited,    \* the environment of the agent
  Defaults,     \* the variables the broker sets first
  Empty,        \* the empty string
  None          \* an absent Option

Option(S) == {None} \cup S

Image == [host : Option(Seq(Word)), path : Seq(Word),
          tag : Option(Word), digest : Option(Seq(Word))]
Setting == [name : Name, value : Value]
Pod == [image : Image, command : Option(Seq(Program)), args : Option(Seq(Program)),
        env : Option(Seq([name : Name, value : Option(Value)])),
        mounts : Option(Seq(Place)), dir : Option(Place)]
Config == [entrypoint : Option(Seq(Program)), cmd : Option(Seq(Program)),
           env : Option(Seq(Setting)), dir : Option(Place)]
Reference == [registry : Seq(Word), repository : Seq(Word), reference : Seq(Word)]
Environment == UNION {[names -> Value] : names \in SUBSET Name}
Process == [command : Seq(Program), env : Environment,
            mounts : Seq(Place), dir : Place]

\* The grammar of references.  A host is told from the first part of a path by
\* its dot or its port; a path of one word has no slash.
WellFormed(image) ==
  /\ image.host # None =>
       /\ ToSet(image.host) \cap {"/", "@"} = {}
       /\ ToSet(image.host) \cap (Dotted \cup {":"}) # {}
  /\ ToSet(image.path) \cap {":", "@"} = {}
  /\ image.path # <<>> /\ (Len(image.path) = 1 <=> "/" \notin ToSet(image.path))
  /\ image.host = None /\ Len(image.path) # 1 =>
       \A n \in DOMAIN image.path :
         image.path[n] \in Dotted => \E m \in 1 .. (n - 1) : image.path[m] = "/"
  /\ image.tag \notin {"/", ":", "@"}

IsList(b) == "entries" \in DOMAIN b

ASSUME LaunchAssumption ==
  /\ Pods \subseteq Pod /\ \A p \in Pods : WellFormed(p.image)
  /\ Configs \subseteq Option(Config)
  /\ \A b \in Bodies : IF IsList(b) THEN b.entries \in Seq(Manifests)
                                    ELSE b \in Manifests
  /\ \A m \in Manifests : DOMAIN m = {"os", "arch"}
  /\ {"/", ":", "@", Hub, Library, Latest} \subseteq Word
  /\ {Root, Empty} \subseteq Place
  /\ Inherited \in Environment /\ Defaults \in Seq(Setting)
  /\ None \notin Value /\ None \notin Place /\ None \notin Word
  /\ None \notin Manifests /\ None \notin {"tag", "platform", "blob"}

VARIABLES
  pod, body, config,  \* the pod, and what the registry has for its image
  guarded,            \* the registry asks for a token
  pc,                 \* where the start is
  ref,                \* the parsed reference
  wanted,             \* the request in hand: "tag", "platform" or "blob"
  manifest,           \* the manifest the image is built from
  process             \* what was spawned

inputs == <<pod, body, config, guarded>>
vars   == <<inputs, pc, ref, wanted, manifest, process>>

-----------------------------------------------------------------------------
(* ImageRef::parse and the rootfs of an image.                             *)

Before(s, n) == SubSeq(s, 1, n - 1)
After(s, n) == SubSeq(s, n + 1, Len(s))
Find(s, token) == SelectInSeq(s, LAMBDA x : x = token)
FindLast(s, token) == SelectLastInSeq(s, LAMBDA x : x = token)

\* What the author of the pod writes.
Text(image) ==
  (IF image.host = None THEN <<>> ELSE image.host \o <<"/">>)
    \o image.path
    \o (IF image.tag = None THEN <<>> ELSE <<":", image.tag>>)
    \o (IF image.digest = None THEN <<>> ELSE <<"@">> \o image.digest)

\* Mutant: the first colon separates, wherever it stands.
FirstColonAt(s) == IF Find(s, "@") # 0 THEN Find(s, "@") ELSE Find(s, ":")

\* Position of what separates the name from the tag or digest, 0 without one:
\* a colon counts after the first slash only.
ReferenceAt(s) ==
  IF Find(s, "@") # 0 THEN Find(s, "@")
  ELSE IF FindLast(s, ":") > Find(s, "/") THEN FindLast(s, ":") ELSE 0

NamePart(s) == IF ReferenceAt(s) = 0 THEN s ELSE Before(s, ReferenceAt(s))

Parse(s) ==
  LET name  == NamePart(s)
      slash == Find(name, "/")
      host  == Before(name, slash)
      isHost == \E x \in ToSet(host) : x \in Dotted \cup {":"}
  IN  [registry   |-> IF slash # 0 /\ isHost THEN host ELSE <<Hub>>,
       repository |-> IF slash = 0 THEN <<Library, "/">> \o name
                      ELSE IF isHost THEN After(name, slash) ELSE name,
       reference  |-> IF ReferenceAt(s) = 0 THEN <<Latest>>
                      ELSE After(s, ReferenceAt(s))]

-----------------------------------------------------------------------------
(* fetch_manifest: the body for a tag is a manifest or a list of platforms.*)

\* Mutant: any entry for linux will do.
AnyLinux(b) == SelectInSeq(b.entries, LAMBDA e : e.os = "linux")

\* The first entry for the agent's platform, else the first one for linux.
PlatformOf(b) ==
  LET exact == SelectInSeq(b.entries, LAMBDA e : e.os = "linux" /\ e.arch = Arch)
  IN  IF exact # 0 THEN exact
      ELSE SelectInSeq(b.entries, LAMBDA e : e.os = "linux")

-----------------------------------------------------------------------------
(* resolve_command, resolve_env, resolve_mounts, and proot's arguments.    *)

Or(option, default) == IF option # None THEN option ELSE default

FromImage(field, default) ==
  IF config # None THEN Or(config[field], default) ELSE default

ResolveCommand ==
  Or(pod.command, FromImage("entrypoint", <<>>))
    \o Or(pod.args, FromImage("cmd", <<>>))

\* A loop that passes over what is not in S.
Kept(s, S) ==
  FoldLeft(LAMBDA kept, x : IF x \in S THEN Append(kept, x) ELSE kept, <<>>, s)

Literals == Kept(Or(pod.env, <<>>), Setting)

\* Mutant: the image has the last word.
ImageEnvLast == Literals \o FromImage("env", <<>>)

\* Variables of the pod whose value is not a literal are passed over.
ResolveEnv == FromImage("env", <<>>) \o Literals

\* Command::env: the last setting of a variable counts, over what the agent
\* has in its own environment.
SetAll(env, settings) ==
  FoldLeft(LAMBDA e, v : [n \in DOMAIN e \cup {v.name} |->
                            IF n = v.name THEN v.value ELSE e[n]], env, settings)

\* Each mount is a path of the device, bound to the same path of the guest.
ResolveMounts == Kept(Or(pod.mounts, <<>>), HostPaths)

WorkingDir == LET dir == Or(pod.dir, FromImage("dir", None))
              IN  IF dir \in {None, Empty} THEN Root ELSE dir

-----------------------------------------------------------------------------
Goto(label) == pc' = label

ReadReference ==
  /\ pc = "parse"
  /\ ref' = Parse(Text(pod.image))
  /\ wanted' = "tag" /\ Goto("ask")
  /\ UNCHANGED <<inputs, manifest, process>>

\* The rootfs has its sentinel: nothing is asked of the registry.
SeeReady ==
  /\ pc = "ask" /\ wanted = "tag"
  /\ Goto("resolve")
  /\ UNCHANGED <<inputs, ref, wanted, manifest, process>>

\* A request without a token, which the registry may refuse with a challenge.
Answered ==
  /\ pc = "ask" /\ ~guarded
  /\ Goto("answer")
  /\ UNCHANGED <<inputs, ref, wanted, manifest, process>>

Challenged ==
  /\ pc = "ask" /\ guarded
  /\ Goto("token")
  /\ UNCHANGED <<inputs, ref, wanted, manifest, process>>

\* resolve_token; the request is sent once more.
ResolveToken ==
  /\ pc = "token"
  /\ Goto("answer")
  /\ UNCHANGED <<inputs, ref, wanted, manifest, process>>

\* No realm, no token, a status that is no success, a body that does not parse.
RequestFails ==
  /\ pc \in {"ask", "token", "answer"}
  /\ Goto("failed")
  /\ UNCHANGED <<inputs, ref, wanted, manifest, process>>

TakeManifest ==
  /\ pc = "answer" /\ wanted = "tag" /\ ~IsList(body)
  /\ manifest' = body
  /\ wanted' = "blob" /\ Goto("ask")
  /\ UNCHANGED <<inputs, ref, process>>

\* Mutant: the list itself is taken for the manifest.
KeepList ==
  /\ pc = "answer" /\ wanted = "tag" /\ IsList(body) /\ PlatformOf(body) # 0
  /\ manifest' = body
  /\ wanted' = "platform" /\ Goto("ask")
  /\ UNCHANGED <<inputs, ref, process>>

ChoosePlatform ==
  /\ pc = "answer" /\ wanted = "tag" /\ IsList(body) /\ PlatformOf(body) # 0
  /\ manifest' = body.entries[PlatformOf(body)]
  /\ wanted' = "platform" /\ Goto("ask")
  /\ UNCHANGED <<inputs, ref, process>>

NoPlatform ==
  /\ pc = "answer" /\ wanted = "tag" /\ IsList(body) /\ PlatformOf(body) = 0
  /\ Goto("failed")
  /\ UNCHANGED <<inputs, ref, wanted, manifest, process>>

\* The manifest of the platform is asked for by digest.
TakePlatform ==
  /\ pc = "answer" /\ wanted = "platform"
  /\ wanted' = "blob" /\ Goto("ask")
  /\ UNCHANGED <<inputs, ref, manifest, process>>

\* The config and the layers; ImageStore has what is done with them.
TakeBlob ==
  /\ pc = "answer" /\ wanted = "blob"
  /\ Goto("resolve")
  /\ UNCHANGED <<inputs, ref, wanted, manifest, process>>

\* Mutant: nobody looks for the program.
NotEmpty(command) == command # <<>>

\* The program must be in the rootfs if its path is absolute.
Runnable(command) ==
  command # <<>> /\ (command[1].absolute => command[1] \in Present)

Started == [command |-> ResolveCommand,
            env     |-> SetAll(SetAll(Inherited, Defaults), ResolveEnv),
            mounts  |-> ResolveMounts,
            dir     |-> WorkingDir]

Spawn ==
  /\ pc = "resolve" /\ Runnable(ResolveCommand)
  /\ process' = Started
  /\ Goto("spawned")
  /\ UNCHANGED <<inputs, ref, wanted, manifest>>

\* No program, or a directory that cannot be made, or no process: a start may
\* always fail here.
SpawnFails ==
  /\ pc = "resolve"
  /\ Goto("failed")
  /\ UNCHANGED <<inputs, ref, wanted, manifest, process>>

-----------------------------------------------------------------------------
Init ==
  /\ pod \in Pods /\ body \in Bodies /\ config \in Configs /\ guarded \in BOOLEAN
  /\ pc = "parse" /\ ref = None /\ wanted = None
  /\ manifest = None /\ process = None

Next ==
  \/ ReadReference \/ SeeReady \/ Answered \/ Challenged \/ ResolveToken
  \/ RequestFails \/ TakeManifest \/ ChoosePlatform \/ NoPlatform
  \/ TakePlatform \/ TakeBlob \/ Spawn \/ SpawnFails

Spec == Init /\ [][Next]_vars

-----------------------------------------------------------------------------
(* Properties.                                                             *)

\* A start has parsed its reference when it asks for anything, holds one
\* manifest and never a list, and has a process when it has spawned one.
TypeOK ==
  /\ pod \in Pods /\ body \in Bodies /\ config \in Configs /\ guarded \in BOOLEAN
  /\ pc \in {"parse", "ask", "token", "answer", "resolve", "spawned", "failed"}
  /\ wanted \in {None, "tag", "platform", "blob"}
  /\ ref \in IF pc = "parse" THEN {None} ELSE Reference
  /\ manifest \in Option(Manifests)
  /\ wanted \in {"platform", "blob"} => manifest # None
  /\ process \in IF pc = "spawned" THEN Process ELSE {None}

\* The registry is asked for the image its author meant: host with or without
\* a port, path of any depth, tag or digest (ImageRef::parse).  A reference
\* with both a tag and a digest is left out: its tag stays in the repository.
ReferenceIsRead ==
  LET image == pod.image IN
  ref # None /\ (image.tag = None \/ image.digest = None) =>
    /\ ref.registry = Or(image.host, <<Hub>>)
    /\ ref.repository = IF image.host = None /\ Len(image.path) = 1
                        THEN <<Library, "/">> \o image.path ELSE image.path
    /\ ref.reference = IF image.digest # None THEN image.digest
                       ELSE <<Or(image.tag, Latest)>>

\* An image is taken from a list for the platform of the agent whenever the
\* list has it, and for no other system ever (fetch_manifest).
PlatformIsRight ==
  manifest # None /\ IsList(body) =>
    /\ manifest.os = "linux"
    /\ manifest.arch # Arch =>
         \A e \in ToSet(body.entries) : e.os # "linux" \/ e.arch # Arch

\* What runs begins with the pod's command and ends with its arguments, or is
\* what the image says where the pod says nothing; a program that is named by
\* its path is there (resolve_command, ensure_workload_command_exists).
RunsWhatPodSays ==
  pc = "spawned" =>
    /\ pod.command # None => IsPrefix(pod.command, process.command)
    /\ pod.args # None => IsSuffix(pod.args, process.command)
    /\ pod.command = None /\ pod.args = None =>
         process.command = FromImage("entrypoint", <<>>) \o FromImage("cmd", <<>>)
    /\ process.command[1].absolute => process.command[1] \in Present

\* Names a sequence of settings sets, and the value it leaves one with.
Sets(settings) == {v.name : v \in ToSet(settings)}
LastValue(settings, n) ==
  settings[SelectLastInSeq(settings, LAMBDA v : v.name = n)].value

\* A process has the pod's value of a variable before the image's, the image's
\* before the broker's and that before the agent's own, a variable of the pod
\* without a literal value being none, and no mount of a path the device does
\* not have (resolve_env, execute).
PodHasLastWord ==
  LET said == Or(pod.env, <<>>)
      literal(n) == SelectLastInSeq(said, LAMBDA v : v.name = n /\ v.value # None)
      image == FromImage("env", <<>>)
  IN  pc = "spawned" =>
        /\ DOMAIN process.env =
             DOMAIN Inherited \cup Sets(Defaults) \cup Sets(image)
               \cup {v.name : v \in {x \in ToSet(said) : x.value # None}}
        /\ \A n \in DOMAIN process.env :
             process.env[n] = IF literal(n) # 0 THEN said[literal(n)].value
                              ELSE IF n \in Sets(image) THEN LastValue(image, n)
                              ELSE IF n \in Sets(Defaults) THEN LastValue(Defaults, n)
                              ELSE Inherited[n]
        /\ ToSet(process.mounts) = ToSet(Or(pod.mounts, <<>>)) \cap HostPaths

(* Why they hold, for LaunchProofs: what a start has done so far is what its *)
(* pod, its image and the registry's answer say.                             *)
LaunchInv ==
  /\ TypeOK
  /\ pc # "parse" => ref = Parse(Text(pod.image))
  /\ manifest # None =>
       IF IsList(body)
       THEN PlatformOf(body) # 0 /\ manifest = body.entries[PlatformOf(body)]
       ELSE manifest = body
  /\ pc = "spawned" => Runnable(ResolveCommand) /\ process = Started
=============================================================================
