------------------------------ MODULE MCLaunch ------------------------------
(* Small inputs for Launch.  Every image is started with every pod of a few, *)
(* and what varies apart from the others is varied apart.                    *)
EXTENDS Launch

CONSTANTS NoOption, EmptyString

Sh   == [name |-> "/bin/sh", absolute |-> TRUE]
Gone == [name |-> "/bin/gone", absolute |-> TRUE]
Echo == [name |-> "echo", absolute |-> FALSE]
Var(n, v) == [name |-> n, value |-> v]

Images ==
  [host   : {NoOption, <<"ghcr.io">>, <<"localhost", ":", "5000">>},
   path   : {<<"nginx">>, <<"node.js">>, <<"team", "/", "app">>,
             <<"a", "/", "b", "/", "c">>},
   tag    : {NoOption, "v1"},
   digest : {NoOption, <<"sha256", ":", "abc">>}]

\* A pod that says nothing beside its image, and ones that say more.
Plain == [image |-> [host |-> NoOption, path |-> <<"nginx">>,
                     tag |-> "v1", digest |-> NoOption],
          command |-> NoOption, args |-> NoOption, env |-> NoOption,
          mounts |-> NoOption, dir |-> NoOption]

MCPods ==
  {[Plain EXCEPT !.image = i] : i \in Images}
  \cup {[Plain EXCEPT !.command = c, !.args = a] :
          c \in {NoOption, <<>>, <<Sh>>, <<Gone>>},
          a \in {NoOption, <<>>, <<Echo>>, <<Echo, Echo>>}}
  \cup {[Plain EXCEPT !.command = <<Echo>>, !.env = e, !.mounts = m, !.dir = d] :
          e \in {NoOption, <<Var("PATH", "pod"), Var("A", "pod")>>,
                 <<Var("A", "old"), Var("A", "new")>>, <<Var("A", NoOption)>>},
          m \in {NoOption, <<"/data", "/absent">>},
          d \in {NoOption, EmptyString, "/srv"}}

Manifest(o, a) == [os |-> o, arch |-> a]
MCBodies ==
  {Manifest("linux", "amd64")}
  \cup {[entries |-> es] : es \in
          {<<Manifest("windows", "arm64")>>,
           <<Manifest("linux", "amd64"), Manifest("linux", "arm64")>>,
           <<Manifest("windows", "arm64"), Manifest("linux", "arm")>>}}

MCConfigs ==
  {NoOption}
  \cup [entrypoint : {NoOption, <<Sh>>}, cmd : {NoOption, <<Echo>>},
        env : {NoOption, <<Var("PATH", "image"), Var("A", "image"), Var("B", "image")>>},
        dir : {EmptyString, "/app"}]

MCWords == {"ghcr.io", "localhost", "5000", "nginx", "node.js", "team", "app", "a", "b",
            "c", "v1", "sha256", "abc", "/", ":", "@", Hub, Library, Latest}
MCManifests == {Manifest(o, a) : o \in {"windows", "linux"}, a \in {"arm", "arm64", "amd64"}}
MCPrograms == {Sh, Gone, Echo}
MCPlaces == {Root, Empty, "/app", "/srv", "/data", "/absent"}

MCInherited == [n \in {"PATH", "HOME"} |-> "agent"]
MCDefaults  == <<Var("PATH", "proot"), Var("TMPDIR", "/tmp")>>
MCPresent   == {Sh}
=============================================================================
