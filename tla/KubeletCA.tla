----------------------------- MODULE KubeletCA -----------------------------
(***************************************************************************)
(* The certificate authority of the kubelet endpoint: make_tls_config and  *)
(* serve (virtual_kubelet_exposer.rs).  The first start of an agent        *)
(* generates a key and leaves it, and a certificate of it, in the data     *)
(* directory; every later start reads the key.  The certificate is copied  *)
(* to k3s once, by hand.                                                   *)
(*                                                                         *)
(* Nothing locks the directory: several agents of a device may start at    *)
(* once.  A step is one access to a file; fs::write is two, the file is    *)
(* truncated and then filled.  An agent may die between any two steps, and *)
(* the files stay.                                                         *)
(***************************************************************************)
EXTENDS Naturals

CONSTANTS
  Agent,        \* the agent processes that may run on the device
  Key,          \* key pairs; bound: the keys that may be generated
  Missing,      \* the file does not exist, the certificate is not copied
  Torn,         \* the file exists and is not written in full
  MaxCrashes    \* bound: deaths of an agent and failed writes

ASSUME KubeletCAAssumption ==
  /\ Missing \notin Key /\ Torn \notin Key /\ Missing # Torn
  /\ MaxCrashes \in Nat

VARIABLES
  key,        \* kubelet-ca.key: the key pair it holds
  cert,       \* kubelet-ca.crt: the key pair it certifies
  trusted,    \* what k3s was told to trust
  pc,         \* per agent: where it is in serve
  mine,       \* per agent: the key pair it has in memory
  used,       \* history: key pairs generated so far
  contended,  \* history: two agents had a new key at once
  cut,        \* history: a write was left unfinished
  crashes

files   == <<key, cert, trusted>>
history == <<used, contended, cut, crashes>>
vars    == <<files, pc, mine, history>>

At(a, label) == pc[a] = label
Goto(a, label) == pc' = [pc EXCEPT ![a] = label]

\* The agent ends: nothing of it is left but the files.
End(a) == pc' = [pc EXCEPT ![a] = "off"] /\ mine' = [mine EXCEPT ![a] = Missing]

\* A key pair that is in no file yet.
HoldsNewKey(a) == \/ At(a, "derived") /\ key = Missing
                  \/ At(a, "openKey") \/ At(a, "writeKey")

-----------------------------------------------------------------------------
(* The key: read it, or generate one.                                      *)

Start(a) ==
  /\ At(a, "off")
  /\ Goto(a, "start")
  /\ UNCHANGED <<files, mine, history>>

SeeKey(a) ==
  /\ At(a, "start") /\ key # Missing
  /\ Goto(a, "read")
  /\ UNCHANGED <<files, mine, history>>

\* Mutant: a new key is generated at every start.
GenerateAlways(a) ==
  /\ At(a, "start")
  /\ \E k \in Key \ used : mine' = [mine EXCEPT ![a] = k] /\ used' = used \cup {k}
  /\ contended' = (contended \/ \E b \in Agent \ {a} : HoldsNewKey(b))
  /\ Goto(a, "derived")
  /\ UNCHANGED <<files, cut, crashes>>

Generate(a) ==
  /\ At(a, "start") /\ key = Missing
  /\ \E k \in Key \ used : mine' = [mine EXCEPT ![a] = k] /\ used' = used \cup {k}
  /\ contended' = (contended \/ \E b \in Agent \ {a} : HoldsNewKey(b))
  /\ Goto(a, "derived")
  /\ UNCHANGED <<files, cut, crashes>>

\* Mutant: what was read is not kept.
ReadKeyInVain(a) ==
  /\ At(a, "read") /\ key \in Key
  /\ Goto(a, "derived")
  /\ UNCHANGED <<files, mine, history>>

ReadKey(a) ==
  /\ At(a, "read") /\ key \in Key
  /\ mine' = [mine EXCEPT ![a] = key]
  /\ Goto(a, "derived")
  /\ UNCHANGED <<files, history>>

\* What is in the file is not a key: the server, and with it the agent, ends.
ReadFails(a) ==
  /\ At(a, "read") /\ key = Torn
  /\ End(a)
  /\ UNCHANGED <<files, history>>

-----------------------------------------------------------------------------
(* Both are written on the first run only: if the file is not there, asked *)
(* again, and a step earlier than it is written.                           *)

KeepKey(a) ==
  /\ At(a, "derived") /\ key # Missing
  /\ Goto(a, "persisted")
  /\ UNCHANGED <<files, mine, history>>

\* Mutant: the key is saved at every start.
SaveKeyAgain(a) ==
  /\ At(a, "derived")
  /\ Goto(a, "openKey")
  /\ UNCHANGED <<files, mine, history>>

SeeNoKey(a) ==
  /\ At(a, "derived") /\ key = Missing
  /\ Goto(a, "openKey")
  /\ UNCHANGED <<files, mine, history>>

BeginWriteKey(a) ==
  /\ At(a, "openKey")
  /\ key' = Torn
  /\ Goto(a, "writeKey")
  /\ UNCHANGED <<cert, trusted, mine, history>>

\* Mutant: the key is never flushed to the file.
LeaveKeyEmpty(a) ==
  /\ At(a, "writeKey")
  /\ Goto(a, "persisted")
  /\ UNCHANGED <<files, mine, history>>

EndWriteKey(a) ==
  /\ At(a, "writeKey")
  /\ key' = mine[a]
  /\ Goto(a, "persisted")
  /\ UNCHANGED <<cert, trusted, mine, history>>

KeepCert(a) ==
  /\ At(a, "persisted") /\ cert # Missing
  /\ Goto(a, "signed")
  /\ UNCHANGED <<files, mine, history>>

SeeNoCert(a) ==
  /\ At(a, "persisted") /\ cert = Missing
  /\ Goto(a, "openCert")
  /\ UNCHANGED <<files, mine, history>>

BeginWriteCert(a) ==
  /\ At(a, "openCert")
  /\ cert' = Torn
  /\ Goto(a, "writeCert")
  /\ UNCHANGED <<key, trusted, mine, history>>

EndWriteCert(a) ==
  /\ At(a, "writeCert")
  /\ cert' = mine[a]
  /\ Goto(a, "signed")
  /\ UNCHANGED <<key, trusted, mine, history>>

-----------------------------------------------------------------------------
(* The port is bound once everything is signed.                            *)

Serve(a) ==
  /\ At(a, "signed") /\ \A b \in Agent : ~At(b, "serving")
  /\ Goto(a, "serving")
  /\ UNCHANGED <<files, mine, history>>

PortTaken(a) ==
  /\ At(a, "signed") /\ \E b \in Agent : At(b, "serving")
  /\ End(a)
  /\ UNCHANGED <<files, history>>

-----------------------------------------------------------------------------
(* Deaths and failed writes, and the one-time setup of k3s.                *)

\* The agent dies, or a write fails and is passed on by `?`.
Fail(a) ==
  /\ ~At(a, "off")
  /\ crashes < MaxCrashes /\ crashes' = crashes + 1
  /\ cut' = (cut \/ At(a, "writeKey") \/ At(a, "writeCert"))
  /\ End(a)
  /\ UNCHANGED <<files, used, contended>>

\* k3s does not start with a certificate that is not whole: the administrator
\* copies none, and waits in vain if it has been cut.
CopyCert ==
  /\ trusted = Missing /\ cert \in Key
  /\ trusted' = cert
  /\ UNCHANGED <<key, cert, pc, mine, history>>

-----------------------------------------------------------------------------
Init ==
  /\ key = Missing /\ cert = Missing /\ trusted = Missing
  /\ pc = [a \in Agent |-> "off"]
  /\ mine = [a \in Agent |-> Missing]
  /\ used = {} /\ contended = FALSE /\ cut = FALSE /\ crashes = 0

Run(a) ==
  \/ Start(a) \/ SeeKey(a) \/ Generate(a) \/ ReadKey(a) \/ ReadFails(a)
  \/ KeepKey(a) \/ SeeNoKey(a) \/ BeginWriteKey(a) \/ EndWriteKey(a)
  \/ KeepCert(a) \/ SeeNoCert(a) \/ BeginWriteCert(a) \/ EndWriteCert(a)
  \/ Serve(a) \/ PortTaken(a)

Next == (\E a \in Agent : Run(a) \/ Fail(a)) \/ CopyCert

Spec == Init /\ [][Next]_vars

\* The supervisor starts an agent again that has ended, and file operations
\* return.
FairSpec == Spec /\ \A a \in Agent : WF_vars(Run(a))

-----------------------------------------------------------------------------
Label == {"off", "start", "read", "derived", "openKey", "writeKey", "persisted",
          "openCert", "writeCert", "signed", "serving"}

\* Agents that have a key pair in memory.
Holders == {a \in Agent : pc[a] \notin {"off", "start", "read"}}

TypeOK ==
  /\ key \in Key \cup {Missing, Torn} /\ cert \in Key \cup {Missing, Torn}
  /\ trusted \in Key \cup {Missing}
  /\ pc \in [Agent -> Label]
  /\ mine \in [Agent -> Key \cup {Missing}]
  /\ \A a \in Agent : a \in Holders <=> mine[a] # Missing
  /\ used \subseteq Key /\ contended \in BOOLEAN /\ cut \in BOOLEAN
  /\ crashes \in 0 .. MaxCrashes

\* The inductive invariant behind ServedCertIsTrusted and KeyIsKept, in parts.
OneNewKey == \A a, b \in Agent : HoldsNewKey(a) /\ HoldsNewKey(b) => a = b

KeyFileFollows ==
  \A a \in Agent : /\ At(a, "derived") => key \in {Missing, mine[a]}
                   /\ At(a, "openKey") => key = Missing
                   /\ At(a, "writeKey") => key = Torn

PersistedHaveKey ==
  \A a \in Agent :
    pc[a] \in {"persisted", "openCert", "writeCert", "signed", "serving"} => mine[a] = key

CertIsOfKey == /\ cert \in Key => cert = key
               /\ trusted # Missing => trusted = key
               /\ \A a \in Agent : pc[a] \in {"writeCert", "signed", "serving"} =>
                                    cert # Missing

CAInv == ~contended => OneNewKey /\ KeyFileFollows /\ PersistedHaveKey /\ CertIsOfKey

\* virtual_kubelet_exposer.rs:143: "After that one restart k3s trusts every
\* cert we sign".  The agent that serves has the key that k3s was told to
\* trust, or that it is about to be told, unless two agents had generated one
\* at the same time.
ServedCertIsTrusted ==
  ~contended => \A a \in Agent :
    At(a, "serving") => /\ trusted \in {Missing, mine[a]}
                        /\ cert \in {Torn, mine[a]}

\* virtual_kubelet_exposer.rs:169: "the public key stored in kubelet-ca.crt
\* never changes after the first run".  Agents that start at once may still
\* write the certificate twice, of the same key.
KeyIsKept ==
  [][~contended => /\ key \in Key => key' = key
                   /\ cert \in Key => cert' \in {cert, Torn}]_vars

\* Whatever dies and whichever agents meet on the port, one of them ends up
\* serving for good, unless a write was cut: a torn key is never repaired.
ServesInTheEnd == <>[](cut \/ \E a \in Agent : At(a, "serving"))

\* The same without the reservation: what the comment at line 143 says.
\* Supervisor's OneAgent shows how two agents start at once.
TrustsEveryCert ==
  \A a \in Agent : At(a, "serving") => trusted \in {Missing, mine[a]}
=============================================================================
