--------------------------- MODULE KubeletCAProofs ---------------------------
(* Theorems about KubeletCA, for any agents, keys and number of deaths.      *)
EXTENDS KubeletCA, TLAPS

USE KubeletCAAssumption

-----------------------------------------------------------------------------
(* Type correctness.                                                       *)

LEMMA TypeInit == Init => TypeOK
<1> SUFFICES ASSUME Init PROVE TypeOK
  OBVIOUS
<1>1. pc \in [Agent -> Label] /\ mine \in [Agent -> Key \cup {Missing}]
  BY DEF Init, Label
<1>2. \A a \in Agent : a \in Holders <=> mine[a] # Missing
  BY DEF Init, Holders
<1>3. contended \in BOOLEAN /\ cut \in BOOLEAN
  <2>1. contended = FALSE /\ cut = FALSE
    BY DEF Init
  <2>2. FALSE \in BOOLEAN
    OBVIOUS
  <2> QED
    BY <2>1, <2>2, Zenon
<1>4. crashes \in 0 .. MaxCrashes
  BY DEF Init
<1> QED
  BY <1>1, <1>2, <1>3, <1>4 DEF Init, TypeOK

LEMMA TypeNext == TypeOK /\ [Next]_vars => TypeOK'
<1> SUFFICES ASSUME TypeOK, [Next]_vars PROVE TypeOK'
  OBVIOUS
<1> USE DEF TypeOK, Label, Holders, At, Goto, End, files, history
<1>1. ASSUME NEW a \in Agent, Start(a) PROVE TypeOK'
  BY <1>1 DEF Start
<1>2. ASSUME NEW a \in Agent, SeeKey(a) PROVE TypeOK'
  BY <1>2 DEF SeeKey
<1>3. ASSUME NEW a \in Agent, Generate(a) PROVE TypeOK'
  BY <1>3 DEF Generate
<1>4. ASSUME NEW a \in Agent, ReadKey(a) PROVE TypeOK'
  BY <1>4 DEF ReadKey
<1>5. ASSUME NEW a \in Agent, ReadFails(a) PROVE TypeOK'
  BY <1>5 DEF ReadFails
<1>6. ASSUME NEW a \in Agent, KeepKey(a) PROVE TypeOK'
  BY <1>6 DEF KeepKey
<1>7. ASSUME NEW a \in Agent, SeeNoKey(a) PROVE TypeOK'
  BY <1>7 DEF SeeNoKey
<1>8. ASSUME NEW a \in Agent, BeginWriteKey(a) PROVE TypeOK'
  BY <1>8 DEF BeginWriteKey
<1>9. ASSUME NEW a \in Agent, EndWriteKey(a) PROVE TypeOK'
  BY <1>9 DEF EndWriteKey
<1>10. ASSUME NEW a \in Agent, KeepCert(a) PROVE TypeOK'
  BY <1>10 DEF KeepCert
<1>11. ASSUME NEW a \in Agent, SeeNoCert(a) PROVE TypeOK'
  BY <1>11 DEF SeeNoCert
<1>12. ASSUME NEW a \in Agent, BeginWriteCert(a) PROVE TypeOK'
  BY <1>12 DEF BeginWriteCert
<1>13. ASSUME NEW a \in Agent, EndWriteCert(a) PROVE TypeOK'
  BY <1>13 DEF EndWriteCert
<1>14. ASSUME NEW a \in Agent, Serve(a) PROVE TypeOK'
  BY <1>14 DEF Serve
<1>15. ASSUME NEW a \in Agent, PortTaken(a) PROVE TypeOK'
  BY <1>15 DEF PortTaken
<1>16. ASSUME NEW a \in Agent, Fail(a) PROVE TypeOK'
  BY <1>16 DEF Fail
<1>17. CASE CopyCert
  BY <1>17 DEF CopyCert
<1>18. CASE UNCHANGED vars
  BY <1>18 DEF vars
<1> QED
  BY <1>1, <1>2, <1>3, <1>4, <1>5, <1>6, <1>7, <1>8, <1>9, <1>10, <1>11, <1>12,
     <1>13, <1>14, <1>15, <1>16, <1>17, <1>18 DEF Next, Run

\* The variables of KubeletCA have the values their comments say.
THEOREM TypeCorrect == Spec => []TypeOK
<1>1. Init => TypeOK
  BY TypeInit
<1>2. TypeOK /\ [Next]_vars => TypeOK'
  BY TypeNext
<1> QED
  BY <1>1, <1>2, PTL DEF Spec

-----------------------------------------------------------------------------
(* One new key at a time: whoever is about to write the key file is the    *)
(* only one who could, and what was persisted is what everybody has.       *)

LEMMA CAInit == Init => CAInv
  BY DEF Init, CAInv, OneNewKey, KeyFileFollows, PersistedHaveKey, CertIsOfKey,
         HoldsNewKey, At

LEMMA CANext == TypeOK /\ CAInv /\ [Next]_vars => CAInv'
<1> SUFFICES ASSUME TypeOK, CAInv, [Next]_vars, ~contended' PROVE CAInv'
  BY DEF CAInv
<1> USE DEF At, Goto, End, files, history
<1>c. ~contended
  <2>1. CASE \E a \in Agent : Generate(a)
    BY <2>1 DEF Generate, TypeOK
  <2>2. CASE ~\E a \in Agent : Generate(a)
    BY <2>2 DEF Next, Run, vars, Start, SeeKey, ReadKey, ReadFails, KeepKey, SeeNoKey,
      BeginWriteKey, EndWriteKey, KeepCert, SeeNoCert, BeginWriteCert, EndWriteCert,
      Serve, PortTaken, Fail, CopyCert
  <2> QED
    BY <2>1, <2>2
<1>i. OneNewKey /\ KeyFileFollows /\ PersistedHaveKey /\ CertIsOfKey
  BY <1>c DEF CAInv
<1> USE DEF TypeOK, Label, Holders, CAInv, OneNewKey, KeyFileFollows, PersistedHaveKey,
            CertIsOfKey, HoldsNewKey
<1>1. ASSUME NEW a \in Agent, Start(a) PROVE CAInv'
  BY <1>1, <1>i DEF Start
<1>2. ASSUME NEW a \in Agent, SeeKey(a) PROVE CAInv'
  BY <1>2, <1>i DEF SeeKey
<1>3. ASSUME NEW a \in Agent, Generate(a) PROVE CAInv'
  BY <1>3, <1>i DEF Generate
<1>4. ASSUME NEW a \in Agent, ReadKey(a) PROVE CAInv'
  BY <1>4, <1>i DEF ReadKey
<1>5. ASSUME NEW a \in Agent, ReadFails(a) PROVE CAInv'
  BY <1>5, <1>i DEF ReadFails
<1>6. ASSUME NEW a \in Agent, KeepKey(a) PROVE CAInv'
  BY <1>6, <1>i DEF KeepKey
<1>7. ASSUME NEW a \in Agent, SeeNoKey(a) PROVE CAInv'
  BY <1>7, <1>i DEF SeeNoKey
<1>8. ASSUME NEW a \in Agent, BeginWriteKey(a) PROVE CAInv'
  BY <1>8, <1>i DEF BeginWriteKey
<1>9. ASSUME NEW a \in Agent, EndWriteKey(a) PROVE CAInv'
  BY <1>9, <1>i DEF EndWriteKey
<1>10. ASSUME NEW a \in Agent, KeepCert(a) PROVE CAInv'
  BY <1>10, <1>i DEF KeepCert
<1>11. ASSUME NEW a \in Agent, SeeNoCert(a) PROVE CAInv'
  BY <1>11, <1>i DEF SeeNoCert
<1>12. ASSUME NEW a \in Agent, BeginWriteCert(a) PROVE CAInv'
  BY <1>12, <1>i DEF BeginWriteCert
<1>13. ASSUME NEW a \in Agent, EndWriteCert(a) PROVE CAInv'
  BY <1>13, <1>i DEF EndWriteCert
<1>14. ASSUME NEW a \in Agent, Serve(a) PROVE CAInv'
  BY <1>14, <1>i DEF Serve
<1>15. ASSUME NEW a \in Agent, PortTaken(a) PROVE CAInv'
  BY <1>15, <1>i DEF PortTaken
<1>16. ASSUME NEW a \in Agent, Fail(a) PROVE CAInv'
  BY <1>16, <1>i DEF Fail
<1>17. CASE CopyCert
  BY <1>17, <1>i DEF CopyCert
<1>18. CASE UNCHANGED vars
  BY <1>18, <1>i DEF vars
<1> QED
  BY <1>1, <1>2, <1>3, <1>4, <1>5, <1>6, <1>7, <1>8, <1>9, <1>10, <1>11, <1>12,
     <1>13, <1>14, <1>15, <1>16, <1>17, <1>18 DEF Next, Run

THEOREM CAHolds == Spec => [](TypeOK /\ CAInv)
<1>1. Init => TypeOK /\ CAInv
  BY TypeInit, CAInit
<1>2. TypeOK /\ CAInv /\ [Next]_vars => (TypeOK /\ CAInv)'
  BY TypeNext, CANext
<1> QED
  BY <1>1, <1>2, PTL DEF Spec

\* Unless two agents generated a key at once, the agent that serves has the key
\* that k3s was told to trust, and no other key is certified on disk
\* (make_tls_config).
THEOREM ServesTrusted == Spec => []ServedCertIsTrusted
<1>1. TypeOK /\ CAInv => ServedCertIsTrusted
  BY DEF TypeOK, CAInv, PersistedHaveKey, CertIsOfKey, ServedCertIsTrusted, At
<1> QED
  BY <1>1, CAHolds, PTL

\* Unless two agents generated a key at once, a key that was written in full is
\* never replaced, and neither is its certificate by another one.
THEOREM KeepsKey == Spec => KeyIsKept
<1> DEFINE Kept == ~contended => /\ key \in Key => key' = key
                                 /\ cert \in Key => cert' \in {cert, Torn}
<1>1. TypeOK /\ CAInv /\ [Next]_vars => [Kept]_vars
  <2> SUFFICES ASSUME TypeOK, CAInv, [Next]_vars, ~contended PROVE Kept
    OBVIOUS
  <2> USE DEF At, TypeOK, CAInv, KeyFileFollows, PersistedHaveKey, CertIsOfKey,
              files, history
  <2>1. ASSUME NEW a \in Agent, BeginWriteKey(a) \/ EndWriteKey(a) PROVE Kept
    BY <2>1 DEF BeginWriteKey, EndWriteKey
  <2>2. ASSUME NEW a \in Agent, BeginWriteCert(a) \/ EndWriteCert(a) PROVE Kept
    BY <2>2 DEF BeginWriteCert, EndWriteCert
  <2>3. CASE UNCHANGED <<key, cert>>
    BY <2>3
  <2>4. \/ \E a \in Agent : BeginWriteKey(a) \/ EndWriteKey(a)
        \/ \E a \in Agent : BeginWriteCert(a) \/ EndWriteCert(a)
        \/ UNCHANGED <<key, cert>>
    BY DEF Next, Run, vars, Start, SeeKey, Generate, ReadKey, ReadFails, KeepKey,
      SeeNoKey, KeepCert, SeeNoCert, Serve, PortTaken, Fail, CopyCert
  <2> QED
    BY <2>1, <2>2, <2>3, <2>4
<1> QED
  BY <1>1, CAHolds, PTL DEF Spec, KeyIsKept
=============================================================================
