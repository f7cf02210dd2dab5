---------------------------- MODULE OutputProofs ----------------------------
(***************************************************************************)
(* Proofs about ProcessOutput: its types, and that a workload's log and    *)
(* the pipe have the last lines it wrote, for any workloads, names, sizes  *)
(* of pipes and buffers, and deaths of the agent.                          *)
(*                                                                         *)
(* First what appending a line does to a buffer, then what each step does  *)
(* to the parts of OutputInv.                                              *)
(***************************************************************************)
EXTENDS ProcessOutput, SequenceTheorems, TLAPS

LEMMA LineIsTyped ==
  ASSUME NEW buf \in Seq(Line)
  PROVE  \A i \in 1 .. Len(buf) :
           buf[i] \in Line /\ buf[i].n \in Nat /\ buf[i].of \in Process
<1>1. \A line \in Line : line.n \in Nat /\ line.of \in Process
  BY DEF Line
<1>2. \A i \in 1 .. Len(buf) : buf[i] \in Line
  BY ElementOfSeq
<1> QED
  BY <1>1, <1>2

\* The last Keep of Keep + 1 lines.
LEMMA AllButFirst ==
  ASSUME NEW buf \in Seq(Line), Keep \in Nat, Keep > 0, Len(buf) = Keep + 1
  PROVE  /\ SubSeq(buf, 2, Keep + 1) \in Seq(Line)
         /\ Len(SubSeq(buf, 2, Keep + 1)) = Keep
         /\ \A i \in 1 .. Keep : SubSeq(buf, 2, Keep + 1)[i] = buf[i + 1]
<1>1. SubSeq(buf, 2, Keep + 1) \in Seq(Line)
  OBVIOUS
<1>2. Len(SubSeq(buf, 2, Keep + 1)) = Keep
  OBVIOUS
<1>3. \A i \in 1 .. Keep : SubSeq(buf, 2, Keep + 1)[i] = buf[i + 1]
  OBVIOUS
<1> QED
  BY <1>1, <1>2, <1>3

\* new is buf with the line behind it, less its first cut lines.
Shifted(new, buf, line, cut) ==
  /\ new \in Seq(Line)
  /\ Len(new) = Len(buf) + 1 - cut
  /\ \A i \in 1 .. Len(buf) : i > cut => new[i - cut] = buf[i]
  /\ new[Len(buf) + 1 - cut] = line

\* A buffer with room gets the line, one that is full also loses its first.
LEMMA LastLinesOf ==
  ASSUME NEW buf \in Seq(Line), Len(buf) <= Keep, NEW line \in Line
  PROVE  \/ Len(buf) < Keep /\ Shifted(LastLines(buf \o <<line>>), buf, line, 0)
         \/ Len(buf) = Keep /\ Shifted(LastLines(buf \o <<line>>), buf, line, 1)
<1> DEFINE new == buf \o <<line>>
<1>1. Keep \in Nat /\ Keep > 0 /\ Len(buf) \in Nat
  BY ProcessOutputAssumption, LenProperties
<1>2. new \in Seq(Line) /\ Len(new) = Len(buf) + 1
  OBVIOUS
<1>3. \A i \in 1 .. Len(buf) : new[i] = buf[i]
  OBVIOUS
<1>4. new[Len(buf) + 1] = line
  OBVIOUS
<1> HIDE DEF new
<1>5. CASE Len(buf) < Keep
  <2>1. LastLines(new) = new
    BY <1>1, <1>2, <1>5 DEF LastLines
  <2>2. Shifted(new, buf, line, 0)
    BY <1>1, <1>2, <1>3, <1>4 DEF Shifted
  <2> QED
    BY <1>5, <2>1, <2>2 DEF new
<1>6. CASE Len(buf) = Keep
  <2>1. LastLines(new) = SubSeq(new, 2, Keep + 1)
    BY <1>1, <1>2, <1>6 DEF LastLines
  <2>2. /\ LastLines(new) \in Seq(Line)
        /\ Len(LastLines(new)) = Keep
        /\ \A i \in 1 .. Keep : LastLines(new)[i] = new[i + 1]
    BY <1>1, <1>2, <1>6, <2>1, AllButFirst
  <2>3. \A i \in 1 .. Len(buf) : i > 1 => LastLines(new)[i - 1] = buf[i]
    <3> SUFFICES ASSUME NEW i \in 1 .. Len(buf), i > 1
                 PROVE  LastLines(new)[i - 1] = buf[i]
      OBVIOUS
    <3>1. i - 1 \in 1 .. Keep /\ (i - 1) + 1 = i
      BY <1>1, <1>6
    <3> QED
      BY <1>3, <2>2, <3>1
  <2>4. LastLines(new)[Len(buf) + 1 - 1] = line
    <3>1. Keep \in 1 .. Keep /\ Len(buf) + 1 - 1 = Keep
      BY <1>1, <1>6
    <3> QED
      BY <1>4, <1>6, <2>2, <3>1
  <2>5. Shifted(LastLines(new), buf, line, 1)
    BY <1>1, <1>6, <2>2, <2>3, <2>4 DEF Shifted
  <2> QED
    BY <1>6, <2>5 DEF new
<1> QED
  BY <1>1, <1>5, <1>6

\* What new has was in buf, one place or none further on, or is the line.
LEMMA ShiftedBack ==
  ASSUME NEW buf \in Seq(Line), NEW line, NEW new, NEW cut \in {0, 1},
         Shifted(new, buf, line, cut), NEW i \in 1 .. Len(new)
  PROVE  \/ i + cut \in 1 .. Len(buf) /\ new[i] = buf[i + cut]
         \/ i + cut = Len(buf) + 1 /\ new[i] = line
<1>1. Len(buf) \in Nat /\ Len(new) = Len(buf) + 1 - cut
  BY LenProperties DEF Shifted
<1>2. CASE i + cut = Len(buf) + 1
  <2>1. i = Len(buf) + 1 - cut
    BY <1>1, <1>2
  <2> QED
    BY <1>2, <2>1 DEF Shifted
<1>3. CASE i + cut # Len(buf) + 1
  <2>1. i + cut \in 1 .. Len(buf) /\ i + cut > cut /\ (i + cut) - cut = i
    BY <1>1, <1>3
  <2> QED
    BY <2>1 DEF Shifted
<1> QED
  BY <1>2, <1>3

\* The first of the lines a buffer has of w and s is the first it kept.
LEMMA FirstKept ==
  ASSUME NEW buf \in Seq(Line), NEW w, NEW s, NEW top \in Nat, NEW lost \in 0 .. top,
         HasAllBut(buf, w, s, lost, top), Len(buf) > 0, Of(buf[1], w, s)
  PROVE  buf[1].n = lost + 1 /\ lost + 1 <= top
<1>1. Len(buf) \in Nat /\ \A i \in 1 .. Len(buf) : buf[i].n \in Nat
  BY LenProperties, LineIsTyped
<1>2. buf[1].n \in lost + 1 .. top
  BY <1>1 DEF HasAllBut
<1>3. PICK i \in 1 .. Len(buf) : Of(buf[i], w, s) /\ buf[i].n = lost + 1
  BY <1>2 DEF HasAllBut
<1>4. ~(1 < i)
  BY <1>1, <1>2, <1>3 DEF HasAllBut
<1> QED
  BY <1>2, <1>3, <1>4

\* The reader of w and s appends the next line.
LEMMA AppendOwn ==
  ASSUME NEW buf \in Seq(Line), Len(buf) <= Keep, NEW line \in Line,
         NEW w, NEW s, NEW top \in Nat, NEW lost \in 0 .. top,
         HasAllBut(buf, w, s, lost, top), Of(line, w, s), line.n = top + 1
  PROVE  \E less \in 0 .. top + 1 :
           HasAllBut(LastLines(buf \o <<line>>), w, s, less, top + 1)
<1> DEFINE new == LastLines(buf \o <<line>>)
<1>1. PICK cut \in {0, 1} :
        /\ Shifted(new, buf, line, cut)
        /\ IF cut = 1 THEN Len(buf) = Keep ELSE Len(buf) < Keep
  BY LastLinesOf
<1> HIDE DEF new
<1>2. Keep \in Nat /\ Keep > 0 /\ Len(buf) \in Nat
  BY ProcessOutputAssumption, LenProperties
<1>3. \A i \in 1 .. Len(buf) : buf[i].n \in Nat
  BY LineIsTyped
<1>4. Of(buf[1], w, s) /\ cut = 1 => buf[1].n = lost + 1 /\ lost + 1 <= top
  BY <1>1, <1>2, FirstKept
<1>5. \A i \in 1 .. Len(new) :
        \/ i + cut \in 1 .. Len(buf) /\ new[i] = buf[i + cut]
        \/ i + cut = Len(buf) + 1 /\ new[i] = line
  BY <1>1, ShiftedBack
<1>6. ASSUME NEW less \in {lost, lost + 1},
             less = IF Of(buf[1], w, s) /\ cut = 1 THEN lost + 1 ELSE lost
      PROVE  less \in 0 .. top /\ HasAllBut(new, w, s, less, top + 1)
  <2>1. less \in lost .. top
    BY <1>4, <1>6
  <2>2. ASSUME NEW i \in 1 .. Len(new), Of(new[i], w, s)
        PROVE  new[i].n \in less + 1 .. top + 1
    <3>1. CASE i + cut \in 1 .. Len(buf) /\ new[i] = buf[i + cut]
      <4>1. buf[i + cut].n \in lost + 1 .. top
        BY <2>2, <3>1 DEF HasAllBut
      <4>2. less # lost => buf[i + cut].n > lost + 1
        <5>1. SUFFICES ASSUME less # lost
                       PROVE  buf[1].n < buf[i + cut].n
          BY <1>3, <1>4, <1>6, <3>1, <4>1
        <5>2. Of(buf[1], w, s) /\ 1 < i + cut /\ 1 \in 1 .. Len(buf)
          BY <1>2, <1>6, <3>1, <5>1
        <5> QED
          BY <2>2, <3>1, <5>2 DEF HasAllBut
      <4> QED
        BY <1>6, <3>1, <4>1, <4>2
    <3> QED
      BY <1>5, <2>1, <2>2, <3>1
  <2>3. ASSUME NEW n \in less + 1 .. top + 1
        PROVE  \E i \in 1 .. Len(new) : Of(new[i], w, s) /\ new[i].n = n
    <3>1. CASE n = top + 1
      BY <1>1, <1>2, <3>1 DEF Shifted
    <3>2. CASE n # top + 1
      <4>1. n \in lost + 1 .. top
        BY <2>1, <3>2
      <4>2. PICK i \in 1 .. Len(buf) : Of(buf[i], w, s) /\ buf[i].n = n
        BY <4>1 DEF HasAllBut
      <4>3. i > cut
        BY <1>2, <1>3, <1>4, <1>6, <2>3, <4>2
      <4>4. i - cut \in 1 .. Len(new) /\ new[i - cut] = buf[i]
        BY <1>1, <1>2, <4>3 DEF Shifted
      <4> QED
        BY <4>2, <4>4
    <3> QED
      BY <3>1, <3>2
  <2>4. ASSUME NEW i \in 1 .. Len(new), NEW j \in 1 .. Len(new), i < j,
               Of(new[i], w, s), Of(new[j], w, s)
        PROVE  new[i].n < new[j].n
    <3>1. i + cut \in 1 .. Len(buf) /\ new[i] = buf[i + cut]
      BY <1>1, <1>2, <1>5, <2>4 DEF Shifted
    <3>2. CASE j + cut \in 1 .. Len(buf) /\ new[j] = buf[j + cut]
      <4>1. i + cut < j + cut
        BY <2>4
      <4> QED
        BY <2>4, <3>1, <3>2, <4>1 DEF HasAllBut
    <3>3. CASE new[j] = line
      BY <2>4, <3>1, <3>3 DEF HasAllBut
    <3> QED
      BY <1>5, <3>2, <3>3
  <2>5. less > 0 => Len(new) = Keep
    BY <1>1, <1>2, <1>6 DEF HasAllBut, Shifted
  <2> QED
    BY <2>1, <2>2, <2>3, <2>4, <2>5 DEF HasAllBut
<1> QED
  BY <1>6 DEF new

\* Somebody else's line comes into the same buffer.
LEMMA AppendOther ==
  ASSUME NEW buf \in Seq(Line), Len(buf) <= Keep, NEW line \in Line,
         NEW w, NEW s, NEW top \in Nat, NEW lost \in 0 .. top,
         HasAllBut(buf, w, s, lost, top), ~Of(line, w, s)
  PROVE  \E less \in 0 .. top :
           HasAllBut(LastLines(buf \o <<line>>), w, s, less, top)
<1> DEFINE new == LastLines(buf \o <<line>>)
<1>1. PICK cut \in {0, 1} :
        /\ Shifted(new, buf, line, cut)
        /\ IF cut = 1 THEN Len(buf) = Keep ELSE Len(buf) < Keep
  BY LastLinesOf
<1> HIDE DEF new
<1>2. Keep \in Nat /\ Keep > 0 /\ Len(buf) \in Nat
  BY ProcessOutputAssumption, LenProperties
<1>3. \A i \in 1 .. Len(buf) : buf[i].n \in Nat
  BY LineIsTyped
<1>4. Of(buf[1], w, s) /\ cut = 1 => buf[1].n = lost + 1 /\ lost + 1 <= top
  BY <1>1, <1>2, FirstKept
<1>5. \A i \in 1 .. Len(new) :
        \/ i + cut \in 1 .. Len(buf) /\ new[i] = buf[i + cut]
        \/ i + cut = Len(buf) + 1 /\ new[i] = line
  BY <1>1, ShiftedBack
<1>6. ASSUME NEW less \in {lost, lost + 1},
             less = IF Of(buf[1], w, s) /\ cut = 1 THEN lost + 1 ELSE lost
      PROVE  less \in 0 .. top /\ HasAllBut(new, w, s, less, top)
  <2>1. less \in lost .. top
    BY <1>4, <1>6
  <2>2. ASSUME NEW i \in 1 .. Len(new), Of(new[i], w, s)
        PROVE  new[i].n \in less + 1 .. top
    <3>1. CASE i + cut \in 1 .. Len(buf) /\ new[i] = buf[i + cut]
      <4>1. buf[i + cut].n \in lost + 1 .. top
        BY <2>2, <3>1 DEF HasAllBut
      <4>2. less # lost => buf[i + cut].n > lost + 1
        <5>1. SUFFICES ASSUME less # lost
                       PROVE  buf[1].n < buf[i + cut].n
          BY <1>3, <1>4, <1>6, <3>1, <4>1
        <5>2. Of(buf[1], w, s) /\ 1 < i + cut /\ 1 \in 1 .. Len(buf)
          BY <1>2, <1>6, <3>1, <5>1
        <5> QED
          BY <2>2, <3>1, <5>2 DEF HasAllBut
      <4> QED
        BY <1>6, <3>1, <4>1, <4>2
    <3> QED
      BY <1>5, <2>1, <2>2, <3>1
  <2>3. ASSUME NEW n \in less + 1 .. top
        PROVE  \E i \in 1 .. Len(new) : Of(new[i], w, s) /\ new[i].n = n
    <3>1. n \in lost + 1 .. top
      BY <2>1
    <3>2. PICK i \in 1 .. Len(buf) : Of(buf[i], w, s) /\ buf[i].n = n
      BY <3>1 DEF HasAllBut
    <3>3. i > cut
      BY <1>2, <1>3, <1>4, <1>6, <2>3, <3>2
    <3>4. i - cut \in 1 .. Len(new) /\ new[i - cut] = buf[i]
      BY <1>1, <1>2, <3>3 DEF Shifted
    <3> QED
      BY <3>2, <3>4
  <2>4. ASSUME NEW i \in 1 .. Len(new), NEW j \in 1 .. Len(new), i < j,
               Of(new[i], w, s), Of(new[j], w, s)
        PROVE  new[i].n < new[j].n
    <3>1. i + cut \in 1 .. Len(buf) /\ new[i] = buf[i + cut]
      BY <1>1, <1>2, <1>5, <2>4 DEF Shifted
    <3>2. CASE j + cut \in 1 .. Len(buf) /\ new[j] = buf[j + cut]
      <4>1. i + cut < j + cut
        BY <2>4
      <4> QED
        BY <2>4, <3>1, <3>2, <4>1 DEF HasAllBut
    <3> QED
      BY <1>5, <2>4, <3>2
  <2>5. less > 0 => Len(new) = Keep
    BY <1>1, <1>2, <1>6 DEF HasAllBut, Shifted
  <2> QED
    BY <2>1, <2>2, <2>3, <2>4, <2>5 DEF HasAllBut
<1> QED
  BY <1>6 DEF new

-----------------------------------------------------------------------------
LEMMA StreamsDiffer == NoStream \notin Stream /\ Stream = {"stdout", "stderr"}
  BY ProcessOutputAssumption DEF Stream

LEMMA InitInv == Init => OutputInv
<1> SUFFICES ASSUME Init PROVE OutputInv
  OBVIOUS
<1>1. TypeOK
  BY ProcessOutputAssumption DEF Init, TypeOK, Process
<1>2. NewIsSilent
  <2>1. \A n \in Name : Len(logs[n]) = 0
    BY DEF Init
  <2> QED
    BY <2>1 DEF Init, NewIsSilent, Open
<1>3. ClosedIsEmpty
  BY DEF Init, ClosedIsEmpty
<1>4. HandIsOfReader
  BY DEF Init, HandIsOfReader
<1>5. LogsAreTheLastLines
  <2>1. \A w \in Workload, s \in Stream : tap[w][s] = "none"
    BY DEF Init, Process
  <2> QED
    BY <2>1 DEF LogsAreTheLastLines
<1> QED
  BY <1>1, <1>2, <1>3, <1>4, <1>5 DEF OutputInv

\* A reader that holds something holds one line.
LEMMA HandHasLine ==
  ASSUME TypeOK, HandIsOfReader, NEW w \in Workload, NEW s \in Stream,
         hand[w][s] # <<>>
  PROVE  \E line \in Line : hand[w][s] = <<line>>
<1>1. hand[w][s] \in Seq(Line) /\ Len(hand[w][s]) <= 1
  BY DEF TypeOK, HandIsOfReader
<1>2. Len(hand[w][s]) = 1 /\ hand[w][s][1] \in Line
  <2>1. Len(hand[w][s]) # 0 /\ Len(hand[w][s]) \in Nat
    BY <1>1
  <2>2. \A n \in Nat : n # 0 /\ n <= 1 => n = 1
    OBVIOUS
  <2>3. Len(hand[w][s]) = 1
    BY <1>1, <2>1, <2>2, Zenon
  <2> QED
    BY <1>1, <2>3, LineIsTyped
<1>3. hand[w][s] = <<hand[w][s][1]>>
  BY <1>1, <1>2
<1> QED
  BY <1>2, <1>3

LEMMA TimeoutDrops ==
  ASSUME NEW q \in Probe, ProbeTimesOut(q)
  PROVE  Drop(q) \/ UNCHANGED <<tap, pipe>>
  BY DEF ProbeTimesOut

LEMMA TypeNext == OutputInv /\ [Next]_vars => TypeOK'
<1> SUFFICES ASSUME OutputInv, [Next]_vars PROVE TypeOK'
  OBVIOUS
<1>a. TypeOK /\ HandIsOfReader
  BY DEF OutputInv
<1>b. Room \in Nat /\ Room > 0 /\ Keep \in Nat /\ Keep > 0 /\ MaxCrashes \in Nat
  BY ProcessOutputAssumption
<1>c. Workload \subseteq Process /\ Probe \subseteq Process
  BY DEF Process
<1>1. ASSUME NEW w \in Workload, Start(w) PROVE TypeOK'
  BY <1>a, <1>1, <1>c DEF TypeOK, Start, Spawn
<1>2. ASSUME NEW w \in Workload, Stop(w) PROVE TypeOK'
  BY <1>a, <1>2, <1>c DEF TypeOK, Stop
<1>3. ASSUME NEW w \in Workload, NEW s \in Stream, ReadLine(w, s) PROVE TypeOK'
  <2>1. pipe[w][s] \in Seq(Line) /\ pipe[w][s] # <<>> /\ Len(pipe[w][s]) <= Room
    BY <1>a, <1>c, <1>3 DEF TypeOK, ReadLine
  <2>2. /\ <<Head(pipe[w][s])>> \in Seq(Line)
        /\ Tail(pipe[w][s]) \in Seq(Line) /\ Len(Tail(pipe[w][s])) <= Room
    BY <1>b, <2>1
  <2>3. hand' \in [Workload -> [Stream -> Seq(Line)]]
    BY <1>a, <1>3, <2>2 DEF TypeOK, ReadLine
  <2>4. pipe' \in [Process -> [Stream -> Seq(Line)]]
    BY <1>a, <1>3, <2>2 DEF TypeOK, ReadLine
  <2>5. \A p \in Process, t \in Stream : Len(pipe'[p][t]) <= Room
    BY <1>a, <1>3, <2>2 DEF TypeOK, ReadLine
  <2> QED
    BY <1>a, <1>3, <2>3, <2>4, <2>5 DEF TypeOK, ReadLine
<1>4. ASSUME NEW w \in Workload, NEW s \in Stream, ReadFails(w, s)
      PROVE  TypeOK'
  BY <1>a, <1>4, <1>c, <1>b DEF TypeOK, ReadFails
<1>5. ASSUME NEW w \in Workload, NEW s \in Stream, EndOfOutput(w, s)
      PROVE  TypeOK'
  BY <1>a, <1>5, <1>c DEF TypeOK, EndOfOutput
<1>6. ASSUME NEW w \in Workload, NEW s \in Stream, AppendLog(w, s)
      PROVE  TypeOK'
  <2>1. PICK line \in Line : hand[w][s] = <<line>>
    BY <1>a, <1>6, HandHasLine DEF AppendLog
  <2> DEFINE name == NameOf[w]
             new == LastLines(logs[name] \o <<line>>)
  <2>2. name \in Name /\ logs[name] \in Seq(Line) /\ Len(logs[name]) <= Keep
    BY <1>a, ProcessOutputAssumption DEF TypeOK
  <2>3. new \in Seq(Line) /\ Len(new) <= Keep
    BY <1>b, <2>2, LastLinesOf DEF Shifted
  <2>4. logs' = [logs EXCEPT ![name] = new]
    BY <1>6, <2>1 DEF AppendLog
  <2> HIDE DEF new
  <2>5. logs' \in [Name -> Seq(Line)] /\ \A n \in Name : Len(logs'[n]) <= Keep
    BY <1>a, <2>3, <2>4 DEF TypeOK
  <2>6. hand' \in [Workload -> [Stream -> Seq(Line)]]
    BY <1>a, <1>6 DEF TypeOK, AppendLog
  <2> QED
    BY <1>a, <1>6, <2>5, <2>6 DEF TypeOK, AppendLog
<1>7. ASSUME NEW p \in Process, NEW s \in Stream, BeginWrite(p, s)
      PROVE  TypeOK'
  BY <1>a, <1>7 DEF TypeOK, BeginWrite
<1>8. ASSUME NEW p \in Process, EndWrite(p) PROVE TypeOK'
  <2>1. PICK s \in Stream, text \in BOOLEAN :
          /\ Len(pipe[p][s]) < Room
          /\ wrote' = [wrote EXCEPT ![p][s] = @ + 1]
          /\ pipe' = [pipe EXCEPT ![p][s] =
               Append(@, [of |-> p, on |-> s, n |-> wrote[p][s] + 1, text |-> text])]
    BY <1>8 DEF EndWrite
  <2> DEFINE line == [of |-> p, on |-> s, n |-> wrote[p][s] + 1, text |-> text]
  <2>2. wrote[p][s] \in Nat /\ line \in Line
    BY <1>a DEF TypeOK, Line
  <2> HIDE DEF line
  <2>3. pipe' = [pipe EXCEPT ![p][s] = Append(pipe[p][s], line)]
    BY <2>1 DEF line
  <2>4. pipe[p][s] \in Seq(Line) /\ Len(pipe[p][s]) \in Nat
    BY <1>a, LenProperties DEF TypeOK
  <2>5. /\ Append(pipe[p][s], line) \in Seq(Line)
        /\ Len(Append(pipe[p][s], line)) <= Room
    BY <1>b, <2>1, <2>2, <2>4
  <2>6. pipe' \in [Process -> [Stream -> Seq(Line)]]
    BY <1>a, <2>3, <2>5 DEF TypeOK
  <2>7. \A q \in Process, t \in Stream : Len(pipe'[q][t]) <= Room
    BY <1>a, <2>3, <2>5 DEF TypeOK
  <2>8. wrote' \in [Process -> [Stream -> Nat]]
    BY <1>a, <2>1, <2>2 DEF TypeOK
  <2>9. writing' \in [Process -> Stream \cup {NoStream}]
    BY <1>a, <1>8 DEF TypeOK, EndWrite
  <2> QED
    BY <1>a, <1>8, <2>6, <2>7, <2>8, <2>9 DEF TypeOK, EndWrite
<1>9. ASSUME NEW p \in Process, BrokenPipe(p) PROVE TypeOK'
  <2>1. PICK s \in Stream :
          \/ life' = [life EXCEPT ![p] = "failed"] /\ UNCHANGED wrote
          \/ wrote' = [wrote EXCEPT ![p][s] = @ + 1] /\ UNCHANGED life
    BY <1>9 DEF BrokenPipe
  <2>2. life' \in [Process -> {"new", "runs", "ok", "failed"}]
    BY <1>a, <2>1 DEF TypeOK
  <2>3. wrote' \in [Process -> [Stream -> Nat]]
    <3>1. wrote[p][s] + 1 \in Nat
      BY <1>a DEF TypeOK
    <3>2. CASE wrote' = [wrote EXCEPT ![p][s] = @ + 1]
      BY <1>a, <3>1, <3>2 DEF TypeOK
    <3>3. CASE UNCHANGED wrote
      BY <1>a, <3>3 DEF TypeOK
    <3> QED
      BY <2>1, <3>2, <3>3
  <2>4. writing' \in [Process -> Stream \cup {NoStream}]
    BY <1>a, <1>9 DEF TypeOK, BrokenPipe
  <2> QED
    BY <1>a, <1>9, <2>2, <2>3, <2>4 DEF TypeOK, BrokenPipe
<1>10. ASSUME NEW p \in Process, Exit(p) PROVE TypeOK'
  BY <1>a, <1>10 DEF TypeOK, Exit
<1>11. ASSUME NEW q \in Probe, ProbeExec(q) PROVE TypeOK'
  BY <1>a, <1>11, <1>c DEF TypeOK, ProbeExec, Spawn
<1>12. ASSUME NEW q \in Probe, ProbeHttp(q) \/ ProbeFails(q) \/ HttpAnswers(q)
       PROVE  TypeOK'
  BY <1>a, <1>12 DEF TypeOK, ProbeHttp, ProbeFails, HttpAnswers
<1>13. ASSUME NEW q \in Probe, ProbeExits(q) PROVE TypeOK'
  BY <1>a, <1>b, <1>13, <1>c DEF TypeOK, ProbeExits, Drop
<1>14. ASSUME NEW q \in Probe, ProbeTimesOut(q) PROVE TypeOK'
  <2>1. /\ probe' = [probe EXCEPT ![q] = "failed"]
        /\ UNCHANGED <<life, writing, wrote, hand, logs, crashes>>
    BY <1>14 DEF ProbeTimesOut
  <2>2. CASE Drop(q)
    BY <1>a, <1>b, <1>c, <2>1, <2>2 DEF TypeOK, Drop
  <2>3. CASE UNCHANGED <<tap, pipe>>
    BY <1>a, <2>1, <2>3 DEF TypeOK
  <2> QED
    BY <1>14, <2>2, <2>3, TimeoutDrops
<1>15. ASSUME AgentDies PROVE TypeOK'
  BY <1>a, <1>b, <1>15, <1>c DEF TypeOK, AgentDies
<1>16. ASSUME UNCHANGED vars PROVE TypeOK'
  BY <1>a, <1>16 DEF TypeOK, vars
<1> QED
  BY <1>1, <1>2, <1>3, <1>4, <1>5, <1>6, <1>7, <1>8, <1>9, <1>10, <1>11,
     <1>12, <1>13, <1>14, <1>15, <1>16 DEF Next, Reader, Answer

LEMMA SilentNext == OutputInv /\ [Next]_vars => NewIsSilent'
<1> SUFFICES ASSUME OutputInv, [Next]_vars PROVE NewIsSilent'
  OBVIOUS
<1>a. TypeOK /\ NewIsSilent /\ HandIsOfReader /\ LogsAreTheLastLines
  BY DEF OutputInv
<1>c. Workload \subseteq Process /\ Probe \subseteq Process
  BY DEF Process
<1>1. ASSUME NEW w \in Workload, Start(w) PROVE NewIsSilent'
  BY <1>a, <1>1, <1>c DEF TypeOK, NewIsSilent, Open, Start, Spawn
<1>2. ASSUME NEW w \in Workload, Stop(w) PROVE NewIsSilent'
  BY <1>a, <1>2, <1>c DEF TypeOK, NewIsSilent, Open, Stop
<1>3. ASSUME NEW w \in Workload, NEW s \in Stream, ReadLine(w, s)
      PROVE  NewIsSilent'
  BY <1>a, <1>3, <1>c DEF TypeOK, NewIsSilent, Open, ReadLine
<1>4. ASSUME NEW w \in Workload, NEW s \in Stream, ReadFails(w, s)
      PROVE  NewIsSilent'
  BY <1>a, <1>4, <1>c DEF TypeOK, NewIsSilent, Open, ReadFails
<1>5. ASSUME NEW w \in Workload, NEW s \in Stream, EndOfOutput(w, s)
      PROVE  NewIsSilent'
  BY <1>a, <1>5, <1>c DEF TypeOK, NewIsSilent, Open, EndOfOutput
<1>6. ASSUME NEW w \in Workload, NEW s \in Stream, AppendLog(w, s)
      PROVE  NewIsSilent'
  <2> DEFINE name == NameOf[w]
  <2>1. PICK line \in Line : hand[w][s] = <<line>>
    BY <1>a, <1>6, HandHasLine DEF AppendLog
  <2>2. life[line.of] # "new"
    <3>1. tap[w][s] = "drained"
      BY <1>a, <1>6 DEF AppendLog, HandIsOfReader
    <3>2. HoldsTheRest(w, s) /\ Len(hand[w][s]) = 1 /\ hand[w][s][1] = line
      BY <1>a, <2>1, <3>1 DEF LogsAreTheLastLines, Accounted
    <3>3. line.of = w
      BY <3>2 DEF HoldsTheRest, Of
    <3> QED
      BY <1>a, <1>c, <3>1, <3>3 DEF NewIsSilent, Open
  <2> DEFINE new == LastLines(logs[name] \o <<line>>)
  <2>3. name \in Name /\ logs[name] \in Seq(Line) /\ Len(logs[name]) <= Keep
    BY <1>a, ProcessOutputAssumption DEF TypeOK
  <2>4. PICK cut \in {0, 1} : Shifted(new, logs[name], line, cut)
    BY <2>3, LastLinesOf
  <2>5. logs' = [logs EXCEPT ![name] = new]
    BY <1>6, <2>1 DEF AppendLog
  <2> HIDE DEF new
  <2>6. \A i \in 1 .. Len(new) : life[new[i].of] # "new"
    BY <1>a, <2>2, <2>3, <2>4, ShiftedBack DEF NewIsSilent
  <2>7. \A n \in Name : \A i \in 1 .. Len(logs'[n]) : life[logs'[n][i].of] # "new"
    BY <1>a, <2>5, <2>6 DEF NewIsSilent, TypeOK
  <2> QED
    BY <1>a, <1>6, <2>7 DEF NewIsSilent, AppendLog, Open
<1>7. ASSUME NEW p \in Process, NEW s \in Stream, BeginWrite(p, s)
      PROVE  NewIsSilent'
  BY <1>a, <1>7 DEF TypeOK, NewIsSilent, Open, BeginWrite
<1>8. ASSUME NEW p \in Process, EndWrite(p) PROVE NewIsSilent'
  BY <1>a, <1>8, StreamsDiffer DEF TypeOK, NewIsSilent, Open, EndWrite
<1>9. ASSUME NEW p \in Process, BrokenPipe(p) PROVE NewIsSilent'
  <2>1. PICK s \in Stream :
          /\ writing[p] = s
          /\ \/ life' = [life EXCEPT ![p] = "failed"] /\ UNCHANGED wrote
             \/ wrote' = [wrote EXCEPT ![p][s] = @ + 1] /\ UNCHANGED life
          /\ writing' = [writing EXCEPT ![p] = NoStream]
    BY <1>9 DEF BrokenPipe
  <2>2. life[p] # "new"
    BY <1>a, <2>1, StreamsDiffer DEF NewIsSilent
  <2>3. life'[p] # "new" /\ \A r \in Process : r # p => life'[r] = life[r]
    BY <1>a, <2>1, <2>2 DEF TypeOK
  <2>4. \A r \in Process : r # p => writing'[r] = writing[r] /\ wrote'[r] = wrote[r]
    BY <1>a, <2>1 DEF TypeOK
  <2>5. \A n \in Name : \A i \in 1 .. Len(logs[n]) : life'[logs[n][i].of] # "new"
    <3> SUFFICES ASSUME NEW n \in Name, NEW i \in 1 .. Len(logs[n])
                 PROVE  life'[logs[n][i].of] # "new"
      OBVIOUS
    <3>1. logs[n][i].of \in Process
      BY <1>a, LineIsTyped DEF TypeOK
    <3> QED
      BY <1>a, <2>3, <3>1 DEF NewIsSilent
  <2> QED
    BY <1>a, <1>9, <2>3, <2>4, <2>5 DEF NewIsSilent, Open, BrokenPipe
<1>10. ASSUME NEW p \in Process, Exit(p) PROVE NewIsSilent'
  BY <1>a, <1>10 DEF TypeOK, NewIsSilent, Open, Exit
<1>11. ASSUME NEW q \in Probe, ProbeExec(q) PROVE NewIsSilent'
  BY <1>a, <1>11, <1>c DEF TypeOK, NewIsSilent, Open, ProbeExec, Spawn
<1>12. ASSUME NEW q \in Probe, ProbeHttp(q) \/ ProbeFails(q) \/ HttpAnswers(q)
       PROVE  NewIsSilent'
  BY <1>a, <1>12 DEF TypeOK, NewIsSilent, Open, ProbeHttp, ProbeFails, HttpAnswers
<1>13. ASSUME NEW q \in Probe, ProbeExits(q) PROVE NewIsSilent'
  BY <1>a, <1>13, <1>c DEF TypeOK, NewIsSilent, Open, ProbeExits, Drop, Ended
<1>14. ASSUME NEW q \in Probe, ProbeTimesOut(q) PROVE NewIsSilent'
  <2>1. UNCHANGED <<life, writing, wrote, logs>>
    BY <1>14 DEF ProbeTimesOut
  <2>2. \A p \in Process, s \in Stream : ~Open(p, s) => ~Open(p, s)'
    <3>1. CASE Drop(q)
      BY <1>a, <1>c, <3>1 DEF TypeOK, Open, Drop
    <3>2. CASE UNCHANGED <<tap, pipe>>
      BY <3>2 DEF Open
    <3> QED
      BY <1>14, <3>1, <3>2, TimeoutDrops
  <2> QED
    BY <1>a, <2>1, <2>2 DEF NewIsSilent
<1>15. ASSUME AgentDies PROVE NewIsSilent'
  BY <1>a, <1>15, <1>c DEF TypeOK, NewIsSilent, Open, AgentDies
<1>16. ASSUME UNCHANGED vars PROVE NewIsSilent'
  BY <1>a, <1>16 DEF NewIsSilent, Open, vars
<1> QED
  BY <1>1, <1>2, <1>3, <1>4, <1>5, <1>6, <1>7, <1>8, <1>9, <1>10, <1>11,
     <1>12, <1>13, <1>14, <1>15, <1>16 DEF Next, Reader, Answer

LEMMA ClosedNext == OutputInv /\ [Next]_vars => ClosedIsEmpty'
<1> SUFFICES ASSUME OutputInv, [Next]_vars PROVE ClosedIsEmpty'
  OBVIOUS
<1>a. TypeOK /\ NewIsSilent /\ ClosedIsEmpty
  BY DEF OutputInv
<1>c. Workload \subseteq Process /\ Probe \subseteq Process
  BY DEF Process
<1>1. ASSUME NEW w \in Workload, Start(w) PROVE ClosedIsEmpty'
  BY <1>a, <1>1, <1>c DEF TypeOK, ClosedIsEmpty, Open, Start, Spawn
<1>2. ASSUME NEW w \in Workload, NEW s \in Stream, ReadLine(w, s)
      PROVE  ClosedIsEmpty'
  BY <1>a, <1>2, <1>c DEF TypeOK, ClosedIsEmpty, Open, ReadLine
<1>3. ASSUME NEW w \in Workload, NEW s \in Stream, ReadFails(w, s)
      PROVE  ClosedIsEmpty'
  BY <1>a, <1>3, <1>c DEF TypeOK, ClosedIsEmpty, Open, ReadFails
<1>4. ASSUME NEW w \in Workload, NEW s \in Stream, EndOfOutput(w, s)
      PROVE  ClosedIsEmpty'
  BY <1>a, <1>4, <1>c DEF TypeOK, ClosedIsEmpty, Open, EndOfOutput
<1>5. ASSUME NEW p \in Process, EndWrite(p) PROVE ClosedIsEmpty'
  BY <1>a, <1>5 DEF TypeOK, ClosedIsEmpty, Open, EndWrite
<1>6. ASSUME NEW q \in Probe, ProbeExec(q) PROVE ClosedIsEmpty'
  BY <1>a, <1>6, <1>c DEF TypeOK, ClosedIsEmpty, Open, ProbeExec, Spawn
<1>7. ASSUME NEW q \in Probe, ProbeExits(q) PROVE ClosedIsEmpty'
  BY <1>a, <1>7, <1>c DEF TypeOK, ClosedIsEmpty, Open, ProbeExits, Drop
<1>8. ASSUME NEW q \in Probe, ProbeTimesOut(q) PROVE ClosedIsEmpty'
  <2>1. CASE Drop(q)
    BY <1>a, <1>c, <2>1 DEF TypeOK, ClosedIsEmpty, Open, Drop
  <2>2. CASE UNCHANGED <<tap, pipe>>
    BY <1>a, <2>2 DEF ClosedIsEmpty, Open
  <2> QED
    BY <1>8, <2>1, <2>2, TimeoutDrops
<1>9. ASSUME AgentDies PROVE ClosedIsEmpty'
  BY <1>9 DEF ClosedIsEmpty, AgentDies
<1>10. ASSUME UNCHANGED <<tap, pipe>> PROVE ClosedIsEmpty'
  BY <1>a, <1>10 DEF ClosedIsEmpty, Open
<1> QED
  BY <1>1, <1>2, <1>3, <1>4, <1>5, <1>6, <1>7, <1>8, <1>9, <1>10
  DEF Next, Reader, Answer, Stop, AppendLog, BeginWrite, BrokenPipe, Exit,
      ProbeHttp, ProbeFails, HttpAnswers, vars

LEMMA HandNext == OutputInv /\ [Next]_vars => HandIsOfReader'
<1> SUFFICES ASSUME OutputInv, [Next]_vars PROVE HandIsOfReader'
  OBVIOUS
<1>a. TypeOK /\ NewIsSilent /\ HandIsOfReader
  BY DEF OutputInv
<1>b. Len(<<>>) = 0 /\ \A x : Len(<<x>>) = 1
  OBVIOUS
<1>c. Workload \subseteq Process /\ Workload \cap Probe = {}
  BY ProcessOutputAssumption DEF Process
<1>1. ASSUME NEW w \in Workload, Start(w) PROVE HandIsOfReader'
  BY <1>a, <1>1, <1>c DEF TypeOK, HandIsOfReader, Start, Spawn
<1>2. ASSUME NEW w \in Workload, NEW s \in Stream, ReadLine(w, s)
      PROVE  HandIsOfReader'
  BY <1>a, <1>2, <1>b DEF TypeOK, HandIsOfReader, ReadLine
<1>3. ASSUME NEW w \in Workload, NEW s \in Stream, ReadFails(w, s)
      PROVE  HandIsOfReader'
  BY <1>a, <1>3, <1>c DEF TypeOK, HandIsOfReader, ReadFails
<1>4. ASSUME NEW w \in Workload, NEW s \in Stream, EndOfOutput(w, s)
      PROVE  HandIsOfReader'
  BY <1>a, <1>4, <1>c DEF TypeOK, HandIsOfReader, EndOfOutput
<1>5. ASSUME NEW w \in Workload, NEW s \in Stream, AppendLog(w, s)
      PROVE  HandIsOfReader'
  BY <1>a, <1>5, <1>b DEF TypeOK, HandIsOfReader, AppendLog
<1>6. ASSUME NEW q \in Probe, ProbeExec(q) PROVE HandIsOfReader'
  BY <1>a, <1>6, <1>c DEF TypeOK, HandIsOfReader, ProbeExec, Spawn
<1>7. ASSUME NEW q \in Probe, ProbeExits(q) PROVE HandIsOfReader'
  BY <1>a, <1>7, <1>c DEF TypeOK, HandIsOfReader, ProbeExits, Drop
<1>8. ASSUME NEW q \in Probe, ProbeTimesOut(q) PROVE HandIsOfReader'
  BY <1>a, <1>8, <1>c DEF TypeOK, HandIsOfReader, ProbeTimesOut, Drop
<1>9. ASSUME AgentDies PROVE HandIsOfReader'
  BY <1>9, <1>b DEF HandIsOfReader, AgentDies
<1>10. ASSUME UNCHANGED <<tap, hand>> PROVE HandIsOfReader'
  BY <1>a, <1>10 DEF HandIsOfReader
<1> QED
  BY <1>1, <1>2, <1>3, <1>4, <1>5, <1>6, <1>7, <1>8, <1>9, <1>10
  DEF Next, Reader, Answer, Stop, BeginWrite, EndWrite, BrokenPipe, Exit,
      ProbeHttp, ProbeFails, HttpAnswers, vars

\* What a step leaves alone is still accounted for.
LEMMA Untouched ==
  ASSUME NEW w \in Workload, NEW s \in Stream, Accounted(w, s),
         wrote'[w][s] = wrote[w][s], pipe'[w][s] = pipe[w][s],
         hand'[w][s] = hand[w][s], logs'[NameOf[w]] = logs[NameOf[w]]
  PROVE  Accounted(w, s)'
<1>1. Appended(w, s)' = Appended(w, s)
  BY DEF Appended
<1>2. ContainerLogs(NameOf[w])' = ContainerLogs(NameOf[w])
  BY DEF ContainerLogs
<1>3. HoldsTheRest(w, s)'
  BY <1>1 DEF Accounted, HoldsTheRest
<1> QED
  BY <1>1, <1>2, <1>3 DEF Accounted

\* A workload that starts has written nothing, and nobody has a line of it.
LEMMA StartAccounts ==
  ASSUME OutputInv, NEW w \in Workload, Start(w), NEW s \in Stream
  PROVE  Accounted(w, s)'
<1>1. TypeOK /\ NewIsSilent /\ ClosedIsEmpty /\ HandIsOfReader /\ w \in Process
  BY DEF OutputInv, Process
<1>2. wrote[w][s] = 0 /\ pipe[w][s] = <<>> /\ hand[w][s] = <<>>
  BY <1>1 DEF Start, Spawn, NewIsSilent, ClosedIsEmpty, HandIsOfReader, Open
<1>3. wrote'[w][s] = 0 /\ Len(pipe'[w][s]) = 0 /\ Len(hand'[w][s]) = 0
  BY <1>2 DEF Start
<1>4. Appended(w, s)' = 0
  BY <1>3 DEF Appended
<1>5. HoldsTheRest(w, s)'
  BY <1>3 DEF HoldsTheRest
<1> DEFINE log == logs[NameOf[w]]
<1>6. ContainerLogs(NameOf[w])' = log /\ NameOf[w] \in Name
  BY ProcessOutputAssumption DEF Start, ContainerLogs
<1>7. \A i \in 1 .. Len(log) : ~Of(log[i], w, s)
  BY <1>1, <1>6 DEF Start, Spawn, NewIsSilent, Of
<1>8. HasAllBut(log, w, s, 0, 0)
  BY <1>7 DEF HasAllBut
<1> QED
  BY <1>4, <1>5, <1>6, <1>8 DEF Accounted

\* A line goes from the pipe into the reader's hand.
LEMMA ReadAccounts ==
  ASSUME OutputInv, NEW w \in Workload, NEW s \in Stream, ReadLine(w, s)
  PROVE  Accounted(w, s)'
<1> DEFINE was == pipe[w][s]
<1>1. TypeOK /\ Accounted(w, s) /\ hand[w][s] = <<>> /\ was # <<>>
  BY DEF OutputInv, LogsAreTheLastLines, ReadLine
<1>2. was \in Seq(Line) /\ wrote[w][s] \in Nat /\ w \in Process
  BY <1>1 DEF TypeOK, Process
<1>3. pipe'[w][s] = Tail(was) /\ hand'[w][s] = <<Head(was)>> /\ wrote' = wrote
  BY <1>1, <1>2 DEF ReadLine, TypeOK
<1>4. ContainerLogs(NameOf[w])' = ContainerLogs(NameOf[w])
  BY DEF ReadLine, ContainerLogs
<1> HIDE DEF was
<1>5. /\ Len(was) \in Nat /\ Len(was) > 0 /\ Len(Tail(was)) = Len(was) - 1
      /\ Head(was) = was[1] /\ \A i \in 1 .. Len(was) - 1 : Tail(was)[i] = was[i + 1]
  BY <1>1, <1>2
<1>6. Len(hand[w][s]) = 0 /\ Len(<<Head(was)>>) = 1 /\ <<Head(was)>>[1] = was[1]
  BY <1>1, <1>5
<1>7. Appended(w, s) = wrote[w][s] - Len(was) /\ Appended(w, s)' = Appended(w, s)
  BY <1>2, <1>3, <1>5, <1>6 DEF Appended, was
<1>8. \A i \in 1 .. Len(was) : Of(was[i], w, s) /\ was[i].n = Appended(w, s) + i
  <2>1. \A i \in 1 .. Len(was) :
          Of(was[i], w, s) /\ was[i].n = Appended(w, s) + Len(hand[w][s]) + i
    BY <1>1 DEF Accounted, HoldsTheRest, was
  <2>2. \A i \in Nat : Appended(w, s) + Len(hand[w][s]) + i = Appended(w, s) + i
    BY <1>2, <1>5, <1>6, <1>7
  <2> QED
    BY <1>5, <2>1, <2>2
<1>9. HoldsTheRest(w, s)'
  <2>1. \A i \in 1 .. Len(hand'[w][s]) :
          Of(hand'[w][s][i], w, s) /\ hand'[w][s][i].n = Appended(w, s)' + i
    BY <1>3, <1>5, <1>6, <1>7, <1>8
  <2>2. ASSUME NEW i \in 1 .. Len(Tail(was))
        PROVE  /\ Of(Tail(was)[i], w, s)
               /\ Tail(was)[i].n = Appended(w, s) + 1 + i
    <3>1. i + 1 \in 1 .. Len(was) /\ Tail(was)[i] = was[i + 1]
      BY <1>5
    <3>2. Appended(w, s) + (i + 1) = Appended(w, s) + 1 + i
      BY <1>2, <1>5, <1>7
    <3> QED
      BY <1>8, <3>1, <3>2
  <2>3. Len(hand'[w][s]) = 1
    BY <1>3, <1>6
  <2> QED
    BY <1>3, <1>7, <2>1, <2>2, <2>3 DEF HoldsTheRest
<1> QED
  BY <1>1, <1>4, <1>7, <1>9 DEF Accounted

\* A line comes into the pipe.
LEMMA WriteAccounts ==
  ASSUME OutputInv, NEW w \in Workload, NEW s \in Stream, tap[w][s] = "drained",
         EndWrite(w), writing[w] = s
  PROVE  Accounted(w, s)'
<1> DEFINE was == pipe[w][s]
<1>1. TypeOK /\ Accounted(w, s) /\ w \in Process
  BY DEF OutputInv, LogsAreTheLastLines, Process
<1>2. PICK text \in BOOLEAN :
        /\ wrote' = [wrote EXCEPT ![w][s] = @ + 1]
        /\ pipe' = [pipe EXCEPT ![w][s] =
             Append(@, [of |-> w, on |-> s, n |-> wrote[w][s] + 1, text |-> text])]
        /\ UNCHANGED <<hand, logs>>
  BY DEF EndWrite
<1> DEFINE line == [of |-> w, on |-> s, n |-> wrote[w][s] + 1, text |-> text]
<1>3. was \in Seq(Line) /\ Len(was) \in Nat /\ Len(hand[w][s]) \in Nat
      /\ wrote[w][s] \in Nat
  BY <1>1, LenProperties DEF TypeOK
<1>4. line \in Line /\ Of(line, w, s) /\ line.n = wrote[w][s] + 1
  BY <1>1, <1>3 DEF Line, Of
<1> HIDE DEF line
<1>5. pipe'[w][s] = Append(was, line) /\ wrote'[w][s] = wrote[w][s] + 1
  BY <1>1, <1>2 DEF TypeOK, line
<1>6. hand'[w][s] = hand[w][s] /\ ContainerLogs(NameOf[w])' = ContainerLogs(NameOf[w])
  BY <1>2 DEF ContainerLogs
<1> HIDE DEF was
<1>7. /\ Len(Append(was, line)) = Len(was) + 1
      /\ Append(was, line)[Len(was) + 1] = line
      /\ \A i \in 1 .. Len(was) : Append(was, line)[i] = was[i]
  BY <1>3, <1>4
<1>8. /\ Appended(w, s) = wrote[w][s] - Len(was) - Len(hand[w][s])
      /\ Appended(w, s)' = Appended(w, s)
  <2>1. Appended(w, s) = wrote[w][s] - Len(was) - Len(hand[w][s])
    BY DEF Appended, was
  <2>2. Appended(w, s)' = (wrote[w][s] + 1) - (Len(was) + 1) - Len(hand[w][s])
    BY <1>5, <1>6, <1>7 DEF Appended
  <2>3. \A a, b, c \in Nat : (a + 1) - (b + 1) - c = a - b - c
    OBVIOUS
  <2> QED
    BY <1>3, <2>1, <2>2, <2>3, Zenon
<1>9. HoldsTheRest(w, s)'
  <2>1. \A i \in 1 .. Len(hand[w][s]) :
          Of(hand[w][s][i], w, s) /\ hand[w][s][i].n = Appended(w, s) + i
    BY <1>1 DEF Accounted, HoldsTheRest
  <2>2. ASSUME NEW i \in 1 .. Len(was) + 1
        PROVE  /\ Of(Append(was, line)[i], w, s)
               /\ Append(was, line)[i].n = Appended(w, s) + Len(hand[w][s]) + i
    <3>1. CASE i = Len(was) + 1
      <4>1. wrote[w][s] + 1 = Appended(w, s) + Len(hand[w][s]) + (Len(was) + 1)
        BY <1>3, <1>8
      <4> QED
        BY <1>4, <1>7, <3>1, <4>1
    <3>2. CASE i \in 1 .. Len(was)
      BY <1>1, <1>7, <3>2 DEF Accounted, HoldsTheRest, was
    <3> QED
      BY <1>3, <3>1, <3>2
  <2> QED
    BY <1>5, <1>6, <1>7, <1>8, <2>1, <2>2 DEF HoldsTheRest
<1> QED
  BY <1>1, <1>6, <1>8, <1>9 DEF Accounted

\* The reader v and t appends its line: to it, and to every other reader of a
\* pod of that name.
LEMMA AppendAccounts ==
  ASSUME OutputInv, NEW v \in Workload, NEW t \in Stream, AppendLog(v, t),
         NEW w \in Workload, NEW s \in Stream, tap[w][s] = "drained"
  PROVE  Accounted(w, s)'
<1>1. /\ TypeOK /\ HandIsOfReader /\ Accounted(w, s)
      /\ tap[v][t] = "drained" /\ HoldsTheRest(v, t)
  BY DEF OutputInv, LogsAreTheLastLines, AppendLog, HandIsOfReader, Accounted
<1>2. PICK line \in Line : hand[v][t] = <<line>>
  BY <1>1, HandHasLine DEF AppendLog
<1>3. Of(line, v, t) /\ line.n = Appended(v, t) + 1
  <2>1. Len(<<line>>) = 1 /\ <<line>>[1] = line /\ 1 \in 1 .. 1
    OBVIOUS
  <2> QED
    BY <1>1, <1>2, <2>1 DEF HoldsTheRest
<1> DEFINE buf == logs[NameOf[v]]
<1>4. NameOf[v] \in Name /\ buf \in Seq(Line) /\ Len(buf) <= Keep
  BY <1>1, ProcessOutputAssumption DEF TypeOK
<1>5. /\ logs'[NameOf[v]] = LastLines(buf \o <<line>>)
      /\ \A n \in Name : n # NameOf[v] => logs'[n] = logs[n]
  BY <1>1, <1>2, <1>4 DEF AppendLog, TypeOK
<1>6. /\ hand'[v][t] = <<>> /\ wrote' = wrote /\ pipe' = pipe
      /\ \A u \in Workload, r \in Stream :
           <<u, r>> # <<v, t>> => hand'[u][r] = hand[u][r]
  BY <1>1 DEF AppendLog, TypeOK
<1>7. NameOf[w] \in Name
  BY ProcessOutputAssumption
<1>8. CASE NameOf[w] # NameOf[v]
  BY <1>1, <1>5, <1>6, <1>7, <1>8, Untouched
<1>9. CASE NameOf[w] = NameOf[v]
  <2>1. PICK lost \in 0 .. Appended(w, s) :
          HasAllBut(buf, w, s, lost, Appended(w, s))
    BY <1>1, <1>7, <1>9 DEF Accounted, ContainerLogs
  <2>2. ContainerLogs(NameOf[w])' = LastLines(buf \o <<line>>)
    BY <1>5, <1>7, <1>9 DEF ContainerLogs
  <2>3. /\ wrote[w][s] \in Nat /\ Len(pipe[w][s]) \in Nat
        /\ Len(hand[w][s]) \in Nat
    <3>1. wrote[w][s] \in Nat /\ pipe[w][s] \in Seq(Line) /\ hand[w][s] \in Seq(Line)
      BY <1>1 DEF TypeOK, Process
    <3> QED
      BY <3>1, LenProperties
  <2>4. Appended(w, s) \in Nat
    <3>1. Appended(w, s) \in Int
      <4>1. \A a, b, c \in Nat : a - b - c \in Int
        OBVIOUS
      <4> QED
        BY <2>3, <4>1, Zenon DEF Appended
    <3> QED
      BY <2>1, <3>1
  <2>5. CASE w = v /\ s = t
    <3>1. Appended(w, s)' = Appended(w, s) + 1
      <4>1. Len(hand[w][s]) = 1 /\ Len(hand'[w][s]) = 0
        BY <1>2, <1>6, <2>5
      <4> QED
        BY <1>6, <2>3, <4>1 DEF Appended
    <3>2. HoldsTheRest(w, s)'
      <4>1. Len(hand[w][s]) = 1 /\ Len(hand'[w][s]) = 0
        BY <1>2, <1>6, <2>5
      <4>2. \A i \in 1 .. Len(pipe[w][s]) :
              /\ Of(pipe[w][s][i], w, s)
              /\ pipe[w][s][i].n = Appended(w, s) + 1 + i
        BY <1>1, <4>1 DEF Accounted, HoldsTheRest
      <4>3. \A i \in Nat : Appended(w, s) + 1 + i = Appended(w, s)' + 0 + i
        BY <2>4, <3>1
      <4> QED
        BY <1>6, <2>3, <4>1, <4>2, <4>3 DEF HoldsTheRest
    <3>3. \E less \in 0 .. Appended(w, s) + 1 :
            HasAllBut(LastLines(buf \o <<line>>), w, s, less, Appended(w, s) + 1)
      BY <1>3, <1>4, <2>1, <2>4, <2>5, AppendOwn
    <3> QED
      BY <2>2, <3>1, <3>2, <3>3 DEF Accounted
  <2>6. CASE ~(w = v /\ s = t)
    <3>1. hand'[w][s] = hand[w][s]
      BY <1>6, <2>6
    <3>2. Appended(w, s)' = Appended(w, s)
      BY <1>6, <3>1 DEF Appended
    <3>3. HoldsTheRest(w, s)'
      BY <1>1, <1>6, <3>1, <3>2 DEF Accounted, HoldsTheRest
    <3>4. \E less \in 0 .. Appended(w, s) :
            HasAllBut(LastLines(buf \o <<line>>), w, s, less, Appended(w, s))
      <4>1. ~Of(line, w, s)
        BY <1>3, <2>6 DEF Of
      <4> QED
        BY <1>4, <2>1, <2>4, <4>1, AppendOther
    <3> QED
      BY <2>2, <3>2, <3>3, <3>4 DEF Accounted
  <2> QED
    BY <2>5, <2>6
<1> QED
  BY <1>8, <1>9

LEMMA LogsNext == OutputInv /\ [Next]_vars => LogsAreTheLastLines'
<1> SUFFICES ASSUME OutputInv, [Next]_vars,
                    NEW w \in Workload, NEW s \in Stream, tap'[w][s] = "drained"
             PROVE  Accounted(w, s)'
  BY DEF LogsAreTheLastLines
<1>a. TypeOK /\ (tap[w][s] = "drained" => Accounted(w, s))
  BY DEF OutputInv, LogsAreTheLastLines
<1>b. w \in Process /\ w \notin Probe
  BY ProcessOutputAssumption DEF Process
<1> DEFINE Same == /\ tap'[w][s] = tap[w][s] /\ wrote'[w][s] = wrote[w][s]
                   /\ pipe'[w][s] = pipe[w][s] /\ hand'[w][s] = hand[w][s]
                   /\ logs'[NameOf[w]] = logs[NameOf[w]]
<1>c. Same => Accounted(w, s)'
  BY <1>a, Untouched
<1>1. ASSUME NEW v \in Workload, Start(v) PROVE Accounted(w, s)'
  <2>1. CASE w = v
    BY <1>1, <2>1, StartAccounts
  <2>2. CASE w # v
    <3>1. Same
      BY <1>1, <1>a, <1>b, <2>2 DEF Start, Spawn, TypeOK
    <3> QED
      BY <1>c, <3>1
  <2> QED
    BY <2>1, <2>2
<1>2. ASSUME NEW v \in Workload, NEW t \in Stream, ReadLine(v, t)
      PROVE  Accounted(w, s)'
  <2>1. CASE w = v /\ s = t
    BY <1>2, <2>1, ReadAccounts
  <2>2. CASE ~(w = v /\ s = t)
    <3>1. hand'[w][s] = hand[w][s] /\ pipe'[w][s] = pipe[w][s]
      BY <1>2, <1>a, <1>b, <2>2 DEF ReadLine, TypeOK
    <3>2. Same
      BY <1>2, <3>1 DEF ReadLine
    <3> QED
      BY <1>c, <3>2
  <2> QED
    BY <2>1, <2>2
<1>3. ASSUME NEW v \in Workload, NEW t \in Stream, ReadFails(v, t) \/ EndOfOutput(v, t)
      PROVE  Accounted(w, s)'
  <2>1. v \in Process /\ tap'[v][t] = "closed"
    BY <1>3, <1>a DEF ReadFails, EndOfOutput, TypeOK, Process
  <2>2. ~(w = v /\ s = t)
    BY <2>1
  <2>3. tap'[w][s] = tap[w][s] /\ pipe'[w][s] = pipe[w][s]
    <3>1. CASE ReadFails(v, t)
      BY <1>a, <1>b, <2>2, <3>1 DEF ReadFails, TypeOK
    <3>2. CASE EndOfOutput(v, t)
      BY <1>a, <1>b, <2>2, <3>2 DEF EndOfOutput, TypeOK
    <3> QED
      BY <1>3, <3>1, <3>2
  <2>4. UNCHANGED <<wrote, hand, logs>>
    BY <1>3 DEF ReadFails, EndOfOutput
  <2>5. Same
    BY <2>3, <2>4
  <2> QED
    BY <1>c, <2>5
<1>4. ASSUME NEW v \in Workload, NEW t \in Stream, AppendLog(v, t)
      PROVE  Accounted(w, s)'
  <2>1. tap[w][s] = "drained"
    BY <1>4 DEF AppendLog
  <2> QED
    BY <1>4, <2>1, AppendAccounts
<1>5. ASSUME NEW p \in Process, EndWrite(p) PROVE Accounted(w, s)'
  <2>1. tap[w][s] = "drained" /\ tap' = tap /\ hand' = hand /\ logs' = logs
    BY <1>5 DEF EndWrite
  <2>2. CASE p = w /\ writing[w] = s
    BY <1>5, <2>1, <2>2, WriteAccounts
  <2>3. CASE ~(p = w /\ writing[w] = s)
    <3>1. wrote'[w][s] = wrote[w][s] /\ pipe'[w][s] = pipe[w][s]
      BY <1>5, <1>a, <1>b, <2>3 DEF EndWrite, TypeOK
    <3> QED
      BY <1>c, <2>1, <3>1
  <2> QED
    BY <2>2, <2>3
<1>6. ASSUME NEW p \in Process, BrokenPipe(p) PROVE Accounted(w, s)'
  <2>1. PICK t \in Stream :
          /\ ~Open(p, t)
          /\ \/ UNCHANGED wrote
             \/ wrote' = [wrote EXCEPT ![p][t] = @ + 1]
          /\ UNCHANGED <<pipe, tap, hand, logs>>
    BY <1>6 DEF BrokenPipe
  <2>2. ~(p = w /\ t = s)
    BY <2>1 DEF Open
  <2>3. wrote'[w][s] = wrote[w][s]
    BY <1>a, <1>b, <2>1, <2>2 DEF TypeOK
  <2> QED
    BY <1>c, <2>1, <2>3
<1>7. ASSUME NEW q \in Probe, ProbeExec(q) PROVE Accounted(w, s)'
  <2>1. Same
    BY <1>7, <1>a, <1>b DEF ProbeExec, Spawn, TypeOK
  <2> QED
    BY <1>c, <2>1
<1>8. ASSUME NEW q \in Probe, ProbeExits(q) \/ ProbeTimesOut(q)
      PROVE  Accounted(w, s)'
  <2>1. /\ Drop(q) \/ UNCHANGED <<tap, pipe>>
        /\ UNCHANGED <<wrote, hand, logs>>
    BY <1>8, TimeoutDrops DEF ProbeExits, ProbeTimesOut
  <2>2. tap'[w][s] = tap[w][s] /\ pipe'[w][s] = pipe[w][s]
    BY <1>a, <1>b, <2>1 DEF Drop, TypeOK
  <2> QED
    BY <1>c, <2>1, <2>2
<1>9. ASSUME AgentDies PROVE Accounted(w, s)'
  <2>1. tap'[w][s] # "drained"
    BY <1>9, <1>b DEF AgentDies
  <2> QED
    BY <2>1
<1>10. ASSUME UNCHANGED <<wrote, pipe, tap, hand, logs>> PROVE Accounted(w, s)'
  BY <1>10, <1>c
<1> QED
  BY <1>1, <1>2, <1>3, <1>4, <1>5, <1>6, <1>7, <1>8, <1>9, <1>10
  DEF Next, Reader, Answer, Stop, BeginWrite, Exit,
      ProbeHttp, ProbeFails, HttpAnswers, vars

-----------------------------------------------------------------------------
LEMMA OutputInvariant == Spec => []OutputInv
<1>1. OutputInv /\ [Next]_vars => OutputInv'
  BY TypeNext, SilentNext, ClosedNext, HandNext, LogsNext DEF OutputInv
<1> QED
  BY InitInv, <1>1, PTL DEF Spec

\* The processes, their pipes, readers and log buffers stay in their types: a
\* log buffer never has more lines than it keeps, and a pipe none too many.
THEOREM TypeCorrect == Spec => []TypeOK
<1>1. OutputInv => TypeOK
  BY DEF OutputInv
<1> QED
  BY OutputInvariant, <1>1, PTL

\* While a workload's stream is drained, its pod's log, the reader's hand and
\* the pipe have the last lines it wrote, in order and without a gap, whoever
\* else appends to that log (append_log of virtual_kubelet_exposer.rs).
THEOREM LogsKeepTheLast == Spec => []LogsAreTheLastLines
<1>1. OutputInv => LogsAreTheLastLines
  BY DEF OutputInv
<1> QED
  BY OutputInvariant, <1>1, PTL
=============================================================================
