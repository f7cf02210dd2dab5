-------------------------- MODULE ImageStoreProofs --------------------------
(***************************************************************************)
(* Proofs about ImageStore.  Its types, for any tasks, archives, failures  *)
(* and deaths.  Of an image that one task alone prepares: that nothing     *)
(* touches its rootfs once it has its sentinel, and that the rootfs then   *)
(* holds what the layers merge to, where their archives are tidy.  Of one  *)
(* that two prepare at once: that it does so when they have ended.         *)
(*                                                                         *)
(* First the files of one rootfs: what opening, filling, linking and       *)
(* removing do to names that share a file.  Then the steps.  Then tidy     *)
(* archives: what their entries say, what Merged makes of it, and, entry   *)
(* by entry, that an attempt lays it over what others have left.  Then two *)
(* tasks over each other: path by path, whether one has been there and     *)
(* whether one has it in front of it.                                      *)
(***************************************************************************)
EXTENDS SharedImages, SequenceTheorems, WellFoundedInduction, TLAPS

\* f, what the names of a rootfs hold, agrees with T, the pairs of names of
\* one file.
Agree(f, T) ==
  /\ f \in [FileName -> Content]
  /\ T \in SUBSET SUBSET FileName
  /\ \A pair \in T : \E m, n \in pair : pair = {m, n} /\ m # n /\ f[m] = f[n]
  /\ \A m, n \in FileName : {m, n} \in T => f[m] # NoFile
  /\ \A l, m, n \in FileName : {l, m} \in T /\ {m, n} \in T /\ l # n => {l, n} \in T

Same(T, n) == {n} \cup {m \in FileName : {m, n} \in T}

\* Two names of one file hold the same.
LEMMA PairHolds ==
  ASSUME NEW f, NEW T, Agree(f, T), NEW m \in FileName, NEW n \in FileName, {m, n} \in T
  PROVE  m # n /\ f[m] = f[n] /\ f[m] # NoFile
<1>1. PICK k, l \in {m, n} : {m, n} = {k, l} /\ k # l /\ f[k] = f[l]
  BY DEF Agree
<1>2. (k = m /\ l = n) \/ (k = n /\ l = m)
  BY <1>1
<1>3. f[m] # NoFile
  BY DEF Agree
<1> QED
  BY <1>1, <1>2, <1>3

\* What has to be shown of a rootfs.
LEMMA AgreeIf ==
  ASSUME NEW f \in [FileName -> Content], NEW T,
         \A pair \in T : \E m, n \in FileName : pair = {m, n},
         \A m, n \in FileName :
           {m, n} \in T => m # n /\ f[m] = f[n] /\ f[m] # NoFile,
         \A l, m, n \in FileName :
           {l, m} \in T /\ {m, n} \in T /\ l # n => {l, n} \in T
  PROVE  Agree(f, T)
<1>1. T \in SUBSET SUBSET FileName
  OBVIOUS
<1>2. ASSUME NEW pair \in T
      PROVE  \E m, n \in pair : pair = {m, n} /\ m # n /\ f[m] = f[n]
  <2>1. PICK m, n \in FileName : pair = {m, n}
    OBVIOUS
  <2>2. m # n /\ f[m] = f[n] /\ m \in pair /\ n \in pair
    BY <2>1
  <2> QED
    BY <2>1, <2>2
<1> QED
  BY <1>1, <1>2 DEF Agree

\* What is paired is names.
LEMMA TwinsArePairs ==
  ASSUME NEW f, NEW T, Agree(f, T), NEW pair \in T
  PROVE  \E m, n \in FileName : pair = {m, n}
<1>1. PICK m, n \in pair : pair = {m, n}
  BY DEF Agree
<1> QED
  BY <1>1 DEF Agree

\* Sharing a file is an equivalence.
LEMMA SameIsClass ==
  ASSUME NEW f, NEW T, Agree(f, T), NEW m \in FileName, NEW n \in FileName
  PROVE  /\ m \in Same(T, n) <=> n \in Same(T, m)
         /\ \A l \in FileName : l \in Same(T, m) /\ m \in Same(T, n) => l \in Same(T, n)
<1>1. {m, n} = {n, m}
  OBVIOUS
<1>2. ASSUME NEW l \in FileName, l \in Same(T, m), m \in Same(T, n)
      PROVE  l \in Same(T, n)
  <2>1. CASE l = m \/ m = n \/ l = n
    BY <1>2, <2>1 DEF Same
  <2>2. CASE l # m /\ m # n /\ l # n
    <3>1. {l, m} \in T /\ {m, n} \in T
      BY <1>2, <2>2 DEF Same
    <3> QED
      BY <2>2, <3>1 DEF Agree, Same
  <2> QED
    BY <2>1, <2>2
<1> QED
  BY <1>1, <1>2 DEF Same

\* Names are removed, or get a file of their own.
LEMMA Parted ==
  ASSUME NEW f, NEW T, Agree(f, T), NEW names, NEW g \in [FileName -> Content],
         \A n \in FileName \ names : g[n] = f[n]
  PROVE  Agree(g, {pair \in T : pair \cap names = {}})
<1> DEFINE U == {pair \in T : pair \cap names = {}}
<1>1. \A pair \in U : \E m, n \in FileName : pair = {m, n}
  BY TwinsArePairs
<1>2. ASSUME NEW m \in FileName, NEW n \in FileName, {m, n} \in U
      PROVE  m # n /\ g[m] = g[n] /\ g[m] # NoFile
  <2>1. {m, n} \in T /\ m \notin names /\ n \notin names
    BY <1>2
  <2>2. m # n /\ f[m] = f[n] /\ f[m] # NoFile
    BY <2>1, PairHolds
  <2> QED
    BY <2>1, <2>2
<1>3. ASSUME NEW l \in FileName, NEW m \in FileName, NEW n \in FileName,
             {l, m} \in U, {m, n} \in U, l # n
      PROVE  {l, n} \in U
  <2>1. {l, n} \in T
    BY <1>3 DEF Agree
  <2>2. l \notin names /\ n \notin names
    BY <1>3
  <2> QED
    BY <2>1, <2>2
<1> HIDE DEF U
<1>4. Agree(g, U)
  BY <1>1, <1>2, <1>3, AgreeIf
<1> QED
  BY <1>4 DEF U

\* All names of a file get what is written into it.
LEMMA Filled ==
  ASSUME NEW f, NEW T, Agree(f, T), NEW p \in FileName,
         NEW v \in Content, v # NoFile, NEW g \in [FileName -> Content],
         \A n \in FileName : g[n] = IF n \in Same(T, p) THEN v ELSE f[n]
  PROVE  Agree(g, T)
<1>1. \A pair \in T : \E m, n \in FileName : pair = {m, n}
  BY TwinsArePairs
<1>2. ASSUME NEW m \in FileName, NEW n \in FileName, {m, n} \in T
      PROVE  m # n /\ g[m] = g[n] /\ g[m] # NoFile
  <2>1. m # n /\ f[m] = f[n] /\ f[m] # NoFile
    BY <1>2, PairHolds
  <2>2. m \in Same(T, n) /\ n \in Same(T, m)
    BY <1>2, SameIsClass DEF Same
  <2>3. m \in Same(T, p) <=> n \in Same(T, p)
    BY <2>2, SameIsClass
  <2> QED
    BY <2>1, <2>3
<1>3. \A l, m, n \in FileName :
        {l, m} \in T /\ {m, n} \in T /\ l # n => {l, n} \in T
  BY DEF Agree
<1> QED
  BY <1>1, <1>2, <1>3, AgreeIf

\* A free name becomes one of q's file.
LEMMA Joined ==
  ASSUME NEW f, NEW T, Agree(f, T), NEW p \in FileName, NEW q \in FileName,
         f[p] = NoFile, f[q] # NoFile, NEW g \in [FileName -> Content],
         \A n \in FileName : g[n] = IF n = p THEN f[q] ELSE f[n]
  PROVE  Agree(g, T \cup {{p, n} : n \in Same(T, q)})
<1> DEFINE U == T \cup {{p, n} : n \in Same(T, q)}
<1>1. Same(T, q) \subseteq FileName
  BY DEF Same
<1>2. \A n \in FileName : {p, n} \notin T
  BY PairHolds
<1>3. \A m \in FileName : {m, p} \notin T
  <2>1. \A m \in FileName : {m, p} = {p, m}
    OBVIOUS
  <2> QED
    BY <1>2, <2>1
<1>4. \A n \in Same(T, q) : n # p /\ f[n] = f[q] /\ f[n] # NoFile
  <2>1. ASSUME NEW n \in Same(T, q)
        PROVE  f[n] = f[q] /\ f[n] # NoFile
    <3>1. CASE n = q
      BY <3>1
    <3>2. CASE n # q
      <4>1. n \in FileName /\ {n, q} \in T
        BY <3>2 DEF Same
      <4> QED
        BY <4>1, PairHolds
    <3> QED
      BY <3>1, <3>2
  <2> QED
    BY <2>1
\* What is in U: a pair of T, or p and a name of q's file.
<1>5. \A m, n \in FileName : {m, n} \in U <=>
        \/ {m, n} \in T
        \/ m = p /\ n \in Same(T, q)
        \/ n = p /\ m \in Same(T, q)
  <2>1. ASSUME NEW m \in FileName, NEW n \in FileName, {m, n} \in U, {m, n} \notin T
        PROVE  (m = p /\ n \in Same(T, q)) \/ (n = p /\ m \in Same(T, q))
    <3>1. PICK k \in Same(T, q) : {m, n} = {p, k}
      BY <2>1
    <3>2. (m = p /\ n = k) \/ (m = k /\ n = p)
      BY <3>1, <1>4
    <3> QED
      BY <3>1, <3>2
  <2>2. \A m, n \in FileName : {m, n} = {n, m}
    OBVIOUS
  <2>3. \A m, n \in FileName : m = p /\ n \in Same(T, q) => {m, n} \in U
    OBVIOUS
  <2>4. \A m, n \in FileName : n = p /\ m \in Same(T, q) => {m, n} \in U
    BY <2>2, <2>3
  <2> QED
    BY <2>1, <2>3, <2>4
<1>6. \A pair \in U : \E m, n \in FileName : pair = {m, n}
  <2>1. \A pair \in T : \E m, n \in FileName : pair = {m, n}
    BY TwinsArePairs
  <2> QED
    BY <1>1, <2>1
<1> HIDE DEF U
<1>7. ASSUME NEW m \in FileName, NEW n \in FileName, {m, n} \in U
      PROVE  m # n /\ g[m] = g[n] /\ g[m] # NoFile
  <2>1. CASE {m, n} \in T
    <3>1. m # p /\ n # p
      BY <1>2, <1>3, <2>1
    <3>2. m # n /\ f[m] = f[n] /\ f[m] # NoFile
      BY <2>1, PairHolds
    <3> QED
      BY <3>1, <3>2
  <2>2. CASE {m, n} \notin T
    BY <1>4, <1>5, <1>7, <2>2
  <2> QED
    BY <2>1, <2>2
<1>8. ASSUME NEW l \in FileName, NEW m \in FileName, NEW n \in FileName,
             {l, m} \in U, {m, n} \in U, l # n
      PROVE  {l, n} \in U
  <2>1. CASE l = p
    <3>1. m \in Same(T, q) /\ m # p
      BY <1>2, <1>4, <1>5, <1>8, <2>1
    <3>2. {m, n} \in T
      BY <1>4, <1>5, <1>8, <2>1, <3>1
    <3>3. {n, m} \in T
      <4>1. {n, m} = {m, n}
        OBVIOUS
      <4> QED
        BY <3>2, <4>1
    <3>4. n \in Same(T, q)
      BY <3>1, <3>3, SameIsClass DEF Same
    <3> QED
      BY <1>5, <2>1, <3>4
  <2>2. CASE n = p
    <3>1. m \in Same(T, q) /\ m # p
      BY <1>3, <1>4, <1>5, <1>8, <2>2
    <3>2. {l, m} \in T
      BY <1>4, <1>5, <1>8, <2>2, <3>1
    <3>3. l \in Same(T, q)
      BY <3>1, <3>2, SameIsClass DEF Same
    <3> QED
      BY <1>5, <2>2, <3>3
  <2>3. CASE l # p /\ n # p /\ m = p
    <3>1. l \in Same(T, q) /\ n \in Same(T, q)
      BY <1>2, <1>3, <1>5, <1>8, <2>3
    <3>2. q \in Same(T, n)
      BY <3>1, SameIsClass
    <3>3. l \in Same(T, n)
      BY <3>1, <3>2, SameIsClass
    <3> QED
      BY <1>5, <1>8, <3>3 DEF Same
  <2>4. CASE l # p /\ n # p /\ m # p
    <3>1. {l, m} \in T /\ {m, n} \in T
      BY <1>5, <1>8, <2>4
    <3> QED
      BY <1>5, <1>8, <3>1 DEF Agree
  <2> QED
    BY <2>1, <2>2, <2>3, <2>4
<1>9. Agree(g, U)
  BY <1>6, <1>7, <1>8, AgreeIf
<1> QED
  BY <1>9 DEF U

-----------------------------------------------------------------------------
(* The rootfs of the images.                                               *)

FilesOK ==
  /\ tree \in [Image -> [FileName -> Content]]
  /\ twins \in [Image -> SUBSET SUBSET FileName]
  /\ \A i \in Image : Agree(tree[i], twins[i])

\* Files agree in every state the invariant holds of.
LEMMA InvFiles == ImageInv => FilesOK
  BY DEF ImageInv, TypeOK, LinksAreShared, FilesOK, Agree

\* A path is no open file.
LEMMA NamesDiffer ==
  /\ Path \subseteq FileName /\ Task \subseteq FileName /\ Path \cap Task = {}
  /\ NoFile \in Content /\ Torn \in Content /\ Torn # NoFile
  /\ Layer \subseteq Content /\ NoFile \notin Layer
  /\ \A d \in Layer : Symlink(d) \in Content
  BY ImageStoreAssumption DEF FileName, Content

\* SameFile is the class of a name, in the rootfs of an image.
LEMMA SameFileIsSame ==
  ASSUME NEW i, NEW n PROVE SameFile(i, n) = Same(twins[i], n)
  BY DEF SameFile, Same

\* The entry a task is at is one of its layer's archive.
LEMMA EntryIsTyped ==
  ASSUME ImageInv, NEW t \in Task, At(t, "unpack"), EntriesLeft(t)
  PROVE  /\ InHand(t) \in Layer /\ EntryInHand(t) \in Entry
         /\ EntryInHand(t).path \in Path \cup Dir
         /\ EntryInHand(t).op # "whiteout" => EntryInHand(t).path \in Path
         /\ EntryInHand(t).op = "link" => EntryInHand(t) \in HardLink
<1>1. job[t] \in Job /\ job[t].k \in DOMAIN job[t].manifest /\ job[t].e > 0
  BY DEF ImageInv, TypeOK, JobsCount, At
<1>2. job[t].manifest \in Seq(Layer) /\ job[t].e \in Nat
  BY <1>1 DEF Job
<1>3. InHand(t) \in Layer
  BY <1>1, <1>2 DEF InHand
<1>4. Entries[InHand(t)] \in Seq(Entry)
  BY <1>3, ImageStoreAssumption
<1>5. job[t].e \in 1 .. Len(Entries[InHand(t)])
  BY <1>1, <1>2, <1>4, LenProperties DEF EntriesLeft
<1>6. EntryInHand(t) \in Entry
  BY <1>4, <1>5, ElementOfSeq DEF EntryInHand
<1> QED
  BY <1>3, <1>6 DEF Entry, HardLink

\* One rootfs changes.
LEMMA OneRootfs ==
  ASSUME FilesOK, NEW i \in Image, NEW g, NEW U, Agree(g, U),
         tree' = [tree EXCEPT ![i] = g], twins' = [twins EXCEPT ![i] = U]
  PROVE  FilesOK'
<1>1. g \in [FileName -> Content] /\ U \in SUBSET SUBSET FileName
  BY DEF Agree
<1>2. /\ tree' \in [Image -> [FileName -> Content]]
      /\ twins' \in [Image -> SUBSET SUBSET FileName]
  BY <1>1 DEF FilesOK
<1>3. ASSUME NEW j \in Image PROVE Agree(tree'[j], twins'[j])
  <2>1. CASE j = i
    BY <2>1 DEF FilesOK
  <2>2. CASE j # i
    <3>1. tree'[j] = tree[j] /\ twins'[j] = twins[j]
      BY <2>2
    <3> QED
      BY <3>1 DEF FilesOK
  <2> QED
    BY <2>1, <2>2
<1> QED
  BY <1>2, <1>3 DEF FilesOK

\* Parted, of the rootfs of an image.
LEMMA PartedIn ==
  ASSUME NEW i, NEW f, Agree(f, twins[i]), NEW names, NEW g \in [FileName -> Content],
         \A n \in FileName \ names : g[n] = f[n]
  PROVE  Agree(g, Apart(i, names))
<1>1. Agree(g, {pair \in twins[i] : pair \cap names = {}})
  BY Parted
<1> QED
  BY <1>1 DEF Apart

\* The steps, one after the other, keep a rootfs in order.
LEMMA RemoveKeeps ==
  ASSUME FilesOK, NEW i \in Image, NEW names, Remove(i, names)
  PROVE  FilesOK'
<1> DEFINE f == tree[i]
           g == [n \in DOMAIN f |-> IF n \in names THEN NoFile ELSE f[n]]
<1>1. f \in [FileName -> Content] /\ Agree(f, twins[i])
  BY DEF FilesOK
<1>2. g \in [FileName -> Content] /\ \A n \in FileName \ names : g[n] = f[n]
  BY <1>1, NamesDiffer
<1>3. tree' = [tree EXCEPT ![i] = g]
  BY DEF Remove
<1> HIDE DEF g, f
<1>4. Agree(g, Apart(i, names))
  BY <1>1, <1>2, Parted DEF Apart
<1> QED
  BY <1>3, <1>4, OneRootfs DEF Remove

\* Closing open files takes their names away.
LEMMA CloseKeeps ==
  ASSUME FilesOK, NEW tasks, Close(tasks)
  PROVE  FilesOK'
<1>1. /\ tree' \in [Image -> [FileName -> Content]]
      /\ \A i \in Image : \A n \in FileName \ tasks : tree'[i][n] = tree[i][n]
  BY NamesDiffer DEF FilesOK, Close
<1>2. ASSUME NEW i \in Image PROVE Agree(tree'[i], twins'[i])
  <2>1. Agree(tree[i], twins[i]) /\ tree'[i] \in [FileName -> Content]
        /\ \A n \in FileName \ tasks : tree'[i][n] = tree[i][n]
    BY <1>1 DEF FilesOK
  <2>2. Agree(tree'[i], Apart(i, tasks))
    BY <2>1, PartedIn
  <2> QED
    BY <2>2 DEF Close
<1>3. twins' \in [Image -> SUBSET SUBSET FileName]
  BY DEF FilesOK, Close, Apart
<1> QED
  BY <1>1, <1>2, <1>3 DEF FilesOK

\* A copy writes all names of the target.
LEMMA CopyKeeps ==
  ASSUME FilesOK, NEW i \in Image, NEW q \in Path, NEW p \in Path,
         q \notin Unseen(i), HardlinkCopy(i, q, p)
  PROVE  FilesOK'
<1> DEFINE f == tree[i]
           v == IF q \in SameFile(i, p) THEN Torn ELSE f[q]
           g == [n \in DOMAIN f |-> IF n \notin CopiedTo(i, p) THEN f[n]
                                   ELSE IF q \in SameFile(i, p) THEN Torn ELSE f[q]]
<1>1. f \in [FileName -> Content] /\ Agree(f, twins[i])
  BY DEF FilesOK
<1>2. v \in Content /\ v # NoFile
  BY <1>1, NamesDiffer DEF Unseen
<1>3. g \in [FileName -> Content]
  BY <1>1, <1>2
<1>4. \/ CopiedTo(i, p) = {}
      \/ CopiedTo(i, p) = Same(twins[i], p)
  BY SameFileIsSame DEF CopiedTo
<1>5. tree' = [tree EXCEPT ![i] = g] /\ twins' = twins
  BY DEF HardlinkCopy
<1>a. ASSUME CopiedTo(i, p) = {} PROVE g = f
  BY <1>1, <1>3, <1>a
<1>b. ASSUME CopiedTo(i, p) = Same(twins[i], p)
      PROVE  \A n \in FileName : g[n] = IF n \in Same(twins[i], p) THEN v ELSE f[n]
  BY <1>1, <1>b
<1> HIDE DEF g, f, v
<1>6. Agree(g, twins[i])
  <2>1. CASE CopiedTo(i, p) = {}
    BY <1>1, <1>a, <2>1
  <2>2. CASE CopiedTo(i, p) = Same(twins[i], p)
    BY <1>1, <1>2, <1>3, <1>b, <2>2, NamesDiffer, Filled
  <2> QED
    BY <1>4, <2>1, <2>2
<1>7. twins' = [twins EXCEPT ![i] = twins[i]]
  BY <1>5 DEF FilesOK
<1> QED
  BY <1>5, <1>6, <1>7, OneRootfs

\* A new file has its path and its open file as names.
LEMMA OpenKeeps ==
  ASSUME ImageInv, NEW t \in Task, OpenFile(t)
  PROVE  FilesOK'
<1> DEFINE i == job[t].image
           p == EntryInHand(t).path
<1>1. FilesOK /\ i \in Image /\ p \in Path /\ tree[i][t] = NoFile
  <2>1. p \in Path
    BY EntryIsTyped DEF OpenFile, AtEntry
  <2> QED
    BY <2>1, InvFiles DEF ImageInv, TypeOK, OpenFile, AtEntry, At
<1>2. /\ tree' = [tree EXCEPT ![i][p] = Torn, ![i][t] = Torn]
      /\ twins' = [twins EXCEPT ![i] = Apart(i, {p}) \cup {{p, t}}]
  BY DEF OpenFile
<1> HIDE DEF i, p
<1> DEFINE f == [tree[i] EXCEPT ![p] = Torn]
           g == [f EXCEPT ![t] = Torn]
<1>3. /\ f \in [FileName -> Content] /\ \A n \in FileName \ {p} : f[n] = tree[i][n]
      /\ f[p] = Torn /\ f[t] = NoFile
  BY <1>1, NamesDiffer DEF FilesOK
<1>4. Agree(f, Apart(i, {p}))
  <2>1. Agree(tree[i], twins[i])
    BY <1>1 DEF FilesOK
  <2> QED
    BY <1>3, <2>1, PartedIn
<1>5. g \in [FileName -> Content]
      /\ \A n \in FileName : g[n] = IF n = t THEN f[p] ELSE f[n]
  BY <1>3, NamesDiffer
<1>6. tree' = [tree EXCEPT ![i] = g]
  BY <1>1, <1>2, NamesDiffer DEF FilesOK
<1> HIDE DEF f, g
<1>7. Agree(g, Apart(i, {p}) \cup {{t, n} : n \in Same(Apart(i, {p}), p)})
  <2>1. t \in FileName /\ p \in FileName /\ f[p] # NoFile
    BY <1>1, <1>3, NamesDiffer
  <2> DEFINE T == Apart(i, {p})
  <2> HIDE DEF T
  <2>2. Agree(f, T)
    BY <1>4 DEF T
  <2>3. f[t] = NoFile /\ \A n \in FileName : g[n] = IF n = t THEN f[p] ELSE f[n]
    BY <1>3, <1>5
  <2>4. g \in [FileName -> Content]
    BY <1>5
  <2>5. Agree(g, T \cup {{t, n} : n \in Same(T, p)})
    BY <2>1, <2>2, <2>3, <2>4, Joined
  <2> QED
    BY <2>5 DEF T
<1>8. Same(Apart(i, {p}), p) = {p}
  BY DEF Same, Apart
<1>9. {{t, n} : n \in Same(Apart(i, {p}), p)} = {{p, t}}
  BY <1>8
<1> QED
  BY <1>1, <1>2, <1>6, <1>7, <1>9, OneRootfs

\* Filling a file fills it under all its names.
LEMMA WriteKeeps ==
  ASSUME ImageInv, NEW t \in Task, WriteFile(t)
  PROVE  FilesOK'
<1> DEFINE i == job[t].image
           d == InHand(t)
<1>1. FilesOK /\ i \in Image /\ d \in Layer
  <2>1. job[t] \in Job /\ job[t].k \in DOMAIN job[t].manifest
    BY DEF ImageInv, TypeOK, WriteFile, At
  <2>2. d \in Layer
    BY <2>1 DEF InHand, Job
  <2> QED
    BY <2>2, InvFiles DEF ImageInv, TypeOK, WriteFile, At
<1> DEFINE f == tree[i]
           g == [n \in FileName |-> IF n \in Same(twins[i], t) THEN d ELSE f[n]]
           h == [n \in DOMAIN f |-> IF n = t THEN NoFile
                                   ELSE IF n \in SameFile(i, t) THEN d ELSE f[n]]
<1>2. /\ tree' = [tree EXCEPT ![i] = h]
      /\ twins' = [twins EXCEPT ![i] = Apart(i, {t})]
  BY DEF WriteFile
<1> HIDE DEF i, d
<1>3. f \in [FileName -> Content] /\ Agree(f, twins[i])
  BY <1>1 DEF FilesOK
<1>4. g \in [FileName -> Content] /\ h \in [FileName -> Content]
  BY <1>1, <1>3, NamesDiffer
<1>5. \A n \in FileName \ {t} : h[n] = g[n]
  BY <1>3, SameFileIsSame
<1>6. \A n \in FileName : g[n] = IF n \in Same(twins[i], t) THEN d ELSE f[n]
  OBVIOUS
<1> HIDE DEF f, g, h
<1>7. Agree(g, twins[i])
  <2>1. t \in FileName /\ d \in Content /\ d # NoFile
    BY <1>1, NamesDiffer
  <2> QED
    BY <1>3, <1>4, <1>6, <2>1, Filled
<1>8. Agree(h, Apart(i, {t}))
  BY <1>4, <1>5, <1>7, PartedIn
<1> QED
  BY <1>1, <1>2, <1>8, OneRootfs

\* A symbolic link stands alone.
LEMMA SymlinkKeeps ==
  ASSUME ImageInv, NEW t \in Task, MakeSymlink(t)
  PROVE  FilesOK'
<1> DEFINE i == job[t].image
           p == EntryInHand(t).path
           c == Symlink(InHand(t))
<1>1. FilesOK /\ i \in Image /\ p \in Path /\ c \in Content
  <2>1. p \in Path /\ InHand(t) \in Layer
    BY EntryIsTyped DEF MakeSymlink, AtEntry
  <2> QED
    BY <2>1, InvFiles, NamesDiffer DEF ImageInv, TypeOK, MakeSymlink, AtEntry, At
<1>2. /\ tree' = [tree EXCEPT ![i][p] = c]
      /\ twins' = [twins EXCEPT ![i] = Apart(i, {p})]
  BY DEF MakeSymlink
<1> HIDE DEF i, p, c
<1> DEFINE f == [tree[i] EXCEPT ![p] = c]
<1>3. f \in [FileName -> Content] /\ \A n \in FileName \ {p} : f[n] = tree[i][n]
  BY <1>1 DEF FilesOK
<1>4. tree' = [tree EXCEPT ![i] = f]
  BY <1>1, <1>2 DEF FilesOK
<1> HIDE DEF f
<1>5. Agree(f, Apart(i, {p}))
  <2>1. Agree(tree[i], twins[i])
    BY <1>1 DEF FilesOK
  <2> QED
    BY <1>3, <2>1, PartedIn
<1> QED
  BY <1>1, <1>2, <1>4, <1>5, OneRootfs

\* A hard link joins the names of its target.
LEMMA LinkKeeps ==
  ASSUME ImageInv, NEW t \in Task, MakeLink(t)
  PROVE  FilesOK'
<1> DEFINE i == job[t].image
           p == EntryInHand(t).path
           q == EntryInHand(t).from
<1>1. FilesOK /\ i \in Image /\ p \in Path /\ q \in Path
  <2>1. EntryInHand(t) \in HardLink
    BY EntryIsTyped DEF MakeLink, AtEntry
  <2> QED
    BY <2>1, InvFiles DEF ImageInv, TypeOK, MakeLink, AtEntry, At, HardLink
<1>2. /\ q \notin Unseen(i) /\ tree[i][p] = NoFile
      /\ tree' = [tree EXCEPT ![i][p] = tree[i][q]]
      /\ twins' = [twins EXCEPT ![i] = @ \cup {{p, n} : n \in SameFile(i, q)}]
  BY DEF MakeLink
<1> HIDE DEF i, p, q
<1> DEFINE f == [tree[i] EXCEPT ![p] = tree[i][q]]
<1>3. tree[i] \in [FileName -> Content] /\ p \in FileName /\ q \in FileName
  BY <1>1 DEF FilesOK, FileName
<1>4. tree[i][q] # NoFile
  BY <1>1, <1>2 DEF Unseen
<1>5. f \in [FileName -> Content]
      /\ \A n \in FileName : f[n] = IF n = p THEN tree[i][q] ELSE tree[i][n]
  BY <1>3
<1>6. tree' = [tree EXCEPT ![i] = f]
  BY <1>1, <1>2 DEF FilesOK
<1> HIDE DEF f
<1>7. Agree(f, twins[i] \cup {{p, n} : n \in Same(twins[i], q)})
  <2>1. Agree(tree[i], twins[i])
    BY <1>1 DEF FilesOK
  <2>2. tree[i][p] = NoFile
    BY <1>2
  <2> QED
    BY <1>3, <1>4, <1>5, <2>1, <2>2, Joined
<1>8. twins' = [twins EXCEPT ![i] = twins[i] \cup {{p, n} : n \in Same(twins[i], q)}]
  BY <1>2, SameFileIsSame
<1> QED
  BY <1>1, <1>6, <1>7, <1>8, OneRootfs

\* Every step leaves the files of every rootfs in order.
LEMMA FilesNext == ImageInv /\ [Next]_vars => FilesOK'
<1> SUFFICES ASSUME ImageInv, [Next]_vars PROVE FilesOK'
  OBVIOUS
<1>a. FilesOK
  BY InvFiles
<1>b. \A t \in Task : ~At(t, "idle") => job[t].image \in Image
  BY DEF ImageInv, TypeOK
<1>1. ASSUME NEW t \in Task, ApplyWhiteout(t) PROVE FilesOK'
  BY <1>1, <1>a, <1>b, RemoveKeeps DEF ApplyWhiteout, AtEntry, At
<1>2. ASSUME NEW t \in Task, CopyLink(t) PROVE FilesOK'
  <2>1. EntryInHand(t) \in HardLink
    BY <1>2, EntryIsTyped DEF CopyLink, AtEntry
  <2>2. EntryInHand(t).path \in Path /\ EntryInHand(t).from \in Path
    BY <2>1 DEF HardLink
  <2> QED
    BY <1>2, <1>a, <1>b, <2>2, CopyKeeps DEF CopyLink, AtEntry, At
<1>3. ASSUME NEW t \in Task, Collide(t) PROVE FilesOK'
  BY <1>3, <1>a, <1>b, RemoveKeeps DEF Collide, At
<1>4. ASSUME NEW t \in Task, ResolveLink(t) PROVE FilesOK'
  <2>1. job[t].deferred \in Seq(HardLink)
    BY DEF ImageInv, TypeOK, Job
  <2>2. Head(job[t].deferred) \in HardLink
    BY <1>4, <2>1 DEF ResolveLink
  <2>3. Head(job[t].deferred).path \in Path /\ Head(job[t].deferred).from \in Path
    BY <2>2 DEF HardLink
  <2> QED
    BY <1>4, <1>a, <1>b, <2>3, CopyKeeps DEF ResolveLink, AtEnd, At
<1>5. ASSUME NEW t \in Task, Fail(t) \/ UnpackBreaks(t) PROVE FilesOK'
  <2>1. CASE Close({t})
    BY <1>a, <2>1, CloseKeeps
  <2>2. CASE ClearPartly(t)
    BY <1>a, <1>b, <2>2, RemoveKeeps DEF ClearPartly, AtEntry, At
  <2> QED
    BY <1>5, <2>1, <2>2 DEF Fail, UnpackBreaks
<1>6. ASSUME AgentDies PROVE FilesOK'
  BY <1>6, <1>a, CloseKeeps DEF AgentDies
<1>7. ASSUME UNCHANGED rootfs PROVE FilesOK'
  BY <1>7, <1>a DEF rootfs, FilesOK
<1>8. ASSUME NEW t \in Task, NEW i \in Image, Ask(t, i) PROVE UNCHANGED rootfs
  BY <1>8 DEF Ask, disk, rootfs
<1>9. ASSUME NEW t \in Task,
             \/ FetchManifest(t) \/ SeeCached(t) \/ SeeMissing(t)
             \/ CreateLayerDir(t) \/ BeginWrite(t) \/ EndWrite(t) \/ EndPull(t)
             \/ OpenLayer(t) \/ OpenFails(t)
      PROVE  UNCHANGED rootfs
  BY <1>9 DEF FetchManifest, SeeCached, SeeMissing, CreateLayerDir, BeginWrite,
     EndWrite, EndPull, OpenLayer, OpenFails, disk, rootfs
<1>10. ASSUME NEW t \in Task,
              \/ DeferLink(t) \/ LinkFails(t) \/ EndUnpack(t)
              \/ SaveConfig(t) \/ WriteSentinel(t)
       PROVE  UNCHANGED rootfs
  BY <1>10 DEF DeferLink, LinkFails, EndUnpack, SaveConfig, WriteSentinel, disk, rootfs
<1>11. ASSUME (\E i \in Image : MoveTag(i)) \/ UNCHANGED vars PROVE UNCHANGED rootfs
  BY <1>11 DEF MoveTag, vars, disk, rootfs
<1> QED
  BY <1>1, <1>2, <1>3, <1>4, <1>5, <1>6, <1>7, <1>8, <1>9, <1>10, <1>11,
     OpenKeeps, WriteKeeps, SymlinkKeeps, LinkKeeps DEF Next, PrepareImage

-----------------------------------------------------------------------------
(* The tasks.                                                              *)

GoodJob(r) ==
  /\ r \in Job
  /\ r.pc = "idle" <=> r = NoJob
  /\ r.pc # "idle" => r.image \in Image
  /\ r.pc \in {"mkdir", "fetch", "write", "unpack", "file"} => r.k \in DOMAIN r.manifest
  /\ r.pc \notin {"idle", "manifest"} => r.manifest \in Manifests[r.image] /\ r.k > 0
  /\ r.pc \in {"unpack", "file"} => r.e > 0

JobsOK == job \in [Task -> Job] /\ \A t \in Task : GoodJob(job[t])

\* Jobs are good in every state the invariant holds of.
LEMMA InvJobs == ImageInv => JobsOK
  BY DEF ImageInv, TypeOK, JobsCount, JobsOK, GoodJob, At

\* A task without work is idle.
LEMMA NoJobIsGood == GoodJob(NoJob)
<1>1. <<>> \in Seq(Layer) /\ <<>> \in Seq(HardLink)
  OBVIOUS
<1> QED
  BY <1>1 DEF GoodJob, NoJob, Job

\* A job is good where its layer list, layer and entry fit.
LEMMA AtWork ==
  ASSUME NEW r \in Job, r.pc # "idle", r.image \in Image,
         r.pc \in {"mkdir", "fetch", "write", "unpack", "file"} =>
           r.k \in DOMAIN r.manifest,
         r.pc # "manifest" => r.manifest \in Manifests[r.image] /\ r.k > 0,
         r.pc \in {"unpack", "file"} => r.e > 0
  PROVE  GoodJob(r)
<1>1. NoJob.pc = "idle"
  BY DEF NoJob
<1>2. r # NoJob
  BY <1>1
<1> QED
  BY <1>2 DEF GoodJob

\* The fields of a job that is typed are.
LEMMA FieldsAreTyped ==
  ASSUME NEW j \in Job
  PROVE  /\ \A pc \in {"pull", "open", "unpack"}, n \in Nat :
              /\ [j EXCEPT !.pc = pc, !.k = n] \in Job
              /\ [j EXCEPT !.pc = pc, !.e = n] \in Job
         /\ \A n \in Nat, m \in Seq(Layer) :
              [j EXCEPT !.pc = "pull", !.k = n, !.manifest = m] \in Job
         /\ \A n \in Nat, q \in Seq(HardLink) :
              /\ [j EXCEPT !.e = n, !.deferred = q] \in Job
              /\ [j EXCEPT !.deferred = q] \in Job
<1>1. \A pc \in {"pull", "open", "unpack"}, n \in Nat :
        /\ [j EXCEPT !.pc = pc, !.k = n] \in Job
        /\ [j EXCEPT !.pc = pc, !.e = n] \in Job
  BY DEF Job
<1>2. \A n \in Nat, m \in Seq(Layer) :
        [j EXCEPT !.pc = "pull", !.k = n, !.manifest = m] \in Job
  BY DEF Job
<1>3. \A n \in Nat, q \in Seq(HardLink) :
        /\ [j EXCEPT !.e = n, !.deferred = q] \in Job
        /\ [j EXCEPT !.deferred = q] \in Job
  BY DEF Job
<1> QED
  BY <1>1, <1>2, <1>3

\* A step of one task changes one job.
LEMMA OneJob ==
  ASSUME JobsOK, NEW t \in Task, NEW r, GoodJob(r), job' = [job EXCEPT ![t] = r]
  PROVE  JobsOK'
<1>1. r \in Job
  BY DEF GoodJob
<1>2. job' \in [Task -> Job] /\ \A u \in Task : job'[u] = IF u = t THEN r ELSE job[u]
  BY <1>1 DEF JobsOK
<1>3. \A u \in Task : GoodJob(job'[u])
  BY <1>2 DEF JobsOK
<1> QED
  BY <1>2, <1>3 DEF JobsOK

\* Dropping the work is always in order.
LEMMA DropKeeps == ASSUME JobsOK, NEW t \in Task, Drop(t) PROVE JobsOK'
  BY NoJobIsGood, OneJob DEF Drop

\* Every step leaves every job in order.
LEMMA JobsNext == ImageInv /\ [Next]_vars => JobsOK'
<1> SUFFICES ASSUME ImageInv, [Next]_vars PROVE JobsOK'
  OBVIOUS
<1>a. JobsOK
  BY InvJobs
<1>b. ASSUME NEW t \in Task
      PROVE  /\ job[t] \in Job /\ GoodJob(job[t])
             /\ job[t].k \in Nat /\ job[t].e \in Nat /\ job[t].manifest \in Seq(Layer)
             /\ LayersLeft(t) /\ job[t].k > 0 => job[t].k \in DOMAIN job[t].manifest
  <2>1. job[t] \in Job /\ GoodJob(job[t])
    BY <1>a DEF JobsOK
  <2>2. job[t].k \in Nat /\ job[t].e \in Nat /\ job[t].manifest \in Seq(Layer)
    BY <2>1 DEF Job
  <2>3. DOMAIN job[t].manifest = 1 .. Len(job[t].manifest)
    BY <2>2, LenProperties
  <2> QED
    BY <2>1, <2>2, <2>3 DEF LayersLeft
<1>1. ASSUME NEW t \in Task, NEW i \in Image, Ask(t, i) PROVE JobsOK'
  <2> DEFINE r == [job[t] EXCEPT !.pc = "manifest", !.image = i]
  <2>1. job' = [job EXCEPT ![t] = r]
    BY <1>1, <1>a DEF Ask, JobsOK
  <2>2. GoodJob(r)
    BY <1>b DEF GoodJob, Job, NoJob
  <2> QED
    BY <1>a, <2>1, <2>2, OneJob
<1>2. ASSUME NEW t \in Task, FetchManifest(t) PROVE JobsOK'
  <2> DEFINE r == [job[t] EXCEPT !.pc = "pull", !.k = 1,
                                 !.manifest = current[job[t].image]]
  <2>1. job' = [job EXCEPT ![t] = r]
    BY <1>2, <1>a DEF FetchManifest, JobsOK
  <2>2. job[t].image \in Image
    BY <1>b, <1>2 DEF GoodJob, FetchManifest, At
  <2>3. /\ current[job[t].image] \in Manifests[job[t].image]
        /\ current[job[t].image] \in Seq(Layer)
    BY <2>2 DEF ImageInv, TypeOK
  <2>4. GoodJob(r)
    <3>1. r \in Job
      <4>1. 1 \in Nat /\ job[t] \in Job
        BY <1>b
      <4> QED
        BY <2>3, <4>1, FieldsAreTyped, Zenon
    <3>2. /\ r.pc = "pull" /\ r.k = 1 /\ r.image = job[t].image
          /\ r.manifest = current[job[t].image]
      BY <1>b DEF Job
    <3> HIDE DEF r
    <3> QED
      BY <2>2, <2>3, <3>1, <3>2, AtWork
  <2> QED
    BY <1>a, <2>1, <2>4, OneJob
<1>3. ASSUME NEW t \in Task, NEW pc \in {"mkdir", "fetch", "write", "file", "seal"},
             Goto(t, pc), job[t].pc \notin {"idle", "manifest"},
             pc = "seal" \/ job[t].k \in DOMAIN job[t].manifest,
             pc = "file" => job[t].e > 0
      PROVE  JobsOK'
  <2> DEFINE r == [job[t] EXCEPT !.pc = pc]
  <2>1. job' = [job EXCEPT ![t] = r]
    BY <1>3, <1>a DEF Goto, JobsOK
  <2>2. GoodJob(r)
    BY <1>b, <1>3 DEF GoodJob, Job, NoJob
  <2> QED
    BY <1>a, <2>1, <2>2, OneJob
<1>4. ASSUME NEW t \in Task, NEW pc \in {"pull", "open"}, NextLayer(t, pc),
             job[t].pc \notin {"idle", "manifest"}
      PROVE  JobsOK'
  <2> DEFINE r == [job[t] EXCEPT !.pc = pc, !.k = job[t].k + 1]
  <2>1. job' = [job EXCEPT ![t] = r]
    BY <1>4, <1>a DEF NextLayer, JobsOK
  <2>2. GoodJob(r)
    <3>1. r \in Job
      <4>1. job[t] \in Job /\ job[t].k + 1 \in Nat
            /\ pc \in {"pull", "open", "unpack"}
        BY <1>b, <1>4
      <4> QED
        BY <1>4, <4>1, FieldsAreTyped, Zenon
    <3>2. /\ r.pc = pc /\ r.k = job[t].k + 1
          /\ r.image = job[t].image /\ r.manifest = job[t].manifest
      BY <1>b, <1>4 DEF Job
    <3> HIDE DEF r
    <3>3. job[t].image \in Image /\ job[t].manifest \in Manifests[job[t].image]
      BY <1>b, <1>4 DEF GoodJob
    <3> QED
      BY <1>b, <3>1, <3>2, <3>3, AtWork, <1>4
  <2> QED
    BY <1>a, <2>1, <2>2, OneJob
<1>5. ASSUME NEW t \in Task, EndPull(t) PROVE JobsOK'
  <2> DEFINE r == [job[t] EXCEPT !.pc = "open", !.k = 1]
  <2>1. job' = [job EXCEPT ![t] = r]
    BY <1>5, <1>a DEF EndPull, JobsOK
  <2>2. GoodJob(r)
    <3>1. r \in Job
      BY <1>b DEF Job
    <3>2. /\ r.pc = "open" /\ r.k = 1
          /\ r.image = job[t].image /\ r.manifest = job[t].manifest
      BY <1>b DEF Job
    <3> HIDE DEF r
    <3>3. job[t].image \in Image /\ job[t].manifest \in Manifests[job[t].image]
      BY <1>b, <1>5 DEF GoodJob, EndPull, At
    <3> QED
      BY <1>b, <3>1, <3>2, <3>3, AtWork
  <2> QED
    BY <1>a, <2>1, <2>2, OneJob
<1>6. ASSUME NEW t \in Task, OpenLayer(t) PROVE JobsOK'
  <2> DEFINE r == [job[t] EXCEPT !.pc = "unpack", !.e = 1,
                                 !.intact = tarball[InHand(t)] = "whole"]
  <2>1. job' = [job EXCEPT ![t] = r]
    BY <1>6, <1>a DEF OpenLayer, JobsOK
  <2>2. job[t].pc = "open" /\ LayersLeft(t)
    BY <1>6 DEF OpenLayer, At
  <2>3. (tarball[InHand(t)] = "whole") \in BOOLEAN
    OBVIOUS
  <2>4. GoodJob(r)
    <3>1. r \in Job
      BY <1>b, <2>3 DEF Job
    <3>2. /\ r.pc = "unpack" /\ r.e = 1 /\ r.k = job[t].k
          /\ r.image = job[t].image /\ r.manifest = job[t].manifest
      BY <1>b, <2>2 DEF Job
    <3> HIDE DEF r
    <3>3. job[t].image \in Image /\ job[t].manifest \in Manifests[job[t].image]
      BY <1>b, <2>2 DEF GoodJob
    <3>4. job[t].k \in DOMAIN job[t].manifest /\ job[t].k > 0 /\ r.e > 0
      BY <1>b, <2>2, <3>2 DEF GoodJob
    <3> QED
      BY <3>1, <3>2, <3>3, <3>4, AtWork
  <2> QED
    BY <1>a, <2>1, <2>4, OneJob
<1>7. ASSUME NEW t \in Task, NextEntry(t, "unpack"), job[t].pc \in {"unpack", "file"}
      PROVE  JobsOK'
  <2> DEFINE r == [job[t] EXCEPT !.pc = "unpack", !.e = job[t].e + 1]
  <2>1. job' = [job EXCEPT ![t] = r]
    BY <1>7, <1>a DEF NextEntry, JobsOK
  <2>2. GoodJob(r)
    <3>1. r \in Job
      <4>1. job[t] \in Job /\ job[t].e + 1 \in Nat
            /\ "unpack" \in {"pull", "open", "unpack"}
        BY <1>b
      <4> QED
        BY <4>1, FieldsAreTyped, Zenon
    <3>2. /\ r.pc = "unpack" /\ r.e = job[t].e + 1 /\ r.k = job[t].k
          /\ r.image = job[t].image /\ r.manifest = job[t].manifest
      BY <1>b DEF Job
    <3> HIDE DEF r
    <3>3. job[t].image \in Image /\ job[t].manifest \in Manifests[job[t].image]
      BY <1>b, <1>7 DEF GoodJob
    <3>4. job[t].k \in DOMAIN job[t].manifest /\ job[t].k > 0 /\ r.e > 0
      BY <1>b, <1>7, <3>2 DEF GoodJob
    <3> QED
      BY <3>1, <3>2, <3>3, <3>4, AtWork
  <2> QED
    BY <1>a, <2>1, <2>2, OneJob
<1>8. ASSUME NEW t \in Task, DeferLink(t) PROVE JobsOK'
  <2> DEFINE r == [job[t] EXCEPT !.e = job[t].e + 1,
                                 !.deferred = Append(job[t].deferred, EntryInHand(t))]
  <2>1. job' = [job EXCEPT ![t] = r]
    BY <1>8, <1>a DEF DeferLink, JobsOK
  <2>2. EntryInHand(t) \in HardLink /\ job[t].pc = "unpack"
    BY <1>8, EntryIsTyped DEF DeferLink, AtEntry, At
  <2>3. Append(job[t].deferred, EntryInHand(t)) \in Seq(HardLink)
    BY <1>b, <2>2 DEF Job
  <2>4. GoodJob(r)
    <3>1. r \in Job
      <4>1. job[t] \in Job /\ job[t].e + 1 \in Nat
        BY <1>b
      <4> QED
        BY <2>3, <4>1, FieldsAreTyped, Zenon
    <3>2. /\ r.pc = "unpack" /\ r.e = job[t].e + 1 /\ r.k = job[t].k
          /\ r.image = job[t].image /\ r.manifest = job[t].manifest
      BY <1>b, <2>2 DEF Job
    <3> HIDE DEF r
    <3>3. job[t].image \in Image /\ job[t].manifest \in Manifests[job[t].image]
      BY <1>b, <2>2 DEF GoodJob
    <3>4. job[t].k \in DOMAIN job[t].manifest /\ job[t].k > 0 /\ r.e > 0
      BY <1>b, <2>2, <3>2 DEF GoodJob
    <3> QED
      BY <3>1, <3>2, <3>3, <3>4, AtWork
  <2> QED
    BY <1>a, <2>1, <2>4, OneJob
<1>9. ASSUME NEW t \in Task, ResolveLink(t) PROVE JobsOK'
  <2> DEFINE r == [job[t] EXCEPT !.deferred = Tail(job[t].deferred)]
  <2>1. job' = [job EXCEPT ![t] = r]
    BY <1>9, <1>a DEF ResolveLink, JobsOK
  <2>2. job[t].pc = "unpack" /\ job[t].deferred # <<>>
    BY <1>9 DEF ResolveLink, AtEnd, At
  <2>3. Tail(job[t].deferred) \in Seq(HardLink)
    BY <1>b, <2>2 DEF Job
  <2>4. GoodJob(r)
    <3>1. r \in Job
      <4>1. job[t] \in Job /\ 0 \in Nat
        BY <1>b
      <4> QED
        BY <2>3, <4>1, FieldsAreTyped, Zenon
    <3>2. /\ r.pc = "unpack" /\ r.e = job[t].e /\ r.k = job[t].k
          /\ r.image = job[t].image /\ r.manifest = job[t].manifest
      BY <1>b, <2>2 DEF Job
    <3> HIDE DEF r
    <3>3. job[t].image \in Image /\ job[t].manifest \in Manifests[job[t].image]
      BY <1>b, <2>2 DEF GoodJob
    <3>4. job[t].k \in DOMAIN job[t].manifest /\ job[t].k > 0 /\ r.e > 0
      BY <1>b, <2>2, <3>2 DEF GoodJob
    <3> QED
      BY <3>1, <3>2, <3>3, <3>4, AtWork
  <2> QED
    BY <1>a, <2>1, <2>4, OneJob
<1>10. ASSUME AgentDies PROVE JobsOK'
  <2>1. job' = [t \in Task |-> NoJob] /\ NoJob \in Job
    BY <1>10, NoJobIsGood DEF AgentDies, GoodJob
  <2>2. \A t \in Task : job'[t] = NoJob
    BY <2>1
  <2> QED
    BY <2>1, <2>2, NoJobIsGood DEF JobsOK
<1>11. ASSUME UNCHANGED job PROVE JobsOK'
  BY <1>11, <1>a DEF JobsOK
\* The steps that only move on to another place.
<1>12. ASSUME NEW t \in Task,
              \/ SeeMissing(t) \/ CreateLayerDir(t) \/ BeginWrite(t)
              \/ OpenFile(t) \/ SaveConfig(t)
       PROVE  JobsOK'
  <2>1. ASSUME SeeMissing(t) PROVE JobsOK'
    BY <1>3, <1>b, <2>1 DEF SeeMissing, At, GoodJob
  <2>2. ASSUME CreateLayerDir(t) PROVE JobsOK'
    BY <1>3, <1>b, <2>2 DEF CreateLayerDir, At, GoodJob
  <2>3. ASSUME BeginWrite(t) PROVE JobsOK'
    BY <1>3, <1>b, <2>3 DEF BeginWrite, At, GoodJob
  <2>4. ASSUME OpenFile(t) PROVE JobsOK'
    BY <1>3, <1>b, <2>4 DEF OpenFile, AtEntry, At, GoodJob
  <2>5. ASSUME SaveConfig(t) PROVE JobsOK'
    BY <1>3, <1>b, <2>5 DEF SaveConfig, At, GoodJob
  <2> QED
    BY <1>12, <2>1, <2>2, <2>3, <2>4, <2>5
<1>13. ASSUME NEW t \in Task, SeeCached(t) \/ EndWrite(t) \/ EndUnpack(t)
       PROVE  JobsOK'
  BY <1>4, <1>13 DEF SeeCached, EndWrite, EndUnpack, AtEnd, At
<1>14. ASSUME NEW t \in Task,
              \/ WriteFile(t) \/ MakeSymlink(t) \/ ApplyWhiteout(t)
              \/ MakeLink(t) \/ CopyLink(t)
       PROVE  JobsOK'
  BY <1>7, <1>14 DEF WriteFile, MakeSymlink, ApplyWhiteout, MakeLink, CopyLink,
     AtEntry, At
<1>15. ASSUME NEW t \in Task,
              \/ OpenFails(t) \/ Collide(t) \/ UnpackBreaks(t) \/ LinkFails(t)
              \/ WriteSentinel(t) \/ Fail(t)
       PROVE  JobsOK'
  BY <1>15, <1>a, DropKeeps
  DEF OpenFails, Collide, UnpackBreaks, LinkFails, WriteSentinel, Fail
<1>16. ASSUME (\E i \in Image : MoveTag(i)) \/ UNCHANGED vars PROVE UNCHANGED job
  BY <1>16 DEF MoveTag, vars
<1> QED
  BY <1>1, <1>2, <1>5, <1>6, <1>8, <1>9, <1>10, <1>11, <1>12, <1>13, <1>14,
     <1>15, <1>16 DEF Next, PrepareImage

-----------------------------------------------------------------------------
(* The open files of the tasks.                                            *)

OpenOK ==
  \A i \in Image, t \in Task :
    tree[i][t] # NoFile <=> At(t, "file") /\ job[t].image = i

\* What a step does to other files than t's, and to other tasks than t.
OthersStay(t) ==
  /\ \A i \in Image, u \in Task \ {t} : tree'[i][u] = NoFile <=> tree[i][u] = NoFile
  /\ \A u \in Task \ {t} : job'[u] = job[u]

\* A step of one task leaves the open files of the others.
LEMMA OthersOpen ==
  ASSUME OpenOK, NEW t \in Task, OthersStay(t),
         \A i \in Image :
           tree'[i][t] # NoFile <=> job'[t].pc = "file" /\ job'[t].image = i
  PROVE  OpenOK'
<1> SUFFICES ASSUME NEW i \in Image, NEW u \in Task
             PROVE  tree'[i][u] # NoFile <=> job'[u].pc = "file" /\ job'[u].image = i
  BY DEF OpenOK, At
<1>1. CASE u = t
  BY <1>1
<1>2. CASE u # t
  BY <1>2 DEF OpenOK, OthersStay, At
<1> QED
  BY <1>1, <1>2

\* A step of t, which has no file open before and none after it.
LEMMA NoneOpen ==
  ASSUME OpenOK, NEW t \in Task, ~At(t, "file"), job'[t].pc # "file",
         \A i \in Image, u \in Task : tree'[i][u] = NoFile <=> tree[i][u] = NoFile,
         \A u \in Task \ {t} : job'[u] = job[u]
  PROVE  OpenOK'
<1>1. OthersStay(t)
  BY DEF OthersStay
<1>2. \A i \in Image : tree'[i][t] = NoFile
  BY DEF OpenOK
<1> QED
  BY <1>1, <1>2, OthersOpen

\* Removing paths leaves the open files open.
LEMMA RemoveStays ==
  ASSUME FilesOK, NEW i \in Image, NEW names, names \cap Task = {}, Remove(i, names)
  PROVE  \A j \in Image, u \in Task : tree'[j][u] = tree[j][u]
  BY NamesDiffer DEF FilesOK, Remove

\* So does a copy.
LEMMA CopyStays ==
  ASSUME FilesOK, NEW i \in Image, NEW q \in Path, NEW p \in Path,
         q \notin Unseen(i), HardlinkCopy(i, q, p)
  PROVE  \A j \in Image, u \in Task : tree'[j][u] = NoFile <=> tree[j][u] = NoFile
<1> SUFFICES ASSUME NEW j \in Image, NEW u \in Task
             PROVE  tree'[j][u] = NoFile <=> tree[j][u] = NoFile
  OBVIOUS
<1>1. tree[i] \in [FileName -> Content] /\ Agree(tree[i], twins[i])
      /\ u \in FileName /\ p \in FileName /\ u # p
  BY NamesDiffer DEF FilesOK
<1>2. CASE j # i \/ u \notin CopiedTo(i, p)
  BY <1>1, <1>2 DEF HardlinkCopy, FilesOK
<1>3. CASE j = i /\ u \in CopiedTo(i, p)
  <2>1. {u, p} \in twins[i]
    BY <1>1, <1>3 DEF CopiedTo, SameFile
  <2>2. tree[i][u] # NoFile
    BY <1>1, <2>1, PairHolds
  <2>3. tree[i][q] # NoFile
    BY DEF Unseen
  <2>4. tree'[i][u] = IF q \in SameFile(i, p) THEN Torn ELSE tree[i][q]
    BY <1>1, <1>3 DEF HardlinkCopy, FilesOK
  <2> QED
    BY <1>3, <2>2, <2>3, <2>4, NamesDiffer
<1> QED
  BY <1>2, <1>3

\* Open files are those of tasks in the middle of one, after every step.
LEMMA OpenNext == ImageInv /\ [Next]_vars => OpenOK'
<1> SUFFICES ASSUME ImageInv, [Next]_vars PROVE OpenOK'
  OBVIOUS
<1>a. OpenOK /\ FilesOK /\ JobsOK
  BY InvFiles, InvJobs DEF ImageInv, TypeOK, OpenOK
<1>b. \A t \in Task : ~At(t, "idle") => job[t].image \in Image
  BY DEF ImageInv, TypeOK
<1>c. job \in [Task -> Job]
  BY <1>a DEF JobsOK
<1>d. ASSUME NEW t \in Task, Drop(t)
      PROVE  job'[t].pc = "idle" /\ \A u \in Task \ {t} : job'[u] = job[u]
  BY <1>c, <1>d DEF Drop, NoJob
<1>e. ASSUME NEW t \in Task, NEW pc, NextEntry(t, pc)
      PROVE  job'[t].pc = pc /\ \A u \in Task \ {t} : job'[u] = job[u]
  BY <1>c, <1>e DEF NextEntry, Job
\* The steps that leave the files alone.
<1>1. ASSUME NEW t \in Task, NEW i \in Image, Ask(t, i) PROVE OpenOK'
  <2>1. UNCHANGED tree /\ job'[t].pc = "manifest" /\ ~At(t, "file")
        /\ \A u \in Task \ {t} : job'[u] = job[u]
    BY <1>1, <1>c DEF Ask, disk, rootfs, Job, At
  <2> QED
    BY <1>a, <2>1, NoneOpen
<1>2. ASSUME NEW t \in Task, FetchManifest(t) \/ EndPull(t) PROVE OpenOK'
  <2>1. UNCHANGED tree /\ job'[t].pc \in {"pull", "open"} /\ ~At(t, "file")
        /\ \A u \in Task \ {t} : job'[u] = job[u]
    BY <1>2, <1>c DEF FetchManifest, EndPull, disk, rootfs, Job, At
  <2> QED
    BY <1>a, <2>1, NoneOpen
<1>3. ASSUME NEW t \in Task, SeeCached(t) \/ EndWrite(t) \/ EndUnpack(t)
      PROVE  OpenOK'
  <2>1. UNCHANGED tree /\ ~At(t, "file")
    BY <1>3 DEF SeeCached, EndWrite, EndUnpack, AtEnd, disk, rootfs, At
  <2>2. \E pc \in {"pull", "open"} : NextLayer(t, pc)
    BY <1>3 DEF SeeCached, EndWrite, EndUnpack
  <2>3. job'[t].pc # "file" /\ \A u \in Task \ {t} : job'[u] = job[u]
    BY <1>c, <2>2 DEF NextLayer, Job
  <2> QED
    BY <1>a, <2>1, <2>3, NoneOpen
<1>4. ASSUME NEW t \in Task,
             SeeMissing(t) \/ CreateLayerDir(t) \/ BeginWrite(t) \/ SaveConfig(t)
      PROVE  OpenOK'
  <2>1. UNCHANGED tree /\ ~At(t, "file")
    BY <1>4 DEF SeeMissing, CreateLayerDir, BeginWrite, SaveConfig, disk, rootfs, At
  <2>2. \E pc \in {"mkdir", "fetch", "write", "seal"} : Goto(t, pc)
    BY <1>4 DEF SeeMissing, CreateLayerDir, BeginWrite, SaveConfig
  <2>3. job'[t].pc # "file" /\ \A u \in Task \ {t} : job'[u] = job[u]
    BY <1>c, <2>2 DEF Goto, Job
  <2> QED
    BY <1>a, <2>1, <2>3, NoneOpen
<1>5. ASSUME NEW t \in Task, OpenLayer(t) PROVE OpenOK'
  <2>1. UNCHANGED tree /\ job'[t].pc = "unpack" /\ ~At(t, "file")
        /\ \A u \in Task \ {t} : job'[u] = job[u]
    BY <1>5, <1>c DEF OpenLayer, disk, rootfs, Job, At
  <2> QED
    BY <1>a, <2>1, NoneOpen
<1>6. ASSUME NEW t \in Task, OpenFails(t) \/ LinkFails(t) \/ WriteSentinel(t)
      PROVE  OpenOK'
  <2>1. UNCHANGED tree /\ ~At(t, "file") /\ Drop(t)
    BY <1>6 DEF OpenFails, LinkFails, WriteSentinel, AtEnd, disk, rootfs, At
  <2> QED
    BY <1>a, <1>d, <2>1, NoneOpen
<1>7. ASSUME NEW t \in Task, DeferLink(t) PROVE OpenOK'
  <2>1. UNCHANGED tree /\ job'[t].pc = "unpack" /\ ~At(t, "file")
        /\ \A u \in Task \ {t} : job'[u] = job[u]
    BY <1>7, <1>c DEF DeferLink, AtEntry, disk, rootfs, Job, At
  <2> QED
    BY <1>a, <2>1, NoneOpen
\* The steps that touch no open file.
<1>8. ASSUME NEW t \in Task, ApplyWhiteout(t) PROVE OpenOK'
  <2> DEFINE names == IF EntryInHand(t).path \in Dir
                      THEN Touched(EntryInHand(t))
                      ELSE Touched(EntryInHand(t)) \ Unseen(job[t].image)
  <2>1. ~At(t, "file") /\ job[t].image \in Image /\ Remove(job[t].image, names)
        /\ NextEntry(t, "unpack")
    BY <1>8, <1>b DEF ApplyWhiteout, AtEntry, At
  <2>2. EntryInHand(t).path \in Path \cup Dir
    BY <1>8, EntryIsTyped DEF ApplyWhiteout, AtEntry
  <2>3. names \cap Task = {}
    BY <2>2, NamesDiffer, ImageStoreAssumption DEF Touched
  <2> HIDE DEF names
  <2> QED
    BY <1>a, <1>e, <2>1, <2>3, RemoveStays, NoneOpen
<1>9. ASSUME NEW t \in Task, Collide(t) PROVE OpenOK'
  <2>1. PICK gone \in IF EntryInHand(t).path \in Dir
                      THEN SUBSET Inside[EntryInHand(t).path] ELSE {{}} :
          Remove(job[t].image, gone)
    BY <1>9 DEF Collide
  <2>2. gone \cap Task = {}
    BY NamesDiffer, ImageStoreAssumption
  <2>3. ~At(t, "file") /\ job[t].image \in Image /\ Drop(t)
    BY <1>9, <1>b DEF Collide, At
  <2> QED
    BY <1>a, <1>d, <2>1, <2>2, <2>3, RemoveStays, NoneOpen
<1>10. ASSUME NEW t \in Task, CopyLink(t) PROVE OpenOK'
  <2>1. EntryInHand(t) \in HardLink
    BY <1>10, EntryIsTyped DEF CopyLink, AtEntry
  <2>2. EntryInHand(t).path \in Path /\ EntryInHand(t).from \in Path
    BY <2>1 DEF HardLink
  <2>3. ~At(t, "file") /\ job[t].image \in Image /\ NextEntry(t, "unpack")
    BY <1>10, <1>b DEF CopyLink, AtEntry, At
  <2>4. \A j \in Image, u \in Task : tree'[j][u] = NoFile <=> tree[j][u] = NoFile
    BY <1>10, <1>a, <2>2, <2>3, CopyStays DEF CopyLink
  <2> QED
    BY <1>a, <1>e, <2>3, <2>4, NoneOpen
<1>11. ASSUME NEW t \in Task, ResolveLink(t) PROVE OpenOK'
  <2>1. job[t].deferred \in Seq(HardLink)
    BY <1>c DEF Job
  <2>2. Head(job[t].deferred) \in HardLink
    BY <1>11, <2>1 DEF ResolveLink
  <2>3. Head(job[t].deferred).path \in Path /\ Head(job[t].deferred).from \in Path
    BY <2>2 DEF HardLink
  <2>4. job[t].pc = "unpack" /\ job[t].image \in Image
    BY <1>11, <1>b DEF ResolveLink, AtEnd, At
  <2>5. \A j \in Image, u \in Task : tree'[j][u] = NoFile <=> tree[j][u] = NoFile
    BY <1>11, <1>a, <2>3, <2>4, CopyStays DEF ResolveLink
  <2>6. job'[t].pc = "unpack" /\ \A u \in Task \ {t} : job'[u] = job[u]
    BY <1>11, <1>c, <2>4 DEF ResolveLink, Job
  <2> QED
    BY <1>a, <2>4, <2>5, <2>6, NoneOpen DEF At
<1>12. ASSUME NEW t \in Task, MakeSymlink(t) \/ MakeLink(t) PROVE OpenOK'
  <2>1. EntryInHand(t).path \in Path
    BY <1>12, EntryIsTyped DEF MakeSymlink, MakeLink, AtEntry
  <2>2. ~At(t, "file") /\ job[t].image \in Image /\ NextEntry(t, "unpack")
    BY <1>12, <1>b DEF MakeSymlink, MakeLink, AtEntry, At
  <2>3. \E c : tree' = [tree EXCEPT ![job[t].image][EntryInHand(t).path] = c]
    BY <1>12 DEF MakeSymlink, MakeLink
  <2>4. \A j \in Image, u \in Task : tree'[j][u] = tree[j][u]
    BY <1>a, <2>1, <2>2, <2>3, NamesDiffer DEF FilesOK
  <2> QED
    BY <1>a, <1>e, <2>2, <2>4, NoneOpen
\* The task's own file.
<1>13. ASSUME NEW t \in Task, OpenFile(t) PROVE OpenOK'
  <2> DEFINE i == job[t].image
             p == EntryInHand(t).path
  <2>1. p \in Path /\ p # t /\ i \in Image /\ ~At(t, "file")
    BY <1>13, <1>b, EntryIsTyped, NamesDiffer DEF OpenFile, AtEntry, At
  <2>2. tree' = [tree EXCEPT ![i][p] = Torn, ![i][t] = Torn]
    BY <1>13 DEF OpenFile
  <2>3. job' = [job EXCEPT ![t].pc = "file"]
    BY <1>13 DEF OpenFile, Goto
  <2>4. job'[t].pc = "file" /\ job'[t].image = i
        /\ \A u \in Task \ {t} : job'[u] = job[u]
    BY <1>c, <2>3 DEF Job
  <2> HIDE DEF i, p
  <2>5. \A j \in Image, u \in Task \ {t} : tree'[j][u] = tree[j][u]
    BY <1>a, <2>1, <2>2, NamesDiffer DEF FilesOK
  <2>6. \A j \in Image : tree'[j][t] # NoFile <=> j = i
    <3>1. \A j \in Image : tree[j][t] = NoFile
      BY <1>a, <2>1 DEF OpenOK
    <3> QED
      BY <1>a, <2>1, <2>2, <3>1, NamesDiffer DEF FilesOK
  <2> QED
    BY <1>a, <2>4, <2>5, <2>6, OthersOpen DEF OthersStay
<1>14. ASSUME NEW t \in Task, WriteFile(t) PROVE OpenOK'
  <2> DEFINE i == job[t].image
             d == InHand(t)
  <2>1. i \in Image /\ At(t, "file")
    BY <1>14, <1>b DEF WriteFile, At
  <2>2. d \in Layer
    BY <1>a, <1>c, <2>1 DEF JobsOK, GoodJob, Job, InHand, At
  <2>3. tree' = [tree EXCEPT ![i] = [n \in DOMAIN @ |->
                   IF n = t THEN NoFile
                   ELSE IF n \in SameFile(i, t) THEN d ELSE @[n]]]
    BY <1>14 DEF WriteFile
  <2>4. job'[t].pc = "unpack" /\ \A u \in Task \ {t} : job'[u] = job[u]
    BY <1>14, <1>e DEF WriteFile
  <2> HIDE DEF i, d
  <2>5. \A j \in Image : tree'[j][t] = NoFile
    <3>1. tree'[i][t] = NoFile
      BY <1>a, <2>1, <2>3, NamesDiffer DEF FilesOK
    <3>2. \A j \in Image : j # i => tree[j][t] = NoFile
      BY <1>a, <2>1 DEF OpenOK, i
    <3>3. \A j \in Image : j # i => tree'[j] = tree[j]
      BY <1>a, <2>1, <2>3 DEF FilesOK
    <3> QED
      BY <3>1, <3>2, <3>3
  <2>6. ASSUME NEW j \in Image, NEW u \in Task \ {t}
        PROVE  tree'[j][u] = NoFile <=> tree[j][u] = NoFile
    <3>1. CASE j # i \/ u \notin SameFile(i, t)
      BY <1>a, <2>1, <2>3, <3>1, NamesDiffer DEF FilesOK
    <3>2. CASE j = i /\ u \in SameFile(i, t)
      <4>1. {u, t} \in twins[i]
        BY <3>2 DEF SameFile
      <4>2. tree[i][u] # NoFile
        BY <1>a, <2>1, <4>1, NamesDiffer, PairHolds DEF FilesOK
      <4>3. tree'[i][u] = d
        BY <1>a, <2>1, <2>3, <3>2, NamesDiffer DEF FilesOK
      <4> QED
        BY <2>2, <3>2, <4>2, <4>3, NamesDiffer
    <3> QED
      BY <3>1, <3>2
  <2> QED
    BY <1>a, <2>4, <2>5, <2>6, OthersOpen DEF OthersStay
<1>15. ASSUME NEW t \in Task, Close({t}), Fail(t) \/ UnpackBreaks(t) PROVE OpenOK'
  <2>1. Close({t}) /\ Drop(t)
    BY <1>15 DEF Fail, UnpackBreaks
  <2>2. \A i \in Image : tree'[i][t] = NoFile
    BY <1>a, <2>1, NamesDiffer DEF Close, FilesOK
  <2>3. \A i \in Image, u \in Task \ {t} : tree'[i][u] = tree[i][u]
    BY <1>a, <2>1, NamesDiffer DEF Close, FilesOK
  <2>4. job'[t].pc # "file" /\ OthersStay(t)
    BY <1>d, <2>1, <2>3 DEF OthersStay
  <2> QED
    BY <1>a, <2>2, <2>4, OthersOpen
<1>18. ASSUME NEW t \in Task, Fail(t), ClearPartly(t) PROVE OpenOK'
  <2>1. PICK gone \in SUBSET Touched(EntryInHand(t)) : Remove(job[t].image, gone)
    BY <1>18 DEF ClearPartly
  <2>2. EntryInHand(t).path \in Dir
    BY <1>18 DEF ClearPartly
  <2>3. gone \cap Task = {}
    BY <2>2, NamesDiffer, ImageStoreAssumption DEF Touched
  <2>4. ~At(t, "file") /\ job[t].image \in Image /\ Drop(t)
    BY <1>18, <1>b DEF Fail, ClearPartly, AtEntry, At
  <2> QED
    BY <1>a, <1>d, <2>1, <2>3, <2>4, RemoveStays, NoneOpen
<1>19. ASSUME NEW t \in Task, Fail(t) \/ UnpackBreaks(t) PROVE OpenOK'
  BY <1>15, <1>18, <1>19 DEF Fail, UnpackBreaks
<1>16. ASSUME AgentDies PROVE OpenOK'
  <2>1. \A i \in Image, t \in Task : tree'[i][t] = NoFile
    BY <1>16, <1>a, NamesDiffer DEF AgentDies, Close, FilesOK
  <2>2. \A t \in Task : job'[t].pc = "idle"
    BY <1>16 DEF AgentDies, NoJob
  <2> QED
    BY <2>1, <2>2 DEF OpenOK, At
<1>17. ASSUME (\E i \in Image : MoveTag(i)) \/ UNCHANGED vars PROVE OpenOK'
  <2>1. UNCHANGED <<tree, job>>
    BY <1>17 DEF MoveTag, vars, disk, rootfs
  <2> QED
    BY <1>a, <2>1 DEF OpenOK, At
<1> QED
  BY <1>1, <1>2, <1>3, <1>4, <1>5, <1>6, <1>7, <1>8, <1>9, <1>10, <1>11, <1>12,
     <1>13, <1>14, <1>16, <1>17, <1>19 DEF Next, PrepareImage

-----------------------------------------------------------------------------
(* The registry, the layer cache and what else is on disk.                 *)

RestOK ==
  /\ current \in [Image -> Seq(Layer)]
  /\ \A i \in Image : current[i] \in Manifests[i]
  /\ tarball \in [Layer -> {"absent", "empty", "partial", "whole"}]
  /\ ready \subseteq Image
  /\ config \in [Image -> Seq(Layer)]
  /\ \A i \in Image : config[i] \in Manifests[i] \cup {<<>>}
  /\ asked \subseteq Once
  /\ moves \in 0 .. MaxMoves /\ faults \in 0 .. MaxFaults
  /\ crashes \in 0 .. MaxCrashes

\* The other variables keep their types.
LEMMA RestNext == ImageInv /\ [Next]_vars => RestOK'
<1> SUFFICES ASSUME ImageInv, [Next]_vars PROVE RestOK'
  OBVIOUS
<1>a. RestOK /\ JobsOK
  BY InvJobs DEF ImageInv, TypeOK, RestOK
<1>b. MaxMoves \in Nat /\ MaxFaults \in Nat /\ MaxCrashes \in Nat
  BY ImageStoreAssumption
<1> DEFINE Others == UNCHANGED <<current, tarball, ready, config, asked, counts>>
<1>c. Others => RestOK'
  BY <1>a DEF RestOK, counts
<1>1. ASSUME NEW t \in Task, NEW i \in Image, Ask(t, i) PROVE RestOK'
  BY <1>1, <1>a DEF Ask, RestOK, disk, counts
<1>2. ASSUME NEW t \in Task,
             \/ CreateLayerDir(t) \/ BeginWrite(t) \/ EndWrite(t) \/ OpenFails(t)
      PROVE  RestOK'
  <2>1. UNCHANGED <<current, ready, config, asked, counts>>
    BY <1>2 DEF CreateLayerDir, BeginWrite, EndWrite, OpenFails
  <2>2. \/ tarball' = tarball
        \/ \E v \in {"absent", "empty", "partial", "whole"} :
             tarball' = [tarball EXCEPT ![InHand(t)] = v]
        \/ tarball' = [tarball EXCEPT ![InHand(t)] = IF @ = "absent" THEN "empty" ELSE @]
    BY <1>2 DEF CreateLayerDir, BeginWrite, EndWrite, OpenFails
  <2>3. tarball' \in [Layer -> {"absent", "empty", "partial", "whole"}]
    BY <1>a, <2>2 DEF RestOK
  <2> QED
    BY <1>a, <2>1, <2>3 DEF RestOK, counts
<1>3. ASSUME NEW t \in Task, SaveConfig(t) PROVE RestOK'
  <2> DEFINE i == job[t].image
             m == job[t].manifest
  <2>1. i \in Image /\ m \in Manifests[i] /\ m \in Seq(Layer)
    BY <1>3, <1>a DEF SaveConfig, At, JobsOK, GoodJob, Job
  <2>2. /\ config' = [config EXCEPT ![i] = IF m \in Bare THEN @ ELSE m]
        /\ UNCHANGED <<current, tarball, ready, asked, counts>>
    BY <1>3 DEF SaveConfig
  <2> HIDE DEF i, m
  <2>3. config' \in [Image -> Seq(Layer)]
        /\ \A j \in Image : config'[j] \in Manifests[j] \cup {<<>>}
    BY <1>a, <2>1, <2>2 DEF RestOK
  <2> QED
    BY <1>a, <2>2, <2>3 DEF RestOK, counts
<1>4. ASSUME NEW t \in Task, WriteSentinel(t) PROVE RestOK'
  <2>1. job[t].image \in Image
    BY <1>4, <1>a DEF WriteSentinel, At, JobsOK, GoodJob
  <2> QED
    BY <1>4, <1>a, <2>1 DEF WriteSentinel, RestOK, counts
<1>5. ASSUME NEW t \in Task, Fail(t) PROVE RestOK'
  BY <1>5, <1>a, <1>b DEF Fail, RestOK
<1>6. ASSUME NEW i \in Image, MoveTag(i) PROVE RestOK'
  <2>1. PICK m \in Manifests[i] : current' = [current EXCEPT ![i] = m]
    BY <1>6 DEF MoveTag
  <2>2. m \in Seq(Layer)
    BY ImageStoreAssumption
  <2>3. current' \in [Image -> Seq(Layer)]
        /\ \A j \in Image : current'[j] \in Manifests[j]
    BY <1>a, <2>1, <2>2 DEF RestOK
  <2> QED
    BY <1>6, <1>a, <1>b, <2>3 DEF MoveTag, RestOK, disk
<1>7. ASSUME AgentDies PROVE RestOK'
  BY <1>7, <1>a, <1>b DEF AgentDies, RestOK
<1>8. ASSUME NEW t \in Task,
             \/ FetchManifest(t) \/ SeeCached(t) \/ SeeMissing(t) \/ EndPull(t)
             \/ OpenLayer(t) \/ OpenFile(t) \/ WriteFile(t) \/ MakeSymlink(t)
      PROVE  Others
  BY <1>8 DEF FetchManifest, SeeCached, SeeMissing, EndPull, OpenLayer, OpenFile,
     WriteFile, MakeSymlink, disk
<1>9. ASSUME NEW t \in Task,
             \/ ApplyWhiteout(t) \/ MakeLink(t) \/ CopyLink(t) \/ DeferLink(t)
             \/ Collide(t) \/ UnpackBreaks(t) \/ ResolveLink(t) \/ LinkFails(t)
             \/ EndUnpack(t)
      PROVE  Others
  BY <1>9 DEF ApplyWhiteout, MakeLink, CopyLink, DeferLink, Collide, UnpackBreaks,
     ResolveLink, LinkFails, EndUnpack, disk
<1>10. ASSUME UNCHANGED vars PROVE Others
  BY <1>10 DEF vars, disk
<1> QED
  BY <1>c, <1>1, <1>2, <1>3, <1>4, <1>5, <1>6, <1>7, <1>8, <1>9, <1>10
  DEF Next, PrepareImage

-----------------------------------------------------------------------------
\* The parts make up the invariant again.
LEMMA PartsMakeInv == FilesOK /\ JobsOK /\ OpenOK /\ RestOK => ImageInv
<1> SUFFICES ASSUME FilesOK, JobsOK, OpenOK, RestOK PROVE ImageInv
  OBVIOUS
<1>1. /\ tree \in [Image -> [FileName -> Content]]
      /\ twins \in [Image -> SUBSET SUBSET FileName]
      /\ \A i \in Image : \A pair \in twins[i] :
           \E m, n \in pair : pair = {m, n} /\ m # n /\ tree[i][m] = tree[i][n]
  BY DEF FilesOK, Agree
<1>2. LinksAreShared
  BY DEF FilesOK, Agree, LinksAreShared
<1>3. JobsCount
  BY DEF JobsOK, GoodJob, JobsCount
<1>4. /\ job \in [Task -> Job]
      /\ \A t \in Task :
           /\ At(t, "idle") <=> job[t] = NoJob
           /\ ~At(t, "idle") => job[t].image \in Image
           /\ job[t].pc \in {"mkdir", "fetch", "write", "unpack", "file"} =>
                job[t].k \in DOMAIN job[t].manifest
  BY DEF JobsOK, GoodJob, At
<1>5. TypeOK
  BY <1>1, <1>4 DEF OpenOK, RestOK, TypeOK
<1> QED
  BY <1>2, <1>3, <1>5 DEF ImageInv

\* The invariant holds of a device with no images.
LEMMA InitInv == Init => ImageInv
<1> SUFFICES ASSUME Init PROVE ImageInv
  OBVIOUS
<1>1. FilesOK
  <2> DEFINE empty == [n \in FileName |-> NoFile]
  <2>1. empty \in [FileName -> Content]
    BY NamesDiffer
  <2>2. Agree(empty, {})
    BY <2>1, AgreeIf
  <2>3. tree = [i \in Image |-> empty] /\ twins = [i \in Image |-> {}]
    BY DEF Init
  <2> HIDE DEF empty
  <2> QED
    BY <2>1, <2>2, <2>3 DEF FilesOK
<1>2. JobsOK
  BY NoJobIsGood DEF Init, JobsOK, GoodJob
<1>3. OpenOK
  <2>1. \A i \in Image, t \in Task : tree[i][t] = NoFile
    BY NamesDiffer DEF Init
  <2>2. \A t \in Task : ~At(t, "file")
    BY DEF Init, At, NoJob
  <2> QED
    BY <2>1, <2>2 DEF OpenOK
<1>4. RestOK
  <2>1. current \in [Image -> Seq(Layer)] /\ \A i \in Image : current[i] \in Manifests[i]
    BY ImageStoreAssumption DEF Init
  <2>2. config \in [Image -> Seq(Layer)] /\ \A i \in Image : config[i] = <<>>
    BY DEF Init
  <2> QED
    BY <2>1, <2>2, ImageStoreAssumption DEF Init, RestOK
<1> QED
  BY <1>1, <1>2, <1>3, <1>4, PartsMakeInv

\* ImageInv is inductive: InitInv and the lemmas on steps.
LEMMA ImageInvariant == Spec => []ImageInv
<1>1. FilesOK' /\ JobsOK' /\ OpenOK' /\ RestOK' => ImageInv'
  BY PartsMakeInv, PTL
<1>2. ImageInv /\ [Next]_vars => ImageInv'
  BY <1>1, FilesNext, JobsNext, OpenNext, RestNext
<1> QED
  BY InitInv, <1>2, PTL DEF Spec

\* The store stays in its types: a task counts the layers and entries it has,
\* and names that share a file hold the same, whatever is unpacked over what.
THEOREM TypeCorrect == Spec => []TypeOK
<1>1. ImageInv => TypeOK
  BY DEF ImageInv
<1> QED
  BY ImageInvariant, <1>1, PTL

-----------------------------------------------------------------------------
(* Images that one task alone prepares.                                    *)

\* A step of one task, or its failure, is nothing to the others and the tags.
LEMMA OthersStand ==
  ASSUME ImageInv, NEW t \in Task, PrepareImage(t) \/ Fail(t)
  PROVE  /\ current' = current
         /\ \A u \in Task \ {t} : job'[u] = job[u]
<1> DEFINE Stand == current' = current /\ \A u \in Task \ {t} : job'[u] = job[u]
<1>a. job \in [Task -> Job]
  BY DEF ImageInv, TypeOK
<1>b. ASSUME current' = current, NEW r, job' = [job EXCEPT ![t] = r] PROVE Stand
  BY <1>a, <1>b
<1>1. ASSUME NEW i \in Image, Ask(t, i) PROVE Stand
  BY <1>1, <1>b DEF Ask
<1>2. ASSUME \/ FetchManifest(t) \/ SeeCached(t) \/ SeeMissing(t)
             \/ CreateLayerDir(t) \/ BeginWrite(t) \/ EndWrite(t) \/ EndPull(t)
      PROVE  Stand
  BY <1>2, <1>b DEF FetchManifest, SeeCached, SeeMissing, CreateLayerDir, BeginWrite,
     EndWrite, EndPull, Goto, NextLayer
<1>3. ASSUME \/ OpenLayer(t) \/ OpenFails(t) \/ OpenFile(t) \/ WriteFile(t)
             \/ MakeSymlink(t) \/ ApplyWhiteout(t) \/ MakeLink(t) \/ CopyLink(t)
      PROVE  Stand
  BY <1>3, <1>b DEF OpenLayer, OpenFails, OpenFile, WriteFile, MakeSymlink,
     ApplyWhiteout, MakeLink, CopyLink, Goto, NextEntry, Drop
<1>4. ASSUME \/ DeferLink(t) \/ Collide(t) \/ UnpackBreaks(t) \/ ResolveLink(t)
             \/ LinkFails(t) \/ EndUnpack(t)
      PROVE  Stand
  BY <1>4, <1>b DEF DeferLink, Collide, UnpackBreaks, ResolveLink, LinkFails,
     EndUnpack, NextLayer, Drop
<1>5. ASSUME SaveConfig(t) \/ WriteSentinel(t) \/ Fail(t) PROVE Stand
  BY <1>5, <1>b DEF SaveConfig, WriteSentinel, Fail, Goto, Drop
<1> QED
  BY <1>1, <1>2, <1>3, <1>4, <1>5 DEF PrepareImage

\* It changes the rootfs and the config of its own image only.
LEMMA OtherImagesStay ==
  ASSUME ImageInv, NEW t \in Task, PrepareImage(t) \/ Fail(t), NEW j \in Image,
         At(t, "idle") \/ job[t].image # j
  PROVE  tree'[j] = tree[j] /\ twins'[j] = twins[j] /\ config'[j] = config[j]
<1>a. FilesOK /\ config \in [Image -> Seq(Layer)]
  BY InvFiles DEF ImageInv, TypeOK
<1>1. ASSUME NEW i \in Image, Ask(t, i) PROVE UNCHANGED <<tree, twins, config>>
  BY <1>1 DEF Ask, disk, rootfs
<1>2. ASSUME \/ FetchManifest(t) \/ SeeCached(t) \/ SeeMissing(t)
             \/ CreateLayerDir(t) \/ BeginWrite(t) \/ EndWrite(t) \/ EndPull(t)
             \/ OpenLayer(t) \/ OpenFails(t)
      PROVE  UNCHANGED <<tree, twins, config>>
  BY <1>2 DEF FetchManifest, SeeCached, SeeMissing, CreateLayerDir,
     BeginWrite, EndWrite, EndPull, OpenLayer, OpenFails, disk, rootfs
<1>3. ASSUME \/ DeferLink(t) \/ LinkFails(t) \/ EndUnpack(t) \/ WriteSentinel(t)
      PROVE  UNCHANGED <<tree, twins, config>>
  BY <1>3 DEF DeferLink, LinkFails, EndUnpack, WriteSentinel, disk, rootfs
<1>4. ASSUME \/ OpenFile(t) \/ WriteFile(t) \/ MakeSymlink(t) \/ MakeLink(t)
      PROVE  tree'[j] = tree[j] /\ twins'[j] = twins[j] /\ config' = config
  BY <1>4, <1>a DEF OpenFile, WriteFile, MakeSymlink, MakeLink, AtEntry, At, FilesOK
<1>5. ASSUME ApplyWhiteout(t) \/ Collide(t) \/ (Fail(t) /\ ClearPartly(t))
      PROVE  tree'[j] = tree[j] /\ twins'[j] = twins[j] /\ config' = config
  BY <1>5, <1>a DEF ApplyWhiteout, Collide, Fail, ClearPartly, Remove, AtEntry, At,
     FilesOK
<1>6. ASSUME CopyLink(t) \/ ResolveLink(t)
      PROVE  tree'[j] = tree[j] /\ twins'[j] = twins[j] /\ config' = config
  BY <1>6, <1>a DEF CopyLink, ResolveLink, HardlinkCopy, AtEntry, AtEnd, At, FilesOK
<1>7. ASSUME SaveConfig(t) PROVE tree' = tree /\ twins' = twins /\ config'[j] = config[j]
  BY <1>7, <1>a DEF SaveConfig, rootfs, At
<1>8. ASSUME UnpackBreaks(t) \/ Fail(t), Close({t})
      PROVE  tree'[j] = tree[j] /\ twins'[j] = twins[j] /\ config' = config
  <2>1. tree[j][t] = NoFile /\ Close({t}) /\ config' = config
    BY <1>8, NamesDiffer DEF UnpackBreaks, Fail, At, ImageInv, TypeOK
  <2>2. tree'[j] = tree[j]
    BY <1>a, <2>1 DEF Close, FilesOK
  <2>3. ASSUME NEW pair \in twins[j] PROVE t \notin pair
    <3>1. Agree(tree[j], twins[j])
      BY <1>a DEF FilesOK
    <3>2. PICK m, n \in FileName : pair = {m, n}
      BY <3>1, TwinsArePairs
    <3>3. tree[j][m] # NoFile /\ tree[j][n] # NoFile
      BY <3>1, <3>2, PairHolds
    <3> QED
      BY <2>1, <3>2, <3>3
  <2>4. Apart(j, {t}) = twins[j]
    BY <2>3 DEF Apart
  <2> QED
    BY <2>1, <2>2, <2>4 DEF Close
<1>9. UnpackBreaks(t) \/ Fail(t) => Close({t}) \/ (Fail(t) /\ ClearPartly(t))
  BY DEF UnpackBreaks, Fail
<1> QED
  BY <1>1, <1>2, <1>3, <1>4, <1>5, <1>6, <1>7, <1>8, <1>9 DEF PrepareImage

\* The sentinel is written by a task at work on the image, and by nothing else.
LEMMA SealedBy ==
  ASSUME ImageInv, NEW t \in Task, PrepareImage(t) \/ Fail(t)
  PROVE  \/ ready' = ready
         \/ WriteSentinel(t) /\ ready' = ready \cup {job[t].image} /\ At(t, "seal")
<1>1. (\E i \in Image : Ask(t, i)) \/ FetchManifest(t) \/ SeeCached(t) \/ SeeMissing(t)
        \/ EndPull(t) \/ OpenLayer(t) \/ DeferLink(t) \/ LinkFails(t) \/ EndUnpack(t)
      => ready' = ready
  BY DEF Ask, FetchManifest, SeeCached, SeeMissing, EndPull, OpenLayer, DeferLink,
     LinkFails, EndUnpack, disk
<1>2. CreateLayerDir(t) \/ BeginWrite(t) \/ EndWrite(t) \/ OpenFails(t) \/ OpenFile(t)
        \/ WriteFile(t) \/ MakeSymlink(t) \/ ApplyWhiteout(t) \/ MakeLink(t)
      => ready' = ready
  BY DEF CreateLayerDir, BeginWrite, EndWrite, OpenFails, OpenFile, WriteFile,
     MakeSymlink, ApplyWhiteout, MakeLink
<1>3. CopyLink(t) \/ Collide(t) \/ UnpackBreaks(t) \/ ResolveLink(t) \/ SaveConfig(t)
        \/ Fail(t)
      => ready' = ready
  BY DEF CopyLink, Collide, UnpackBreaks, ResolveLink, SaveConfig, Fail
<1>4. WriteSentinel(t) => ready' = ready \cup {job[t].image} /\ At(t, "seal")
  BY DEF WriteSentinel
<1> QED
  BY <1>1, <1>2, <1>3, <1>4 DEF PrepareImage

\* An image that one task alone prepares is not sealed while it works on it.
LEMMA UnsealedNext ==
  ASSUME ImageInv, WorkIsUnsealed, [Next]_vars
  PROVE  WorkIsUnsealed'
<1> SUFFICES ASSUME NEW u \in Task, job'[u].pc # "idle"
             PROVE  job'[u].image \in Wants[u] /\ job'[u].image \notin ready' \cap Unshared
  BY DEF WorkIsUnsealed, At
<1> DEFINE Unsealed == job'[u].image \in Wants[u] /\ job'[u].image \notin ready' \cap Unshared
<1>a. job \in [Task -> Job]
  BY DEF ImageInv, TypeOK
<1>1. ASSUME NEW i \in Image, Ask(u, i) PROVE Unsealed
  BY <1>1, <1>a DEF Ask, disk, Job
<1>2. ASSUME ~At(u, "idle"), ready' = ready, job'[u].image = job[u].image
      PROVE  Unsealed
  BY <1>2 DEF WorkIsUnsealed
<1>3. ASSUME Drop(u) PROVE FALSE
  BY <1>3, <1>a DEF Drop, NoJob
<1>4. ASSUME \/ FetchManifest(u) \/ SeeCached(u) \/ SeeMissing(u)
             \/ CreateLayerDir(u) \/ BeginWrite(u) \/ EndWrite(u) \/ EndPull(u)
             \/ OpenLayer(u)
      PROVE  ~At(u, "idle") /\ ready' = ready /\ job'[u].image = job[u].image
  BY <1>4, <1>a DEF FetchManifest, SeeCached, SeeMissing, CreateLayerDir,
     BeginWrite, EndWrite, EndPull, OpenLayer, Goto, NextLayer, disk, At, Job
<1>5. ASSUME \/ OpenFile(u) \/ WriteFile(u) \/ MakeSymlink(u) \/ ApplyWhiteout(u)
             \/ MakeLink(u) \/ CopyLink(u) \/ DeferLink(u)
      PROVE  ~At(u, "idle") /\ ready' = ready /\ job'[u].image = job[u].image
  BY <1>5, <1>a DEF OpenFile, WriteFile, MakeSymlink, ApplyWhiteout, MakeLink,
     CopyLink, DeferLink, Goto, NextEntry, AtEntry, disk, At, Job
<1>6. ASSUME ResolveLink(u) \/ EndUnpack(u) \/ SaveConfig(u)
      PROVE  ~At(u, "idle") /\ ready' = ready /\ job'[u].image = job[u].image
  BY <1>6, <1>a DEF ResolveLink, EndUnpack, SaveConfig, Goto, NextLayer, AtEnd,
     disk, At, Job
<1>7. ASSUME \/ OpenFails(u) \/ Collide(u) \/ UnpackBreaks(u) \/ LinkFails(u)
             \/ WriteSentinel(u) \/ Fail(u)
      PROVE  Drop(u)
  BY <1>7 DEF OpenFails, Collide, UnpackBreaks, LinkFails, WriteSentinel, Fail
<1>8. ASSUME (\E i \in Image : MoveTag(i)) \/ UNCHANGED vars
      PROVE  Unsealed
  <2>1. UNCHANGED <<job, ready>>
    BY <1>8 DEF MoveTag, vars, disk
  <2> QED
    BY <2>1 DEF WorkIsUnsealed, At
<1>9. ASSUME AgentDies PROVE FALSE
  BY <1>9 DEF AgentDies, NoJob
<1>10. ASSUME NEW t \in Task \ {u}, PrepareImage(t) \/ Fail(t)
       PROVE  Unsealed
  <2>1. job'[u] = job[u] /\ t \in Task
    BY <1>10, OthersStand
  <2>2. job[u].image \in Wants[u] /\ job[u].image \notin ready \cap Unshared
    BY <2>1 DEF WorkIsUnsealed, At
  <2>3. CASE ready' = ready
    BY <2>1, <2>2, <2>3
  <2>4. CASE ready' = ready \cup {job[t].image} /\ At(t, "seal")
    <3>1. job[t].image \in Wants[t]
      BY <2>1, <2>4 DEF WorkIsUnsealed, At
    <3>2. job[t].image # job[u].image \/ job[u].image \notin Unshared
      BY <1>10, <2>1, <2>2, <3>1 DEF Unshared
    <3> QED
      BY <2>1, <2>2, <2>4, <3>2
  <2> QED
    BY <1>10, <2>1, <2>3, <2>4, SealedBy
<1>11. ASSUME PrepareImage(u) \/ Fail(u) PROVE Unsealed
  BY <1>1, <1>2, <1>3, <1>4, <1>5, <1>6, <1>7, <1>11 DEF PrepareImage
<1> QED
  BY <1>8, <1>9, <1>10, <1>11 DEF Next

\* A step changes no rootfs that is sealed, since nobody works on it.
LEMMA StableStep ==
  ASSUME ImageInv, WorkIsUnsealed, [Next]_vars, NEW i \in ready \cap Unshared
  PROVE  tree'[i] = tree[i] /\ config'[i] = config[i]
<1>a. FilesOK /\ i \in Image
  BY InvFiles DEF ImageInv, TypeOK
<1>b. \A t \in Task : At(t, "idle") \/ job[t].image # i
  BY DEF WorkIsUnsealed
<1>1. ASSUME NEW t \in Task, PrepareImage(t) \/ Fail(t)
      PROVE  tree'[i] = tree[i] /\ config'[i] = config[i]
  BY <1>1, <1>a, <1>b, OtherImagesStay
<1>2. ASSUME AgentDies PROVE tree'[i] = tree[i] /\ config' = config
  <2>1. \A t \in Task : tree[i][t] = NoFile
    BY <1>a, <1>b DEF ImageInv, TypeOK, At
  <2>2. tree'[i] = [n \in DOMAIN tree[i] |-> IF n \in Task THEN NoFile ELSE tree[i][n]]
    BY <1>2, <1>a DEF AgentDies, Close
  <2>3. config' = config
    BY <1>2 DEF AgentDies
  <2> QED
    BY <1>a, <2>1, <2>2, <2>3 DEF FilesOK
<1>3. ASSUME (\E j \in Image : MoveTag(j)) \/ UNCHANGED vars
      PROVE  UNCHANGED <<tree, config>>
  BY <1>3 DEF MoveTag, vars, disk, rootfs
<1> QED
  BY <1>1, <1>2, <1>3 DEF Next

\* Of an image that one task prepares the rootfs is not written to from the
\* moment its sentinel exists, whatever fails and whenever the agent dies:
\* prepare_image looks for the sentinel first and writes it last.
THEOREM UnsharedStaysStable == Spec => UnsharedIsStable
<1>1. Init => WorkIsUnsealed
  BY DEF Init, WorkIsUnsealed, At, NoJob
<1>2. ImageInv /\ WorkIsUnsealed /\ [Next]_vars => WorkIsUnsealed'
  BY UnsealedNext
<1>3. ImageInv /\ WorkIsUnsealed /\ [Next]_vars =>
        [\A i \in ready \cap Unshared : tree'[i] = tree[i] /\ config'[i] = config[i]]_vars
  BY StableStep
<1> QED
  BY <1>1, <1>2, <1>3, ImageInvariant, PTL DEF Spec, UnsharedIsStable

-----------------------------------------------------------------------------
(* What the entries of an archive say.                                     *)

Ops == {"write", "symlink", "whiteout", "link"}

\* What ImageStoreAssumption says of an entry.
LEMMA EntriesAreTyped ==
  ASSUME NEW d \in Layer, NEW x \in DOMAIN Entries[d]
  PROVE  /\ x \in 1 .. Len(Entries[d]) /\ x \in Nat
         /\ Entries[d][x].op \in Ops
         /\ Entries[d][x].path \in Path \cup Dir
         /\ Touched(Entries[d][x]) \subseteq Path
         /\ Entries[d][x].op # "whiteout" =>
              Entries[d][x].path \in Path /\ Touched(Entries[d][x]) = {Entries[d][x].path}
         /\ Entries[d][x].path \notin Dir => Touched(Entries[d][x]) = {Entries[d][x].path}
         /\ Entries[d][x].op = "link" =>
              Entries[d][x] \in HardLink /\ Entries[d][x].from \in Path
<1>1. Entries[d] \in Seq(Entry)
  BY ImageStoreAssumption
<1>2. Entries[d][x] \in Entry /\ x \in 1 .. Len(Entries[d])
  BY <1>1, ElementOfSeq, LenProperties
<1>3. /\ Entries[d][x].op \in Ops
      /\ Entries[d][x].path \in Path \cup Dir
      /\ Entries[d][x].op # "whiteout" => Entries[d][x].path \in Path
      /\ Entries[d][x].op = "link" =>
           Entries[d][x] \in HardLink /\ Entries[d][x].from \in Path
  BY <1>2 DEF Entry, HardLink, Ops
<1>4. Dir \cap Path = {} /\ Inside \in [Dir -> SUBSET Path]
  BY ImageStoreAssumption
<1> QED
  BY <1>2, <1>3, <1>4 DEF Touched

\* What an archive says of a path is what its entries say before its end.
LEMMA OwnIs ==
  ASSUME NEW d, NEW p
  PROVE  Own(d, p) = {Entries[d][x].op :
                        x \in {y \in DOMAIN Entries[d] : p \in Touched(Entries[d][y])}}
BY DEF Own, EntriesFor

\* What the first entries say is part of what all say.
LEMMA OpsAreOwn ==
  ASSUME NEW d, NEW n, NEW p
  PROVE  OpsBefore(d, n, p) \subseteq Own(d, p)
BY OwnIs DEF OpsBefore

\* An archive says of a path only what entries can say.
LEMMA OwnIsTyped ==
  ASSUME NEW d \in Layer, NEW p
  PROVE  Own(d, p) \subseteq Ops
BY OwnIs, EntriesAreTyped

\* Before its first entry an archive has said nothing,
LEMMA OpsAtStart ==
  ASSUME NEW d \in Layer, NEW p
  PROVE  OpsBefore(d, 1, p) = {}
BY EntriesAreTyped DEF OpsBefore

\* and behind its last one everything.
LEMMA OpsAtEnd ==
  ASSUME NEW d \in Layer, NEW n \in Nat, n > Len(Entries[d]), NEW p
  PROVE  OpsBefore(d, n, p) = Own(d, p)
<1>1. Len(Entries[d]) \in Nat
  BY ImageStoreAssumption, LenProperties
<1>2. \A y \in DOMAIN Entries[d] : y < n
  BY <1>1, EntriesAreTyped
<1> QED
  BY <1>2, OwnIs DEF OpsBefore

\* Each entry adds its operation at the paths it touches.
LEMMA OpsGrow ==
  ASSUME NEW d \in Layer, NEW n \in DOMAIN Entries[d], NEW p
  PROVE  /\ p \in Touched(Entries[d][n]) =>
              OpsBefore(d, n + 1, p) = OpsBefore(d, n, p) \cup {Entries[d][n].op}
         /\ p \notin Touched(Entries[d][n]) => OpsBefore(d, n + 1, p) = OpsBefore(d, n, p)
<1>1. \A y \in DOMAIN Entries[d] : y < n + 1 <=> y < n \/ y = n
  BY EntriesAreTyped
<1> QED
  BY <1>1 DEF OpsBefore

-----------------------------------------------------------------------------
(* Tidy archives.                                                          *)

\* The layers of a list are layers.
LEMMA LayersAreTyped ==
  ASSUME NEW m \in Seq(Layer)
  PROVE  LayersOf(m) \subseteq Layer
BY ElementOfSeq, LenProperties DEF LayersOf

\* The names of a link are paths.
LEMMA LinkIsTyped ==
  ASSUME NEW d \in Layer, NEW x \in LinksOf(d)
  PROVE  /\ x \in DOMAIN Entries[d] /\ x \in Nat /\ Entries[d][x].op = "link"
         /\ Entries[d][x].path \in Path /\ Entries[d][x].from \in Path
         /\ Touched(Entries[d][x]) = {Entries[d][x].path}
BY EntriesAreTyped DEF LinksOf

\* A link is the only entry at its path, and its target is a file in front of it.
StandsAlone(d, x) ==
  /\ Own(d, Entries[d][x].path) = {"link"}
  /\ Own(d, Entries[d][x].from) = {"write"}
  /\ OpsBefore(d, x, Entries[d][x].from) = {"write"}
  /\ \A y \in LinksOf(d) :
       /\ Entries[d][y].path = Entries[d][x].path => y = x
       /\ Entries[d][y].path # Entries[d][x].from

\* In a tidy archive the path of a hard link is the link's, its target a
\* file that is written before it.
LEMMA LinkAlone ==
  ASSUME NEW d \in Layer, LinksFollowFiles(d), NEW x \in LinksOf(d)
  PROVE  StandsAlone(d, x)
<1> DEFINE p == Entries[d][x].path
           q == Entries[d][x].from
<1>1. /\ x \in DOMAIN Entries[d] /\ x \in Nat /\ Entries[d][x].op = "link"
      /\ p \in Path /\ q \in Path /\ Touched(Entries[d][x]) = {p}
  BY LinkIsTyped
<1>2. ASSUME NEW y \in DOMAIN Entries[d]
      PROVE  /\ p \in Touched(Entries[d][y]) => y = x
             /\ q \in Touched(Entries[d][y]) => y < x /\ Entries[d][y].op = "write"
  BY DEF LinksFollowFiles
<1>3. "write" \in Own(d, q)
  BY DEF LinksFollowFiles
<1> HIDE DEF p, q
<1>4. Own(d, p) = {"link"}
  BY <1>1, <1>2, OwnIs
<1>5. Own(d, q) = {"write"}
  BY <1>2, <1>3, OwnIs
<1>6. OpsBefore(d, x, q) = {"write"}
  BY <1>2, <1>5, OwnIs DEF OpsBefore
<1>7. ASSUME NEW y \in LinksOf(d)
      PROVE  /\ Entries[d][y].path = p => y = x
             /\ Entries[d][y].path # q
  <2>1. /\ y \in DOMAIN Entries[d] /\ Entries[d][y].op = "link"
        /\ Touched(Entries[d][y]) = {Entries[d][y].path}
    BY LinkIsTyped
  <2> QED
    BY <1>2, <2>1
<1> QED
  BY <1>4, <1>5, <1>6, <1>7 DEF StandsAlone, p, q

\* So does every link of a tidy image.
LEMMA LinkStands ==
  ASSUME NEW m \in Seq(Layer), Tidy(m), NEW d \in LayersOf(m), NEW x \in LinksOf(d)
  PROVE  StandsAlone(d, x)
<1>1. d \in Layer /\ LinksFollowFiles(d)
  BY LayersAreTyped DEF Tidy
<1> QED
  BY <1>1, LinkAlone

\* What stands at the path of an entry when its turn comes, and after it.
LEMMA TurnOf ==
  ASSUME NEW m \in Seq(Layer), Tidy(m), NEW d \in LayersOf(m),
         NEW x \in DOMAIN Entries[d], NEW p \in Touched(Entries[d][x])
  PROVE  LET ops == OpsBefore(d, x + 1, p)
         IN  /\ ops # {} /\ ops \subseteq Own(d, p)
             /\ Entries[d][x].op = "write" => Said(d, ops) = d
             /\ Entries[d][x].op = "symlink" => Said(d, ops) = Symlink(d)
             /\ Entries[d][x].op = "whiteout" => Said(d, ops) = NoFile
             /\ Entries[d][x].op = "link" => Said(d, ops) = d
<1> DEFINE ops == OpsBefore(d, x + 1, p)
<1>1. d \in Layer /\ LayersOf(m) \subseteq Layer
  BY LayersAreTyped
<1>2. ops = OpsBefore(d, x, p) \cup {Entries[d][x].op} /\ ops \subseteq Own(d, p)
  BY <1>1, OpsGrow, OpsAreOwn
<1> HIDE DEF ops
<1>3. CASE Entries[d][x].op = "write"
  <2>1. Entries[d][x].path = p
    BY <1>1, <1>3, EntriesAreTyped
  <2>2. "symlink" \notin Own(d, p)
    <3> SUFFICES ASSUME NEW y \in DOMAIN Entries[d], p \in Touched(Entries[d][y]),
                        Entries[d][y].op = "symlink"
                 PROVE  FALSE
      BY OwnIs
    <3>1. Entries[d][y].path = p
      BY <1>1, EntriesAreTyped
    <3> QED
      BY <1>3, <2>1, <3>1 DEF Tidy, SymlinksStay
  <2>3. "symlink" \notin ops /\ "write" \in ops
    BY <1>2, <1>3, <2>2
  <2> QED
    BY <1>2, <1>3, <2>3 DEF Said, ops
<1>4. CASE Entries[d][x].op = "symlink"
  BY <1>2, <1>4 DEF Said, ops
<1>5. CASE Entries[d][x].op = "whiteout"
  <2>1. OpsBefore(d, x, p) \subseteq {"whiteout"}
    BY <1>5 DEF OpsBefore, Tidy, WhiteoutsComeFirst
  <2>2. ops = {"whiteout"}
    BY <1>2, <1>5, <2>1
  <2> QED
    BY <1>2, <1>5, <2>2 DEF Said, ops
<1>6. CASE Entries[d][x].op = "link"
  <2>1. p = Entries[d][x].path /\ x \in LinksOf(d)
    BY <1>1, <1>6, EntriesAreTyped DEF LinksOf
  <2>2. Own(d, p) = {"link"}
    <3>1. StandsAlone(d, x)
      BY <2>1, LinkStands
    <3> QED
      BY <2>1, <3>1 DEF StandsAlone
  <2>3. ops = {"link"}
    BY <1>2, <1>6, <2>2
  <2> QED
    BY <1>2, <1>6, <2>3 DEF Said, ops
<1> QED
  BY <1>1, <1>3, <1>4, <1>5, <1>6, EntriesAreTyped DEF Ops

\* The whiteout of a file finds no symbolic link, and no hard link does.
LEMMA WhiteoutSees ==
  ASSUME NEW m \in Seq(Layer), Tidy(m), NEW d \in LayersOf(m),
         NEW x \in DOMAIN Entries[d], Entries[d][x].op \in {"whiteout", "link"},
         NEW c \in LayersOf(m)
  PROVE  "symlink" \notin Own(c, Entries[d][x].path)
<1> SUFFICES ASSUME NEW y \in DOMAIN Entries[c], Entries[c][y].op = "symlink",
                    Entries[d][x].path \in Touched(Entries[c][y])
             PROVE  FALSE
  BY OwnIs
<1>1. Entries[c][y].path = Entries[d][x].path
  BY LayersAreTyped, EntriesAreTyped
<1> QED
  BY <1>1 DEF Tidy, SymlinksStay
-----------------------------------------------------------------------------
(* Numbers, and what layers say together.                                  *)

\* Induction over layers, as a fact about a set of numbers.
LEMMA LeastNumber ==
  ASSUME NEW T \in SUBSET Nat, T # {}
  PROVE  \E x \in T : \A y \in T : x <= y
<1>1. IsWellFoundedOn(OpToRel(<, Nat), Nat)
  BY NatLessThanWellFounded
<1>2. PICK x \in T : \A y \in T : ~(<<y, x>> \in OpToRel(<, Nat))
  BY <1>1, WFMin
<1>3. \A y \in T : ~(<<y, x>> \in {pair \in Nat \X Nat : pair[1] < pair[2]})
  BY <1>2 DEF OpToRel
<1>4. ASSUME NEW y \in T PROVE x <= y
  <2>1. y \in Nat /\ x \in Nat
    OBVIOUS
  <2>2. ~(y < x)
    BY <1>3, <2>1
  <2> QED
    BY <2>1, <2>2
<1> QED
  BY <1>4

\* A set that holds zero, and with a number the next, holds them all.
LEMMA Induction ==
  ASSUME NEW P, 0 \in P, \A n \in Nat : n \in P => n + 1 \in P
  PROVE  Nat \subseteq P
<1>1. SUFFICES ASSUME Nat \ P # {} PROVE FALSE
  OBVIOUS
<1>2. PICK x \in Nat \ P : \A y \in Nat \ P : x <= y
  BY <1>1, LeastNumber
<1>3. x - 1 \in Nat /\ x - 1 \notin Nat \ P
  BY <1>2
<1> QED
  BY <1>2, <1>3

\* What the first k layers of m say of p together: what the last of them that
\* has something on it says.
Says(m, k, p) ==
  IF \E j \in DOMAIN m : LastOf(m, j, k + 1, p)
  THEN LET j == CHOOSE j \in DOMAIN m : LastOf(m, j, k + 1, p)
       IN  Said(m[j], Own(m[j], p))
  ELSE NoFile

\* A layer that is the last to say something of a path is found by Says.
LEMMA LastIsOne ==
  ASSUME NEW m \in Seq(Layer), NEW k \in Nat, NEW p, NEW j \in DOMAIN m,
         LastOf(m, j, k + 1, p)
  PROVE  Says(m, k, p) = Said(m[j], Own(m[j], p))
<1>1. DOMAIN m \subseteq Nat
  BY LenProperties
<1>2. ASSUME NEW l \in DOMAIN m, LastOf(m, l, k + 1, p) PROVE l = j
  BY <1>1, <1>2 DEF LastOf
<1>3. (CHOOSE l \in DOMAIN m : LastOf(m, l, k + 1, p)) = j
  BY <1>2
<1> QED
  BY <1>3 DEF Says

\* One more layer.
LEMMA SaysNext ==
  ASSUME NEW m \in Seq(Layer), NEW k \in DOMAIN m, NEW p
  PROVE  /\ Own(m[k], p) # {} => Says(m, k, p) = Said(m[k], Own(m[k], p))
         /\ Own(m[k], p) = {} => Says(m, k, p) = Says(m, k - 1, p)
<1>1. DOMAIN m = 1 .. Len(m) /\ Len(m) \in Nat
  BY LenProperties
<1>2. k \in Nat /\ (k - 1) + 1 = k /\ k - 1 \in Nat
  BY <1>1
<1>3. CASE Own(m[k], p) # {}
  <2>1. LastOf(m, k, k + 1, p)
    BY <1>1, <1>2, <1>3 DEF LastOf
  <2> QED
    BY <1>2, <1>3, <2>1, LastIsOne
<1>4. CASE Own(m[k], p) = {}
  <2>1. ASSUME NEW j \in DOMAIN m
        PROVE  LastOf(m, j, k + 1, p) <=> LastOf(m, j, k, p)
    <3>1. \A l \in DOMAIN m : l < k + 1 <=> l < k \/ l = k
      BY <1>1
    <3> QED
      BY <1>4, <3>1 DEF LastOf
  <2>2. \A j \in DOMAIN m : LastOf(m, j, k + 1, p) <=> LastOf(m, j, (k - 1) + 1, p)
    BY <1>2, <2>1
  <2>3. CASE \E j \in DOMAIN m : LastOf(m, j, k + 1, p)
    <3>1. PICK j \in DOMAIN m : LastOf(m, j, k + 1, p)
      BY <2>3
    <3>2. LastOf(m, j, (k - 1) + 1, p)
      BY <2>2, <3>1
    <3>3. Says(m, k, p) = Said(m[j], Own(m[j], p))
      BY <1>2, <3>1, LastIsOne
    <3>4. Says(m, k - 1, p) = Said(m[j], Own(m[j], p))
      BY <1>2, <3>2, LastIsOne
    <3> QED
      BY <1>4, <3>3, <3>4
  <2>4. CASE ~\E j \in DOMAIN m : LastOf(m, j, k + 1, p)
    BY <1>4, <2>2, <2>4 DEF Says
  <2> QED
    BY <2>3, <2>4
<1> QED
  BY <1>3, <1>4

\* Before the first layer nothing is said.
LEMMA SaysFirst ==
  ASSUME NEW m \in Seq(Layer), NEW p
  PROVE  Says(m, 0, p) = NoFile
<1>1. \A j \in DOMAIN m : ~(j < 0 + 1)
  BY LenProperties
<1> QED
  BY <1>1 DEF Says, LastOf

\* Of layers that say nothing of p, none is the last to.
LEMMA SaysNothing ==
  ASSUME NEW m \in Seq(Layer), NEW p,
         \A j \in DOMAIN m : ~LastOf(m, j, Len(m) + 1, p)
  PROVE  \A j \in DOMAIN m : Own(m[j], p) = {}
<1>1. DOMAIN m = 1 .. Len(m) /\ Len(m) \in Nat
  BY LenProperties
<1> SUFFICES ASSUME NEW j \in DOMAIN m, Own(m[j], p) # {} PROVE FALSE
  OBVIOUS
<1> DEFINE T == {n \in 0 .. Len(m) : Len(m) - n \in DOMAIN m /\ Own(m[Len(m) - n], p) # {}}
<1>2. Len(m) - j \in T
  <2>1. Len(m) - (Len(m) - j) = j /\ Len(m) - j \in 0 .. Len(m)
    BY <1>1
  <2> QED
    BY <2>1
<1>3. T \subseteq Nat
  BY <1>1
<1> HIDE DEF T
<1>4. PICK x \in T : \A y \in T : x <= y
  BY <1>2, <1>3, LeastNumber
<1> USE DEF T
<1>5. Len(m) - x \in DOMAIN m /\ Own(m[Len(m) - x], p) # {} /\ x \in Nat
  BY <1>1
<1>6. ASSUME NEW l \in DOMAIN m, Len(m) - x < l, Own(m[l], p) # {} PROVE FALSE
  <2>1. Len(m) - (Len(m) - l) = l /\ Len(m) - l \in 0 .. Len(m)
    BY <1>1
  <2>2. Len(m) - l \in T
    BY <1>6, <2>1
  <2> QED
    BY <1>1, <1>4, <1>5, <1>6, <2>2
<1>7. LastOf(m, Len(m) - x, Len(m) + 1, p)
  BY <1>1, <1>5, <1>6 DEF LastOf
<1> QED
  BY <1>5, <1>7

-----------------------------------------------------------------------------
(* Merged, which is defined by recursion over the layers.                  *)

Layered(m, after, k) ==
  [p \in Path |->
     IF k = 0 THEN NoFile
     ELSE LET own(q) == {e.op : e \in EntriesFor(m[k], q)}
              source == {e.from : e \in {x \in EntriesFor(m[k], p) : x.op = "link"}}
              file(q) == IF "write" \in own(q) THEN m[k] ELSE after[k - 1][q]
          IN  IF source # {} THEN file(CHOOSE q \in source : TRUE)
              ELSE IF "symlink" \in own(p) THEN Symlink(m[k])
              ELSE IF own(p) = {"whiteout"} THEN NoFile
              ELSE file(p)]

\* Merged recurses over layers; of tidy layers each step is that of Says.
LEMMA LayeredStart ==
  ASSUME NEW m \in Seq(Layer), NEW after
  PROVE  Layered(m, after, 0) = [p \in Path |-> Says(m, 0, p)]
<1>1. \A p \in Path : Says(m, 0, p) = NoFile
  BY SaysFirst
<1> QED
  BY <1>1 DEF Layered

\* One more layer, if it is tidy, is merged as Says has it.
LEMMA LayeredStep ==
  ASSUME NEW m \in Seq(Layer), Tidy(m), NEW k \in DOMAIN m, NEW after,
         after[k - 1] = [p \in Path |-> Says(m, k - 1, p)]
  PROVE  Layered(m, after, k) = [p \in Path |-> Says(m, k, p)]
<1>1. DOMAIN m = 1 .. Len(m) /\ k # 0
  BY LenProperties
<1>2. m[k] \in Layer /\ m[k] \in LayersOf(m)
  BY <1>1, ElementOfSeq DEF LayersOf
<1> SUFFICES ASSUME NEW p \in Path
             PROVE  Layered(m, after, k)[p] = Says(m, k, p)
  BY DEF Layered
<1> DEFINE d == m[k]
           source == {e.from : e \in {x \in EntriesFor(d, p) : x.op = "link"}}
           file(q) == IF "write" \in Own(d, q) THEN d ELSE after[k - 1][q]
<1>3. Layered(m, after, k)[p] =
        IF source # {} THEN file(CHOOSE q \in source : TRUE)
        ELSE IF "symlink" \in Own(d, p) THEN Symlink(d)
        ELSE IF Own(d, p) = {"whiteout"} THEN NoFile
        ELSE file(p)
  BY <1>1 DEF Layered, Own
<1>4. after[k - 1][p] = Says(m, k - 1, p)
  OBVIOUS
<1>5. /\ Own(d, p) # {} => Says(m, k, p) = Said(d, Own(d, p))
      /\ Own(d, p) = {} => Says(m, k, p) = Says(m, k - 1, p)
  BY SaysNext
<1>6. Own(d, p) \subseteq Ops
  BY <1>2, OwnIsTyped
<1>7. source # {} <=> "link" \in Own(d, p)
  BY DEF Own
<1>8. ASSUME NEW q \in source PROVE "write" \in Own(d, q) /\ Own(d, p) = {"link"}
  <2>1. PICK x \in DOMAIN Entries[d] :
          Entries[d][x].op = "link" /\ p \in Touched(Entries[d][x]) /\ q = Entries[d][x].from
    BY DEF EntriesFor
  <2>2. x \in LinksOf(d) /\ p = Entries[d][x].path
    BY <1>2, <2>1, EntriesAreTyped DEF LinksOf
  <2> HIDE DEF d
  <2>3. Own(d, p) = {"link"} /\ Own(d, q) = {"write"}
    <3>1. StandsAlone(d, x)
      BY <1>2, <2>2, LinkStands DEF d
    <3> QED
      BY <2>1, <2>2, <3>1 DEF StandsAlone
  <2> QED
    BY <2>3
<1> HIDE DEF d, source
<1>9. CASE source # {}
  <2>1. (CHOOSE q \in source : TRUE) \in source
    BY <1>9
  <2>2. file(CHOOSE q \in source : TRUE) = d /\ Own(d, p) = {"link"}
    BY <1>8, <2>1
  <2>3. Said(d, Own(d, p)) = d
    BY <2>2 DEF Said
  <2> QED
    BY <1>3, <1>5, <1>9, <2>2, <2>3
<1>10. CASE source = {} /\ "symlink" \in Own(d, p)
  BY <1>3, <1>5, <1>10 DEF Said
<1>11. CASE source = {} /\ "symlink" \notin Own(d, p) /\ "write" \in Own(d, p)
  <2>1. Own(d, p) # {"whiteout"} /\ Own(d, p) # {}
    BY <1>11
  <2>2. Said(d, Own(d, p)) = d
    BY <1>11 DEF Said
  <2>3. file(p) = d
    BY <1>11
  <2> HIDE DEF file
  <2> QED
    BY <1>3, <1>5, <1>11, <2>1, <2>2, <2>3
<1>12. CASE source = {} /\ Own(d, p) = {"whiteout"}
  <2>1. Said(d, Own(d, p)) = NoFile
    BY <1>12 DEF Said
  <2> QED
    BY <1>3, <1>5, <1>12, <2>1
<1>13. CASE source = {} /\ Own(d, p) = {}
  BY <1>3, <1>4, <1>5, <1>13
<1>14. \/ "symlink" \in Own(d, p) \/ "write" \in Own(d, p) \/ Own(d, p) = {"whiteout"}
       \/ Own(d, p) = {} \/ source # {}
  BY <1>6, <1>7 DEF Ops
<1> QED
  BY <1>9, <1>10, <1>11, <1>12, <1>13, <1>14

\* What tidy layers merge to is, path by path, what the last of them says.
LEMMA MergedIs ==
  ASSUME NEW m \in Seq(Layer), Tidy(m), NEW p \in Path
  PROVE  Merged(m)[p] = Says(m, Len(m), p)
<1> DEFINE Folds(f) == f = [k \in 0 .. Len(m) |-> Layered(m, f, k)]
           after == CHOOSE f : Folds(f)
           g == [k \in 0 .. Len(m) |-> [x \in Path |-> Says(m, k, x)]]
<1>1. Merged(m) = after[Len(m)]
  BY DEF Merged, Layered
<1>2. Len(m) \in Nat /\ DOMAIN m = 1 .. Len(m)
  BY LenProperties
<1>3. Folds(g)
  <2>1. ASSUME NEW k \in 0 .. Len(m) PROVE g[k] = Layered(m, g, k)
    <3>1. CASE k = 0
      <4>1. g[k] = [x \in Path |-> Says(m, 0, x)]
        BY <3>1
      <4> HIDE DEF g
      <4> QED
        BY <3>1, <4>1, LayeredStart
    <3>2. CASE k # 0
      <4>1. k \in DOMAIN m /\ k - 1 \in 0 .. Len(m)
        BY <1>2, <3>2
      <4>2. /\ g[k] = [x \in Path |-> Says(m, k, x)]
            /\ g[k - 1] = [x \in Path |-> Says(m, k - 1, x)]
        BY <4>1
      <4> HIDE DEF g
      <4> QED
        BY <4>1, <4>2, LayeredStep
    <3> QED
      BY <3>1, <3>2
  <2>2. g = [k \in 0 .. Len(m) |-> g[k]]
    OBVIOUS
  <2> HIDE DEF g
  <2> QED
    BY <2>1, <2>2
<1> HIDE DEF g
<1>4. Folds(after)
  BY <1>3
<1> HIDE DEF after
<1>5. \A k \in 0 .. Len(m) : after[k] = Layered(m, after, k)
  BY <1>4
<1> HIDE DEF Folds
<1> DEFINE P == {k \in Nat : k <= Len(m) => after[k] = [x \in Path |-> Says(m, k, x)]}
<1>6. 0 \in P
  <2>1. after[0] = Layered(m, after, 0)
    BY <1>2, <1>5
  <2> QED
    BY <2>1, LayeredStart
<1>7. ASSUME NEW k \in Nat, k \in P PROVE k + 1 \in P
  <2> SUFFICES ASSUME k + 1 <= Len(m)
               PROVE  after[k + 1] = [x \in Path |-> Says(m, k + 1, x)]
    OBVIOUS
  <2>1. k + 1 \in DOMAIN m /\ k + 1 \in 0 .. Len(m) /\ (k + 1) - 1 = k /\ k <= Len(m)
    BY <1>2
  <2>2. after[(k + 1) - 1] = [x \in Path |-> Says(m, (k + 1) - 1, x)]
    BY <1>7, <2>1
  <2>3. after[k + 1] = Layered(m, after, k + 1)
    BY <1>5, <2>1
  <2> QED
    BY <2>1, <2>2, <2>3, LayeredStep
<1>8. Nat \subseteq P
  <2> HIDE DEF P
  <2> QED
    BY <1>6, <1>7, Induction
<1>9. after[Len(m)] = [x \in Path |-> Says(m, Len(m), x)]
  BY <1>2, <1>8
<1> QED
  BY <1>1, <1>9
-----------------------------------------------------------------------------
(* A step of one task, and what it leaves of the invariant.                *)

\* Tasks at work, some of them on tidy images.
TidyState == ImageInv /\ TidyInv /\ WorkIsUnsealed

OnTidy(t) == At(t, "idle") \/ job[t].image \in TidyImage

\* The attempt of a task that is at work on no untidy image is right.
LEMMA Right ==
  ASSUME TidyState, NEW t \in Task, OnTidy(t)
  PROVE  AttemptIsRight(t)
<1>1. CASE At(t, "idle")
  <2>1. job[t] = NoJob
    BY <1>1 DEF TidyState, ImageInv, TypeOK
  <2>2. job[t].pc = "idle" /\ job[t].deferred = <<>>
    BY <2>1 DEF NoJob
  <2> QED
    BY <2>2 DEF AttemptIsRight, TagIsFollowed, LayersAreLaid, LinksAreNew, ConfigIsSaved, At
<1>2. CASE job[t].image \in TidyImage
  BY <1>2 DEF TidyState, TidyInv
<1> QED
  BY <1>1, <1>2 DEF OnTidy

\* What a task that is at work has in hand.
LEMMA Working ==
  ASSUME TidyState, NEW t \in Task, OnTidy(t), job[t].pc \notin {"idle", "manifest"}
  PROVE  /\ job[t].image \in Image /\ job[t].image \in TidyImage
         /\ job[t].manifest = current[job[t].image]
         /\ job[t].manifest \in Seq(Layer) /\ Tidy(job[t].manifest)
         /\ job[t].k \in Nat /\ job[t].k > 0 /\ job[t].e \in Nat
<1>1. job[t] \in Job /\ job[t].image \in Image
      /\ job[t].manifest \in Manifests[job[t].image] /\ job[t].k > 0
  BY DEF TidyState, ImageInv, TypeOK, JobsCount, At
<1>2. job[t].manifest = current[job[t].image]
  BY Right DEF AttemptIsRight, TagIsFollowed
<1>3. job[t].image \in TidyImage
  BY DEF OnTidy, At
<1> QED
  BY <1>1, <1>2, <1>3 DEF Job, TidyImage, Unshared

\* The layer in hand is one of the list, the entry one of its archive.
LEMMA Unpacking ==
  ASSUME TidyState, NEW t \in Task, OnTidy(t), job[t].pc \in {"unpack", "file"}
  PROVE  /\ InHand(t) \in LayersOf(job[t].manifest) /\ InHand(t) \in Layer
         /\ job[t].k \in DOMAIN job[t].manifest
         /\ job[t].e > 0
         /\ EntriesLeft(t) => job[t].e \in DOMAIN Entries[InHand(t)]
<1>1. job[t].k \in DOMAIN job[t].manifest /\ job[t].e > 0
  BY DEF TidyState, ImageInv, TypeOK, JobsCount
<1>2. job[t].manifest \in Seq(Layer) /\ job[t].e \in Nat
  BY Working
<1>3. InHand(t) \in LayersOf(job[t].manifest) /\ InHand(t) \in Layer
  BY <1>1, <1>2, LayersAreTyped DEF InHand, LayersOf
<1>4. Entries[InHand(t)] \in Seq(Entry)
  BY <1>3, ImageStoreAssumption
<1>5. EntriesLeft(t) => job[t].e \in DOMAIN Entries[InHand(t)]
  BY <1>1, <1>2, <1>4, LenProperties DEF EntriesLeft
<1> QED
  BY <1>1, <1>3, <1>5

\* Two tasks are not at work on one tidy image.
LEMMA ImagesDiffer ==
  ASSUME TidyState, NEW t \in Task, NEW u \in Task, t # u, ~At(t, "idle"), ~At(u, "idle"),
         job[u].image \in TidyImage
  PROVE  job[t].image # job[u].image
BY DEF TidyState, WorkIsUnsealed, TidyImage, Unshared

\* In the rootfs a task is at work on nobody else has a file open.
LEMMA OnlyOwnOpen ==
  ASSUME TidyState, NEW t \in Task, OnTidy(t), ~At(t, "idle"), NEW u \in Task,
         u # t \/ ~At(t, "file")
  PROVE  \A p \in Path : {p, u} \notin twins[job[t].image]
<1>1. job[t].image \in TidyImage /\ OpenIsPath
  BY DEF TidyState, TidyInv, OnTidy
<1>2. ~(At(u, "file") /\ job[u].image = job[t].image)
  <2>1. SUFFICES ASSUME At(u, "file"), job[u].image = job[t].image PROVE FALSE
    OBVIOUS
  <2>2. u # t /\ ~At(u, "idle") /\ job[u].image \in TidyImage
    BY <1>1, <2>1 DEF At
  <2> QED
    BY <2>1, <2>2, ImagesDiffer
<1> QED
  BY <1>1, <1>2 DEF OpenIsPath

\* The attempts of the other tasks stay right, and so their open files.
LEMMA OthersAreRight ==
  ASSUME TidyState, NEW t \in Task, PrepareImage(t) \/ Fail(t), NEW u \in Task \ {t},
         job[u].image \in TidyImage
  PROVE  AttemptIsRight(u)'
<1>1. ImageInv /\ AttemptIsRight(u)
  BY DEF TidyState, TidyInv
<1>2. job'[u] = job[u] /\ current' = current
  BY <1>1, OthersStand
<1>3. /\ InHand(u)' = InHand(u) /\ EntryInHand(u)' = EntryInHand(u)
      /\ EntriesLeft(u)' = EntriesLeft(u)
  BY <1>2 DEF InHand, EntryInHand, EntriesLeft
<1>4. TagIsFollowed(u)'
  BY <1>1, <1>2, <1>3 DEF AttemptIsRight, TagIsFollowed, At
<1>5. CASE job[u].pc = "idle"
  <2>1. LayersAreLaid(u)' /\ LinksAreNew(u)' /\ ConfigIsSaved(u)'
    BY <1>2, <1>5 DEF LayersAreLaid, LinksAreNew, ConfigIsSaved, At
  <2> QED
    BY <1>4, <2>1 DEF AttemptIsRight
<1>6. CASE job[u].pc # "idle"
  <2> DEFINE i == job[u].image
  <2>1. i \in Image
    BY <1>1, <1>6 DEF ImageInv, TypeOK, At
  <2>2. At(t, "idle") \/ job[t].image # i
    BY <1>6, ImagesDiffer DEF At
  <2>3. tree'[i] = tree[i] /\ twins'[i] = twins[i] /\ config'[i] = config[i]
    BY <1>1, <2>1, <2>2, OtherImagesStay
  <2>4. LayersAreLaid(u)'
    <3> SUFFICES ASSUME NEW p \in Path, job[u].pc \in {"open", "unpack", "file", "seal"},
                        At(u, "file") => p # EntryInHand(u).path
                 PROVE  PathIsLaid(u, p)'
      BY <1>2, <1>3 DEF LayersAreLaid, At
    <3>1. PathIsLaid(u, p)
      BY <1>1 DEF AttemptIsRight, LayersAreLaid
    <3> QED
      BY <1>2, <1>3, <2>3, <3>1 DEF PathIsLaid
  <2>5. LinksAreNew(u)'
    BY <1>1, <1>2, <1>3, <2>3 DEF AttemptIsRight, LinksAreNew, At
  <2>6. ConfigIsSaved(u)'
    BY <1>1, <1>2, <2>3 DEF AttemptIsRight, ConfigIsSaved, At
  <2> QED
    BY <1>4, <2>4, <2>5, <2>6 DEF AttemptIsRight
<1> QED
  BY <1>5, <1>6

\* A step that treats one task's open file right treats them all right.
LEMMA OpenIsPathIf ==
  ASSUME TidyState, NEW t \in Task, PrepareImage(t) \/ Fail(t),
         \A i \in TidyImage, p \in Path, u \in Task \ {t} :
           {p, u} \in twins'[i] <=> {p, u} \in twins[i],
         \A i \in TidyImage, p \in Path :
           {p, t} \in twins'[i] <=>
             job'[t].pc = "file" /\ job'[t].image = i /\ p = EntryInHand(t)'.path
  PROVE  OpenIsPath'
<1>1. ImageInv /\ OpenIsPath
  BY DEF TidyState, TidyInv
<1> SUFFICES ASSUME NEW i \in TidyImage, NEW u \in Task, NEW p \in Path
             PROVE  {p, u} \in twins'[i] <=>
                      job'[u].pc = "file" /\ job'[u].image = i /\ p = EntryInHand(u)'.path
  BY DEF OpenIsPath, At
<1>2. CASE u # t
  <2>1. job'[u] = job[u]
    BY <1>1, <1>2, OthersStand
  <2>2. EntryInHand(u)' = EntryInHand(u)
    BY <2>1 DEF EntryInHand, InHand
  <2>3. {p, u} \in twins[i] <=>
          job[u].pc = "file" /\ job[u].image = i /\ p = EntryInHand(u).path
    BY <1>1 DEF OpenIsPath, At
  <2> QED
    BY <1>2, <2>1, <2>2, <2>3
<1>3. CASE u = t
  BY <1>3
<1> QED
  BY <1>2, <1>3

\* The invariant from its parts: those of the images, and of the step's task.
LEMMA TidyIf ==
  ASSUME TidyState, NEW t \in Task, PrepareImage(t) \/ Fail(t),
         FilesAreOfImage', TwinsAreLinked', OpenIsPath', ConfigsAreOfImages',
         TagIsFollowed(t)', LayersAreLaid(t)', LinksAreNew(t)', ConfigIsSaved(t)'
  PROVE  TidyInv'
<1>1. AttemptIsRight(t)'
  BY DEF AttemptIsRight
<1>2. \A u \in Task \ {t} : job'[u] = job[u]
  BY OthersStand DEF TidyState
<1>3. \A u \in Task : job'[u].image \in TidyImage => AttemptIsRight(u)'
  BY <1>1, <1>2, OthersAreRight
<1> QED
  BY <1>3 DEF TidyInv

\* What the steps that complete an entry have in common.
Lays(t, i, d, e, a) ==
  /\ job[t].pc \in {"unpack", "file"} /\ EntriesLeft(t)
  /\ a.op = "write" => At(t, "file")
  /\ NextEntry(t, "unpack")
  /\ UNCHANGED <<current, config>>
  /\ \A p \in Touched(a) : tree'[i][p] = Said(d, OpsBefore(d, e + 1, p))
  /\ \A p \in Path \ Touched(a) : tree'[i][p] = tree[i][p]
  /\ \A j \in Image \ {i} : /\ \A p \in Path : tree'[j][p] = tree[j][p]
                            /\ twins'[j] = twins[j]
  /\ \A p, q \in Path : {p, q} \in twins'[i] =>
       \/ {p, q} \in twins[i] /\ p \notin Touched(a)
       \/ /\ a.op = "link" /\ a.path \in {p, q}
          /\ {p, q} \subseteq LinkNames(d) /\ tree'[i][p] = d
  /\ \A p \in Path, u \in Task : {p, u} \notin twins'[i]

Completes(t) == Lays(t, job[t].image, InHand(t), job[t].e, EntryInHand(t))

\* What a layer says of a path, an attempt may have left there.
LEMMA SaidIsHeld ==
  ASSUME NEW m, NEW d \in LayersOf(m), NEW p, NEW ops, ops \subseteq Own(d, p)
  PROVE  MayHold(m, p, Said(d, ops))
<1>1. CASE "symlink" \in ops
  BY <1>1 DEF MayHold, Said
<1>2. CASE "symlink" \notin ops /\ ops \cap {"write", "link"} # {}
  BY <1>2 DEF MayHold, Said
<1>3. CASE "symlink" \notin ops /\ ops \cap {"write", "link"} = {}
  BY <1>3 DEF MayHold, Said
<1> QED
  BY <1>1, <1>2, <1>3

\* The step to the next entry keeps the invariant, whichever entry it is.
LEMMA EntryDone ==
  ASSUME TidyState, NEW t \in Task, OnTidy(t), PrepareImage(t), Completes(t)
  PROVE  TidyInv'
<1> DEFINE i == job[t].image
           m == job[t].manifest
           d == InHand(t)
           e == job[t].e
           a == EntryInHand(t)
<1>1. /\ i \in Image /\ i \in TidyImage /\ m = current[i] /\ m \in Seq(Layer) /\ Tidy(m)
      /\ d \in LayersOf(m) /\ d \in Layer /\ e \in DOMAIN Entries[d] /\ e \in Nat
      /\ a = Entries[d][e]
  BY Working, Unpacking DEF Completes, Lays, EntryInHand
<1>2. /\ FilesAreOfImage /\ TwinsAreLinked /\ OpenIsPath /\ ConfigsAreOfImages
      /\ TagIsFollowed(t) /\ LayersAreLaid(t) /\ LinksAreNew(t)
  BY Right DEF TidyState, TidyInv, AttemptIsRight
<1>3. /\ job'[t].pc = "unpack" /\ job'[t].e = e + 1 /\ job'[t].image = i
      /\ job'[t].manifest = m /\ job'[t].k = job[t].k /\ job'[t].deferred = job[t].deferred
      /\ current' = current /\ config' = config
  <2>1. job \in [Task -> Job]
    BY DEF TidyState, ImageInv, TypeOK
  <2> QED
    BY <2>1 DEF Completes, Lays, NextEntry, Job
<1>4. InHand(t)' = d
  BY <1>3 DEF InHand
<1>5. /\ \A p \in Touched(a) : tree'[i][p] = Said(d, OpsBefore(d, e + 1, p))
      /\ \A p \in Path \ Touched(a) : tree'[i][p] = tree[i][p]
      /\ \A j \in Image \ {i} : /\ \A p \in Path : tree'[j][p] = tree[j][p]
                                /\ twins'[j] = twins[j]
      /\ \A p, q \in Path : {p, q} \in twins'[i] =>
           \/ {p, q} \in twins[i] /\ p \notin Touched(a)
           \/ /\ a.op = "link" /\ a.path \in {p, q}
              /\ {p, q} \subseteq LinkNames(d) /\ tree'[i][p] = d
      /\ \A p \in Path, u \in Task : {p, u} \notin twins'[i]
      /\ a.op = "write" => At(t, "file")
      /\ At(t, "file") => a.op = "write"
      /\ job[t].pc \in {"unpack", "file"}
  BY <1>2 DEF Completes, Lays, TagIsFollowed
<1>6. Touched(a) \subseteq Path /\ (a.op = "write" => Touched(a) = {a.path})
  BY <1>1, EntriesAreTyped
<1>7. ~At(t, "idle") /\ \A u \in Task \ {t} : \A p \in Path : {p, u} \notin twins[i]
  <2>1. ~At(t, "idle")
    BY <1>5 DEF At
  <2> QED
    BY <2>1, OnlyOwnOpen
<1> HIDE DEF i, m, d, e, a
<1>8. FilesAreOfImage'
  <2> SUFFICES ASSUME NEW j \in TidyImage, NEW p \in Path
               PROVE  MayHold(current[j], p, tree'[j][p])
    BY <1>3 DEF FilesAreOfImage
  <2>0. MayHold(current[j], p, tree[j][p])
    BY <1>2 DEF FilesAreOfImage
  <2>1. CASE j # i
    BY <1>5, <2>0, <2>1 DEF TidyImage, Unshared
  <2>2. CASE j = i /\ p \in Touched(a)
    BY <1>1, <1>5, <2>2, SaidIsHeld, OpsAreOwn
  <2>3. CASE j = i /\ p \notin Touched(a)
    BY <1>5, <2>0, <2>3
  <2> QED
    BY <2>1, <2>2, <2>3
<1>9. TwinsAreLinked'
  <2> SUFFICES ASSUME NEW j \in TidyImage, NEW p \in Path, NEW q \in Path, {p, q} \in twins'[j]
               PROVE  \E c \in LayersOf(current[j]) :
                        {p, q} \subseteq LinkNames(c) /\ tree'[j][p] = c
    BY <1>3 DEF TwinsAreLinked
  <2>1. CASE {p, q} \in twins[j] /\ tree'[j][p] = tree[j][p]
    BY <1>2, <2>1 DEF TwinsAreLinked
  <2>2. CASE j = i /\ {p, q} \subseteq LinkNames(d) /\ tree'[i][p] = d
    BY <1>1, <2>2
  <2> QED
    BY <1>5, <2>1, <2>2 DEF TidyImage, Unshared
<1>10. OpenIsPath'
  <2>1. \A j \in TidyImage, p \in Path, u \in Task \ {t} :
          {p, u} \in twins'[j] <=> {p, u} \in twins[j]
    BY <1>5, <1>7 DEF TidyImage, Unshared
  <2>2. ASSUME NEW j \in TidyImage, NEW p \in Path PROVE {p, t} \notin twins'[j]
    <3>1. CASE j = i
      BY <1>5, <3>1
    <3>2. CASE j # i
      <4>1. {p, t} \notin twins[j]
        BY <1>2, <3>2 DEF OpenIsPath, i
      <4> QED
        BY <1>5, <3>2, <4>1 DEF TidyImage, Unshared
    <3> QED
      BY <3>1, <3>2
  <2> QED
    BY <1>3, <2>1, <2>2, OpenIsPathIf
<1>11. TagIsFollowed(t)'
  <2>1. job[t].deferred = <<>>
    BY <1>2 DEF TagIsFollowed
  <2> QED
    BY <1>1, <1>3, <2>1 DEF TagIsFollowed, At
<1>12. LayersAreLaid(t)'
  <2> SUFFICES ASSUME NEW p \in Path PROVE PathIsLaid(t, p)'
    BY DEF LayersAreLaid
  <2> DEFINE before == OpsBefore(d, e, p)
             after  == OpsBefore(d, e + 1, p)
  <2>1. PathIsLaid(t, p)' <=>
          IF after # {} THEN tree'[i][p] = Said(d, after)
          ELSE \A j \in DOMAIN m :
                 LastOf(m, j, job[t].k, p) => tree'[i][p] = Said(m[j], Own(m[j], p))
    BY <1>3, <1>4 DEF PathIsLaid
  <2>2. PathIsLaid(t, p) <=>
          IF before # {} THEN tree[i][p] = Said(d, before)
          ELSE \A j \in DOMAIN m :
                 LastOf(m, j, job[t].k, p) => tree[i][p] = Said(m[j], Own(m[j], p))
    BY <1>5 DEF PathIsLaid, i, d, e, m
  <2> HIDE DEF before, after
  <2>3. CASE p \in Touched(a)
    <3>1. after = OpsBefore(d, e, p) \cup {a.op}
      BY <1>1, <2>3, OpsGrow DEF after
    <3>2. after # {}
      BY <3>1
    <3> QED
      BY <1>5, <2>1, <2>3, <3>2 DEF after
  <2>4. CASE p \notin Touched(a)
    <3>1. after = before
      BY <1>1, <2>4, OpsGrow DEF after, before
    <3>2. At(t, "file") => p # EntryInHand(t).path
      BY <1>5, <1>6, <2>4 DEF a
    <3>3. PathIsLaid(t, p)
      BY <1>2, <1>5, <3>2 DEF LayersAreLaid
    <3> QED
      BY <1>5, <2>1, <2>2, <2>4, <3>1, <3>3
  <2> QED
    BY <2>3, <2>4
<1>13. LinksAreNew(t)'
  <2> SUFFICES ASSUME NEW x \in LinksOf(d), e + 1 <= x,
                      OpsBefore(d, e + 1, Entries[d][x].from) # {},
                      {Entries[d][x].path, Entries[d][x].from} \in twins'[i]
               PROVE  FALSE
    BY <1>3, <1>4 DEF LinksAreNew, At
  <2> DEFINE p == Entries[d][x].path
             q == Entries[d][x].from
  <2>1. x \in DOMAIN Entries[d] /\ x \in Nat /\ p \in Path /\ q \in Path
    BY <1>1, LinkIsTyped
  <2>2. /\ \A y \in LinksOf(d) : /\ Entries[d][y].path = p => y = x
                                 /\ Entries[d][y].path # q
        /\ Own(d, q) = {"write"}
    <3>1. StandsAlone(d, x)
      BY <1>1, LinkStands
    <3> QED
      BY <3>1 DEF StandsAlone
  <2>a. OpsBefore(d, e + 1, q) # {} /\ {p, q} \in twins'[i]
    OBVIOUS
  <2> HIDE DEF p, q
  <2>3. a.op = "link" => a.path \notin {p, q}
    <3> SUFFICES ASSUME a.op = "link" PROVE a.path \notin {p, q}
      OBVIOUS
    <3>1. e \in LinksOf(d) /\ e # x
      BY <1>1, <2>1 DEF LinksOf
    <3> QED
      BY <1>1, <2>2, <3>1
  <2>4. {p, q} \in twins[i]
    BY <1>5, <2>1, <2>3, <2>a
  <2>5. CASE q \in Touched(a)
    <3>1. a.op = "write"
      <4>1. a.op \in Own(d, q)
        BY <1>1, <2>5, OwnIs
      <4> QED
        BY <2>2, <4>1
    <3>2. At(t, "file") /\ a.path = q
      BY <1>5, <1>6, <2>5, <3>1
    <3>3. {p, a.path} \notin twins[i]
      BY <1>2, <2>1, <3>2 DEF LinksAreNew, a, i
    <3> QED
      BY <2>4, <3>2, <3>3
  <2>6. CASE q \notin Touched(a)
    <3>1. OpsBefore(d, e, q) # {} /\ e <= x
      BY <1>1, <2>1, <2>6, <2>a, OpsGrow
    <3>2. {p, q} \notin twins[i]
      BY <1>2, <1>5, <3>1 DEF LinksAreNew, At, d, e, i, p, q
    <3> QED
      BY <2>4, <3>2
  <2> QED
    BY <2>5, <2>6
<1>14. ConfigsAreOfImages' /\ ConfigIsSaved(t)'
  BY <1>2, <1>3 DEF ConfigsAreOfImages, ConfigIsSaved, At
<1> QED
  BY <1>8, <1>9, <1>10, <1>11, <1>12, <1>13, <1>14, TidyIf
-----------------------------------------------------------------------------
(* The steps that complete an entry lay its path.                          *)

\* The entry in hand.
LEMMA AtAnEntry ==
  ASSUME TidyState, NEW t \in Task, OnTidy(t), job[t].pc \in {"unpack", "file"}, EntriesLeft(t)
  PROVE  LET i == job[t].image
             m == job[t].manifest
             d == InHand(t)
             e == job[t].e
         IN  /\ i \in Image /\ i \in TidyImage /\ m = current[i] /\ m \in Seq(Layer) /\ Tidy(m)
             /\ d \in LayersOf(m) /\ d \in Layer /\ e \in DOMAIN Entries[d]
             /\ EntryInHand(t) = Entries[d][e]
             /\ tree[i] \in [FileName -> Content] /\ tree \in [Image -> [FileName -> Content]]
             /\ twins \in [Image -> SUBSET SUBSET FileName]
             /\ t \in FileName \ Path /\ Path \subseteq FileName
BY Working, Unpacking, NamesDiffer DEF EntryInHand, TidyState, ImageInv, TypeOK

\* Two paths of one file are linked by a layer of the image.
LEMMA HeldIsOfLayer ==
  ASSUME TidyState, NEW i \in TidyImage, NEW p \in Path, NEW q \in Path, {p, q} \in twins[i]
  PROVE  /\ tree[i][p] # NoFile
         /\ \E c \in LayersOf(current[i]) : {p, q} \subseteq LinkNames(c) /\ tree[i][p] = c
<1>1. TwinsAreLinked /\ current[i] \in Seq(Layer)
  BY DEF TidyState, TidyInv, ImageInv, TypeOK, TidyImage, Unshared
<1>2. PICK c \in LayersOf(current[i]) : {p, q} \subseteq LinkNames(c) /\ tree[i][p] = c
  BY <1>1 DEF TwinsAreLinked
<1>3. c \in Layer
  BY <1>1, LayersAreTyped
<1> QED
  BY <1>2, <1>3, NamesDiffer

\* A file is filled (extract_layer's unpack_in): its path holds the layer.
LEMMA WriteCompletes ==
  ASSUME TidyState, NEW t \in Task, OnTidy(t), WriteFile(t)
  PROVE  Completes(t)
<1> DEFINE i == job[t].image
           m == job[t].manifest
           d == InHand(t)
           e == job[t].e
           a == EntryInHand(t)
<1>1. job[t].pc = "file" /\ EntriesLeft(t) /\ a.op = "write"
  BY Right DEF WriteFile, At, AttemptIsRight, TagIsFollowed
<1>2. /\ i \in Image /\ i \in TidyImage /\ m \in Seq(Layer) /\ Tidy(m) /\ d \in LayersOf(m)
      /\ d \in Layer /\ e \in DOMAIN Entries[d] /\ a = Entries[d][e]
      /\ tree[i] \in [FileName -> Content] /\ tree \in [Image -> [FileName -> Content]]
      /\ twins \in [Image -> SUBSET SUBSET FileName]
      /\ t \in FileName \ Path /\ Path \subseteq FileName
  BY <1>1, AtAnEntry
<1>3. Touched(a) = {a.path} /\ a.path \in Path
  BY <1>1, <1>2, EntriesAreTyped
<1>4. \A p \in Touched(a) : Said(d, OpsBefore(d, e + 1, p)) = d
  BY <1>1, <1>2, TurnOf
<1>5. \A p \in Path : p \in SameFile(i, t) <=> p = a.path
  BY <1>1, <1>2 DEF SameFile, TidyState, TidyInv, OpenIsPath, At
<1>6. /\ tree' = [tree EXCEPT ![i] = [n \in DOMAIN @ |->
                    IF n = t THEN NoFile ELSE IF n \in SameFile(i, t) THEN d ELSE @[n]]]
      /\ twins' = [twins EXCEPT ![i] = Apart(i, {t})]
      /\ NextEntry(t, "unpack") /\ UNCHANGED <<current, config>>
  BY DEF WriteFile
<1>a. \A u \in Task \ {t}, p \in Path : {p, u} \notin twins[i]
  BY <1>1, OnlyOwnOpen DEF At
<1> HIDE DEF i, m, d, e, a
<1>7. \A p \in Path : tree'[i][p] = IF p = a.path THEN d ELSE tree[i][p]
  BY <1>2, <1>5, <1>6
<1>8. \A j \in Image \ {i} : tree'[j] = tree[j] /\ twins'[j] = twins[j]
  BY <1>2, <1>6
<1>9. twins'[i] = Apart(i, {t})
  BY <1>2, <1>6
<1>10. \A p \in Path, u \in Task : {p, u} \notin twins'[i]
  BY <1>9, <1>a DEF Apart
<1>11. \A p, q \in Path : {p, q} \in twins'[i] => {p, q} \in twins[i] /\ p \notin Touched(a)
  <2>1. \A q \in Path : {q, a.path} \notin twins[i]
    BY <1>1, Right DEF AttemptIsRight, LinksAreNew, At, i, a
  <2>2. \A q : {a.path, q} = {q, a.path}
    OBVIOUS
  <2> QED
    BY <1>3, <1>9, <2>1, <2>2 DEF Apart
<1>12. \A p \in Touched(a) : tree'[i][p] = Said(d, OpsBefore(d, e + 1, p))
  BY <1>3, <1>4, <1>7
<1>13. \A p \in Path \ Touched(a) : tree'[i][p] = tree[i][p]
  BY <1>3, <1>7
<1>14. NextEntry(t, "unpack") /\ UNCHANGED <<current, config>>
  BY <1>6
<1>15. Lays(t, i, d, e, a)
  BY <1>1, <1>8, <1>10, <1>11, <1>12, <1>13, <1>14 DEF Lays, At
<1> QED
  BY <1>15 DEF Completes, i, d, e, a

\* A symbolic link replaces the name, or finds that of an attempt before.
LEMMA SymlinkCompletes ==
  ASSUME TidyState, NEW t \in Task, OnTidy(t), MakeSymlink(t)
  PROVE  Completes(t)
<1> DEFINE i == job[t].image
           m == job[t].manifest
           d == InHand(t)
           e == job[t].e
           a == EntryInHand(t)
<1>1. job[t].pc = "unpack" /\ EntriesLeft(t) /\ a.op = "symlink"
  BY DEF MakeSymlink, AtEntry, At
<1>2. /\ i \in Image /\ i \in TidyImage /\ m \in Seq(Layer) /\ Tidy(m) /\ d \in LayersOf(m)
      /\ d \in Layer /\ e \in DOMAIN Entries[d] /\ a = Entries[d][e]
      /\ tree[i] \in [FileName -> Content] /\ tree \in [Image -> [FileName -> Content]]
      /\ twins \in [Image -> SUBSET SUBSET FileName]
      /\ t \in FileName \ Path /\ Path \subseteq FileName
  BY <1>1, AtAnEntry
<1>3. Touched(a) = {a.path} /\ a.path \in Path
  BY <1>1, <1>2, EntriesAreTyped
<1>4. \A p \in Touched(a) : Said(d, OpsBefore(d, e + 1, p)) = Symlink(d)
  BY <1>1, <1>2, TurnOf
<1>5. \A u \in Task, p \in Path : {p, u} \notin twins[i]
  BY <1>1, OnlyOwnOpen DEF At
<1>6. /\ tree' = [tree EXCEPT ![i][a.path] = Symlink(d)]
      /\ twins' = [twins EXCEPT ![i] = Apart(i, {a.path})]
      /\ NextEntry(t, "unpack") /\ UNCHANGED <<current, config>>
  BY DEF MakeSymlink
<1> HIDE DEF i, m, d, e, a
<1>7. \A p \in Path : tree'[i][p] = IF p = a.path THEN Symlink(d) ELSE tree[i][p]
  BY <1>2, <1>3, <1>6
<1>8. \A j \in Image \ {i} : tree'[j] = tree[j] /\ twins'[j] = twins[j]
  BY <1>2, <1>6
<1>9. twins'[i] = Apart(i, {a.path})
  BY <1>2, <1>6
<1>10. \A p \in Path, u \in Task : {p, u} \notin twins'[i]
  BY <1>5, <1>9 DEF Apart
<1>11. \A p, q \in Path : {p, q} \in twins'[i] => {p, q} \in twins[i] /\ p \notin Touched(a)
  BY <1>3, <1>9 DEF Apart
<1>12. Lays(t, i, d, e, a)
  BY <1>1, <1>3, <1>4, <1>6, <1>7, <1>8, <1>10, <1>11 DEF Lays, At
<1> QED
  BY <1>12 DEF Completes, i, d, e, a

\* A whiteout comes first, so that it removes nothing of its own layer.
LEMMA WhiteoutCompletes ==
  ASSUME TidyState, NEW t \in Task, OnTidy(t), ApplyWhiteout(t)
  PROVE  Completes(t)
<1> DEFINE i == job[t].image
           m == job[t].manifest
           d == InHand(t)
           e == job[t].e
           a == EntryInHand(t)
           names == IF a.path \in Dir THEN Touched(a) ELSE Touched(a) \ Unseen(i)
<1>1. job[t].pc = "unpack" /\ EntriesLeft(t) /\ a.op = "whiteout"
  BY DEF ApplyWhiteout, AtEntry, At
<1>2. /\ i \in Image /\ i \in TidyImage
      /\ m \in Seq(Layer) /\ Tidy(m) /\ d \in LayersOf(m) /\ m = current[i]
      /\ d \in Layer /\ e \in DOMAIN Entries[d] /\ a = Entries[d][e]
      /\ tree[i] \in [FileName -> Content] /\ tree \in [Image -> [FileName -> Content]]
      /\ twins \in [Image -> SUBSET SUBSET FileName]
      /\ t \in FileName \ Path /\ Path \subseteq FileName
  BY <1>1, AtAnEntry
<1>3. /\ Touched(a) \subseteq Path
      /\ a.path \notin Dir => Touched(a) = {a.path}
  BY <1>1, <1>2, EntriesAreTyped
<1>4. \A p \in Touched(a) : Said(d, OpsBefore(d, e + 1, p)) = NoFile
  BY <1>1, <1>2, TurnOf
<1>5. \A u \in Task, p \in Path : {p, u} \notin twins[i]
  BY <1>1, OnlyOwnOpen DEF At
<1>6. Remove(i, names) /\ NextEntry(t, "unpack") /\ UNCHANGED <<current, config>>
  BY DEF ApplyWhiteout
<1>a. names \subseteq Touched(a) /\ Touched(a) \ names \subseteq Unseen(i)
      /\ (Touched(a) # names => a.path \notin Dir)
  OBVIOUS
<1> HIDE DEF i, m, d, e, a, names
<1>7. \A p \in Path : tree'[i][p] = IF p \in names THEN NoFile ELSE tree[i][p]
  BY <1>2, <1>6 DEF Remove
<1>8. \A j \in Image \ {i} : tree'[j] = tree[j] /\ twins'[j] = twins[j]
  BY <1>2, <1>6 DEF Remove
<1>9. twins'[i] = Apart(i, names)
  BY <1>2, <1>6 DEF Remove
<1>10. \A p \in Path, u \in Task : {p, u} \notin twins'[i]
  BY <1>5, <1>9 DEF Apart
<1>11. ASSUME NEW p \in Touched(a) \ names PROVE tree[i][p] = NoFile
  <2>1. p = a.path /\ p \in Path /\ tree[i][p] \in {NoFile} \cup {Symlink(c) : c \in Layer}
    BY <1>3, <1>a DEF Unseen
  <2>2. ASSUME NEW c \in Layer, tree[i][p] = Symlink(c) PROVE FALSE
    <3>1. MayHold(m, p, Symlink(c))
      BY <1>2, <2>1, <2>2 DEF TidyState, TidyInv, FilesAreOfImage
    <3>2. Symlink(c) \notin Layer \cup {NoFile, Torn}
      BY ImageStoreAssumption
    <3>3. LayersOf(m) \subseteq Layer
      BY <1>2, LayersAreTyped
    <3>4. PICK b \in LayersOf(m) : "symlink" \in Own(b, p)
      BY <3>1, <3>2, <3>3 DEF MayHold
    <3>5. "symlink" \notin Own(b, Entries[d][e].path)
      BY <1>1, <1>2, WhiteoutSees
    <3> QED
      BY <1>2, <2>1, <3>4, <3>5
  <2> QED
    BY <2>1, <2>2
<1>12. \A p \in Touched(a) : tree'[i][p] = NoFile
  BY <1>3, <1>7, <1>11
<1>13. \A p \in Path \ Touched(a) : tree'[i][p] = tree[i][p]
  BY <1>7, <1>a
<1>14. ASSUME NEW p \in Path, NEW q \in Path, {p, q} \in twins'[i]
       PROVE  {p, q} \in twins[i] /\ p \notin Touched(a)
  <2>1. {p, q} \in twins[i] /\ p \notin names
    BY <1>9, <1>14 DEF Apart
  <2>2. tree[i][p] # NoFile
    BY <1>2, <2>1, HeldIsOfLayer DEF TidyState
  <2> QED
    BY <1>11, <2>1, <2>2
<1>15. Lays(t, i, d, e, a)
  BY <1>1, <1>4, <1>6, <1>8, <1>10, <1>12, <1>13, <1>14 DEF Lays, At
<1> QED
  BY <1>15 DEF Completes, i, d, e, a

\* Where a hard link is made no attempt has left a symbolic one.
LEMMA LinkFindsFile ==
  ASSUME TidyState, NEW t \in Task, OnTidy(t), AtEntry(t, "link"), NEW c \in Layer
  PROVE  tree[job[t].image][EntryInHand(t).path] # Symlink(c)
<1> DEFINE i == job[t].image
           m == job[t].manifest
           d == InHand(t)
           e == job[t].e
           p == EntryInHand(t).path
<1>1. job[t].pc = "unpack" /\ EntriesLeft(t) /\ EntryInHand(t).op = "link"
  BY DEF AtEntry, At
<1>2. /\ i \in TidyImage /\ m \in Seq(Layer) /\ Tidy(m) /\ m = current[i]
      /\ d \in LayersOf(m) /\ d \in Layer
      /\ e \in DOMAIN Entries[d] /\ EntryInHand(t) = Entries[d][e]
  BY <1>1, AtAnEntry
<1>3. p \in Path
  BY <1>1, <1>2, EntriesAreTyped
<1> SUFFICES ASSUME tree[i][p] = Symlink(c) PROVE FALSE
  OBVIOUS
<1>4. MayHold(m, p, Symlink(c))
  BY <1>2, <1>3 DEF TidyState, TidyInv, FilesAreOfImage
<1>5. Symlink(c) \notin Layer \cup {NoFile, Torn}
  BY ImageStoreAssumption
<1>6. LayersOf(m) \subseteq Layer
  BY <1>2, LayersAreTyped
<1>7. PICK b \in LayersOf(m) : "symlink" \in Own(b, p)
  BY <1>4, <1>5, <1>6 DEF MayHold
<1>8. "symlink" \notin Own(b, Entries[d][e].path)
  BY <1>1, <1>2, WhiteoutSees
<1> QED
  BY <1>2, <1>7, <1>8

\* The target of a hard link is in place when the link's turn comes, and not
\* yet a name of the same file.
LEMMA LinkIsDue ==
  ASSUME TidyState, NEW t \in Task, OnTidy(t), AtEntry(t, "link")
  PROVE  LET i == job[t].image
             d == InHand(t)
             p == EntryInHand(t).path
             q == EntryInHand(t).from
         IN  /\ p \in Path /\ q \in Path /\ p # q
             /\ p \in LinkNames(d) /\ q \in LinkNames(d)
             /\ Touched(EntryInHand(t)) = {p}
             /\ Said(d, OpsBefore(d, job[t].e + 1, p)) = d
             /\ tree[i][q] = d /\ q \notin Unseen(i)
             /\ {p, q} \notin twins[i]
             /\ \A n \in Path : {n, p} \in twins[i] \/ {n, q} \in twins[i] =>
                  n \in LinkNames(d) /\ tree[i][n] = d
<1> DEFINE i == job[t].image
           m == job[t].manifest
           d == InHand(t)
           e == job[t].e
           a == EntryInHand(t)
           p == a.path
           q == a.from
<1>1. job[t].pc = "unpack" /\ EntriesLeft(t) /\ a.op = "link"
  BY DEF AtEntry, At
<1>2. /\ i \in Image /\ i \in TidyImage
      /\ m \in Seq(Layer) /\ Tidy(m) /\ d \in LayersOf(m) /\ m = current[i]
      /\ d \in Layer /\ e \in DOMAIN Entries[d] /\ a = Entries[d][e]
  BY <1>1, AtAnEntry
<1>3. Touched(a) = {p} /\ p \in Path /\ q \in Path /\ e \in Nat
  BY <1>1, <1>2, EntriesAreTyped
<1>4. e \in LinksOf(d)
  BY <1>1, <1>2 DEF LinksOf
<1>5. p \in LinkNames(d) /\ q \in LinkNames(d)
  BY <1>2, <1>4 DEF LinkNames
<1>6. Said(d, OpsBefore(d, e + 1, p)) = d
  BY <1>1, <1>2, <1>3, TurnOf
<1>7. OpsBefore(d, e, q) = {"write"} /\ p # q
  <2>1. StandsAlone(d, e)
    BY <1>2, <1>4, LinkStands
  <2> QED
    BY <1>2, <2>1 DEF StandsAlone
<1>8. tree[i][q] = d
  <2>1. PathIsLaid(t, q)
    BY <1>1, <1>3, Right DEF AttemptIsRight, LayersAreLaid, At
  <2>2. tree[i][q] = Said(d, {"write"})
    BY <1>1, <1>7, <2>1 DEF PathIsLaid
  <2> QED
    BY <2>2 DEF Said
<1>9. q \notin Unseen(i)
  <2>1. d # NoFile /\ \A c \in Layer : d # Symlink(c)
    BY <1>2, ImageStoreAssumption
  <2> QED
    BY <1>8, <2>1 DEF Unseen
<1>10. {p, q} \notin twins[i]
  <2>1. OpsBefore(InHand(t), job[t].e, Entries[InHand(t)][e].from) # {} /\ job[t].e <= e
    BY <1>2, <1>3, <1>7
  <2>2. {Entries[InHand(t)][e].path, Entries[InHand(t)][e].from} \notin twins[job[t].image]
    BY <1>1, <1>4, <2>1, Right DEF AttemptIsRight, LinksAreNew, At
  <2> QED
    BY <1>2, <2>2
<1>11. ASSUME NEW n \in Path, NEW r \in {p, q}, {n, r} \in twins[i]
       PROVE  n \in LinkNames(d) /\ tree[i][n] = d
  <2>1. r \in LinkNames(d) /\ r \in Path
    BY <1>3, <1>5
  <2> HIDE DEF i, m, d, a, p, q
  <2>2. PICK c \in LayersOf(m) : {n, r} \subseteq LinkNames(c) /\ tree[i][n] = c
    BY <1>2, <1>11, <2>1, HeldIsOfLayer
  <2>3. c = d
    BY <1>2, <2>1, <2>2 DEF Tidy, LinksAreApart
  <2> QED
    BY <2>2, <2>3
<1> QED
  BY <1>3, <1>5, <1>6, <1>7, <1>8, <1>9, <1>10, <1>11

\* The kernel makes the link: its target has been written by this attempt.
LEMMA LinkCompletes ==
  ASSUME TidyState, NEW t \in Task, OnTidy(t), MakeLink(t)
  PROVE  Completes(t)
<1> DEFINE i == job[t].image
           d == InHand(t)
           e == job[t].e
           a == EntryInHand(t)
           p == a.path
           q == a.from
<1>1. job[t].pc = "unpack" /\ EntriesLeft(t) /\ a.op = "link" /\ AtEntry(t, "link")
  BY DEF MakeLink, AtEntry, At
<1>2. /\ i \in Image /\ i \in TidyImage
      /\ tree[i] \in [FileName -> Content] /\ tree \in [Image -> [FileName -> Content]]
      /\ twins \in [Image -> SUBSET SUBSET FileName]
      /\ t \in FileName \ Path /\ Path \subseteq FileName
  BY <1>1, AtAnEntry
<1>3. /\ p \in Path /\ q \in Path /\ p \in LinkNames(d) /\ q \in LinkNames(d)
      /\ Touched(a) = {p} /\ Said(d, OpsBefore(d, e + 1, p)) = d /\ tree[i][q] = d
      /\ \A n \in Path : {n, q} \in twins[i] => n \in LinkNames(d) /\ tree[i][n] = d
  BY <1>1, LinkIsDue
<1>4. \A u \in Task, n \in Path : {n, u} \notin twins[i]
  BY <1>1, OnlyOwnOpen DEF At
<1>5. /\ tree' = [tree EXCEPT ![i][p] = tree[i][q]]
      /\ twins' = [twins EXCEPT ![i] = @ \cup {{p, n} : n \in SameFile(i, q)}]
      /\ NextEntry(t, "unpack") /\ UNCHANGED <<current, config>>
  BY DEF MakeLink
<1> HIDE DEF i, d, e, p, q
<1>6. \A n \in Path : tree'[i][n] = IF n = p THEN d ELSE tree[i][n]
  BY <1>2, <1>3, <1>5
<1>7. \A j \in Image \ {i} : tree'[j] = tree[j] /\ twins'[j] = twins[j]
  BY <1>2, <1>5
<1>8. twins'[i] = twins[i] \cup {{p, n} : n \in SameFile(i, q)}
  BY <1>2, <1>5
<1>9. ASSUME NEW x \in Path, NEW y \in Path, {x, y} \in twins'[i]
      PROVE  \/ {x, y} \in twins[i] /\ x # p
             \/ p \in {x, y} /\ {x, y} \subseteq LinkNames(d) /\ tree'[i][x] = d
  <2>1. CASE {x, y} \in twins[i]
    <3>1. tree[i][x] # NoFile
      BY <1>2, <2>1, HeldIsOfLayer
    <3>2. tree[i][p] = NoFile
      BY DEF MakeLink, i, p, a
    <3> QED
      BY <2>1, <3>1, <3>2
  <2>2. CASE {x, y} \notin twins[i]
    <3>1. PICK n \in SameFile(i, q) : {x, y} = {p, n}
      BY <1>8, <1>9, <2>2
    <3>2. n \in Path
      BY <3>1
    <3>3. n \in LinkNames(d) /\ tree[i][n] = d
      BY <1>3, <3>1, <3>2 DEF SameFile
    <3>4. tree'[i][p] = d /\ tree'[i][n] = d
      BY <1>3, <1>6, <3>2, <3>3
    <3> QED
      BY <1>3, <3>1, <3>3, <3>4
  <2> QED
    BY <2>1, <2>2
<1>10. ASSUME NEW x \in Path, NEW u \in Task, {x, u} \in twins'[i] PROVE FALSE
  <2>1. PICK n \in SameFile(i, q) : {x, u} = {p, n}
    BY <1>4, <1>8, <1>10
  <2>2. u \notin Path
    BY NamesDiffer
  <2>3. n = u
    BY <1>3, <2>1, <2>2
  <2>4. {u, q} \in twins[i]
    BY <1>3, <2>1, <2>2, <2>3 DEF SameFile
  <2>5. {u, q} = {q, u}
    OBVIOUS
  <2> QED
    BY <1>3, <1>4, <2>4, <2>5
<1> HIDE DEF a
<1>11. Lays(t, i, d, e, a)
  BY <1>1, <1>3, <1>5, <1>6, <1>7, <1>9, <1>10 DEF Lays, At, p
<1> QED
  BY <1>11 DEF Completes, i, d, e, a

\* The link is copied, onto a name that may be left of an attempt before: no
\* name of the target, so that the copy empties nothing else.
LEMMA CopyCompletes ==
  ASSUME TidyState, NEW t \in Task, OnTidy(t), CopyLink(t)
  PROVE  Completes(t)
<1> DEFINE i == job[t].image
           d == InHand(t)
           e == job[t].e
           a == EntryInHand(t)
           p == a.path
           q == a.from
<1>1. job[t].pc = "unpack" /\ EntriesLeft(t) /\ a.op = "link" /\ AtEntry(t, "link")
  BY DEF CopyLink, AtEntry, At
<1>2. /\ i \in Image /\ i \in TidyImage
      /\ tree[i] \in [FileName -> Content] /\ tree \in [Image -> [FileName -> Content]]
      /\ twins \in [Image -> SUBSET SUBSET FileName]
      /\ t \in FileName \ Path /\ Path \subseteq FileName
  BY <1>1, AtAnEntry
<1>3. /\ p \in Path /\ q \in Path /\ p \in LinkNames(d) /\ q \in LinkNames(d) /\ p # q
      /\ Touched(a) = {p} /\ Said(d, OpsBefore(d, e + 1, p)) = d /\ tree[i][q] = d
      /\ {p, q} \notin twins[i]
      /\ \A n \in Path : {n, p} \in twins[i] => n \in LinkNames(d) /\ tree[i][n] = d
  BY <1>1, LinkIsDue
<1>4. \A u \in Task, n \in Path : {n, u} \notin twins[i]
  BY <1>1, OnlyOwnOpen DEF At
<1>5. /\ HardlinkCopy(i, q, p)
      /\ NextEntry(t, "unpack") /\ UNCHANGED <<current, config>>
  BY DEF CopyLink
<1>a. CopiedTo(i, p) = SameFile(i, p)
  <2>1. p \in Path /\ i \in TidyImage
    BY <1>2, <1>3
  <2>2. \A c \in Layer : tree[i][p] # Symlink(c)
    BY <1>1, <2>1, LinkFindsFile
  <2> QED
    BY <2>2 DEF CopiedTo
<1> HIDE DEF i, d, e, p, q
<1>6. q \notin SameFile(i, p)
  <2>1. {q, p} = {p, q}
    OBVIOUS
  <2> QED
    BY <1>3, <2>1 DEF SameFile
<1>7. \A n \in Path : tree'[i][n] = IF n = p THEN d ELSE tree[i][n]
  <2>1. \A n \in Path : tree'[i][n] = IF n \in SameFile(i, p) THEN d ELSE tree[i][n]
    BY <1>2, <1>3, <1>5, <1>6, <1>a DEF HardlinkCopy
  <2>2. \A n \in Path : n \in SameFile(i, p) <=> n = p \/ {n, p} \in twins[i]
    BY <1>2 DEF SameFile
  <2> QED
    BY <1>3, <2>1, <2>2
<1>8. \A j \in Image \ {i} : tree'[j] = tree[j]
  BY <1>2, <1>5 DEF HardlinkCopy
<1>9. twins' = twins
  BY <1>5 DEF HardlinkCopy
<1>10. ASSUME NEW x \in Path, NEW y \in Path, {x, y} \in twins'[i]
       PROVE  \/ {x, y} \in twins[i] /\ x # p
              \/ p \in {x, y} /\ {x, y} \subseteq LinkNames(d) /\ tree'[i][x] = d
  <2>1. {x, y} \in twins[i]
    BY <1>9, <1>10
  <2>2. CASE x = p
    <3>1. {y, p} \in twins[i]
      <4>1. {x, y} = {y, x}
        OBVIOUS
      <4> QED
        BY <2>1, <2>2, <4>1
    <3> QED
      BY <1>3, <1>7, <2>2, <3>1
  <2> QED
    BY <2>1, <2>2
<1> HIDE DEF a
<1>11. Lays(t, i, d, e, a)
  BY <1>1, <1>3, <1>4, <1>5, <1>7, <1>8, <1>9, <1>10 DEF Lays, At, p
<1> QED
  BY <1>11 DEF Completes, i, d, e, a
-----------------------------------------------------------------------------
(* The other steps.                                                        *)

\* A file is opened: cut until it is written.
LEMMA OpenFollows ==
  ASSUME TidyState, NEW t \in Task, OnTidy(t), OpenFile(t)
  PROVE  TidyInv'
<1> DEFINE i == job[t].image
           m == job[t].manifest
           d == InHand(t)
           e == job[t].e
           a == EntryInHand(t)
           o == a.path
<1>1. job[t].pc = "unpack" /\ EntriesLeft(t) /\ a.op = "write"
  BY DEF OpenFile, AtEntry, At
<1>2. /\ i \in Image /\ i \in TidyImage
      /\ m \in Seq(Layer) /\ Tidy(m) /\ d \in LayersOf(m) /\ m = current[i]
      /\ d \in Layer /\ e \in DOMAIN Entries[d] /\ a = Entries[d][e]
      /\ tree[i] \in [FileName -> Content] /\ tree \in [Image -> [FileName -> Content]]
      /\ twins \in [Image -> SUBSET SUBSET FileName]
      /\ t \in FileName \ Path /\ Path \subseteq FileName
  BY <1>1, AtAnEntry
<1>3. o \in Path /\ Touched(a) = {o}
  BY <1>1, <1>2, EntriesAreTyped
<1>4. "write" \in Own(d, o)
  BY <1>1, <1>2, <1>3, OwnIs
<1>5. /\ FilesAreOfImage /\ TwinsAreLinked /\ OpenIsPath /\ ConfigsAreOfImages
      /\ TagIsFollowed(t) /\ LayersAreLaid(t) /\ LinksAreNew(t)
  BY Right DEF TidyState, TidyInv, AttemptIsRight
<1>6. \A j \in TidyImage, p \in Path : {p, t} \notin twins[j]
  BY <1>1, <1>5 DEF OpenIsPath, At
<1>7. /\ tree' = [tree EXCEPT ![i][o] = Torn, ![i][t] = Torn]
      /\ twins' = [twins EXCEPT ![i] = Apart(i, {o}) \cup {{o, t}}]
  BY DEF OpenFile
<1>8. /\ job'[t].pc = "file" /\ job'[t].e = e /\ job'[t].image = i
      /\ job'[t].manifest = m /\ job'[t].k = job[t].k /\ job'[t].deferred = job[t].deferred
      /\ current' = current /\ config' = config
  <2>1. job \in [Task -> Job]
    BY DEF TidyState, ImageInv, TypeOK
  <2> QED
    BY <2>1 DEF OpenFile, Goto, Job
<1>9. InHand(t)' = d
  BY <1>8 DEF InHand
<1>10. EntryInHand(t)' = a /\ EntriesLeft(t)'
  BY <1>1, <1>8, <1>9 DEF EntryInHand, EntriesLeft
<1>11. \A u \in Task \ {t}, p \in Path : {p, u} \notin twins[i]
  BY <1>1, OnlyOwnOpen DEF At
<1> HIDE DEF i, m, d, e, a, o
<1>12. \A p \in Path : tree'[i][p] = IF p = o THEN Torn ELSE tree[i][p]
  BY <1>2, <1>3, <1>7
<1>13. \A j \in Image \ {i} : tree'[j] = tree[j] /\ twins'[j] = twins[j]
  BY <1>2, <1>7
<1>14. twins'[i] = Apart(i, {o}) \cup {{o, t}}
  BY <1>2, <1>7
<1>15. \A p, q \in Path : {p, q} \in twins'[i] => {p, q} \in twins[i] /\ o \notin {p, q}
  <2> SUFFICES ASSUME NEW p \in Path, NEW q \in Path, {p, q} \in twins'[i]
               PROVE  {p, q} \in twins[i] /\ o \notin {p, q}
    OBVIOUS
  <2>1. {p, q} # {o, t}
    BY <1>2
  <2>2. {p, q} \in Apart(i, {o})
    BY <1>14, <2>1
  <2> QED
    BY <2>2 DEF Apart
<1>16. FilesAreOfImage'
  <2> SUFFICES ASSUME NEW j \in TidyImage, NEW p \in Path
               PROVE  MayHold(current[j], p, tree'[j][p])
    BY <1>8 DEF FilesAreOfImage
  <2>1. CASE j = i /\ p = o
    <3>1. MayHold(m, o, Torn)
      BY <1>2, <1>4 DEF MayHold
    <3> QED
      BY <1>2, <1>12, <2>1, <3>1
  <2>2. CASE j # i \/ p # o
    <3>1. tree'[j][p] = tree[j][p]
      BY <1>12, <1>13, <2>2 DEF TidyImage, Unshared
    <3> QED
      BY <1>5, <3>1 DEF FilesAreOfImage
  <2> QED
    BY <2>1, <2>2
<1>17. TwinsAreLinked'
  <2> SUFFICES ASSUME NEW j \in TidyImage, NEW p \in Path, NEW q \in Path, {p, q} \in twins'[j]
               PROVE  \E c \in LayersOf(current[j]) :
                        {p, q} \subseteq LinkNames(c) /\ tree'[j][p] = c
    BY <1>8 DEF TwinsAreLinked
  <2>1. {p, q} \in twins[j] /\ tree'[j][p] = tree[j][p]
    BY <1>12, <1>13, <1>15 DEF TidyImage, Unshared
  <2> QED
    BY <1>5, <2>1 DEF TwinsAreLinked
<1>18. OpenIsPath'
  <2>1. ASSUME NEW j \in TidyImage, NEW p \in Path
        PROVE  {p, t} \in twins'[j] <=> j = i /\ p = o
    <3>1. CASE j # i
      BY <1>6, <1>13, <3>1 DEF TidyImage, Unshared
    <3>2. CASE j = i
      <4>1. {p, t} \notin Apart(i, {o})
        BY <1>6, <3>2 DEF Apart
      <4>2. {p, t} = {o, t} <=> p = o
        BY <1>2
      <4> QED
        BY <1>14, <3>2, <4>1, <4>2
    <3> QED
      BY <3>1, <3>2
  <2>2. ASSUME NEW j \in TidyImage, NEW p \in Path, NEW u \in Task \ {t}
        PROVE  {p, u} \in twins'[j] <=> {p, u} \in twins[j]
    <3>1. CASE j # i
      BY <1>13, <3>1 DEF TidyImage, Unshared
    <3>2. CASE j = i
      <4>1. {p, u} # {o, t}
        BY <1>2, NamesDiffer
      <4>2. {p, u} \notin twins[i]
        BY <1>11
      <4> QED
        BY <1>14, <3>2, <4>1, <4>2 DEF Apart
    <3> QED
      BY <3>1, <3>2
  <2>3. PrepareImage(t)
    BY DEF PrepareImage
  <2>4. \A j \in TidyImage, p \in Path :
          {p, t} \in twins'[j] <=>
            job'[t].pc = "file" /\ job'[t].image = j /\ p = EntryInHand(t)'.path
    BY <1>8, <1>10, <2>1 DEF o, a
  <2> QED
    BY <2>2, <2>3, <2>4, OpenIsPathIf
<1>19. TagIsFollowed(t)'
  <2>1. job[t].deferred = <<>>
    BY <1>5 DEF TagIsFollowed
  <2>2. current'[job'[t].image] = job'[t].manifest
    BY <1>2, <1>8
  <2> QED
    BY <1>1, <1>8, <1>10, <2>1, <2>2 DEF TagIsFollowed, At, a
<1>20. LayersAreLaid(t)'
  <2> SUFFICES ASSUME NEW p \in Path, p # o PROVE PathIsLaid(t, p)'
    BY <1>8, <1>10 DEF LayersAreLaid, At, a, o
  <2>1. PathIsLaid(t, p)
    BY <1>1, <1>5 DEF LayersAreLaid, At
  <2>2. tree'[i][p] = tree[i][p]
    BY <1>12
  <2> QED
    BY <1>1, <1>8, <1>9, <2>1, <2>2 DEF PathIsLaid, i, m, d, e
<1>21. LinksAreNew(t)'
  <2>1. ASSUME NEW x \in LinksOf(d), e <= x, OpsBefore(d, e, Entries[d][x].from) # {}
        PROVE  {Entries[d][x].path, Entries[d][x].from} \notin twins'[i]
    <3>1. {Entries[d][x].path, Entries[d][x].from} \notin twins[i]
      BY <1>1, <1>5, <2>1 DEF LinksAreNew, At, d, e, i
    <3>2. Entries[d][x].path \in Path /\ Entries[d][x].from \in Path
      BY <1>2, LinkIsTyped
    <3> QED
      BY <1>15, <3>1, <3>2
  <2>2. \A p \in Path : {p, o} \notin twins'[i]
    BY <1>3, <1>15
  <2> QED
    BY <1>8, <1>9, <1>10, <2>1, <2>2 DEF LinksAreNew, At, a, o
<1>22. ConfigsAreOfImages' /\ ConfigIsSaved(t)'
  BY <1>5, <1>8 DEF ConfigsAreOfImages, ConfigIsSaved, At
<1>23. PrepareImage(t)
  BY DEF PrepareImage
<1> QED
  BY <1>16, <1>17, <1>18, <1>19, <1>20, <1>21, <1>22, <1>23, TidyIf

\* A step of t that touches no path, and leaves t no file open.
Rests(t) ==
  /\ \A i \in TidyImage : /\ \A p \in Path : tree'[i][p] = tree[i][p]
                      /\ twins'[i] \subseteq twins[i]
  /\ \A i \in TidyImage, p \in Path : {p, t} \notin twins'[i]
  /\ \A i \in TidyImage, p \in Path, u \in Task \ {t} :
       {p, u} \in twins[i] => {p, u} \in twins'[i]
  /\ \A i \in TidyImage : config'[i] \in {<<>>, ConfigOf(current[i])}

\* The rest of the invariant after such a step, inside no archive.
LEMMA RestFollows ==
  ASSUME TidyState, NEW t \in Task, PrepareImage(t) \/ Fail(t), Rests(t),
         job'[t].pc # "file", job'[t].deferred = <<>>,
         job'[t].pc \notin {"idle", "manifest"} =>
           job'[t].manifest = current[job'[t].image],
         job'[t].pc \in {"open", "unpack", "seal"} => \A p \in Path : PathIsLaid(t, p)',
         job'[t].pc = "unpack" => LinksAreNew(t)',
         job'[t].pc = "seal" =>
           /\ job'[t].k > Len(job'[t].manifest)
           /\ config'[job'[t].image] = ConfigOf(job'[t].manifest)
  PROVE  TidyInv'
<1>1. FilesAreOfImage /\ TwinsAreLinked /\ current' = current
  BY OthersStand DEF TidyState, TidyInv
<1>2. FilesAreOfImage'
  BY <1>1 DEF Rests, FilesAreOfImage
<1>3. TwinsAreLinked'
  BY <1>1 DEF Rests, TwinsAreLinked
<1>4. OpenIsPath'
  <2>1. /\ \A i \in TidyImage, p \in Path, u \in Task \ {t} :
             {p, u} \in twins'[i] <=> {p, u} \in twins[i]
        /\ \A i \in TidyImage, p \in Path : {p, t} \notin twins'[i]
    BY DEF Rests
  <2> QED
    BY <2>1, OpenIsPathIf
<1>5. TagIsFollowed(t)'
  BY <1>1 DEF TagIsFollowed, At
<1>6. LayersAreLaid(t)'
  <2> SUFFICES ASSUME NEW p \in Path, job'[t].pc \in {"open", "unpack", "file", "seal"}
               PROVE  PathIsLaid(t, p)'
    BY DEF LayersAreLaid
  <2> QED
    OBVIOUS
<1>7. LinksAreNew(t)'
  <2>1. CASE job'[t].pc = "unpack"
    BY <2>1
  <2>2. CASE job'[t].pc # "unpack"
    BY <2>2 DEF LinksAreNew, At
  <2> QED
    BY <2>1, <2>2
<1>8. ConfigsAreOfImages'
  BY <1>1 DEF Rests, ConfigsAreOfImages
<1>9. ConfigIsSaved(t)'
  BY DEF ConfigIsSaved, At
<1> QED
  BY <1>2, <1>3, <1>4, <1>5, <1>6, <1>7, <1>8, <1>9, TidyIf

\* Where the task has no file open and no path is touched.
LEMMA QuietRests ==
  ASSUME TidyState, NEW t \in Task, ~At(t, "file"), UNCHANGED <<tree, twins>>,
         \A i \in TidyImage : config'[i] \in {<<>>, ConfigOf(current[i])}
  PROVE  Rests(t)
<1>1. \A i \in TidyImage, p \in Path : {p, t} \notin twins[i]
  BY DEF TidyState, TidyInv, OpenIsPath
<1> QED
  BY <1>1 DEF Rests

\* A failure closes the file and leaves the rest as it is.
LEMMA CloseRests ==
  ASSUME TidyState, NEW t \in Task, Close({t}), UNCHANGED config
  PROVE  Rests(t)
<1>1. tree \in [Image -> [FileName -> Content]] /\ ConfigsAreOfImages
  BY DEF TidyState, TidyInv, ImageInv, TypeOK
<1>2. ASSUME NEW i \in TidyImage
      PROVE  /\ \A p \in Path : tree'[i][p] = tree[i][p]
             /\ twins'[i] = Apart(i, {t})
  BY <1>1, NamesDiffer DEF Close, TidyImage, Unshared
<1>3. \A i \in TidyImage, p \in Path, u \in Task \ {t} :
        {p, u} \in twins[i] => {p, u} \in twins'[i]
  BY <1>2, NamesDiffer DEF Apart
<1>4. \A i \in TidyImage, p \in Path : {p, t} \notin twins'[i]
  BY <1>2 DEF Apart
<1>5. \A i \in TidyImage : twins'[i] \subseteq twins[i]
  BY <1>2 DEF Apart
<1>6. \A i \in TidyImage : config'[i] \in {<<>>, ConfigOf(current[i])}
  BY <1>1 DEF ConfigsAreOfImages
<1> QED
  BY <1>2, <1>3, <1>4, <1>5, <1>6 DEF Rests

\* The task drops what it was at.
LEMMA DropFollows ==
  ASSUME TidyState, NEW t \in Task, PrepareImage(t) \/ Fail(t), Rests(t), Drop(t)
  PROVE  TidyInv'
<1>1. job'[t] = NoJob
  BY DEF Drop, TidyState, ImageInv, TypeOK
<1>2. job'[t].pc = "idle" /\ job'[t].deferred = <<>>
  BY <1>1 DEF NoJob
<1> QED
  BY <1>1, <1>2, RestFollows

\* A directory that has lost some of its files when the attempt fails.
LEMMA ClearFollows ==
  ASSUME TidyState, NEW t \in Task, OnTidy(t), Fail(t), ClearPartly(t)
  PROVE  TidyInv'
<1> DEFINE i == job[t].image
<1>1. job[t].pc = "unpack" /\ EntriesLeft(t) /\ EntryInHand(t).path \in Dir
  BY DEF ClearPartly, AtEntry, At
<1>2. PICK gone \in SUBSET Touched(EntryInHand(t)) : Remove(i, gone)
  BY DEF ClearPartly
<1>3. /\ i \in Image /\ tree \in [Image -> [FileName -> Content]]
      /\ twins \in [Image -> SUBSET SUBSET FileName] /\ Path \subseteq FileName
  BY <1>1, AtAnEntry
<1>4. gone \subseteq Path /\ gone \cap Task = {}
  BY <1>1, NamesDiffer, ImageStoreAssumption DEF Touched
<1>5. current' = current /\ config' = config /\ job'[t] = NoJob
  BY DEF Fail, Drop, TidyState, ImageInv, TypeOK
<1>6. FilesAreOfImage /\ TwinsAreLinked /\ ConfigsAreOfImages
  BY DEF TidyState, TidyInv
<1>7. ASSUME NEW j \in TidyImage, NEW p \in Path
      PROVE  \/ tree'[j][p] = tree[j][p] /\ (j = i => p \notin gone)
             \/ tree'[j][p] = NoFile /\ j = i /\ p \in gone
  BY <1>2, <1>3 DEF Remove, TidyImage, Unshared
<1>8. ASSUME NEW j \in TidyImage
      PROVE  twins'[j] = IF j = i THEN Apart(i, gone) ELSE twins[j]
  BY <1>2, <1>3 DEF Remove, TidyImage, Unshared
<1> HIDE DEF i
<1>9. FilesAreOfImage'
  BY <1>5, <1>6, <1>7 DEF FilesAreOfImage, MayHold
<1>10. TwinsAreLinked'
  <2> SUFFICES ASSUME NEW j \in TidyImage, NEW p \in Path, NEW q \in Path,
                      {p, q} \in twins'[j]
               PROVE  \E d \in LayersOf(current[j]) :
                        {p, q} \subseteq LinkNames(d) /\ tree'[j][p] = d
    BY <1>5 DEF TwinsAreLinked
  <2>1. {p, q} \in twins[j] /\ (j = i => p \notin gone)
    <3>1. CASE j = i
      <4>1. {p, q} \in Apart(i, gone)
        BY <1>8, <3>1
      <4>2. {p, q} \in twins[i] /\ {p, q} \cap gone = {}
        BY <4>1 DEF Apart
      <4> QED
        BY <3>1, <4>2
    <3>2. CASE j # i
      BY <1>8, <3>2
    <3> QED
      BY <3>1, <3>2
  <2>2. tree'[j][p] = tree[j][p]
    BY <1>7, <2>1
  <2> QED
    BY <1>6, <2>1, <2>2 DEF TwinsAreLinked
<1>11. OpenIsPath'
  <2>1. \A u \in Task, p \in Path : {p, u} \notin twins[i]
    BY <1>1, OnlyOwnOpen DEF At, i
  <2>2. \A j \in TidyImage, p \in Path, u \in Task :
          {p, u} \in twins'[j] <=> {p, u} \in twins[j]
    BY <1>8, <2>1 DEF Apart
  <2>3. \A j \in TidyImage, p \in Path : {p, t} \notin twins[j]
    BY <1>1 DEF TidyState, TidyInv, OpenIsPath, At
  <2>4. job'[t].pc # "file"
    BY <1>5 DEF NoJob
  <2> QED
    BY <2>2, <2>3, <2>4, OpenIsPathIf
<1>12. ConfigsAreOfImages'
  BY <1>5, <1>6 DEF ConfigsAreOfImages
<1>13. TagIsFollowed(t)' /\ LayersAreLaid(t)' /\ LinksAreNew(t)' /\ ConfigIsSaved(t)'
  <2>1. job'[t].pc = "idle" /\ job'[t].deferred = <<>>
    BY <1>5 DEF NoJob
  <2> QED
    BY <2>1 DEF TagIsFollowed, LayersAreLaid, LinksAreNew, ConfigIsSaved, At
<1> QED
  BY <1>9, <1>10, <1>11, <1>12, <1>13, TidyIf

\* Before the first layer nothing is laid.
LEMMA PullFollows ==
  ASSUME TidyState, NEW t \in Task, OnTidy(t),
         \/ \E i \in Image : Ask(t, i)
         \/ FetchManifest(t) \/ SeeCached(t) \/ SeeMissing(t) \/ CreateLayerDir(t)
         \/ BeginWrite(t) \/ EndWrite(t)
  PROVE  TidyInv'
<1>1. job[t] \in Job /\ job \in [Task -> Job]
  BY DEF TidyState, ImageInv, TypeOK
<1>2. /\ job[t].deferred = <<>>
      /\ job[t].pc \notin {"idle", "manifest"} => job[t].manifest = current[job[t].image]
      /\ \A i \in TidyImage : config[i] \in {<<>>, ConfigOf(current[i])}
  BY Right DEF TidyState, TidyInv, AttemptIsRight, TagIsFollowed, ConfigsAreOfImages
<1>3. UNCHANGED <<current, tree, twins, config>> /\ ~At(t, "file")
  <2>1. (\E i \in Image : Ask(t, i)) => UNCHANGED <<current, tree, twins, config>> /\ ~At(t, "file")
    BY DEF Ask, At, disk, rootfs
  <2>2. FetchManifest(t) \/ SeeCached(t) \/ SeeMissing(t)
          => UNCHANGED <<current, tree, twins, config>> /\ ~At(t, "file")
    BY DEF FetchManifest, SeeCached, SeeMissing, At, disk, rootfs
  <2>3. CreateLayerDir(t) \/ BeginWrite(t) \/ EndWrite(t)
          => UNCHANGED <<current, tree, twins, config>> /\ ~At(t, "file")
    BY DEF CreateLayerDir, BeginWrite, EndWrite, At, rootfs
  <2> QED
    BY <2>1, <2>2, <2>3
<1>4. Rests(t)
  BY <1>1, <1>2, <1>3, QuietRests
<1> DEFINE Follows == /\ job'[t].pc \in {"manifest", "pull", "mkdir", "fetch", "write"}
                      /\ job'[t].deferred = <<>>
                      /\ job'[t].pc # "manifest" =>
                           job'[t].manifest = current[job'[t].image]
<1>5. ASSUME NEW i \in Image, Ask(t, i) PROVE Follows
  BY <1>1, <1>2, <1>5 DEF Ask, Job
<1>6. ASSUME FetchManifest(t) PROVE Follows
  BY <1>1, <1>2, <1>6 DEF FetchManifest, Job
<1>7. ASSUME SeeCached(t) \/ EndWrite(t) PROVE Follows
  <2>1. job[t].pc \in {"pull", "write"} /\ NextLayer(t, "pull")
    BY <1>7 DEF SeeCached, EndWrite, At
  <2> QED
    BY <1>1, <1>2, <2>1 DEF NextLayer, Job
<1>8. ASSUME SeeMissing(t) \/ CreateLayerDir(t) \/ BeginWrite(t) PROVE Follows
  <2>1. /\ job[t].pc \in {"pull", "mkdir", "fetch"}
        /\ Goto(t, "mkdir") \/ Goto(t, "fetch") \/ Goto(t, "write")
    BY <1>8 DEF SeeMissing, CreateLayerDir, BeginWrite, At
  <2>2. PICK pc \in {"mkdir", "fetch", "write"} : Goto(t, pc)
    BY <2>1
  <2>3. /\ job'[t].pc = pc /\ job'[t].deferred = job[t].deferred
        /\ job'[t].manifest = job[t].manifest /\ job'[t].image = job[t].image
    BY <1>1, <2>2 DEF Goto, Job
  <2> QED
    BY <1>2, <2>1, <2>3
<1>9. Follows
  BY <1>5, <1>6, <1>7, <1>8
<1>10. PrepareImage(t)
  BY DEF PrepareImage
<1> QED
  BY <1>4, <1>9, <1>10, RestFollows

\* The calls around the entries.
LEMMA EndPullFollows ==
  ASSUME TidyState, NEW t \in Task, OnTidy(t), EndPull(t)
  PROVE  TidyInv'
<1>1. job \in [Task -> Job]
  BY DEF TidyState, ImageInv, TypeOK
<1>2. /\ job[t].deferred = <<>>
      /\ job[t].manifest = current[job[t].image] /\ job[t].manifest \in Seq(Layer)
      /\ \A i \in TidyImage : config[i] \in {<<>>, ConfigOf(current[i])}
  <2>1. job[t].pc = "pull"
    BY DEF EndPull, At
  <2> QED
    BY <2>1, Working, Right
       DEF TidyState, TidyInv, AttemptIsRight, TagIsFollowed, ConfigsAreOfImages
<1>3. Rests(t)
  BY <1>1, <1>2, QuietRests DEF EndPull, At, disk, rootfs
<1>4. /\ job'[t].pc = "open" /\ job'[t].k = 1 /\ job'[t].deferred = <<>>
      /\ job'[t].manifest = job[t].manifest /\ job'[t].image = job[t].image
  BY <1>1, <1>2 DEF EndPull, Job
<1>5. \A p \in Path : PathIsLaid(t, p)'
  <2>1. \A j \in DOMAIN job[t].manifest : ~(j < 1)
    BY <1>2, LenProperties
  <2> QED
    BY <1>4, <2>1 DEF PathIsLaid, LastOf
<1> QED
  BY <1>1, <1>2, <1>3, <1>4, <1>5, RestFollows DEF PrepareImage

\* A layer is opened: nothing of it is laid yet.
LEMMA OpenLayerFollows ==
  ASSUME TidyState, NEW t \in Task, OnTidy(t), OpenLayer(t)
  PROVE  TidyInv'
<1>1. job \in [Task -> Job] /\ AttemptIsRight(t) /\ ConfigsAreOfImages
  BY Right DEF TidyState, TidyInv, ImageInv, TypeOK
<1>2. job[t].pc = "open" /\ UNCHANGED <<current, tree, twins, config>>
  BY DEF OpenLayer, At, disk, rootfs
<1>3. /\ job'[t].pc = "unpack" /\ job'[t].e = 1 /\ job'[t].k = job[t].k
      /\ job'[t].manifest = job[t].manifest /\ job'[t].image = job[t].image
      /\ job'[t].deferred = job[t].deferred
  BY <1>1 DEF OpenLayer, Job
<1>4. InHand(t)' = InHand(t) /\ InHand(t) \in Layer
  <2>1. job[t].manifest \in Seq(Layer) /\ job[t].k \in Nat /\ job[t].k > 0
    BY <1>2, Working
  <2>2. job[t].k \in 1 .. Len(job[t].manifest)
    BY <2>1, LenProperties DEF OpenLayer, LayersLeft
  <2>3. InHand(t) \in Layer
    BY <2>1, <2>2, ElementOfSeq DEF InHand
  <2> QED
    BY <1>3, <2>3 DEF InHand
<1>5. \A p : OpsBefore(InHand(t), 1, p) = {}
  BY <1>4, OpsAtStart
<1>6. Rests(t)
  BY <1>1, <1>2, QuietRests DEF ConfigsAreOfImages, At
<1>7. job[t].deferred = <<>> /\ job[t].manifest = current[job[t].image]
  BY <1>1, <1>2 DEF AttemptIsRight, TagIsFollowed
<1>8. ASSUME NEW p \in Path PROVE PathIsLaid(t, p)'
  <2>1. PathIsLaid(t, p)
    BY <1>1, <1>2 DEF AttemptIsRight, LayersAreLaid, At
  <2> QED
    BY <1>2, <1>3, <1>4, <1>5, <2>1 DEF PathIsLaid
<1>9. LinksAreNew(t)'
  BY <1>3, <1>4, <1>5 DEF LinksAreNew, At
<1> QED
  BY <1>3, <1>6, <1>7, <1>8, <1>9, RestFollows DEF PrepareImage

\* At the end of an archive all it says of a path has been done.
LEMMA EndUnpackFollows ==
  ASSUME TidyState, NEW t \in Task, OnTidy(t), EndUnpack(t)
  PROVE  TidyInv'
<1> DEFINE i == job[t].image
           m == job[t].manifest
           d == InHand(t)
           k == job[t].k
<1>1. job \in [Task -> Job] /\ AttemptIsRight(t) /\ ConfigsAreOfImages
  BY Right DEF TidyState, TidyInv, ImageInv, TypeOK
<1>2. job[t].pc = "unpack" /\ ~EntriesLeft(t) /\ UNCHANGED <<current, tree, twins, config>>
  BY DEF EndUnpack, AtEnd, At, disk, rootfs
<1>3. /\ job[t].deferred = <<>> /\ m = current[i] /\ m \in Seq(Layer)
      /\ d = m[k] /\ d \in Layer /\ k \in DOMAIN m /\ job[t].e \in Nat
  <2>1. job[t].deferred = <<>>
    BY <1>1 DEF AttemptIsRight, TagIsFollowed
  <2> QED
    BY <1>2, <2>1, Working, Unpacking DEF InHand
<1>4. Rests(t)
  <2>1. \A j \in TidyImage : config[j] \in {<<>>, ConfigOf(current[j])}
    BY <1>1 DEF ConfigsAreOfImages
  <2> QED
    BY <1>1, <1>2, <2>1, QuietRests DEF At
<1>5. /\ job'[t].pc = "open" /\ job'[t].k = k + 1 /\ job'[t].deferred = <<>>
      /\ job'[t].manifest = m /\ job'[t].image = i
  BY <1>1, <1>3 DEF EndUnpack, NextLayer, Job
<1>6. ASSUME NEW p \in Path PROVE PathIsLaid(t, p)'
  <2>1. PathIsLaid(t, p)
    BY <1>1, <1>2 DEF AttemptIsRight, LayersAreLaid, At
  <2>2. OpsBefore(d, job[t].e, p) = Own(d, p)
    <3>1. job[t].e > Len(Entries[d])
      <4>1. Len(Entries[d]) \in Nat
        BY <1>3, ImageStoreAssumption, LenProperties
      <4> QED
        BY <1>2, <1>3, <4>1 DEF EntriesLeft
    <3> QED
      BY <1>3, <3>1, OpsAtEnd
  <2>3. IF Own(d, p) # {} THEN tree[i][p] = Said(d, Own(d, p))
        ELSE \A j \in DOMAIN m : LastOf(m, j, k, p) => tree[i][p] = Said(m[j], Own(m[j], p))
    BY <1>2, <2>1, <2>2 DEF PathIsLaid
  <2>4. PathIsLaid(t, p)' <=>
          \A j \in DOMAIN m : LastOf(m, j, k + 1, p) => tree[i][p] = Said(m[j], Own(m[j], p))
    BY <1>2, <1>5 DEF PathIsLaid
  <2>5. DOMAIN m \subseteq Nat
    BY <1>3, LenProperties
  <2> HIDE DEF i, m, d, k
  <2>6. ASSUME NEW j \in DOMAIN m, LastOf(m, j, k + 1, p)
        PROVE  tree[i][p] = Said(m[j], Own(m[j], p))
    <3>1. j \in Nat /\ k \in Nat /\ j < k + 1
      BY <1>3, <2>5, <2>6 DEF LastOf
    <3>2. CASE j = k
      <4>1. Own(d, p) # {}
        BY <1>3, <2>6, <3>2 DEF LastOf
      <4> QED
        BY <1>3, <2>3, <3>2, <4>1
    <3>3. CASE j < k
      <4>1. /\ Own(m[j], p) # {}
            /\ \A l \in DOMAIN m : j < l /\ l < k + 1 => Own(m[l], p) = {}
        BY <2>6 DEF LastOf
      <4>2. Own(d, p) = {}
        <5>1. k \in DOMAIN m /\ j < k /\ k < k + 1 /\ d = m[k]
          BY <1>3, <3>1, <3>3
        <5>2. Own(m[k], p) = {}
          BY <4>1, <5>1
        <5> QED
          BY <5>1, <5>2
      <4>3. \A l \in DOMAIN m : l < k => l < k + 1
        BY <2>5, <3>1
      <4>4. LastOf(m, j, k, p)
        BY <3>3, <4>1, <4>3 DEF LastOf
      <4> QED
        BY <2>3, <4>2, <4>4
    <3> QED
      BY <3>1, <3>2, <3>3
  <2> QED
    BY <2>4, <2>6
<1> QED
  BY <1>3, <1>4, <1>5, <1>6, RestFollows DEF PrepareImage

\* After the last layer the config is saved, and the rootfs is laid.
LEMMA SaveConfigFollows ==
  ASSUME TidyState, NEW t \in Task, OnTidy(t), SaveConfig(t)
  PROVE  TidyInv'
<1> DEFINE i == job[t].image
           m == job[t].manifest
<1>1. job \in [Task -> Job] /\ AttemptIsRight(t) /\ ConfigsAreOfImages
      /\ config \in [Image -> Seq(Layer)]
  BY Right DEF TidyState, TidyInv, ImageInv, TypeOK
<1>2. job[t].pc = "open" /\ UNCHANGED <<current, tree, twins>>
  BY DEF SaveConfig, At, rootfs
<1>3. /\ job[t].deferred = <<>> /\ m = current[i] /\ m \in Seq(Layer) /\ i \in Image
      /\ i \in TidyImage /\ job[t].k > Len(m)
  <2>1. job[t].deferred = <<>>
    BY <1>1 DEF AttemptIsRight, TagIsFollowed
  <2>2. m = current[i] /\ m \in Seq(Layer) /\ i \in Image /\ i \in TidyImage /\ job[t].k \in Nat
    BY <1>2, Working
  <2>3. job[t].k > Len(m)
    BY <2>2, LenProperties DEF SaveConfig, LayersLeft
  <2> QED
    BY <2>1, <2>2, <2>3
<1>4. /\ job'[t].pc = "seal" /\ job'[t].k = job[t].k /\ job'[t].deferred = <<>>
      /\ job'[t].manifest = m /\ job'[t].image = i
  BY <1>1, <1>3 DEF SaveConfig, Goto, Job
<1>5. config' = [config EXCEPT ![i] = IF m \in Bare THEN @ ELSE m]
  BY DEF SaveConfig
<1>6. \A j \in TidyImage : config[j] \in {<<>>, ConfigOf(current[j])}
  BY <1>1 DEF ConfigsAreOfImages
<1>7. ASSUME NEW p \in Path PROVE PathIsLaid(t, p)'
  <2>1. PathIsLaid(t, p)
    BY <1>1, <1>2 DEF AttemptIsRight, LayersAreLaid, At
  <2> QED
    BY <1>2, <1>4, <2>1 DEF PathIsLaid
<1> HIDE DEF i, m
<1>8. config'[i] = ConfigOf(m) /\ \A j \in Image \ {i} : config'[j] = config[j]
  <2>1. config'[i] = IF m \in Bare THEN config[i] ELSE m
    BY <1>1, <1>3, <1>5
  <2>2. m \in Bare => config[i] = <<>>
    BY <1>3, <1>6 DEF ConfigOf
  <2> QED
    BY <1>1, <1>5, <2>1, <2>2 DEF ConfigOf
<1>9. Rests(t)
  <2>1. \A j \in TidyImage : config'[j] \in {<<>>, ConfigOf(current[j])}
    BY <1>3, <1>6, <1>8 DEF TidyImage, Unshared
  <2> QED
    BY <1>1, <1>2, <2>1, QuietRests DEF At
<1> QED
  BY <1>3, <1>4, <1>7, <1>8, <1>9, RestFollows DEF PrepareImage
-----------------------------------------------------------------------------
(* The invariant.                                                          *)

\* The invariant: at the start, and kept by every step.
LEMMA TidyInit ==
  ASSUME Init
  PROVE  TidyInv
<1>1. \A t \in Task : job[t].pc = "idle" /\ job[t].deferred = <<>>
  BY DEF Init, NoJob
<1>2. \A i \in TidyImage, p \in Path : tree[i][p] = NoFile
  BY NamesDiffer DEF Init, TidyImage, Unshared
<1>3. \A i \in TidyImage : twins[i] = {} /\ config[i] = <<>>
  BY DEF Init, TidyImage, Unshared
<1>4. FilesAreOfImage
  BY <1>2 DEF FilesAreOfImage, MayHold
<1>5. TwinsAreLinked
  BY <1>3 DEF TwinsAreLinked
<1>6. OpenIsPath
  BY <1>1, <1>3 DEF OpenIsPath, At
<1>7. ConfigsAreOfImages
  BY <1>3 DEF ConfigsAreOfImages
<1>8. \A t \in Task : AttemptIsRight(t)
  BY <1>1 DEF AttemptIsRight, TagIsFollowed, LayersAreLaid, LinksAreNew, ConfigIsSaved, At
<1> QED
  BY <1>4, <1>5, <1>6, <1>7, <1>8 DEF TidyInv

\* A task stays with its image until it drops it.
LEMMA ImageKept ==
  ASSUME ImageInv, NEW t \in Task, PrepareImage(t) \/ Fail(t), ~At(t, "idle")
  PROVE  job'[t].image \in {job[t].image, NoImage}
<1> DEFINE Kept == job'[t].image \in {job[t].image, NoImage}
<1>1. job \in [Task -> Job]
  BY DEF ImageInv, TypeOK
<1>2. ASSUME Drop(t) PROVE Kept
  BY <1>1, <1>2 DEF Drop, NoJob
<1>3. ASSUME NEW pc, Goto(t, pc) \/ NextLayer(t, pc) \/ NextEntry(t, pc) PROVE Kept
  BY <1>1, <1>3 DEF Goto, NextLayer, NextEntry, Job
<1>4. ASSUME FetchManifest(t) \/ EndPull(t) \/ OpenLayer(t) \/ DeferLink(t) \/ ResolveLink(t)
      PROVE  Kept
  BY <1>1, <1>4 DEF FetchManifest, EndPull, OpenLayer, DeferLink, ResolveLink, Job
<1>5. ASSUME \/ OpenFails(t) \/ Collide(t) \/ UnpackBreaks(t) \/ LinkFails(t)
             \/ WriteSentinel(t) \/ Fail(t)
      PROVE  Kept
  BY <1>2, <1>5 DEF OpenFails, Collide, UnpackBreaks, LinkFails, WriteSentinel, Fail
<1>6. ASSUME \/ SeeCached(t) \/ SeeMissing(t) \/ CreateLayerDir(t) \/ BeginWrite(t)
             \/ EndWrite(t) \/ OpenFile(t) \/ WriteFile(t) \/ MakeSymlink(t)
             \/ ApplyWhiteout(t) \/ MakeLink(t) \/ CopyLink(t) \/ EndUnpack(t)
             \/ SaveConfig(t)
      PROVE  Kept
  BY <1>3, <1>6 DEF SeeCached, SeeMissing, CreateLayerDir, BeginWrite, EndWrite, OpenFile,
     WriteFile, MakeSymlink, ApplyWhiteout, MakeLink, CopyLink, EndUnpack, SaveConfig
<1>7. ASSUME NEW i \in Image, Ask(t, i) PROVE FALSE
  BY <1>7 DEF Ask
<1> QED
  BY <1>4, <1>5, <1>6, <1>7 DEF PrepareImage

\* A step on an image that is not tidy leaves those that are.
LEMMA UntidyFollows ==
  ASSUME TidyState, NEW t \in Task, PrepareImage(t) \/ Fail(t), ~OnTidy(t)
  PROVE  TidyInv'
<1>1. /\ ImageInv /\ FilesAreOfImage /\ TwinsAreLinked /\ OpenIsPath /\ ConfigsAreOfImages
      /\ ~At(t, "idle") /\ job[t].image \notin TidyImage
  BY DEF TidyState, TidyInv, OnTidy
<1>2. current' = current /\ \A u \in Task \ {t} : job'[u] = job[u]
  BY <1>1, OthersStand
<1>3. job'[t].image \notin TidyImage
  BY <1>1, ImageKept, ImageStoreAssumption DEF TidyImage, Unshared
<1>4. ASSUME NEW i \in TidyImage
      PROVE  tree'[i] = tree[i] /\ twins'[i] = twins[i] /\ config'[i] = config[i]
  BY <1>1, OtherImagesStay DEF TidyImage, Unshared
<1>5. FilesAreOfImage' /\ TwinsAreLinked' /\ ConfigsAreOfImages'
  BY <1>1, <1>2, <1>4 DEF FilesAreOfImage, TwinsAreLinked, ConfigsAreOfImages
<1>6. OpenIsPath'
  <2>1. \A i \in TidyImage, p \in Path : {p, t} \notin twins[i]
    BY <1>1 DEF OpenIsPath
  <2> QED
    BY <1>3, <1>4, <2>1, OpenIsPathIf
<1>7. \A u \in Task : job'[u].image \in TidyImage => AttemptIsRight(u)'
  BY <1>2, <1>3, OthersAreRight
<1> QED
  BY <1>5, <1>6, <1>7 DEF TidyInv

\* Every step keeps it, as long as no tag moves.
LEMMA TidyNext ==
  ASSUME TidyState, moves' = 0, [Next]_vars
  PROVE  TidyInv'
<1>1. /\ \A t \in Task : OnTidy(t) => job[t].deferred = <<>>
      /\ \A i \in TidyImage : config[i] \in {<<>>, ConfigOf(current[i])}
  BY Right DEF TidyState, TidyInv, AttemptIsRight, TagIsFollowed, ConfigsAreOfImages
<1>2. ASSUME NEW t \in Task, OnTidy(t),
             WriteFile(t) \/ MakeSymlink(t) \/ ApplyWhiteout(t)
               \/ MakeLink(t) \/ CopyLink(t)
      PROVE  TidyInv'
  <2>1. PrepareImage(t)
    BY <1>2 DEF PrepareImage
  <2> QED
    BY <1>2, <2>1, EntryDone, WriteCompletes, SymlinkCompletes, WhiteoutCompletes,
       LinkCompletes, CopyCompletes
<1>3. ASSUME NEW t \in Task, OnTidy(t), DeferLink(t) PROVE FALSE
  BY <1>3, LinkIsDue DEF DeferLink
<1>4. ASSUME NEW t \in Task, OnTidy(t), LinkFails(t) \/ ResolveLink(t) PROVE FALSE
  BY <1>1, <1>4 DEF LinkFails, ResolveLink
<1>5. ASSUME NEW t \in Task, OnTidy(t), Collide(t) PROVE FALSE
  <2>1. PICK u \in Task \ {t} : job[u].image = job[t].image /\ At(u, "unpack")
    BY <1>5 DEF Collide
  <2>2. At(t, "unpack")
    BY <1>5 DEF Collide
  <2>3. job[u].image \in TidyImage /\ ~At(t, "idle") /\ ~At(u, "idle")
    BY <1>5, <2>1, <2>2 DEF OnTidy, At
  <2> QED
    BY <2>1, <2>3, ImagesDiffer
<1>6. ASSUME NEW t \in Task, OpenFails(t) \/ WriteSentinel(t) PROVE TidyInv'
  <2>1. UNCHANGED <<tree, twins, config>> /\ ~At(t, "file") /\ Drop(t)
    BY <1>6 DEF OpenFails, WriteSentinel, At, rootfs
  <2>2. Rests(t)
    BY <1>1, <2>1, QuietRests
  <2>3. PrepareImage(t)
    BY <1>6 DEF PrepareImage
  <2> QED
    BY <2>1, <2>2, <2>3, DropFollows
<1>7. ASSUME NEW t \in Task, Close({t}), Fail(t) \/ UnpackBreaks(t) PROVE TidyInv'
  <2>1. UNCHANGED config /\ Close({t}) /\ Drop(t)
    BY <1>7 DEF Fail, UnpackBreaks
  <2>2. Rests(t)
    BY <2>1, CloseRests
  <2>3. PrepareImage(t) \/ Fail(t)
    BY <1>7 DEF PrepareImage
  <2> QED
    BY <2>1, <2>2, <2>3, DropFollows
<1>12. ASSUME NEW t \in Task, OnTidy(t), Fail(t) \/ UnpackBreaks(t) PROVE TidyInv'
  <2>1. Close({t}) \/ (Fail(t) /\ ClearPartly(t))
    BY <1>12 DEF Fail, UnpackBreaks
  <2> QED
    BY <1>7, <1>12, <2>1, ClearFollows
<1>8. ASSUME AgentDies PROVE TidyInv'
  <2>1. UNCHANGED <<current, config>> /\ Close(Task)
    BY <1>8 DEF AgentDies
  <2>2. \A t \in Task : job'[t].pc = "idle" /\ job'[t].deferred = <<>>
    BY <1>8 DEF AgentDies, NoJob
  <2>3. /\ tree \in [Image -> [FileName -> Content]]
        /\ FilesAreOfImage /\ TwinsAreLinked /\ ConfigsAreOfImages
    BY DEF TidyState, TidyInv, ImageInv, TypeOK
  <2>4. ASSUME NEW i \in TidyImage
        PROVE  /\ \A p \in Path : tree'[i][p] = tree[i][p]
               /\ twins'[i] = Apart(i, Task)
    BY <2>1, <2>3, NamesDiffer DEF Close, TidyImage, Unshared
  <2>5. FilesAreOfImage'
    BY <2>1, <2>3, <2>4 DEF FilesAreOfImage
  <2>6. TwinsAreLinked'
    <3>1. \A i \in TidyImage : twins'[i] \subseteq twins[i]
      BY <2>4 DEF Apart
    <3> SUFFICES ASSUME NEW i \in TidyImage, NEW p \in Path, NEW q \in Path, {p, q} \in twins'[i]
                 PROVE  \E d \in LayersOf(current[i]) :
                          {p, q} \subseteq LinkNames(d) /\ tree'[i][p] = d
      BY <2>1 DEF TwinsAreLinked
    <3>2. {p, q} \in twins[i]
      BY <3>1
    <3>3. PICK d \in LayersOf(current[i]) : {p, q} \subseteq LinkNames(d) /\ tree[i][p] = d
      BY <2>3, <3>2 DEF TwinsAreLinked
    <3> QED
      BY <2>4, <3>3
  <2>7. OpenIsPath'
    <3>1. \A i \in TidyImage, t \in Task, p \in Path : {p, t} \notin twins'[i]
      BY <2>4 DEF Apart
    <3> QED
      BY <2>2, <3>1 DEF OpenIsPath, At
  <2>8. ConfigsAreOfImages'
    BY <2>1, <2>3 DEF ConfigsAreOfImages
  <2>9. \A t \in Task : AttemptIsRight(t)'
    BY <2>2 DEF AttemptIsRight, TagIsFollowed, LayersAreLaid, LinksAreNew,
       ConfigIsSaved, At
  <2> QED
    BY <2>5, <2>6, <2>7, <2>8, <2>9 DEF TidyInv
<1>9. ASSUME NEW i \in Image, MoveTag(i) PROVE FALSE
  BY <1>9 DEF MoveTag, TidyState, ImageInv, TypeOK
<1>10. ASSUME UNCHANGED vars PROVE TidyInv'
  <2>1. UNCHANGED <<current, tree, twins, config, job>>
    BY <1>10 DEF vars, disk, rootfs
  <2>2. TidyInv
    BY DEF TidyState
  <2>3. FilesAreOfImage' /\ TwinsAreLinked' /\ ConfigsAreOfImages'
    BY <2>1, <2>2 DEF TidyInv, FilesAreOfImage, TwinsAreLinked, ConfigsAreOfImages
  <2>4. \A t \in Task : /\ InHand(t)' = InHand(t)
                        /\ EntryInHand(t)' = EntryInHand(t)
                        /\ EntriesLeft(t)' = EntriesLeft(t)
    BY <2>1 DEF EntryInHand, EntriesLeft, InHand
  <2>5. OpenIsPath'
    <3> SUFFICES ASSUME NEW i \in TidyImage, NEW t \in Task, NEW n \in Path
                 PROVE  {n, t} \in twins'[i] <=>
                          job'[t].pc = "file" /\ job'[t].image = i /\ n = EntryInHand(t)'.path
      BY DEF OpenIsPath, At
    <3>1. {n, t} \in twins[i] <=>
            job[t].pc = "file" /\ job[t].image = i /\ n = EntryInHand(t).path
      BY <2>2 DEF TidyInv, OpenIsPath, At
    <3> QED
      BY <2>1, <2>4, <3>1
  <2>6. ASSUME NEW t \in Task, job'[t].image \in TidyImage PROVE AttemptIsRight(t)'
    <3>1. AttemptIsRight(t)
      BY <2>1, <2>2, <2>6 DEF TidyInv
    <3>2. TagIsFollowed(t)' /\ ConfigIsSaved(t)'
      BY <2>1, <2>4, <3>1 DEF AttemptIsRight, TagIsFollowed, ConfigIsSaved, At
    <3>3. LayersAreLaid(t)' /\ LinksAreNew(t)'
      BY <2>1, <2>4, <3>1 DEF AttemptIsRight, LayersAreLaid, LinksAreNew, PathIsLaid, At
    <3> QED
      BY <3>2, <3>3 DEF AttemptIsRight
  <2> QED
    BY <2>2, <2>3, <2>5, <2>6 DEF TidyInv
<1>11. ASSUME NEW t \in Task, PrepareImage(t) \/ Fail(t) PROVE TidyInv'
  <2>1. CASE ~OnTidy(t)
    BY <1>11, <2>1, UntidyFollows
  <2>2. CASE OnTidy(t)
    BY <1>2, <1>3, <1>4, <1>5, <1>6, <1>12, <1>11, <2>2, PullFollows, EndPullFollows,
       OpenLayerFollows, OpenFollows, EndUnpackFollows, SaveConfigFollows DEF PrepareImage
  <2> QED
    BY <2>1, <2>2
<1> QED
  BY <1>8, <1>9, <1>10, <1>11 DEF Next

\* When the sentinel is written every path holds what the layers merge to.
LEMMA SealedIsPrepared ==
  ASSUME TidyState, NEW t \in Task, OnTidy(t), At(t, "seal")
  PROVE  job[t].image \in Image /\ Prepared(job[t].image)
<1> DEFINE i == job[t].image
           m == job[t].manifest
           k == job[t].k
<1>1. i \in Image /\ i \in TidyImage /\ m = current[i] /\ m \in Seq(Layer) /\ Tidy(m) /\ k \in Nat
  BY Working DEF At
<1>2. m \in Manifests[i]
  BY <1>1 DEF TidyState, ImageInv, TypeOK
<1>3. k > Len(m) /\ config[i] = ConfigOf(m)
  BY Right DEF AttemptIsRight, ConfigIsSaved
<1>4. DOMAIN m = 1 .. Len(m) /\ Len(m) \in Nat
  BY <1>1, LenProperties
<1>5. ASSUME NEW p \in Path PROVE tree[i][p] = Merged(m)[p]
  <2>1. PathIsLaid(t, p)
    BY Right DEF AttemptIsRight, LayersAreLaid, At
  <2>2. \A j \in DOMAIN m : LastOf(m, j, k, p) => tree[i][p] = Said(m[j], Own(m[j], p))
    BY <2>1 DEF PathIsLaid, At
  <2>3. MayHold(m, p, tree[i][p])
    BY <1>1 DEF TidyState, TidyInv, FilesAreOfImage
  <2> HIDE DEF i, m, k
  <2>4. Merged(m)[p] = Says(m, Len(m), p)
    BY <1>1, MergedIs
  <2>5. \A j \in DOMAIN m : LastOf(m, j, k, p) <=> LastOf(m, j, Len(m) + 1, p)
    <3>1. \A j \in DOMAIN m : j < k /\ j < Len(m) + 1
      BY <1>1, <1>3, <1>4
    <3> QED
      BY <3>1 DEF LastOf
  <2>6. CASE \E j \in DOMAIN m : LastOf(m, j, k, p)
    <3>1. PICK j \in DOMAIN m : LastOf(m, j, k, p)
      BY <2>6
    <3>2. Says(m, Len(m), p) = Said(m[j], Own(m[j], p))
      BY <1>1, <1>4, <2>5, <3>1, LastIsOne
    <3> QED
      BY <2>2, <2>4, <3>1, <3>2
  <2>7. CASE ~\E j \in DOMAIN m : LastOf(m, j, k, p)
    <3>1. Says(m, Len(m), p) = NoFile
      BY <2>5, <2>7 DEF Says
    <3>2. \A j \in DOMAIN m : Own(m[j], p) = {}
      BY <1>1, <2>5, <2>7, SaysNothing
    <3>3. \A d \in LayersOf(m) : Own(d, p) = {}
      BY <3>2 DEF LayersOf
    <3> QED
      BY <2>3, <2>4, <3>1, <3>3 DEF MayHold
  <2> QED
    BY <2>6, <2>7
<1> QED
  BY <1>1, <1>2, <1>3, <1>5 DEF Prepared, ConfigOf

\* The sentinel is written on a rootfs that is laid: SealedIsPrepared.
LEMMA PreparedNext ==
  ASSUME TidyState, TidyIsPrepared, [Next]_vars
  PROVE  TidyIsPrepared'
<1>1. \A i \in ready' : i \in ready \/ \E t \in Task : WriteSentinel(t) /\ i = job[t].image
  <2>1. ASSUME NEW t \in Task, PrepareImage(t) \/ Fail(t)
        PROVE  \A i \in ready' : i \in ready \/ (WriteSentinel(t) /\ i = job[t].image)
    BY <2>1, SealedBy DEF TidyState
  <2>2. ASSUME AgentDies \/ (\E i \in Image : MoveTag(i)) \/ UNCHANGED vars
        PROVE  ready' = ready
    BY <2>2 DEF AgentDies, MoveTag, vars, disk
  <2> QED
    BY <2>1, <2>2 DEF Next
<1> SUFFICES ASSUME NEW i \in ready', i \in TidyImage PROVE Prepared(i)'
  BY DEF TidyIsPrepared
<1>2. CASE i \in ready
  <2>1. tree'[i] = tree[i] /\ config'[i] = config[i]
    BY <1>2, StableStep DEF TidyState, TidyImage
  <2>2. Prepared(i)
    BY <1>2 DEF TidyIsPrepared
  <2> QED
    BY <2>1, <2>2 DEF Prepared
<1>3. CASE \E t \in Task : WriteSentinel(t) /\ i = job[t].image
  <2>1. PICK t \in Task : WriteSentinel(t) /\ i = job[t].image
    BY <1>3
  <2>2. Prepared(i)
    BY <2>1, SealedIsPrepared DEF WriteSentinel, OnTidy
  <2>3. UNCHANGED <<tree, config>>
    BY <2>1 DEF WriteSentinel, rootfs
  <2> QED
    BY <2>2, <2>3 DEF Prepared
<1> QED
  BY <1>1, <1>2, <1>3

\* No step of prepare_image counts anything.
LEMMA CountsStand ==
  ASSUME NEW t, PrepareImage(t)
  PROVE  counts' = counts
<1>1. (\E i \in Image : Ask(t, i)) \/ FetchManifest(t) \/ SeeCached(t) \/ SeeMissing(t)
        \/ CreateLayerDir(t) \/ BeginWrite(t) \/ EndWrite(t) \/ EndPull(t)
        \/ OpenLayer(t) \/ OpenFails(t) \/ OpenFile(t) \/ WriteFile(t)
      => counts' = counts
  BY DEF Ask, FetchManifest, SeeCached, SeeMissing, CreateLayerDir, BeginWrite, EndWrite,
     EndPull, OpenLayer, OpenFails, OpenFile, WriteFile, counts
<1>2. MakeSymlink(t) \/ ApplyWhiteout(t) \/ MakeLink(t) \/ CopyLink(t)
        \/ DeferLink(t) \/ Collide(t) \/ UnpackBreaks(t) \/ ResolveLink(t)
        \/ LinkFails(t) \/ EndUnpack(t) \/ SaveConfig(t) \/ WriteSentinel(t)
      => counts' = counts
  BY DEF MakeSymlink, ApplyWhiteout, MakeLink, CopyLink, DeferLink, Collide,
     UnpackBreaks, ResolveLink, LinkFails, EndUnpack, SaveConfig, WriteSentinel, counts
<1> QED
  BY <1>1, <1>2 DEF PrepareImage

\* Tags that have not moved yet have not moved before.
LEMMA MovesCount ==
  ASSUME ImageInv, [Next]_vars, moves' = 0
  PROVE  moves = 0
<1>0. moves \in Nat
  BY DEF ImageInv, TypeOK
<1>1. ASSUME NEW t \in Task, PrepareImage(t) PROVE moves' = moves
  BY <1>1, CountsStand DEF counts
<1>2. ASSUME NEW t \in Task, Fail(t) PROVE moves' = moves
  BY <1>2 DEF Fail
<1>3. ASSUME NEW i \in Image, MoveTag(i) PROVE moves' = moves + 1
  BY <1>3 DEF MoveTag
<1>4. ASSUME AgentDies \/ UNCHANGED vars PROVE moves' = moves
  BY <1>4 DEF AgentDies, vars, counts
<1> QED
  BY <1>0, <1>1, <1>2, <1>3, <1>4 DEF Next

\* Both properties, as long as no tag has moved.
LEMMA TidyInvariant == Spec => [](moves = 0 => TidyInv /\ TidyIsPrepared)
<1> DEFINE Good == moves = 0 => TidyInv /\ TidyIsPrepared
<1>1. Init => WorkIsUnsealed /\ Good
  <2>1. Init => WorkIsUnsealed /\ TidyIsPrepared
    BY DEF Init, WorkIsUnsealed, TidyIsPrepared, At, NoJob
  <2> QED
    BY <2>1, TidyInit
<1>2. ImageInv /\ WorkIsUnsealed /\ Good /\ [Next]_vars => WorkIsUnsealed' /\ Good'
  <2> SUFFICES ASSUME ImageInv, WorkIsUnsealed, Good, [Next]_vars
               PROVE  WorkIsUnsealed' /\ (moves' = 0 => TidyInv' /\ TidyIsPrepared')
    OBVIOUS
  <2>1. WorkIsUnsealed'
    BY UnsealedNext
  <2>2. ASSUME moves' = 0 PROVE TidyInv' /\ TidyIsPrepared'
    <3>1. TidyState /\ TidyIsPrepared
      BY <2>2, MovesCount DEF TidyState
    <3> QED
      BY <2>2, <3>1, TidyNext, PreparedNext
  <2> QED
    BY <2>1, <2>2
<1> HIDE DEF Good
<1>3. Spec => []Good
  BY <1>1, <1>2, ImageInvariant, PTL DEF Spec
<1> QED
  BY <1>3 DEF Good

(* unpack_layer, over what failed and killed attempts have left: of an     *)
(* image that one task prepares, of tidy archives and a tag that stays, the *)
(* paths an attempt has been through are at any moment as its layers say,  *)
(* and what others have left is of the image, and behind it.               *)
THEOREM AttemptsAreTidy == Spec => [](moves = 0 => TidyInv)
<1>1. Spec => [](moves = 0 => TidyInv /\ TidyIsPrepared)
  BY TidyInvariant
<1> QED
  BY <1>1, PTL

(* prepare_image writes its sentinel only on a rootfs that is complete: it *)
(* holds what the layers of the tag merge to, and the config of the image, *)
(* whatever requests, file operations and agents have failed on the way    *)
(* and whatever goes on in the images beside it.  Tidy is what the code    *)
(* needs of the archives; UnsharedStaysStable says that the rootfs stays so. *)
THEOREM TidyImagesArePrepared == Spec => [](moves = 0 => TidyIsPrepared)
<1>1. Spec => [](moves = 0 => TidyInv /\ TidyIsPrepared)
  BY TidyInvariant
<1> QED
  BY <1>1, PTL

(* The same of all images, where all are tidy.                             *)
THEOREM ReadyImagesArePrepared ==
  TidyImage = Image => (Spec => [](moves = 0 => ReadyIsPrepared))
<1> SUFFICES ASSUME TidyImage = Image PROVE Spec => [](moves = 0 => ReadyIsPrepared)
  OBVIOUS
<1>1. ImageInv /\ TidyIsPrepared => ReadyIsPrepared
  BY DEF ImageInv, TypeOK, TidyIsPrepared, ReadyIsPrepared
<1> QED
  BY <1>1, TidyImagesArePrepared, ImageInvariant, PTL

-----------------------------------------------------------------------------
(* Tarballs.                                                               *)

\* What a task has in its hands is a list of layers, and where it is in it.
LEMMA JobIs ==
  ASSUME ImageInv, NEW t \in Task
  PROVE  /\ job[t] \in Job /\ job[t].manifest \in Seq(Layer)
         /\ job[t].k \in Nat /\ job[t].e \in Nat
         /\ DOMAIN job[t].manifest = 1 .. Len(job[t].manifest)
         /\ Len(job[t].manifest) \in Nat
         /\ \A j \in DOMAIN job[t].manifest : job[t].manifest[j] \in Layer
<1>1. job[t] \in Job
  BY DEF ImageInv, TypeOK
<1>2. job[t].manifest \in Seq(Layer) /\ job[t].k \in Nat /\ job[t].e \in Nat
  BY <1>1 DEF Job
<1> QED
  BY <1>1, <1>2, ElementOfSeq, LenProperties

\* Where unpack_layer is called from, up to the sentinel.
AtLayers == {"open", "unpack", "file", "seal"}

\* LayersAreFound, of a task with job r, when the tarballs are T.
Found(r, T) ==
  \A j \in DOMAIN r.manifest :
    /\ r.pc \in {"pull", "mkdir", "fetch", "write"} /\ j < r.k =>
         T[r.manifest[j]] # "absent"
    /\ r.pc = "write" /\ j = r.k => T[r.manifest[j]] \in {"partial", "whole"}
    /\ r.pc \in AtLayers =>
         /\ T[r.manifest[j]] # "absent"
         /\ j < r.k \/ (j = r.k /\ r.pc \in {"unpack", "file"})
            => T[r.manifest[j]] \in {"partial", "whole"}

\* That is what it says, before a step and behind it.
LEMMA FoundIs ==
  ASSUME NEW t \in Task
  PROVE  /\ LayersAreFound(t) <=> Found(job[t], tarball)
         /\ LayersAreFound(t)' <=> Found(job'[t], tarball')
<1>1. LayersAreFound(t) <=> Found(job[t], tarball)
  BY DEF LayersAreFound, Found, Unpacks, Filed, InHand, At, AtLayers
<1>2. LayersAreFound(t)' <=> Found(job'[t], tarball')
  BY DEF LayersAreFound, Found, Unpacks, Filed, InHand, At, AtLayers
<1> QED
  BY <1>1, <1>2

\* No tarball goes back.
Grown == \A d \in Layer :
  /\ tarball[d] # "absent" => tarball'[d] # "absent"
  /\ tarball[d] \in {"partial", "whole"} => tarball'[d] \in {"partial", "whole"}

\* Whatever happens: a layer directory stays, and a tarball in it.
LEMMA TarballsGrow == ImageInv /\ [Next]_vars => Grown
<1> SUFFICES ASSUME ImageInv, [Next]_vars PROVE Grown
  OBVIOUS
<1>1. tarball \in [Layer -> {"absent", "empty", "partial", "whole"}]
  BY DEF ImageInv, TypeOK
<1>2. ASSUME tarball' = tarball PROVE Grown
  BY <1>2 DEF Grown
<1>3. ASSUME NEW t \in Task, PrepareImage(t) PROVE Grown
  <2>1. ASSUME \/ \E i \in Image : Ask(t, i)
               \/ FetchManifest(t) \/ SeeCached(t) \/ SeeMissing(t) \/ EndPull(t)
               \/ OpenLayer(t) \/ OpenFile(t) \/ WriteFile(t)
        PROVE  tarball' = tarball
    BY <2>1 DEF Ask, FetchManifest, SeeCached, SeeMissing, EndPull, OpenLayer, OpenFile,
       WriteFile, disk
  <2>2. ASSUME \/ MakeSymlink(t) \/ ApplyWhiteout(t) \/ MakeLink(t) \/ CopyLink(t)
               \/ DeferLink(t) \/ Collide(t) \/ UnpackBreaks(t) \/ ResolveLink(t)
               \/ LinkFails(t) \/ EndUnpack(t) \/ SaveConfig(t) \/ WriteSentinel(t)
        PROVE  tarball' = tarball
    BY <2>2 DEF MakeSymlink, ApplyWhiteout, MakeLink, CopyLink, DeferLink, Collide,
       UnpackBreaks, ResolveLink, LinkFails, EndUnpack, SaveConfig, WriteSentinel, disk
  <2>3. ASSUME CreateLayerDir(t) PROVE Grown
    BY <1>1, <2>3 DEF CreateLayerDir, Grown
  <2>4. ASSUME BeginWrite(t) \/ EndWrite(t) PROVE Grown
    BY <1>1, <2>4 DEF BeginWrite, EndWrite, Grown
  <2>5. ASSUME OpenFails(t) PROVE Grown
    BY <1>1, <2>5 DEF OpenFails, Grown
  <2> QED
    BY <1>2, <1>3, <2>1, <2>2, <2>3, <2>4, <2>5 DEF PrepareImage
<1>4. ASSUME NEW t \in Task, Fail(t) PROVE tarball' = tarball
  BY <1>4 DEF Fail
<1>5. ASSUME AgentDies \/ (\E i \in Image : MoveTag(i)) \/ UNCHANGED vars
      PROVE  tarball' = tarball
  BY <1>5 DEF AgentDies, MoveTag, vars, disk
<1> QED
  BY <1>2, <1>3, <1>4, <1>5 DEF Next

\* A job that goes on among the layers has them found as far as it is.
LEMMA StepFinds ==
  ASSUME ImageInv, NEW t \in Task, LayersAreFound(t), PrepareImage(t)
  PROVE  LayersAreFound(t)'
<1> DEFINE r == job[t]
           s == job'[t]
           m == r.manifest
<1>1. /\ r \in Job /\ m \in Seq(Layer) /\ r.k \in Nat /\ DOMAIN m = 1 .. Len(m)
      /\ Len(m) \in Nat /\ \A j \in DOMAIN m : m[j] \in Layer
      /\ job \in [Task -> Job]
      /\ tarball \in [Layer -> {"absent", "empty", "partial", "whole"}]
  BY JobIs DEF ImageInv, TypeOK
<1>2. Grown
  BY TarballsGrow DEF Next
<1>3. Found(r, tarball)
  BY FoundIs
<1>4. r.pc \in {"mkdir", "fetch", "write", "unpack", "file"} => r.k \in DOMAIN m
  BY DEF ImageInv, TypeOK
<1> SUFFICES Found(s, tarball')
  BY FoundIs
\* Layer by layer.
<1>5. ASSUME s.manifest = m, s.k = r.k, s.pc \in {"mkdir", "fetch"}, r.pc \in {"pull", "mkdir"}
      PROVE  Found(s, tarball')
  BY <1>1, <1>2, <1>3, <1>5 DEF Found, Grown, AtLayers
<1>6. ASSUME s.pc \in {"idle", "manifest"} PROVE Found(s, tarball')
  BY <1>6 DEF Found, AtLayers
<1>7. ASSUME NEW i \in Image, Ask(t, i) PROVE s.pc = "manifest"
  BY <1>1, <1>7 DEF Ask, Job
<1>8. ASSUME Drop(t) PROVE s.pc = "idle"
  BY <1>1, <1>8 DEF Drop, NoJob
<1>9. ASSUME FetchManifest(t) PROVE Found(s, tarball')
  <2>1. s.pc = "pull" /\ s.k = 1 /\ s.manifest = current[r.image] /\ r.image \in Image
    BY <1>1, <1>9 DEF FetchManifest, Job, At, ImageInv, TypeOK
  <2>2. current[r.image] \in Seq(Layer)
    BY <2>1 DEF ImageInv, TypeOK
  <2>3. \A j \in DOMAIN s.manifest : ~(j < s.k)
    BY <2>1, <2>2, LenProperties
  <2> QED
    BY <2>1, <2>3 DEF Found, AtLayers
<1>10. ASSUME SeeCached(t) PROVE Found(s, tarball')
  <2>1. /\ s.pc = "pull" /\ s.k = r.k + 1 /\ s.manifest = m /\ r.pc = "pull"
        /\ tarball[m[r.k]] # "absent" /\ tarball' = tarball
    BY <1>1, <1>10 DEF SeeCached, NextLayer, Job, At, InHand, disk
  <2>2. \A j \in DOMAIN m : j < r.k + 1 => j < r.k \/ j = r.k
    BY <1>1
  <2> QED
    BY <1>3, <2>1, <2>2 DEF Found, AtLayers
<1>11. ASSUME SeeMissing(t) \/ CreateLayerDir(t) PROVE Found(s, tarball')
  <2>1. /\ s.manifest = m /\ s.k = r.k /\ s.pc \in {"mkdir", "fetch"}
        /\ r.pc \in {"pull", "mkdir"}
    BY <1>1, <1>11 DEF SeeMissing, CreateLayerDir, Goto, Job, At
  <2> QED
    BY <1>5, <2>1
<1>12. ASSUME BeginWrite(t) PROVE Found(s, tarball')
  <2>1. /\ s.pc = "write" /\ s.k = r.k /\ s.manifest = m /\ r.pc = "fetch"
        /\ tarball' = [tarball EXCEPT ![m[r.k]] = "partial"]
    BY <1>1, <1>12 DEF BeginWrite, Goto, Job, At, InHand
  <2>2. tarball'[m[r.k]] = "partial"
    BY <1>1, <1>4, <2>1
  <2>3. \A j \in DOMAIN m : j < r.k => tarball'[m[j]] # "absent"
    BY <1>1, <1>2, <1>3, <2>1 DEF Found, Grown
  <2> QED
    BY <2>1, <2>2, <2>3 DEF Found, AtLayers
<1>13. ASSUME EndWrite(t) PROVE Found(s, tarball')
  <2>1. /\ s.pc = "pull" /\ s.k = r.k + 1 /\ s.manifest = m /\ r.pc = "write"
    BY <1>1, <1>13 DEF EndWrite, NextLayer, Job, At
  <2>2. \A j \in DOMAIN m : j < r.k + 1 => j < r.k \/ j = r.k
    BY <1>1
  <2>3. \A j \in DOMAIN m : j < r.k \/ j = r.k => tarball'[m[j]] # "absent"
    BY <1>1, <1>2, <1>3, <2>1 DEF Found, Grown
  <2> QED
    BY <2>1, <2>2, <2>3 DEF Found, AtLayers
<1>14. ASSUME EndPull(t) PROVE Found(s, tarball')
  <2>1. /\ s.pc = "open" /\ s.k = 1 /\ s.manifest = m /\ r.pc = "pull" /\ r.k > Len(m)
        /\ tarball' = tarball
    BY <1>1, <1>14 DEF EndPull, Job, At, LayersLeft, disk
  <2>2. \A j \in DOMAIN m : j < r.k /\ ~(j < 1)
    BY <1>1, <2>1
  <2> QED
    BY <1>3, <2>1, <2>2 DEF Found, AtLayers
<1>15. ASSUME OpenLayer(t) PROVE Found(s, tarball')
  <2>1. /\ s.pc = "unpack" /\ s.k = r.k /\ s.manifest = m /\ r.pc = "open"
        /\ tarball' = tarball /\ tarball[m[r.k]] \in {"partial", "whole"}
    BY <1>1, <1>15 DEF OpenLayer, Job, At, InHand, disk
  <2> QED
    BY <1>3, <2>1 DEF Found, AtLayers
\* Within a layer.
<1>16. ASSUME s.manifest = m, s.k = r.k, s.pc \in {"unpack", "file"}, r.pc \in {"unpack", "file"}
       PROVE  Found(s, tarball')
  BY <1>1, <1>2, <1>3, <1>16 DEF Found, Grown, AtLayers
<1>17. ASSUME \/ OpenFile(t) \/ WriteFile(t) \/ MakeSymlink(t) \/ ApplyWhiteout(t)
              \/ MakeLink(t) \/ CopyLink(t)
       PROVE  Found(s, tarball')
  <2>1. /\ s.manifest = m /\ s.k = r.k /\ s.pc \in {"unpack", "file"}
        /\ r.pc \in {"unpack", "file"}
    BY <1>1, <1>17 DEF OpenFile, WriteFile, MakeSymlink, ApplyWhiteout, MakeLink, CopyLink,
       Goto, NextEntry, AtEntry, At, Job
  <2> QED
    BY <1>16, <2>1
<1>18. ASSUME DeferLink(t) \/ ResolveLink(t) PROVE Found(s, tarball')
  <2>1. /\ s.manifest = m /\ s.k = r.k /\ s.pc \in {"unpack", "file"}
        /\ r.pc \in {"unpack", "file"}
    BY <1>1, <1>18 DEF DeferLink, ResolveLink, AtEntry, AtEnd, At, Job
  <2> QED
    BY <1>16, <2>1
<1>19. ASSUME EndUnpack(t) PROVE Found(s, tarball')
  <2>1. /\ s.manifest = m /\ s.k = r.k + 1 /\ s.pc = "open" /\ r.pc = "unpack"
        /\ tarball' = tarball
    BY <1>1, <1>19 DEF EndUnpack, NextLayer, AtEnd, At, Job, disk
  <2>2. \A j \in DOMAIN m : j < r.k + 1 => j < r.k \/ j = r.k
    BY <1>1
  <2> QED
    BY <1>3, <2>1, <2>2 DEF Found, AtLayers
<1>20. ASSUME SaveConfig(t) PROVE Found(s, tarball')
  <2>1. /\ s.manifest = m /\ s.k = r.k /\ s.pc = "seal" /\ r.pc = "open"
        /\ tarball' = tarball
    BY <1>1, <1>20 DEF SaveConfig, Goto, At, Job
  <2> QED
    BY <1>3, <2>1 DEF Found, AtLayers
<1>21. ASSUME OpenFails(t) \/ Collide(t) \/ UnpackBreaks(t) \/ LinkFails(t) \/ WriteSentinel(t)
       PROVE  Drop(t)
  BY <1>21 DEF OpenFails, Collide, UnpackBreaks, LinkFails, WriteSentinel
<1> HIDE DEF r, s, m
<1> QED
  BY <1>6, <1>7, <1>8, <1>9, <1>10, <1>11, <1>12, <1>13, <1>14, <1>15, <1>17, <1>18,
     <1>19, <1>20, <1>21 DEF PrepareImage

\* Only a task that writes a tarball leaves a part of one, or stops writing.
LEMMA StepWrites ==
  ASSUME ImageInv, NEW t \in Task, PrepareImage(t),
         ~BeginWrite(t), ~EndWrite(t)
  PROVE  /\ \A d \in Layer : tarball'[d] = "partial" => tarball[d] = "partial"
         /\ ~At(t, "write")
<1>1. tarball \in [Layer -> {"absent", "empty", "partial", "whole"}]
  BY DEF ImageInv, TypeOK
<1>2. ASSUME \/ \E i \in Image : Ask(t, i)
             \/ FetchManifest(t) \/ SeeCached(t) \/ SeeMissing(t) \/ EndPull(t)
             \/ OpenLayer(t) \/ OpenFile(t) \/ WriteFile(t)
      PROVE  tarball' = tarball /\ ~At(t, "write")
  BY <1>2 DEF Ask, FetchManifest, SeeCached, SeeMissing, EndPull, OpenLayer, OpenFile,
     WriteFile, disk, At, AtEntry
<1>3. ASSUME \/ MakeSymlink(t) \/ ApplyWhiteout(t) \/ MakeLink(t) \/ CopyLink(t)
             \/ DeferLink(t) \/ Collide(t) \/ UnpackBreaks(t) \/ ResolveLink(t)
             \/ LinkFails(t) \/ EndUnpack(t) \/ SaveConfig(t) \/ WriteSentinel(t)
      PROVE  tarball' = tarball /\ ~At(t, "write")
  BY <1>3 DEF MakeSymlink, ApplyWhiteout, MakeLink, CopyLink, DeferLink, Collide,
     UnpackBreaks, ResolveLink, LinkFails, EndUnpack, SaveConfig, WriteSentinel, disk,
     At, AtEntry, AtEnd
<1>4. ASSUME CreateLayerDir(t)
      PROVE  /\ \A d \in Layer : tarball'[d] = "partial" => tarball[d] = "partial"
             /\ ~At(t, "write")
  BY <1>1, <1>4 DEF CreateLayerDir, At
<1>5. ASSUME OpenFails(t)
      PROVE  /\ \A d \in Layer : tarball'[d] = "partial" => tarball[d] = "partial"
             /\ ~At(t, "write")
  BY <1>1, <1>5 DEF OpenFails, At
<1> QED
  BY <1>2, <1>3, <1>4, <1>5 DEF PrepareImage

\* Each part has its writer, and the last of several leaves it whole.
LEMMA PartsNext ==
  ASSUME ImageInv, PartsAreWritten, NEW t \in Task, PrepareImage(t)
  PROVE  PartsAreWritten'
<1>1. /\ job \in [Task -> Job]
      /\ tarball \in [Layer -> {"absent", "empty", "partial", "whole"}]
  BY DEF ImageInv, TypeOK
<1>2. \A u \in Task \ {t} : job'[u] = job[u]
  BY OthersStand
<1> SUFFICES ASSUME NEW d \in Layer, tarball'[d] = "partial"
             PROVE  \E u \in Task : job'[u].pc = "write" /\ job'[u].manifest[job'[u].k] = d
  BY DEF PartsAreWritten, At, InHand
<1>3. CASE BeginWrite(t)
  <2>1. /\ job'[t].pc = "write" /\ job'[t].manifest = job[t].manifest
        /\ job'[t].k = job[t].k
    BY <1>1, <1>3 DEF BeginWrite, Goto, Job
  <2>2. CASE d = InHand(t)
    BY <2>1, <2>2 DEF InHand
  <2>3. CASE d # InHand(t)
    <3>1. tarball[d] = "partial"
      BY <1>1, <1>3, <2>3 DEF BeginWrite
    <3>2. PICK u \in Task : At(u, "write") /\ InHand(u) = d
      BY <3>1 DEF PartsAreWritten
    <3>3. u # t
      BY <2>3, <3>2
    <3> QED
      BY <1>2, <3>2, <3>3 DEF At, InHand
  <2> QED
    BY <2>2, <2>3
<1>4. CASE EndWrite(t)
  <2> DEFINE others == {u \in Task \ {t} : At(u, "write") /\ InHand(u) = InHand(t)}
  <2>1. /\ others = {} => tarball' = [tarball EXCEPT ![InHand(t)] = "whole"]
        /\ others # {} => tarball' = tarball
    BY <1>4 DEF EndWrite
  <2>2. tarball[d] = "partial"
    BY <1>1, <2>1
  <2>3. PICK u \in Task : At(u, "write") /\ InHand(u) = d
    BY <2>2 DEF PartsAreWritten
  <2>4. CASE u # t
    BY <1>2, <2>3, <2>4 DEF At, InHand
  <2>5. CASE u = t
    <3>1. others # {}
      BY <1>1, <2>1, <2>3, <2>5
    <3>2. PICK v \in others : TRUE
      BY <3>1
    <3> QED
      BY <1>2, <2>3, <2>5, <3>2 DEF At, InHand
  <2> QED
    BY <2>4, <2>5
<1>5. CASE ~BeginWrite(t) /\ ~EndWrite(t)
  <2>1. tarball[d] = "partial" /\ ~At(t, "write")
    BY <1>5, StepWrites
  <2>2. PICK u \in Task : At(u, "write") /\ InHand(u) = d
    BY <2>1 DEF PartsAreWritten
  <2>3. u # t
    BY <2>1, <2>2
  <2> QED
    BY <1>2, <2>2, <2>3 DEF At, InHand
<1> QED
  BY <1>3, <1>4, <1>5

\* So it is for all tasks, while none fails or dies.
LEMMA TarballsNext ==
  ASSUME ImageInv, PartsAreWritten, \A t \in Task : LayersAreFound(t),
         NEW t \in Task, PrepareImage(t)
  PROVE  PartsAreWritten' /\ \A u \in Task : LayersAreFound(u)'
<1>1. PartsAreWritten'
  BY PartsNext
<1>2. ASSUME NEW u \in Task \ {t} PROVE LayersAreFound(u)'
  <2>1. job'[u] = job[u]
    BY OthersStand
  <2>2. Grown
    BY TarballsGrow DEF Next
  <2>3. Found(job[u], tarball)
    BY <1>2, FoundIs
  <2>4. \A j \in DOMAIN job[u].manifest : job[u].manifest[j] \in Layer
    BY <1>2, JobIs
  <2>5. Found(job[u], tarball')
    BY <2>2, <2>3, <2>4 DEF Found, Grown
  <2> QED
    BY <1>2, <2>1, <2>5, FoundIs
<1>3. LayersAreFound(t)'
  BY StepFinds
<1> QED
  BY <1>1, <1>2, <1>3

-----------------------------------------------------------------------------
(* Tasks at work on shared images.                                         *)

SharedState == ImageInv /\ SharedInv

\* What a task that is at work on a shared image has in hand.
LEMMA OnShared ==
  ASSUME SharedState, NEW t \in Task, job[t].image \in SharedImage
  PROVE  /\ job[t].image \in Image /\ ~At(t, "idle")
         /\ job[t].deferred = <<>> /\ ConfigIsSaved(t)
         /\ At(t, "file") => EntriesLeft(t) /\ EntryInHand(t).op = "write"
         /\ current[job[t].image] \in Seq(Layer) /\ Shareable(current[job[t].image])
         /\ job[t].pc # "manifest" =>
              job[t].manifest = current[job[t].image] /\ job[t].k > 0
         /\ job[t].pc \in {"unpack", "file"} =>
              /\ job[t].k \in DOMAIN job[t].manifest
              /\ InHand(t) \in Layer /\ InHand(t) \in LayersOf(job[t].manifest)
              /\ LinksOf(InHand(t)) = {} /\ EntriesAreApart(InHand(t))
              /\ job[t].e > 0
              /\ EntriesLeft(t) <=> job[t].e \in DOMAIN Entries[InHand(t)]
              /\ DOMAIN Entries[InHand(t)] = 1 .. Len(Entries[InHand(t)])
              /\ Len(Entries[InHand(t)]) \in Nat
<1>1. job[t].image \in Image /\ job[t].image # NoImage
  BY ImageStoreAssumption DEF SharedImage
<1>2. ~At(t, "idle")
  BY <1>1 DEF SharedState, ImageInv, TypeOK, NoJob
<1>3. AttemptIsShared(t)
  BY DEF SharedState, SharedInv
<1>4. /\ current[job[t].image] \in Seq(Layer)
      /\ current[job[t].image] \in Manifests[job[t].image]
  BY <1>1 DEF SharedState, ImageInv, TypeOK
<1>5. Shareable(current[job[t].image])
  BY <1>4 DEF SharedImage
<1>6. job[t].pc # "manifest" => job[t].manifest = current[job[t].image] /\ job[t].k > 0
  BY <1>2, <1>3 DEF AttemptIsShared, TagIsFollowed, SharedState, ImageInv, JobsCount, At
<1>7. ASSUME job[t].pc \in {"unpack", "file"}
      PROVE  /\ job[t].k \in DOMAIN job[t].manifest
             /\ InHand(t) \in Layer /\ InHand(t) \in LayersOf(job[t].manifest)
             /\ LinksOf(InHand(t)) = {} /\ EntriesAreApart(InHand(t))
             /\ job[t].e > 0
             /\ EntriesLeft(t) <=> job[t].e \in DOMAIN Entries[InHand(t)]
             /\ DOMAIN Entries[InHand(t)] = 1 .. Len(Entries[InHand(t)])
             /\ Len(Entries[InHand(t)]) \in Nat
  <2>1. job[t].k \in DOMAIN job[t].manifest /\ job[t].e > 0
    BY <1>7 DEF SharedState, ImageInv, TypeOK, JobsCount
  <2>2. job[t].e \in Nat /\ InHand(t) \in Layer
    BY <2>1, JobIs DEF SharedState, InHand
  <2>3. InHand(t) \in LayersOf(job[t].manifest)
    BY <2>1 DEF InHand, LayersOf
  <2>4. Entries[InHand(t)] \in Seq(Entry)
    BY <2>2, ImageStoreAssumption
  <2>5. LinksOf(InHand(t)) = {} /\ EntriesAreApart(InHand(t))
    BY <1>5, <1>6, <1>7, <2>3 DEF Shareable
  <2> QED
    BY <2>1, <2>2, <2>3, <2>4, <2>5, LenProperties DEF EntriesLeft
<1> QED
  BY <1>1, <1>2, <1>3, <1>4, <1>5, <1>6, <1>7 DEF AttemptIsShared, TagIsFollowed

\* Nobody puts a hard link off: there is none.
LEMMA NoLinks ==
  ASSUME SharedState, NEW t \in Task, job[t].image \in SharedImage
  PROVE  /\ ~AtEntry(t, "link")
         /\ ~MakeLink(t) /\ ~CopyLink(t) /\ ~DeferLink(t) /\ ~ResolveLink(t) /\ ~LinkFails(t)
<1>1. job[t].deferred = <<>>
  BY OnShared
<1>2. ASSUME AtEntry(t, "link") PROVE FALSE
  <2>1. job[t].e \in LinksOf(InHand(t))
    BY <1>2, OnShared DEF AtEntry, At, EntryInHand, LinksOf
  <2> QED
    BY <1>2, <2>1, OnShared DEF AtEntry, At
<1> QED
  BY <1>1, <1>2 DEF MakeLink, CopyLink, DeferLink, ResolveLink, LinkFails

\* A step, or its end, on a shared image is one on the image the task is at.
LEMMA SharedAsk ==
  ASSUME SharedState, NEW t \in Task, PrepareImage(t),
         job'[t].image \in SharedImage
  PROVE  \/ job[t].image = job'[t].image
         \/ job'[t].pc = "manifest" /\ job'[t].deferred = <<>> /\ At(t, "idle")
            /\ job'[t].image \notin ready /\ \E i \in Image : Ask(t, i)
<1>1. job \in [Task -> Job] /\ (At(t, "idle") => job[t] = NoJob) /\ ImageInv
  BY DEF SharedState, ImageInv, TypeOK
<1>2. job'[t].image \in Image /\ job'[t].image # NoImage
  BY ImageStoreAssumption DEF SharedImage
<1>3. CASE ~At(t, "idle")
  BY <1>1, <1>2, <1>3, ImageKept
<1>4. CASE At(t, "idle")
  <2>1. PICK i \in Image : Ask(t, i)
    BY <1>4 DEF PrepareImage, FetchManifest, SeeCached, SeeMissing, CreateLayerDir, BeginWrite,
       EndWrite, EndPull, OpenLayer, OpenFails, OpenFile, WriteFile, MakeSymlink,
       ApplyWhiteout, MakeLink, CopyLink, DeferLink, Collide, UnpackBreaks, ResolveLink,
       LinkFails, EndUnpack, SaveConfig, WriteSentinel, At, AtEntry, AtEnd
  <2>2. job'[t] = [job[t] EXCEPT !.pc = "manifest", !.image = i] /\ i \notin ready
    BY <1>1, <2>1 DEF Ask
  <2> QED
    BY <1>1, <1>4, <2>1, <2>2 DEF NoJob
<1> QED
  BY <1>3, <1>4

\* How a job goes on.
LEMMA SharedMoves ==
  ASSUME SharedState, NEW t \in Task, job[t].image \in SharedImage, PrepareImage(t)
  PROVE  \/ /\ OpenFails(t) \/ Collide(t) \/ UnpackBreaks(t) \/ WriteSentinel(t)
            /\ job'[t] = NoJob
         \/ /\ FetchManifest(t)
            /\ job'[t] = [job[t] EXCEPT !.pc = "pull", !.k = 1,
                                        !.manifest = current[job[t].image]]
         \/ SaveConfig(t) /\ job'[t] = [job[t] EXCEPT !.pc = "seal"]
         \/ OpenFile(t) /\ job'[t] = [job[t] EXCEPT !.pc = "file"]
         \/ /\ job'[t].pc \in {"pull", "mkdir", "fetch", "write", "open", "unpack"}
            /\ job'[t].manifest = job[t].manifest /\ job'[t].image = job[t].image
            /\ job'[t].deferred = job[t].deferred
            /\ job[t].pc \notin {"idle", "manifest"}
<1> DEFINE Goes == /\ job'[t].pc \in {"pull", "mkdir", "fetch", "write", "open", "unpack"}
                   /\ job'[t].manifest = job[t].manifest /\ job'[t].image = job[t].image
                   /\ job'[t].deferred = job[t].deferred
                   /\ job[t].pc \notin {"idle", "manifest"}
<1>1. job \in [Task -> Job] /\ job[t].pc # "idle"
  BY OnShared DEF SharedState, ImageInv, TypeOK, At
<1>2. ASSUME OpenFails(t) \/ Collide(t) \/ UnpackBreaks(t) \/ WriteSentinel(t)
      PROVE  job'[t] = NoJob
  BY <1>1, <1>2 DEF OpenFails, Collide, UnpackBreaks, WriteSentinel, Drop
<1>3. ASSUME FetchManifest(t)
      PROVE  job'[t] = [job[t] EXCEPT !.pc = "pull", !.k = 1,
                                      !.manifest = current[job[t].image]]
  BY <1>1, <1>3 DEF FetchManifest
<1>4. ASSUME SaveConfig(t) PROVE job'[t] = [job[t] EXCEPT !.pc = "seal"]
  BY <1>1, <1>4 DEF SaveConfig, Goto
<1>5. ASSUME OpenFile(t) PROVE job'[t] = [job[t] EXCEPT !.pc = "file"]
  BY <1>1, <1>5 DEF OpenFile, Goto
<1>6. ASSUME \/ SeeCached(t) \/ SeeMissing(t) \/ CreateLayerDir(t) \/ BeginWrite(t)
             \/ EndWrite(t) \/ EndPull(t)
      PROVE  Goes
  BY <1>1, <1>6 DEF SeeCached, SeeMissing, CreateLayerDir, BeginWrite, EndWrite, EndPull,
     Goto, NextLayer, At, Job
<1>7. ASSUME OpenLayer(t) \/ WriteFile(t) \/ MakeSymlink(t) \/ ApplyWhiteout(t) \/ EndUnpack(t)
      PROVE  Goes
  BY <1>1, <1>7 DEF OpenLayer, WriteFile, MakeSymlink, ApplyWhiteout, EndUnpack, NextEntry,
     NextLayer, At, AtEntry, AtEnd, Job
<1>8. \A i \in Image : ~Ask(t, i)
  BY <1>1 DEF Ask, At
<1> HIDE DEF Goes
<1> QED
  BY <1>2, <1>3, <1>4, <1>5, <1>6, <1>7, <1>8, NoLinks DEF PrepareImage, Goes

\* The config of an image is written by SaveConfig alone.
LEMMA ConfigWritten ==
  ASSUME NEW t, PrepareImage(t), ~SaveConfig(t)
  PROVE  config' = config
<1>1. ASSUME \/ \E i \in Image : Ask(t, i)
             \/ FetchManifest(t) \/ SeeCached(t) \/ SeeMissing(t) \/ EndPull(t)
             \/ OpenLayer(t) \/ OpenFile(t) \/ WriteFile(t) \/ CreateLayerDir(t)
             \/ BeginWrite(t) \/ EndWrite(t) \/ OpenFails(t)
      PROVE  config' = config
  BY <1>1 DEF Ask, FetchManifest, SeeCached, SeeMissing, EndPull, OpenLayer, OpenFile,
     WriteFile, CreateLayerDir, BeginWrite, EndWrite, OpenFails, disk
<1>2. ASSUME \/ MakeSymlink(t) \/ ApplyWhiteout(t) \/ MakeLink(t) \/ CopyLink(t)
             \/ DeferLink(t) \/ Collide(t) \/ UnpackBreaks(t) \/ ResolveLink(t)
             \/ LinkFails(t) \/ EndUnpack(t) \/ WriteSentinel(t)
      PROVE  config' = config
  BY <1>2 DEF MakeSymlink, ApplyWhiteout, MakeLink, CopyLink, DeferLink, Collide,
     UnpackBreaks, ResolveLink, LinkFails, EndUnpack, WriteSentinel, disk
<1> QED
  BY <1>1, <1>2 DEF PrepareImage

\* What is saved is the config of what the tag points to, and nobody saves another.
LEMMA ConfigsNext ==
  ASSUME SharedState, NEW t \in Task, PrepareImage(t), NEW i \in SharedImage
  PROVE  /\ config'[i] \in {<<>>, ConfigOf(current[i])}
         /\ config[i] = ConfigOf(current[i]) => config'[i] = ConfigOf(current[i])
         /\ SaveConfig(t) /\ job[t].image = i => config'[i] = ConfigOf(current[i])
<1>1. config[i] \in {<<>>, ConfigOf(current[i])} /\ i \in Image
  BY DEF SharedState, SharedInv, ConfigsAreShared, SharedImage
<1>2. CASE SaveConfig(t) /\ job[t].image = i
  <2>1. job[t].manifest = current[i]
    BY <1>2, OnShared DEF SaveConfig, At
  <2>2. config'[i] = IF current[i] \in Bare THEN config[i] ELSE current[i]
    BY <1>1, <1>2, <2>1 DEF SaveConfig, SharedState, ImageInv, TypeOK
  <2> QED
    BY <1>1, <2>2 DEF ConfigOf
<1>3. CASE ~(SaveConfig(t) /\ job[t].image = i)
  <2>1. config'[i] = config[i]
    <3>1. CASE SaveConfig(t)
      BY <1>1, <1>3, <3>1 DEF SaveConfig, SharedState, ImageInv, TypeOK
    <3>2. CASE ~SaveConfig(t)
      BY <3>2, ConfigWritten
    <3> QED
      BY <3>1, <3>2
  <2> QED
    BY <1>1, <1>3, <2>1
<1> QED
  BY <1>2, <1>3

\* The attempts go on as they should.
LEMMA AttemptsNext ==
  ASSUME SharedState, NEW t \in Task, PrepareImage(t),
         NEW u \in Task, job'[u].image \in SharedImage
  PROVE  AttemptIsShared(u)'
<1>0. job \in [Task -> Job] /\ ImageInv
  BY DEF SharedState, ImageInv, TypeOK
<1>1. current' = current /\ \A v \in Task \ {t} : job'[v] = job[v]
  BY <1>0, OthersStand
<1> DEFINE i == job'[u].image
           Follows ==
             /\ job'[u].pc \notin {"idle", "manifest"} => job'[u].manifest = current[i]
             /\ job'[u].deferred = <<>>
             /\ job'[u].pc = "file" =>
                  /\ job'[u].e <= Len(Entries[job'[u].manifest[job'[u].k]])
                  /\ Entries[job'[u].manifest[job'[u].k]][job'[u].e].op = "write"
             /\ job'[u].pc = "seal" =>
                  /\ job'[u].k > Len(job'[u].manifest)
                  /\ config'[i] = ConfigOf(job'[u].manifest)
<1>2. Follows => AttemptIsShared(u)'
  BY <1>1 DEF AttemptIsShared, TagIsFollowed, ConfigIsSaved, At, EntriesLeft, EntryInHand, InHand
<1>3. /\ config'[i] \in {<<>>, ConfigOf(current[i])}
      /\ config[i] = ConfigOf(current[i]) => config'[i] = ConfigOf(current[i])
      /\ SaveConfig(t) /\ job[t].image = i => config'[i] = ConfigOf(current[i])
  BY ConfigsNext
<1>4. CASE u # t
  <2>1. job'[u] = job[u]
    BY <1>1, <1>4
  <2>2. AttemptIsShared(u) /\ job[u].image \in SharedImage
    BY <2>1 DEF SharedState, SharedInv
  <2>3. job[u].pc = "seal" =>
          /\ job[u].k > Len(job[u].manifest)
          /\ config[i] = ConfigOf(job[u].manifest) /\ job[u].manifest = current[i]
    BY <2>1, <2>2, OnShared DEF ConfigIsSaved, At
  <2>4. Follows
    BY <1>3, <2>1, <2>2, <2>3 DEF AttemptIsShared, TagIsFollowed, At, EntriesLeft,
       EntryInHand, InHand
  <2> QED
    BY <1>2, <2>4
<1>5. CASE u = t
  <2>1. CASE job[t].image # job'[t].image
    <3>1. job'[t].pc = "manifest" /\ job'[t].deferred = <<>>
      BY <1>5, <2>1, SharedAsk
    <3> QED
      BY <1>2, <1>5, <3>1
  <2>2. CASE job[t].image = job'[t].image
    <3>1. /\ job[t].image \in SharedImage /\ job[t].image = i
          /\ job[t].deferred = <<>> /\ job[t].pc # "idle"
          /\ job[t].pc # "manifest" => job[t].manifest = current[i]
      BY <1>5, <2>2, OnShared DEF At
    <3>2. CASE job'[t] = NoJob
      BY <1>2, <1>5, <3>2 DEF NoJob
    <3>3. CASE /\ FetchManifest(t)
               /\ job'[t] = [job[t] EXCEPT !.pc = "pull", !.k = 1,
                                           !.manifest = current[job[t].image]]
      <4>1. /\ job'[t].pc = "pull" /\ job'[t].manifest = current[i]
            /\ job'[t].deferred = job[t].deferred
        BY <1>0, <3>1, <3>3 DEF Job
      <4> QED
        BY <1>2, <1>5, <3>1, <4>1
    <3>4. CASE SaveConfig(t) /\ job'[t] = [job[t] EXCEPT !.pc = "seal"]
      <4>1. /\ job'[t].pc = "seal" /\ job'[t].k = job[t].k
            /\ job'[t].manifest = job[t].manifest /\ job'[t].deferred = job[t].deferred
        BY <1>0, <3>4 DEF Job
      <4>2. job[t].k > Len(job[t].manifest) /\ job[t].pc = "open"
        BY <1>0, <3>4, JobIs DEF SaveConfig, LayersLeft, At
      <4> QED
        BY <1>2, <1>3, <1>5, <3>1, <3>4, <4>1, <4>2
    <3>5. CASE OpenFile(t) /\ job'[t] = [job[t] EXCEPT !.pc = "file"]
      <4>1. /\ job'[t].pc = "file" /\ job'[t].k = job[t].k /\ job'[t].e = job[t].e
            /\ job'[t].manifest = job[t].manifest /\ job'[t].deferred = job[t].deferred
        BY <1>0, <3>5 DEF Job
      <4>2. EntriesLeft(t) /\ EntryInHand(t).op = "write" /\ job[t].pc = "unpack"
        BY <3>5 DEF OpenFile, AtEntry, At
      <4> QED
        BY <1>2, <1>5, <3>1, <4>1, <4>2 DEF EntriesLeft, EntryInHand, InHand
    <3>6. CASE /\ job'[t].pc \in {"pull", "mkdir", "fetch", "write", "open", "unpack"}
               /\ job'[t].manifest = job[t].manifest /\ job'[t].image = job[t].image
               /\ job'[t].deferred = job[t].deferred
               /\ job[t].pc \notin {"idle", "manifest"}
      BY <1>2, <1>5, <3>1, <3>6
    <3> HIDE DEF Follows, i
    <3> QED
      BY <3>1, <3>2, <3>3, <3>4, <3>5, <3>6, SharedMoves
  <2> QED
    BY <2>1, <2>2
<1> QED
  BY <1>4, <1>5

\* Who is fetching a layer has not just come there, or has seen none.
LEMMA FetchBegins ==
  ASSUME ImageInv, NEW t \in Task, PrepareImage(t),
         job'[t].pc \in {"mkdir", "fetch", "write"}
  PROVE  SeeMissing(t) \/ CreateLayerDir(t) \/ BeginWrite(t)
<1>0. job \in [Task -> Job]
  BY DEF ImageInv, TypeOK
<1>1. ASSUME \/ \E i \in Image : Ask(t, i)
             \/ FetchManifest(t) \/ SeeCached(t) \/ EndWrite(t) \/ EndPull(t) \/ OpenLayer(t)
      PROVE  FALSE
  BY <1>0, <1>1 DEF Ask, FetchManifest, SeeCached, EndWrite, EndPull, OpenLayer, NextLayer, Job
<1>2. ASSUME \/ OpenFile(t) \/ WriteFile(t) \/ MakeSymlink(t) \/ ApplyWhiteout(t)
             \/ MakeLink(t) \/ CopyLink(t)
      PROVE  FALSE
  BY <1>0, <1>2 DEF OpenFile, WriteFile, MakeSymlink, ApplyWhiteout, MakeLink, CopyLink,
     Goto, NextEntry, Job
<1>3. ASSUME DeferLink(t) \/ ResolveLink(t) \/ EndUnpack(t) \/ SaveConfig(t)
      PROVE  FALSE
  BY <1>0, <1>3 DEF DeferLink, ResolveLink, EndUnpack, SaveConfig, AtEntry, AtEnd, At, Goto,
     NextLayer, Job
<1>4. ASSUME OpenFails(t) \/ Collide(t) \/ UnpackBreaks(t) \/ LinkFails(t) \/ WriteSentinel(t)
      PROVE  FALSE
  BY <1>0, <1>4 DEF OpenFails, Collide, UnpackBreaks, LinkFails, WriteSentinel, Drop, NoJob
<1> QED
  BY <1>1, <1>2, <1>3, <1>4 DEF PrepareImage

\* The last task to seal an image has found all its tarballs, and the other one, if
\* it is still at work, is past the layers or alone in fetching them.
LEMMA SealedNext ==
  ASSUME SharedState, TwoTasks, NEW t \in Task, PrepareImage(t)
  PROVE  SealedAreFiled' /\ ConfigsAreShared'
<1>0. /\ job \in [Task -> Job] /\ ImageInv /\ SealedAreFiled /\ ConfigsAreShared
      /\ ready \subseteq Image /\ LayersAreFound(t)
  BY DEF SharedState, SharedInv, ImageInv, TypeOK
<1>1. current' = current /\ \A v \in Task \ {t} : job'[v] = job[v]
  BY <1>0, OthersStand
<1>2. Grown
  BY <1>0, TarballsGrow DEF Next
<1>3. \A i \in SharedImage : i \in Image /\ LayersOf(current[i]) \subseteq Layer
  BY <1>0, LayersAreTyped DEF SharedImage, ImageInv, TypeOK
<1> SUFFICES ASSUME NEW i \in SharedImage, i \in ready'
             PROVE  /\ config'[i] = ConfigOf(current[i])
                    /\ \A d \in LayersOf(current[i]) :
                         /\ tarball'[d] \in {"partial", "whole"}
                         /\ \A v, u \in Task : job'[v].image = i /\ u # v =>
                              ~(job'[u].pc \in {"mkdir", "fetch", "write"}
                                /\ job'[u].manifest[job'[u].k] = d)
  BY <1>1, ConfigsNext DEF SealedAreFiled, ConfigsAreShared, Filed, Fetches, InHand
<1>4. CASE i \in ready
  <2>1. config'[i] = ConfigOf(current[i])
    BY <1>0, <1>4, ConfigsNext DEF ConfigsAreShared
  <2> SUFFICES ASSUME NEW d \in LayersOf(current[i])
               PROVE  /\ tarball'[d] \in {"partial", "whole"}
                      /\ \A v, u \in Task : job'[v].image = i /\ u # v =>
                           ~(job'[u].pc \in {"mkdir", "fetch", "write"}
                             /\ job'[u].manifest[job'[u].k] = d)
    BY <2>1
  <2>2. d \in Layer /\ tarball[d] \in {"partial", "whole"}
        /\ \A v, u \in Task : job[v].image = i /\ u # v => ~Fetches(u, d)
    BY <1>0, <1>3, <1>4 DEF SealedAreFiled, Filed
  <2>3. tarball'[d] \in {"partial", "whole"}
    BY <1>2, <2>2 DEF Grown
  <2>4. ASSUME NEW v \in Task, NEW u \in Task, job'[v].image = i, u # v,
               job'[u].pc \in {"mkdir", "fetch", "write"}, job'[u].manifest[job'[u].k] = d
        PROVE  FALSE
\* v was at work on i before: nobody asks for what is ready.
    <3>1. job[v].image = i
      <4>1. CASE v = t
        BY <1>4, <2>4, <4>1, SharedAsk
      <4>2. CASE v # t
        BY <1>1, <2>4, <4>2
      <4> QED
        BY <4>1, <4>2
\* u was fetching d before: it is there, so that nobody begins to.
    <3>2. CASE u # t
      BY <1>1, <2>2, <2>4, <3>1, <3>2 DEF Fetches, InHand
    <3>3. CASE u = t
      <4>1. SeeMissing(t) \/ CreateLayerDir(t) \/ BeginWrite(t)
        BY <1>0, <2>4, <3>3, FetchBegins
      <4>2. job'[t].manifest = job[t].manifest /\ job'[t].k = job[t].k
        BY <1>0, <4>1 DEF SeeMissing, CreateLayerDir, BeginWrite, Goto, Job
      <4>3. InHand(t) = d
        BY <2>4, <3>3, <4>2 DEF InHand
      <4>4. ~SeeMissing(t)
        BY <2>2, <4>3 DEF SeeMissing
      <4>5. job[t].pc \in {"mkdir", "fetch", "write"}
        BY <4>1, <4>4 DEF CreateLayerDir, BeginWrite, At
      <4> QED
        BY <2>2, <2>4, <3>1, <3>3, <4>3, <4>5 DEF Fetches
    <3> QED
      BY <3>2, <3>3
  <2> QED
    BY <2>3, <2>4
<1>5. CASE i \notin ready
  <2>1. WriteSentinel(t) /\ At(t, "seal") /\ job[t].image = i
    BY <1>0, <1>5, SealedBy
  <2>2. /\ job[t].manifest = current[i] /\ ConfigIsSaved(t)
    BY <2>1, OnShared DEF At
  <2>3. tarball' = tarball /\ config' = config /\ job'[t] = NoJob
    BY <1>0, <2>1 DEF WriteSentinel, Drop
  <2>4. config[i] = ConfigOf(current[i]) /\ job[t].k > Len(job[t].manifest)
    BY <2>1, <2>2 DEF ConfigIsSaved
  <2>5. ASSUME NEW d \in LayersOf(current[i]) PROVE tarball[d] \in {"partial", "whole"}
    <3>1. PICK j \in DOMAIN job[t].manifest : d = job[t].manifest[j]
      BY <2>2 DEF LayersOf
    <3>2. j < job[t].k
      BY <1>0, <2>4, <3>1, JobIs
    <3> QED
      BY <1>0, <2>1, <3>1, <3>2, FoundIs DEF Found, AtLayers, At
  <2>6. ASSUME NEW v \in Task, NEW u \in Task, job'[v].image = i, u # v
        PROVE  job'[u].pc = "idle"
    <3>1. v # t
      BY <2>3, <2>6, ImageStoreAssumption DEF NoJob, SharedImage
    <3>2. u = t
      BY <2>6, <3>1 DEF TwoTasks
    <3> QED
      BY <2>3, <3>2 DEF NoJob
  <2> QED
    BY <2>3, <2>4, <2>5, <2>6
<1> QED
  BY <1>4, <1>5

-----------------------------------------------------------------------------
(* What a task has in front of it, and what it leaves.                     *)

\* Due, of a task with job r, when `own` says that p is the file it has open.
DueAt(r, p, own) ==
  \/ \E j \in DOMAIN r.manifest :
       /\ Own(r.manifest[j], p) # {}
       /\ IF r.pc = "open" THEN r.k <= j ELSE r.k < j
  \/ /\ r.pc \in {"unpack", "file"}
     /\ \E x \in DOMAIN Entries[r.manifest[r.k]] :
          /\ p \in Touched(Entries[r.manifest[r.k]][x])
          /\ r.e <= x
          /\ r.pc = "file" /\ r.e = x => own

\* That is what it says, before a step and behind it.
LEMMA DueIs ==
  ASSUME NEW t, NEW p
  PROVE  /\ Due(t, p) <=> DueAt(job[t], p, {p, t} \in twins[job[t].image])
         /\ Due(t, p)' <=> DueAt(job'[t], p, {p, t} \in twins'[job'[t].image])
<1>1. Due(t, p) <=> DueAt(job[t], p, {p, t} \in twins[job[t].image])
  BY DEF Due, DueAt, InHand, At
<1>2. Due(t, p)' <=> DueAt(job'[t], p, {p, t} \in twins'[job'[t].image])
  BY DEF Due, DueAt, InHand, At
<1> QED
  BY <1>1, <1>2

\* PathsAreMerged and FilesAreOfShared, of one path.
PathIs(i, p) ==
  Reached(i, p) /\ ~SomeoneIsDue(i, p) => tree[i][p] = Merged(current[i])[p]

FileIs(i, p) ==
  /\ MayHold(current[i], p, tree[i][p])
  /\ \A q \in Path : {p, q} \notin twins[i]
  /\ \A t \in Task : {p, t} \in twins[i] =>
       At(t, "file") /\ job[t].image = i /\ p = EntryInHand(t).path

\* A task that does not move is due where it was.
LEMMA StandsDue ==
  ASSUME NEW i, NEW p, NEW u \in Task, job'[u] = job[u],
         {p, u} \in twins'[i] <=> {p, u} \in twins[i]
  PROVE  /\ Unpacks(u, i)' <=> Unpacks(u, i)
         /\ Unpacks(u, i) => (Due(u, p)' <=> Due(u, p))
<1>1. Unpacks(u, i)' <=> Unpacks(u, i)
  BY DEF Unpacks
<1>2. ASSUME Unpacks(u, i) PROVE Due(u, p)' <=> Due(u, p)
  <2>1. job[u].image = i
    BY <1>2 DEF Unpacks
  <2> QED
    BY <2>1, DueIs
<1> QED
  BY <1>1, <1>2

\* A step of t leaves what is at p, and what the others have in front of them.
Leaves(t, i, p) ==
  /\ current' = current /\ tree'[i][p] = tree[i][p]
  /\ \A u \in Task \ {t} : /\ job'[u] = job[u]
                           /\ {p, u} \in twins'[i] <=> {p, u} \in twins[i]

\* Then all depends on whether t was the last that was due.
LEMMA PathKept ==
  ASSUME NEW i, NEW p, NEW t \in Task, Leaves(t, i, p), PathIs(i, p),
         Reached(i, p)' /\ ~SomeoneIsDue(i, p)'
           => Reached(i, p) /\ ~(Unpacks(t, i) /\ Due(t, p))
  PROVE  PathIs(i, p)'
<1> SUFFICES ASSUME Reached(i, p)', ~SomeoneIsDue(i, p)'
             PROVE  tree'[i][p] = Merged(current'[i])[p]
  BY DEF PathIs
<1>1. \A u \in Task : ~(Unpacks(u, i)' /\ Due(u, p)')
  BY DEF SomeoneIsDue
<1>2. ASSUME NEW u \in Task, Unpacks(u, i), Due(u, p) PROVE FALSE
  <2>1. u # t
    BY <1>2
  <2>2. job'[u] = job[u] /\ ({p, u} \in twins'[i] <=> {p, u} \in twins[i])
    BY <2>1 DEF Leaves
  <2> QED
    BY <1>1, <1>2, <2>2, StandsDue
<1>3. Reached(i, p) /\ ~SomeoneIsDue(i, p)
  BY <1>2 DEF SomeoneIsDue
<1> QED
  BY <1>3 DEF PathIs, Leaves

\* It goes on, and has still in front of it what it had.
LEMMA PathGoesOn ==
  ASSUME NEW i, NEW p, NEW t \in Task, Leaves(t, i, p), PathIs(i, p),
         i \in ready' <=> i \in ready, Unpacks(t, i)' <=> Unpacks(t, i),
         Unpacks(t, i) => (Due(t, p)' <=> Due(t, p))
  PROVE  PathIs(i, p)'
<1>1. ASSUME Reached(i, p)', ~SomeoneIsDue(i, p)'
      PROVE  Reached(i, p) /\ ~(Unpacks(t, i) /\ Due(t, p))
  <2>1. \A u \in Task : ~(Unpacks(u, i)' /\ Due(u, p)')
    BY <1>1 DEF SomeoneIsDue
  <2>2. CASE i \in ready'
    BY <2>1, <2>2 DEF Reached
  <2>3. CASE i \notin ready'
    <3>1. PICK u \in Task : Unpacks(u, i)' /\ ~Due(u, p)'
      BY <1>1, <2>3 DEF Reached
    <3>2. Unpacks(u, i) /\ ~Due(u, p)
      <4>1. CASE u = t
        BY <3>1, <4>1
      <4>2. CASE u # t
        BY <3>1, <4>2, StandsDue DEF Leaves
      <4> QED
        BY <4>1, <4>2
    <3> QED
      BY <2>1, <3>2 DEF Reached
  <2> QED
    BY <2>2, <2>3
<1> QED
  BY <1>1, PathKept

\* It gives up, and was not the only one due where somebody had been.
LEMMA PathDropped ==
  ASSUME NEW i \in SharedImage, NEW p, NEW t \in Task, Leaves(t, i, p), PathIs(i, p),
         job'[t] = NoJob, i \in ready' <=> i \in ready,
         ASSUME Unpacks(t, i), Due(t, p),
                i \in ready \/ \E u \in Task \ {t} : Unpacks(u, i) /\ ~Due(u, p)
         PROVE  \E u \in Task \ {t} : Unpacks(u, i) /\ Due(u, p)
  PROVE  PathIs(i, p)'
<1>1. ~Unpacks(t, i)'
  BY DEF Unpacks, NoJob
<1>2. ASSUME Reached(i, p)', ~SomeoneIsDue(i, p)'
      PROVE  Reached(i, p) /\ ~(Unpacks(t, i) /\ Due(t, p))
  <2>1. \A u \in Task \ {t} : ~(Unpacks(u, i) /\ Due(u, p))
    <3> SUFFICES ASSUME NEW u \in Task \ {t}, Unpacks(u, i), Due(u, p) PROVE FALSE
      OBVIOUS
    <3>1. Unpacks(u, i)' /\ Due(u, p)'
      BY StandsDue DEF Leaves
    <3> QED
      BY <1>2, <3>1 DEF SomeoneIsDue
  <2>2. i \in ready \/ \E u \in Task \ {t} : Unpacks(u, i) /\ ~Due(u, p)
    <3>1. CASE i \in ready
      BY <3>1
    <3>2. CASE i \notin ready
      <4>1. PICK u \in Task : Unpacks(u, i)' /\ ~Due(u, p)'
        BY <1>2, <3>2 DEF Reached
      <4>2. u # t
        BY <1>1, <4>1
      <4>3. Unpacks(u, i) /\ ~Due(u, p)
        BY <4>1, <4>2, StandsDue DEF Leaves
      <4> QED
        BY <4>2, <4>3
    <3> QED
      BY <3>1, <3>2
  <2>3. Reached(i, p)
    BY <2>2 DEF Reached
  <2> QED
    BY <2>1, <2>2, <2>3
<1> QED
  BY <1>2, PathKept

\* It leaves the path as the layers say, or will be back there.
LEMMA PathDone ==
  ASSUME NEW i, NEW p, NEW t \in Task, current' = current,
         \/ Unpacks(t, i)' /\ Due(t, p)'
         \/ tree'[i][p] = Merged(current[i])[p]
  PROVE  PathIs(i, p)'
BY DEF PathIs, SomeoneIsDue

\* What the last entry at a path says is what the layers merge to.
LEMMA LastSays ==
  ASSUME NEW m \in Seq(Layer), Shareable(m), NEW k \in DOMAIN m,
         NEW x \in DOMAIN Entries[m[k]], NEW p \in Touched(Entries[m[k]][x]),
         \A j \in DOMAIN m : k < j => Own(m[j], p) = {}
  PROVE  Merged(m)[p] = Said(m[k], {Entries[m[k]][x].op})
<1>1. m[k] \in Layer /\ m[k] \in LayersOf(m) /\ DOMAIN m = 1 .. Len(m) /\ Len(m) \in Nat
  BY ElementOfSeq, LenProperties DEF LayersOf
<1>2. p \in Path
  BY <1>1, EntriesAreTyped
<1>3. Own(m[k], p) = {Entries[m[k]][x].op}
  <2>1. \A y \in DOMAIN Entries[m[k]] : p \in Touched(Entries[m[k]][y]) => y = x
    BY <1>1 DEF Shareable, EntriesAreApart
  <2> QED
    BY <2>1, OwnIs
<1>4. LastOf(m, k, Len(m) + 1, p)
  BY <1>1, <1>3 DEF LastOf
<1>5. Says(m, Len(m), p) = Said(m[k], Own(m[k], p))
  BY <1>1, <1>4, LastIsOne
<1> QED
  BY <1>2, <1>3, <1>5, MergedIs DEF Shareable

\* Where no layer says anything there is no file.
LEMMA NoneSays ==
  ASSUME NEW m \in Seq(Layer), Shareable(m), NEW p \in Path,
         \A j \in DOMAIN m : Own(m[j], p) = {}
  PROVE  /\ Merged(m)[p] = NoFile
         /\ \A v : MayHold(m, p, v) => v = NoFile
<1>1. Merged(m)[p] = Says(m, Len(m), p)
  BY MergedIs DEF Shareable
<1>2. Says(m, Len(m), p) = NoFile
  BY DEF Says, LastOf
<1>3. \A d \in LayersOf(m) : Own(d, p) = {}
  BY DEF LayersOf
<1> QED
  BY <1>1, <1>2, <1>3 DEF MayHold

-----------------------------------------------------------------------------
(* A step of one task, on its image and on others.                         *)

PathsFollow(i) == \A p \in Path : FileIs(i, p)' /\ PathIs(i, p)'

\* The two parts of the invariant, path by path.
LEMMA PathsHold ==
  ASSUME SharedState, NEW i \in SharedImage, NEW p \in Path
  PROVE  /\ FileIs(i, p) /\ PathIs(i, p)
         /\ i \in Image /\ current[i] \in Seq(Layer) /\ Shareable(current[i])
         /\ \A u \in Task : p # u
         /\ tree \in [Image -> [FileName -> Content]] /\ p \in FileName
         /\ twins \in [Image -> SUBSET SUBSET FileName]
<1>1. current[i] \in Seq(Layer) /\ current[i] \in Manifests[i] /\ i \in Image
  BY DEF SharedState, ImageInv, TypeOK, SharedImage
<1>2. Shareable(current[i])
  BY <1>1 DEF SharedImage
<1>3. FileIs(i, p) /\ PathIs(i, p)
  BY DEF SharedState, SharedInv, FilesAreOfShared, PathsAreMerged, FileIs, PathIs
<1> QED
  BY <1>1, <1>2, <1>3, NamesDiffer DEF SharedState, ImageInv, TypeOK

\* What is left alone at a path stays of the image.
LEMMA FileKept ==
  ASSUME SharedState, NEW i \in SharedImage, NEW p \in Path, NEW t \in Task,
         current' = current, \A u \in Task \ {t} : job'[u] = job[u],
         MayHold(current[i], p, tree'[i][p]),
         \A n \in FileName : {p, n} \in twins'[i] => {p, n} \in twins[i] /\ n # t
  PROVE  FileIs(i, p)'
<1>1. FileIs(i, p)
  BY PathsHold
<1>2. Path \subseteq FileName /\ Task \subseteq FileName
  BY NamesDiffer
<1>3. ASSUME NEW u \in Task, {p, u} \in twins'[i]
      PROVE  job'[u].pc = "file" /\ job'[u].image = i /\ p = EntryInHand(u)'.path
  <2>1. u # t /\ {p, u} \in twins[i]
    BY <1>2, <1>3
  <2>2. job'[u] = job[u]
    BY <2>1
  <2>3. EntryInHand(u)' = EntryInHand(u)
    BY <2>2 DEF EntryInHand, InHand
  <2> QED
    BY <1>1, <2>1, <2>2, <2>3 DEF FileIs, At
<1> QED
  BY <1>1, <1>2, <1>3 DEF FileIs, At

\* A step elsewhere.
LEMMA ElsewhereFollows ==
  ASSUME SharedState, NEW t \in Task, PrepareImage(t), NEW i \in SharedImage,
         At(t, "idle") \/ job[t].image # i
  PROVE  PathsFollow(i)
<1> SUFFICES ASSUME NEW p \in Path PROVE FileIs(i, p)' /\ PathIs(i, p)'
  BY DEF PathsFollow
<1>0. ImageInv /\ i \in Image /\ FileIs(i, p) /\ PathIs(i, p)
  BY PathsHold DEF SharedState
<1>1. current' = current /\ \A v \in Task \ {t} : job'[v] = job[v]
  BY <1>0, OthersStand
<1>2. tree'[i] = tree[i] /\ twins'[i] = twins[i]
  BY <1>0, OtherImagesStay
<1>3. job[t].image # i
  BY <1>0, ImageStoreAssumption DEF ImageInv, TypeOK, NoJob
<1>4. i \in ready' <=> i \in ready
  BY <1>0, <1>3, SealedBy
<1>5. ~Unpacks(t, i) /\ ~Unpacks(t, i)'
  <2>1. job'[t].image = i => job'[t].pc = "manifest"
    BY <1>3, SharedAsk
  <2> QED
    BY <1>3, <2>1 DEF Unpacks
<1>6. Leaves(t, i, p)
  BY <1>1, <1>2 DEF Leaves
<1>7. PathIs(i, p)'
  BY <1>0, <1>4, <1>5, <1>6, PathGoesOn
<1>8. FileIs(i, p)'
  <2>1. {p, t} \notin twins[i]
    BY <1>0, <1>3 DEF FileIs
  <2>2. MayHold(current[i], p, tree'[i][p])
    BY <1>0, <1>2 DEF FileIs
  <2> QED
    BY <1>1, <1>2, <2>1, <2>2, FileKept
<1> QED
  BY <1>7, <1>8

\* A step that touches no file, of a task that has none open.
LEMMA QuietFollows ==
  ASSUME SharedState, NEW t \in Task, PrepareImage(t),
         NEW i \in SharedImage, job[t].image = i,
         ~At(t, "file"), UNCHANGED <<tree, twins>>,
         \A p \in Path : PathIs(i, p)'
  PROVE  PathsFollow(i)
<1> SUFFICES ASSUME NEW p \in Path PROVE FileIs(i, p)'
  BY DEF PathsFollow
<1>1. current' = current /\ \A v \in Task \ {t} : job'[v] = job[v]
  BY OthersStand DEF SharedState
<1>2. {p, t} \notin twins[i] /\ MayHold(current[i], p, tree[i][p])
  <2>1. FileIs(i, p)
    BY PathsHold
  <2> QED
    BY <2>1 DEF FileIs, At
<1>3. /\ MayHold(current[i], p, tree'[i][p])
      /\ \A n \in FileName : {p, n} \in twins'[i] => {p, n} \in twins[i] /\ n # t
  BY <1>2
<1> QED
  BY <1>1, <1>3, FileKept

\* While it pulls, a task has no path in front of it yet.
LEMMA PullPasses ==
  ASSUME SharedState, NEW t \in Task, PrepareImage(t),
         NEW i \in SharedImage, job[t].image = i,
         \/ FetchManifest(t) \/ SeeCached(t) \/ SeeMissing(t) \/ CreateLayerDir(t)
         \/ BeginWrite(t) \/ EndWrite(t)
  PROVE  PathsFollow(i)
<1>0. ImageInv /\ job \in [Task -> Job]
  BY DEF SharedState, ImageInv, TypeOK
<1>1. current' = current /\ \A v \in Task \ {t} : job'[v] = job[v]
  BY <1>0, OthersStand
<1>2. /\ job[t].pc \in {"manifest", "pull", "mkdir", "fetch", "write"}
      /\ job'[t].pc \in {"pull", "mkdir", "fetch", "write"}
      /\ tree' = tree /\ twins' = twins /\ ready' = ready
  BY <1>0 DEF FetchManifest, SeeCached, SeeMissing, CreateLayerDir, BeginWrite, EndWrite,
     Goto, NextLayer, At, Job, disk, rootfs
<1>3. ASSUME NEW p \in Path PROVE PathIs(i, p)'
  <2>1. PathIs(i, p)
    BY PathsHold
  <2>2. Leaves(t, i, p)
    BY <1>1, <1>2 DEF Leaves
  <2>3. ~Unpacks(t, i) /\ ~Unpacks(t, i)'
    BY <1>2 DEF Unpacks
  <2>4. i \in ready' <=> i \in ready
    BY <1>2
  <2> QED
    BY <2>1, <2>2, <2>3, <2>4, PathGoesOn
<1> QED
  BY <1>2, <1>3, QuietFollows DEF At

\* At the base layer it has everything in front of it that the layers say.
LEMMA EndPullPasses ==
  ASSUME SharedState, NEW t \in Task, PrepareImage(t),
         NEW i \in SharedImage, job[t].image = i, EndPull(t)
  PROVE  PathsFollow(i)
<1> DEFINE m == job[t].manifest
<1>0. ImageInv /\ job \in [Task -> Job]
  BY DEF SharedState, ImageInv, TypeOK
<1>1. current' = current /\ \A v \in Task \ {t} : job'[v] = job[v]
  BY <1>0, OthersStand
<1>2. /\ job'[t].pc = "open" /\ job'[t].k = 1 /\ job'[t].manifest = m /\ job'[t].image = i
      /\ job[t].pc = "pull" /\ tree' = tree /\ twins' = twins
  BY <1>0 DEF EndPull, At, Job, disk, rootfs
<1>3. m = current[i] /\ DOMAIN m = 1 .. Len(m) /\ Len(m) \in Nat
  BY <1>0, <1>2, OnShared, JobIs
<1>4. ASSUME NEW p \in Path PROVE PathIs(i, p)'
  <2>1. FileIs(i, p) /\ current[i] \in Seq(Layer) /\ Shareable(current[i])
    BY PathsHold
  <2>2. CASE \A j \in DOMAIN m : Own(m[j], p) = {}
    <3>1. MayHold(current[i], p, tree[i][p])
      BY <2>1 DEF FileIs
    <3>2. Merged(current[i])[p] = NoFile /\ tree[i][p] = NoFile
      BY <1>3, <2>1, <2>2, <3>1, NoneSays
    <3>3. tree'[i][p] = Merged(current[i])[p]
      BY <1>2, <3>2
    <3> QED
      BY <1>1, <3>3, PathDone
  <2>3. CASE ~ \A j \in DOMAIN m : Own(m[j], p) = {}
    <3>1. PICK j \in DOMAIN m : Own(m[j], p) # {}
      BY <2>3
    <3>2. 1 <= j
      BY <1>3
    <3>3. DueAt(job'[t], p, {p, t} \in twins'[job'[t].image])
      BY <1>2, <3>1, <3>2 DEF DueAt
    <3>4. Unpacks(t, i)' /\ Due(t, p)'
      BY <1>2, <3>3, DueIs DEF Unpacks
    <3> QED
      BY <1>1, <3>4, PathDone
  <2> QED
    BY <2>2, <2>3
<1> QED
  BY <1>2, <1>4, QuietFollows DEF At

\* From layer to layer nothing is passed.
LEMMA LayerPasses ==
  ASSUME SharedState, NEW t \in Task, PrepareImage(t),
         NEW i \in SharedImage, job[t].image = i,
         OpenLayer(t) \/ EndUnpack(t) \/ SaveConfig(t)
  PROVE  PathsFollow(i)
<1> DEFINE r == job[t]
           s == job'[t]
           m == r.manifest
<1>0. ImageInv /\ job \in [Task -> Job]
  BY DEF SharedState, ImageInv, TypeOK
<1>1. current' = current /\ \A v \in Task \ {t} : job'[v] = job[v]
  BY <1>0, OthersStand
<1>2. /\ tree' = tree /\ twins' = twins /\ ready' = ready /\ r.pc \in {"open", "unpack"}
      /\ s.pc \in {"open", "unpack", "seal"} /\ s.image = i /\ s.manifest = m
  BY <1>0 DEF OpenLayer, EndUnpack, SaveConfig, Goto, NextLayer, AtEnd, At, Job, disk, rootfs
<1>3. /\ DOMAIN m = 1 .. Len(m) /\ Len(m) \in Nat /\ r.k \in Nat /\ r.k > 0 /\ r.e \in Nat
      /\ \A j \in DOMAIN m : m[j] \in Layer
  BY <1>0, <1>2, OnShared, JobIs
<1>4. ASSUME NEW p \in Path
      PROVE  DueAt(s, p, {p, t} \in twins[i]) <=> DueAt(r, p, {p, t} \in twins[i])
  <2>1. CASE OpenLayer(t)
    <3>1. /\ r.pc = "open" /\ s.pc = "unpack" /\ s.k = r.k /\ s.e = 1 /\ r.k \in DOMAIN m
      BY <1>0, <1>3, <2>1 DEF OpenLayer, LayersLeft, At, Job
    <3>2. m[r.k] \in Layer
      BY <1>3, <3>1
    <3>3. Own(m[r.k], p) # {} <=>
            \E x \in DOMAIN Entries[m[r.k]] : p \in Touched(Entries[m[r.k]][x])
      BY OwnIs
    <3>4. \A x \in DOMAIN Entries[m[r.k]] : 1 <= x
      BY <3>2, EntriesAreTyped
    <3>5. \A j \in DOMAIN m : r.k <= j <=> r.k < j \/ j = r.k
      BY <1>3
    <3> HIDE DEF r, s, m
    <3>6. DueAt(s, p, {p, t} \in twins[i]) <=>
            \/ \E j \in DOMAIN m : Own(m[j], p) # {} /\ r.k < j
            \/ \E x \in DOMAIN Entries[m[r.k]] : p \in Touched(Entries[m[r.k]][x])
      BY <1>2, <3>1, <3>4 DEF DueAt
    <3>7. DueAt(r, p, {p, t} \in twins[i]) <=>
            \E j \in DOMAIN m : Own(m[j], p) # {} /\ r.k <= j
      BY <3>1 DEF DueAt, m
    <3> QED
      BY <3>1, <3>3, <3>5, <3>6, <3>7
  <2>2. CASE EndUnpack(t)
    <3>1. /\ r.pc = "unpack" /\ s.pc = "open" /\ s.k = r.k + 1 /\ ~EntriesLeft(t)
      BY <1>0, <2>2 DEF EndUnpack, NextLayer, AtEnd, At, Job
    <3>2. m[r.k] \in Layer /\ Len(Entries[m[r.k]]) \in Nat
      BY <3>1, OnShared DEF InHand
    <3>3. \A x \in DOMAIN Entries[m[r.k]] : ~(r.e <= x)
      BY <1>3, <3>1, <3>2, EntriesAreTyped DEF EntriesLeft, InHand
    <3>4. \A j \in DOMAIN m : r.k + 1 <= j <=> r.k < j
      BY <1>3
    <3> HIDE DEF r, s, m
    <3> QED
      BY <1>2, <3>1, <3>3, <3>4 DEF DueAt, m
  <2>3. CASE SaveConfig(t)
    <3>1. /\ r.pc = "open" /\ s.pc = "seal" /\ s.k = r.k /\ ~LayersLeft(t)
      BY <1>0, <2>3 DEF SaveConfig, Goto, At, Job
    <3>2. \A j \in DOMAIN m : ~(r.k <= j) /\ ~(r.k < j)
      BY <1>3, <3>1 DEF LayersLeft
    <3> HIDE DEF r, s, m
    <3> QED
      BY <1>2, <3>1, <3>2 DEF DueAt, m
  <2> QED
    BY <2>1, <2>2, <2>3
<1>5. ASSUME NEW p \in Path PROVE PathIs(i, p)'
  <2>1. PathIs(i, p)
    BY PathsHold
  <2>2. Leaves(t, i, p)
    BY <1>1, <1>2 DEF Leaves
  <2>3. Unpacks(t, i) /\ Unpacks(t, i)'
    BY <1>2 DEF Unpacks
  <2>4. Due(t, p)' <=> Due(t, p)
    BY <1>2, <1>4, DueIs
  <2> QED
    BY <1>2, <2>1, <2>2, <2>3, <2>4, PathGoesOn
<1> QED
  BY <1>2, <1>5, QuietFollows DEF At

\* The entry in hand, of a task at work on a shared image.
LEMMA AtSharedEntry ==
  ASSUME SharedState, NEW t \in Task, NEW i \in SharedImage, job[t].image = i,
         job[t].pc \in {"unpack", "file"}, EntriesLeft(t)
  PROVE  LET r == job[t]
             m == r.manifest
             d == m[r.k]
         IN  /\ m = current[i] /\ m \in Seq(Layer) /\ Shareable(m)
             /\ r.k \in DOMAIN m /\ r.k \in Nat /\ d \in Layer /\ d \in LayersOf(m)
             /\ r.e \in DOMAIN Entries[d] /\ r.e \in Nat
             /\ EntryInHand(t) = Entries[d][r.e]
             /\ i \in Image /\ job \in [Task -> Job]
             /\ tree \in [Image -> [FileName -> Content]]
             /\ twins \in [Image -> SUBSET SUBSET FileName]
<1>1. /\ job[t].pc # "manifest" => job[t].manifest = current[i] /\ job[t].k > 0
      /\ current[i] \in Seq(Layer) /\ Shareable(current[i])
      /\ job[t].k \in DOMAIN job[t].manifest
      /\ InHand(t) \in Layer /\ InHand(t) \in LayersOf(job[t].manifest)
      /\ EntriesLeft(t) <=> job[t].e \in DOMAIN Entries[InHand(t)]
  BY OnShared
<1>2. job[t].k \in Nat /\ job[t].e \in Nat
  BY JobIs DEF SharedState
<1> QED
  BY <1>1, <1>2 DEF SharedState, ImageInv, TypeOK, InHand, EntryInHand, SharedImage

\* Behind an entry, at a path of it: either there is another one to come, or the
\* layers merge to what it says.
LEMMA LastOrDue ==
  ASSUME NEW m \in Seq(Layer), Shareable(m), NEW r, r.manifest = m, r.k \in DOMAIN m,
         r.e \in DOMAIN Entries[m[r.k]], NEW p \in Touched(Entries[m[r.k]][r.e]),
         NEW s, s.pc = "unpack", s.manifest = m, s.k = r.k, NEW own
  PROVE  \/ DueAt(s, p, own)
         \/ Merged(m)[p] = Said(m[r.k], {Entries[m[r.k]][r.e].op})
<1> SUFFICES ASSUME ~DueAt(s, p, own)
             PROVE  Merged(m)[p] = Said(m[r.k], {Entries[m[r.k]][r.e].op})
  OBVIOUS
<1>1. \A j \in DOMAIN m : r.k < j => Own(m[j], p) = {}
  BY DEF DueAt
<1> QED
  BY <1>1, LastSays

\* The path of a file is the task's own, and Torn, until it is filled.
LEMMA OpenFilePasses ==
  ASSUME SharedState, NEW t \in Task, PrepareImage(t),
         NEW i \in SharedImage, job[t].image = i, OpenFile(t)
  PROVE  PathsFollow(i)
<1> DEFINE r == job[t]
           s == job'[t]
           d == r.manifest[r.k]
           a == EntryInHand(t)
<1>0. ImageInv /\ At(t, "unpack") /\ EntriesLeft(t) /\ a.op = "write"
  BY DEF SharedState, OpenFile, AtEntry
<1>1. current' = current /\ \A v \in Task \ {t} : job'[v] = job[v]
  BY <1>0, OthersStand
<1>2. /\ r.manifest = current[i] /\ r.manifest \in Seq(Layer)
      /\ Shareable(r.manifest) /\ r.k \in DOMAIN r.manifest
      /\ d \in Layer /\ d \in LayersOf(r.manifest) /\ r.e \in DOMAIN Entries[d]
      /\ a = Entries[d][r.e]
      /\ i \in Image /\ job \in [Task -> Job]
      /\ tree \in [Image -> [FileName -> Content]]
      /\ twins \in [Image -> SUBSET SUBSET FileName]
  BY <1>0, AtSharedEntry DEF At
<1>3. Touched(a) = {a.path} /\ a.path \in Path
  BY <1>0, <1>2, EntriesAreTyped
<1>4. /\ s.pc = "file" /\ s.image = i /\ s.manifest = r.manifest /\ s.k = r.k /\ s.e = r.e
      /\ ready' = ready
  BY <1>2 DEF OpenFile, Goto, Job
<1>5. /\ tree' = [tree EXCEPT ![i][a.path] = Torn, ![i][t] = Torn]
      /\ twins' = [twins EXCEPT ![i] = Apart(i, {a.path}) \cup {{a.path, t}}]
  BY DEF OpenFile
<1>a. r.pc = "unpack"
  BY <1>0 DEF At
<1> SUFFICES ASSUME NEW p \in Path PROVE FileIs(i, p)' /\ PathIs(i, p)'
  BY DEF PathsFollow
<1>b. /\ FileIs(i, p) /\ PathIs(i, p) /\ p # t /\ (\A u \in Task : p # u /\ a.path # u)
      /\ p \in FileName /\ t \in FileName
  BY <1>3, PathsHold, NamesDiffer
<1>6. DueAt(s, p, {p, t} \in twins'[i]) <=> Due(t, p)'
  BY <1>4, DueIs
<1>7. DueAt(r, p, {p, t} \in twins[i]) <=> Due(t, p)
  BY DueIs
<1>8. Unpacks(t, i) /\ Unpacks(t, i)'
  BY <1>4, <1>a DEF Unpacks
<1>9. EntryInHand(t)' = Entries[s.manifest[s.k]][s.e]
  BY DEF EntryInHand, InHand
<1>c. EntryInHand(t)' = a
  BY <1>2, <1>4, <1>9
<1> HIDE DEF r, s, d, a
<1>10. CASE p = a.path
  <2>1. twins'[i] = Apart(i, {p}) \cup {{p, t}} /\ tree'[i][p] = Torn
    BY <1>2, <1>5, <1>10, <1>b
  <2>2. DueAt(s, p, {p, t} \in twins'[i])
    <3>1. p \in Touched(Entries[d][r.e]) /\ r.e \in Nat
      BY <1>2, <1>3, <1>10, EntriesAreTyped
    <3> QED
      BY <1>2, <1>4, <2>1, <3>1 DEF DueAt, d
  <2>3. PathIs(i, p)'
    BY <1>1, <1>6, <1>8, <2>2, PathDone
  <2>4. "write" \in Own(d, p)
    BY <1>0, <1>2, <1>3, <1>10, OwnIs
  <2>5. MayHold(current[i], p, Torn)
    BY <1>2, <2>4 DEF MayHold
  <2>6. \A q \in Path : {p, q} \notin twins'[i]
    <3>1. \A q \in Path : q # t
      BY NamesDiffer
    <3> QED
      BY <2>1, <3>1, <1>b DEF Apart
  <2>7. ASSUME NEW u \in Task, {p, u} \in twins'[i]
        PROVE  job'[u].pc = "file" /\ job'[u].image = i /\ p = EntryInHand(u)'.path
    <3>1. u = t
      BY <1>b, <2>1, <2>7 DEF Apart
    <3> QED
      BY <1>4, <1>10, <1>c, <3>1 DEF s
  <2>8. FileIs(i, p)'
    BY <1>1, <2>1, <2>5, <2>6, <2>7 DEF FileIs, At
  <2> QED
    BY <2>3, <2>8
<1>11. CASE p # a.path
  <2>1. tree'[i][p] = tree[i][p]
    BY <1>2, <1>5, <1>11, <1>b
  <2>2. \A n \in FileName : {p, n} \in twins'[i] => {p, n} \in twins[i]
    BY <1>2, <1>5, <1>11, <1>b DEF Apart
  <2>3. \A u \in Task : {p, u} \in twins'[i] <=> {p, u} \in twins[i]
    <3>1. twins'[i] = Apart(i, {a.path}) \cup {{a.path, t}}
      BY <1>2, <1>5
    <3>2. ASSUME NEW u \in Task, {p, u} \in twins[i] PROVE {p, u} \in twins'[i]
      <4>1. {p, u} \cap {a.path} = {}
        BY <1>11, <1>b, <3>2
      <4> QED
        BY <3>1, <3>2, <4>1 DEF Apart
    <3>3. Task \subseteq FileName
      BY NamesDiffer
    <3> QED
      BY <2>2, <3>2, <3>3
  <2>4. Leaves(t, i, p)
    BY <1>1, <2>1, <2>3 DEF Leaves
  <2>5. p \notin Touched(Entries[d][r.e])
    BY <1>2, <1>3, <1>11
  <2>6. DueAt(s, p, {p, t} \in twins'[i]) <=> DueAt(r, p, {p, t} \in twins[i])
    BY <1>4, <1>a, <2>5 DEF DueAt, d
  <2>7. PathIs(i, p)'
    <3>1. Due(t, p)' <=> Due(t, p)
      BY <1>6, <1>7, <2>6
    <3> QED
      BY <1>4, <1>8, <1>b, <2>4, <3>1, PathGoesOn
  <2>8. FileIs(i, p)'
    <3>1. {p, t} \notin twins[i] /\ MayHold(current[i], p, tree[i][p])
      BY <1>0, <1>b DEF FileIs, At
    <3>2. MayHold(current[i], p, tree'[i][p])
      BY <2>1, <3>1
    <3>3. \A n \in FileName : {p, n} \in twins'[i] => {p, n} \in twins[i] /\ n # t
      BY <2>2, <3>1
    <3> QED
      BY <1>1, <3>2, <3>3, FileKept
  <2> QED
    BY <2>7, <2>8
<1> QED
  BY <1>10, <1>11

\* The file is filled: at its path, if it still has it.
LEMMA WriteFilePasses ==
  ASSUME SharedState, NEW t \in Task, PrepareImage(t),
         NEW i \in SharedImage, job[t].image = i, WriteFile(t)
  PROVE  PathsFollow(i)
<1> DEFINE r == job[t]
           s == job'[t]
           d == r.manifest[r.k]
           a == EntryInHand(t)
<1>0. ImageInv /\ At(t, "file") /\ EntriesLeft(t) /\ a.op = "write"
  BY OnShared DEF SharedState, WriteFile
<1>1. current' = current /\ \A v \in Task \ {t} : job'[v] = job[v]
  BY <1>0, OthersStand
<1>2. /\ r.manifest = current[i] /\ r.manifest \in Seq(Layer)
      /\ Shareable(r.manifest) /\ r.k \in DOMAIN r.manifest
      /\ d \in Layer /\ d \in LayersOf(r.manifest) /\ r.e \in DOMAIN Entries[d] /\ r.e \in Nat
      /\ a = Entries[d][r.e]
      /\ i \in Image /\ job \in [Task -> Job]
      /\ tree \in [Image -> [FileName -> Content]]
      /\ twins \in [Image -> SUBSET SUBSET FileName]
  BY <1>0, AtSharedEntry DEF At
<1>3. Touched(a) = {a.path} /\ a.path \in Path
  BY <1>0, <1>2, EntriesAreTyped
<1>4. /\ s.pc = "unpack" /\ s.image = i /\ s.manifest = r.manifest /\ s.k = r.k /\ s.e = r.e + 1
      /\ ready' = ready
  BY <1>2 DEF WriteFile, NextEntry, Job
<1>5. /\ tree' = [tree EXCEPT ![i] = [n \in DOMAIN @ |->
                    IF n = t THEN NoFile ELSE IF n \in SameFile(i, t) THEN d ELSE @[n]]]
      /\ twins' = [twins EXCEPT ![i] = Apart(i, {t})]
  BY DEF WriteFile, InHand
<1>a. r.pc = "file"
  BY <1>0 DEF At
<1> SUFFICES ASSUME NEW p \in Path PROVE FileIs(i, p)' /\ PathIs(i, p)'
  BY DEF PathsFollow
<1>b. /\ FileIs(i, p) /\ PathIs(i, p) /\ p # t /\ (\A u \in Task : p # u)
      /\ p \in FileName /\ t \in FileName
  BY PathsHold, NamesDiffer
<1>6. DueAt(s, p, {p, t} \in twins'[i]) <=> Due(t, p)'
  BY <1>4, DueIs
<1>7. DueAt(r, p, {p, t} \in twins[i]) <=> Due(t, p)
  BY DueIs
<1>8. Unpacks(t, i) /\ Unpacks(t, i)'
  BY <1>4, <1>a DEF Unpacks
<1>c. {p, t} \in twins[i] => p = a.path
  BY <1>b DEF FileIs
<1> HIDE DEF r, s, d, a
<1>9. tree'[i][p] = IF {p, t} \in twins[i] THEN d ELSE tree[i][p]
  <2>1. p \in SameFile(i, t) <=> {p, t} \in twins[i]
    BY <1>b DEF SameFile
  <2> QED
    BY <1>2, <1>5, <1>b, <2>1
<1>10. twins'[i] = Apart(i, {t})
  BY <1>2, <1>5
<1>11. /\ \A n \in FileName : {p, n} \in twins'[i] => {p, n} \in twins[i] /\ n # t
       /\ \A u \in Task \ {t} : {p, u} \in twins'[i] <=> {p, u} \in twins[i]
  <2>1. \A u \in Task \ {t} : {p, u} \cap {t} = {}
    BY <1>b
  <2> QED
    BY <1>10, <2>1 DEF Apart
<1>12. CASE {p, t} \in twins[i]
  <2>1. p \in Touched(Entries[d][r.e])
    BY <1>2, <1>3, <1>c, <1>12
  <2>2. \/ DueAt(s, p, {p, t} \in twins'[i])
        \/ Merged(r.manifest)[p] = Said(d, {Entries[d][r.e].op})
    BY <1>2, <1>4, <2>1, LastOrDue DEF d
  <2>3. Said(d, {Entries[d][r.e].op}) = d
    BY <1>0, <1>2 DEF Said
  <2>4. tree'[i][p] = d
    BY <1>9, <1>12
  <2>5. PathIs(i, p)'
    BY <1>1, <1>2, <1>6, <1>8, <2>2, <2>3, <2>4, PathDone
  <2>6. "write" \in Own(d, p)
    BY <1>0, <1>2, <2>1, OwnIs
  <2>7. MayHold(current[i], p, tree'[i][p])
    BY <1>2, <2>4, <2>6 DEF MayHold
  <2>8. FileIs(i, p)'
    BY <1>1, <1>11, <2>7, FileKept
  <2> QED
    BY <2>5, <2>8
<1>13. CASE {p, t} \notin twins[i]
  <2>1. tree'[i][p] = tree[i][p]
    BY <1>9, <1>13
  <2>2. Leaves(t, i, p)
    BY <1>1, <1>11, <2>1 DEF Leaves
  <2>3. DueAt(s, p, {p, t} \in twins'[i]) <=> DueAt(r, p, {p, t} \in twins[i])
    <3>1. d \in Layer /\ r.manifest[r.k] = d
      BY <1>2 DEF d
    <3>2. \A x \in DOMAIN Entries[d] : s.e <= x <=> r.e <= x /\ r.e # x
      BY <1>2, <1>4, <3>1, EntriesAreTyped
    <3> QED
      BY <1>4, <1>13, <1>a, <3>1, <3>2 DEF DueAt
  <2>4. PathIs(i, p)'
    <3>1. Due(t, p)' <=> Due(t, p)
      BY <1>6, <1>7, <2>3
    <3> QED
      BY <1>4, <1>8, <1>b, <2>2, <3>1, PathGoesOn
  <2>5. FileIs(i, p)'
    <3>1. MayHold(current[i], p, tree'[i][p])
      BY <1>b, <2>1 DEF FileIs
    <3> QED
      BY <1>1, <1>11, <3>1, FileKept
  <2> QED
    BY <2>4, <2>5
<1> QED
  BY <1>12, <1>13

\* An entry that is done in one step: its paths are as it says, the others as they
\* were, and nothing is open at either but what was.
Does(t, i, names) ==
  LET r == job[t]
      d == r.manifest[r.k]
      a == Entries[d][r.e]
  IN  /\ At(t, "unpack") /\ EntriesLeft(t) /\ NextEntry(t, "unpack")
      /\ ready' = ready /\ names \subseteq Touched(a)
      /\ twins'[i] = Apart(i, names)
      /\ \A p \in Path : tree'[i][p] = IF p \in Touched(a) THEN Said(d, {a.op}) ELSE tree[i][p]

\* Then it is laid, or will be again.
LEMMA EntryPasses ==
  ASSUME SharedState, NEW t \in Task, PrepareImage(t),
         NEW i \in SharedImage, job[t].image = i, NEW names, Does(t, i, names)
  PROVE  PathsFollow(i)
<1> DEFINE r == job[t]
           s == job'[t]
           d == r.manifest[r.k]
           a == Entries[d][r.e]
<1>0. /\ ImageInv /\ r.pc = "unpack" /\ EntriesLeft(t) /\ NextEntry(t, "unpack")
      /\ ready' = ready /\ names \subseteq Touched(a)
      /\ twins'[i] = Apart(i, names)
      /\ \A p \in Path : tree'[i][p] = IF p \in Touched(a) THEN Said(d, {a.op}) ELSE tree[i][p]
  BY DEF SharedState, Does, At
<1>1. current' = current /\ \A v \in Task \ {t} : job'[v] = job[v]
  BY <1>0, OthersStand
<1>2. /\ r.manifest = current[i] /\ r.manifest \in Seq(Layer)
      /\ Shareable(r.manifest) /\ r.k \in DOMAIN r.manifest
      /\ d \in Layer /\ d \in LayersOf(r.manifest) /\ r.e \in DOMAIN Entries[d] /\ r.e \in Nat
      /\ i \in Image /\ job \in [Task -> Job]
  BY <1>0, AtSharedEntry
<1>3. Touched(a) \subseteq Path
  BY <1>2, EntriesAreTyped
<1>4. /\ s.pc = "unpack" /\ s.image = i /\ s.manifest = r.manifest /\ s.k = r.k /\ s.e = r.e + 1
  BY <1>0, <1>2 DEF NextEntry, Job
<1> SUFFICES ASSUME NEW p \in Path PROVE FileIs(i, p)' /\ PathIs(i, p)'
  BY DEF PathsFollow
<1>b. /\ FileIs(i, p) /\ PathIs(i, p) /\ p # t /\ (\A u \in Task : p # u)
      /\ p \in FileName /\ t \in FileName
  BY PathsHold, NamesDiffer
<1>c. \A u \in Task : u \notin names
  BY <1>0, <1>3, NamesDiffer
<1>5. Unpacks(t, i) /\ Unpacks(t, i)'
  BY <1>0, <1>4 DEF Unpacks
<1>6. DueAt(s, p, {p, t} \in twins'[i]) <=> Due(t, p)'
  BY <1>4, DueIs
<1>7. DueAt(r, p, {p, t} \in twins[i]) <=> Due(t, p)
  BY DueIs
<1> HIDE DEF r, s, d, a
<1>8. {p, t} \notin twins[i]
  BY <1>0, <1>b DEF FileIs, At, r
<1>9. \A n \in FileName : {p, n} \in twins'[i] => {p, n} \in twins[i] /\ n # t
  BY <1>0, <1>8 DEF Apart
<1>10. CASE p \in Touched(a)
  <2>1. \/ DueAt(s, p, {p, t} \in twins'[i])
        \/ Merged(r.manifest)[p] = Said(d, {a.op})
    BY <1>2, <1>4, <1>10, LastOrDue DEF d, a
  <2>2. tree'[i][p] = Said(d, {a.op})
    BY <1>0, <1>10
  <2>3. PathIs(i, p)'
    BY <1>1, <1>2, <1>5, <1>6, <2>1, <2>2, PathDone
  <2>4. a.op \in Own(d, p)
    BY <1>2, <1>10, OwnIs DEF a
  <2>5. MayHold(current[i], p, tree'[i][p])
    BY <1>2, <2>2, <2>4, SaidIsHeld
  <2> QED
    BY <1>1, <1>9, <2>3, <2>5, FileKept
<1>11. CASE p \notin Touched(a)
  <2>1. tree'[i][p] = tree[i][p]
    BY <1>0, <1>11
  <2>2. \A u \in Task : {p, u} \in twins'[i] <=> {p, u} \in twins[i]
    <3>1. \A u \in Task : {p, u} \cap names = {}
      BY <1>0, <1>11, <1>c
    <3> QED
      BY <1>0, <3>1 DEF Apart
  <2>3. Leaves(t, i, p)
    BY <1>1, <2>1, <2>2 DEF Leaves
  <2>4. DueAt(s, p, {p, t} \in twins'[i]) <=> DueAt(r, p, {p, t} \in twins[i])
    <3>1. d \in Layer /\ r.manifest[r.k] = d /\ p \notin Touched(Entries[d][r.e])
      BY <1>2, <1>11 DEF d, a
    <3>2. \A x \in DOMAIN Entries[d] : s.e <= x <=> r.e <= x /\ r.e # x
      BY <1>2, <1>4, <3>1, EntriesAreTyped
    <3> QED
      BY <1>0, <1>4, <3>1, <3>2 DEF DueAt
  <2>5. PathIs(i, p)'
    <3>1. Due(t, p)' <=> Due(t, p)
      BY <1>6, <1>7, <2>4
    <3> QED
      BY <1>0, <1>5, <1>b, <2>3, <3>1, PathGoesOn
  <2>6. FileIs(i, p)'
    <3>1. MayHold(current[i], p, tree'[i][p])
      BY <1>b, <2>1 DEF FileIs
    <3> QED
      BY <1>1, <1>9, <3>1, FileKept
  <2> QED
    BY <2>5, <2>6
<1> QED
  BY <1>10, <1>11

\* A symbolic link is one.
LEMMA SymlinkPasses ==
  ASSUME SharedState, NEW t \in Task, PrepareImage(t),
         NEW i \in SharedImage, job[t].image = i, MakeSymlink(t)
  PROVE  PathsFollow(i)
<1> DEFINE r == job[t]
           d == r.manifest[r.k]
           a == Entries[d][r.e]
<1>1. At(t, "unpack") /\ EntriesLeft(t) /\ EntryInHand(t).op = "symlink"
  BY DEF MakeSymlink, AtEntry
<1>2. /\ d \in Layer /\ r.e \in DOMAIN Entries[d] /\ EntryInHand(t) = a /\ i \in Image
      /\ tree \in [Image -> [FileName -> Content]]
      /\ twins \in [Image -> SUBSET SUBSET FileName]
  BY <1>1, AtSharedEntry DEF At
<1>3. Touched(a) = {a.path} /\ a.path \in Path
  BY <1>1, <1>2, EntriesAreTyped
<1>4. /\ tree' = [tree EXCEPT ![i][a.path] = Symlink(d)]
      /\ twins' = [twins EXCEPT ![i] = Apart(i, {a.path})]
      /\ NextEntry(t, "unpack") /\ ready' = ready
  BY <1>2 DEF MakeSymlink, InHand
<1>5. Said(d, {a.op}) = Symlink(d)
  BY <1>1, <1>2 DEF Said
<1> HIDE DEF r, d, a
<1>6. /\ \A p \in Path : tree'[i][p] = IF p \in Touched(a) THEN Said(d, {a.op}) ELSE tree[i][p]
      /\ twins'[i] = Apart(i, {a.path})
  BY <1>2, <1>3, <1>4, <1>5, NamesDiffer
<1>7. Does(t, i, {a.path})
  BY <1>1, <1>3, <1>4, <1>6 DEF Does, r, d, a
<1> QED
  BY <1>7, EntryPasses

\* So is a whiteout, since what it does not see is not there.
LEMMA WhiteoutPasses ==
  ASSUME SharedState, NEW t \in Task, PrepareImage(t),
         NEW i \in SharedImage, job[t].image = i, ApplyWhiteout(t)
  PROVE  PathsFollow(i)
<1> DEFINE r == job[t]
           m == r.manifest
           d == m[r.k]
           a == Entries[d][r.e]
           names == IF a.path \in Dir THEN Touched(a) ELSE Touched(a) \ Unseen(i)
<1>1. At(t, "unpack") /\ EntriesLeft(t) /\ EntryInHand(t).op = "whiteout"
  BY DEF ApplyWhiteout, AtEntry
<1>2. /\ m = current[i] /\ m \in Seq(Layer) /\ Shareable(m) /\ d \in LayersOf(m)
      /\ d \in Layer /\ r.e \in DOMAIN Entries[d] /\ EntryInHand(t) = a /\ i \in Image
      /\ tree \in [Image -> [FileName -> Content]]
      /\ twins \in [Image -> SUBSET SUBSET FileName]
  BY <1>1, AtSharedEntry DEF At
<1>3. Touched(a) \subseteq Path /\ (a.path \notin Dir => Touched(a) = {a.path})
  BY <1>2, EntriesAreTyped
<1>4. Remove(i, names) /\ NextEntry(t, "unpack") /\ ready' = ready
  BY <1>2 DEF ApplyWhiteout
<1>5. Said(d, {a.op}) = NoFile
  BY <1>1, <1>2 DEF Said
<1>6. names \subseteq Touched(a) /\ Touched(a) \ names \subseteq Unseen(i)
      /\ (Touched(a) # names => a.path \notin Dir)
  OBVIOUS
<1>7. ASSUME NEW p \in Touched(a) \ names PROVE tree[i][p] = NoFile
  <2> HIDE DEF r, m, d, a, names
  <2>0. p \in Unseen(i) /\ a.path \notin Dir /\ p \in Touched(a)
    BY <1>6, <1>7
  <2>1. p = a.path /\ p \in Path /\ tree[i][p] \in {NoFile} \cup {Symlink(c) : c \in Layer}
    BY <1>3, <2>0 DEF Unseen
  <2>2. ASSUME NEW c \in Layer, tree[i][p] = Symlink(c) PROVE FALSE
    <3>1. FileIs(i, p)
      BY <2>1, PathsHold
    <3>2. MayHold(m, p, Symlink(c))
      BY <1>2, <2>2, <3>1 DEF FileIs
    <3>3. Symlink(c) \notin Layer \cup {NoFile, Torn} /\ LayersOf(m) \subseteq Layer
      BY <1>2, ImageStoreAssumption, LayersAreTyped
    <3>4. PICK e \in LayersOf(m) : "symlink" \in Own(e, p)
      BY <3>2, <3>3 DEF MayHold
    <3>5. "symlink" \notin Own(e, a.path)
      BY <1>1, <1>2, WhiteoutSees DEF Shareable, a
    <3> QED
      BY <2>1, <3>4, <3>5
  <2> QED
    BY <2>1, <2>2
<1> HIDE DEF r, m, d, a, names
<1>8. /\ \A p \in Path : tree'[i][p] = IF p \in names THEN NoFile ELSE tree[i][p]
      /\ twins'[i] = Apart(i, names)
  BY <1>2, <1>4, NamesDiffer DEF Remove
<1>9. \A p \in Path : tree'[i][p] = IF p \in Touched(a) THEN Said(d, {a.op}) ELSE tree[i][p]
  BY <1>5, <1>6, <1>7, <1>8
<1>10. Does(t, i, names)
  BY <1>1, <1>4, <1>6, <1>8, <1>9 DEF Does, r, m, d, a
<1> QED
  BY <1>10, EntryPasses

\* The layer is not there: no other task has opened it, or sealed the image.
LEMMA OpenFailsPasses ==
  ASSUME SharedState, NEW t \in Task, PrepareImage(t),
         NEW i \in SharedImage, job[t].image = i, OpenFails(t)
  PROVE  PathsFollow(i)
<1> DEFINE r == job[t]
           m == current[i]
<1>0. ImageInv /\ job \in [Task -> Job]
  BY DEF SharedState, ImageInv, TypeOK
<1>1. current' = current /\ \A v \in Task \ {t} : job'[v] = job[v]
  BY <1>0, OthersStand
<1>2. /\ r.pc = "open" /\ job'[t] = NoJob /\ tree' = tree /\ twins' = twins
      /\ ready' = ready /\ LayersLeft(t) /\ ~Filed(InHand(t))
  BY <1>0 DEF OpenFails, At, Drop, rootfs, Filed
<1>3. /\ r.manifest = m /\ r.k \in Nat /\ r.k \in DOMAIN m /\ DOMAIN m \subseteq Nat
      /\ DOMAIN m = 1 .. Len(m) /\ Len(m) \in Nat
  BY <1>0, <1>2, OnShared, JobIs DEF LayersLeft
<1>4. i \notin ready
  <2>1. InHand(t) \in LayersOf(m)
    BY <1>3 DEF InHand, LayersOf
  <2> QED
    BY <1>2, <2>1 DEF SharedState, SharedInv, SealedAreFiled
<1>5. ASSUME NEW u \in Task \ {t}, Unpacks(u, i), NEW p, Due(t, p)
      PROVE  Due(u, p)
  <2>1. PICK j \in DOMAIN m : Own(m[j], p) # {} /\ r.k <= j
    BY <1>2, <1>3, <1>5 DEF Due, At
  <2>2. job[u].manifest = m /\ job[u].k \in Nat /\ ConfigIsSaved(u) /\ job[u].image = i
    BY <1>0, <1>5, OnShared, JobIs DEF Unpacks
  <2>3. LayersAreFound(u)
    BY DEF SharedState, SharedInv
  <2>4. ~(r.k < job[u].k) /\ ~(r.k = job[u].k /\ job[u].pc \in {"unpack", "file"})
    BY <1>2, <1>3, <1>5, <2>2, <2>3 DEF LayersAreFound, InHand
  <2>5. job[u].pc # "seal"
    BY <1>3, <2>2, <2>4 DEF ConfigIsSaved, At
  <2>6. job[u].pc = "open" \/ job[u].k < r.k
    BY <1>3, <1>5, <2>2, <2>4, <2>5 DEF Unpacks
  <2>7. IF job[u].pc = "open" THEN job[u].k <= j ELSE job[u].k < j
    BY <1>3, <2>1, <2>2, <2>4, <2>6
  <2> QED
    BY <2>1, <2>2, <2>7 DEF Due, At
<1>6. ASSUME NEW p \in Path PROVE PathIs(i, p)'
  <2>1. PathIs(i, p)
    BY PathsHold
  <2>2. Leaves(t, i, p)
    BY <1>1, <1>2 DEF Leaves
  <2>3. i \in ready' <=> i \in ready
    BY <1>2
  <2> QED
    BY <1>2, <1>4, <1>5, <2>1, <2>2, <2>3, PathDropped
<1> QED
  BY <1>2, <1>6, QuietFollows DEF At

\* The layer is being written: by a task that is not yet past it, so that nobody
\* has been where this one is due.
LEMMA UnpackBreaksPasses ==
  ASSUME SharedState, TwoTasks, NEW t \in Task, PrepareImage(t),
         NEW i \in SharedImage, job[t].image = i, UnpackBreaks(t)
  PROVE  PathsFollow(i)
<1> DEFINE r == job[t]
           m == current[i]
<1>0. ImageInv /\ job \in [Task -> Job]
  BY DEF SharedState, ImageInv, TypeOK
<1>1. current' = current /\ \A v \in Task \ {t} : job'[v] = job[v]
  BY <1>0, OthersStand
<1>2. /\ r.pc \in {"unpack", "file"} /\ job'[t] = NoJob /\ Close({t})
      /\ ready' = ready /\ tarball[InHand(t)] # "whole"
  BY <1>0 DEF UnpackBreaks, At, Drop
<1>3. /\ r.manifest = m /\ r.k \in DOMAIN m /\ r.k = r.k /\ InHand(t) \in LayersOf(m)
      /\ InHand(t) \in Layer
  BY <1>2, OnShared
<1>4. tarball[InHand(t)] = "partial"
  <2>1. LayersAreFound(t)
    BY DEF SharedState, SharedInv
  <2>2. Filed(r.manifest[r.k])
    BY <1>2, <1>3, <2>1 DEF LayersAreFound, Unpacks
  <2> QED
    BY <1>2, <2>2 DEF Filed, InHand
<1>5. PICK w \in Task : At(w, "write") /\ InHand(w) = InHand(t)
  BY <1>3, <1>4 DEF SharedState, SharedInv, PartsAreWritten
<1>6. w # t
  BY <1>2, <1>5 DEF At
<1>7. i \notin ready
  BY <1>3, <1>5, <1>6 DEF SharedState, SharedInv, SealedAreFiled, Fetches, At
<1>8. \A u \in Task \ {t} : ~Unpacks(u, i)
  BY <1>5, <1>6 DEF TwoTasks, Unpacks, At
<1> SUFFICES ASSUME NEW p \in Path PROVE FileIs(i, p)' /\ PathIs(i, p)'
  BY DEF PathsFollow
<1>9. /\ FileIs(i, p) /\ PathIs(i, p) /\ p # t /\ (\A u \in Task : p # u)
      /\ p \in FileName /\ i \in Image /\ tree \in [Image -> [FileName -> Content]]
      /\ twins \in [Image -> SUBSET SUBSET FileName]
  BY PathsHold
<1>10. tree'[i][p] = tree[i][p] /\ twins'[i] = Apart(i, {t})
  BY <1>2, <1>9 DEF Close
<1>11. /\ \A n \in FileName : {p, n} \in twins'[i] => {p, n} \in twins[i] /\ n # t
       /\ \A u \in Task \ {t} : {p, u} \in twins'[i] <=> {p, u} \in twins[i]
  <2>1. \A u \in Task \ {t} : {p, u} \cap {t} = {}
    BY <1>9
  <2> QED
    BY <1>10, <2>1 DEF Apart
<1>12. Leaves(t, i, p)
  BY <1>1, <1>10, <1>11 DEF Leaves
<1>13. i \in ready' <=> i \in ready
  BY <1>2
<1>14. PathIs(i, p)'
  BY <1>2, <1>7, <1>8, <1>9, <1>12, <1>13, PathDropped
<1>15. MayHold(current[i], p, tree'[i][p])
  BY <1>9, <1>10 DEF FileIs
<1> QED
  BY <1>1, <1>11, <1>14, <1>15, FileKept

\* Two tasks at one path of the tree, one fails: the other has in front of it what
\* this one had, or this one would write below it what the other hides.
LEMMA CollidePasses ==
  ASSUME SharedState, TwoTasks, NEW t \in Task, PrepareImage(t),
         NEW i \in SharedImage, job[t].image = i, Collide(t)
  PROVE  PathsFollow(i)
<1> DEFINE r == job[t]
           m == current[i]
           a == EntryInHand(t)
<1>0. ImageInv /\ job \in [Task -> Job]
  BY DEF SharedState, ImageInv, TypeOK
<1>1. current' = current /\ \A v \in Task \ {t} : job'[v] = job[v]
  BY <1>0, OthersStand
<1>2. /\ r.pc = "unpack" /\ EntriesLeft(t) /\ job'[t] = NoJob /\ ready' = ready
  BY <1>0 DEF Collide, At, Drop
<1>3. PICK u \in Task \ {t} :
        /\ job[u].image = i /\ At(u, "unpack") /\ EntriesLeft(u)
        /\ Touched(EntryInHand(u)) \cap Touched(a) # {}
        /\ a.op = "whiteout" \/ EntryInHand(u).op # "whiteout"
  BY DEF Collide
<1>4. PICK gone \in IF a.path \in Dir THEN SUBSET Inside[a.path] ELSE {{}} :
        Remove(i, gone)
  BY DEF Collide
<1>5. gone \subseteq Touched(a)
  BY <1>4 DEF Touched
<1>6. /\ r.manifest = m /\ m \in Seq(Layer) /\ Shareable(m)
      /\ r.k \in DOMAIN m /\ r.k \in Nat /\ m[r.k] \in Layer /\ m[r.k] \in LayersOf(m)
      /\ r.e \in DOMAIN Entries[m[r.k]] /\ r.e \in Nat /\ a = Entries[m[r.k]][r.e]
      /\ i \in Image /\ tree \in [Image -> [FileName -> Content]]
      /\ twins \in [Image -> SUBSET SUBSET FileName]
  BY <1>2, AtSharedEntry
<1>7. /\ job[u].manifest = m /\ job[u].k \in DOMAIN m /\ job[u].k \in Nat
      /\ job[u].e \in DOMAIN Entries[m[job[u].k]] /\ job[u].e \in Nat
      /\ EntryInHand(u) = Entries[m[job[u].k]][job[u].e]
  BY <1>3, AtSharedEntry DEF At
<1> HIDE DEF a, m, r
<1>8. DOMAIN m \subseteq Nat
  <2>1. m \in Seq(Layer)
    BY <1>6
  <2>2. DOMAIN m = 1 .. Len(m) /\ Len(m) \in Nat
    BY <2>1, LenProperties
  <2> QED
    BY <2>2
<1>9. job[u].k < r.k \/ (job[u].k = r.k /\ job[u].e = r.e)
  <2>1. ASSUME r.k < job[u].k PROVE FALSE
    <3>1. UpperOnlyHides(m)
      BY <1>6 DEF Shareable
    <3>2. Touched(a) \cap Touched(EntryInHand(u)) # {}
      BY <1>3
    <3> DEFINE x == Entries[m[r.k]][r.e]
               y == Entries[m[job[u].k]][job[u].e]
    <3>3. Touched(x) \cap Touched(y) # {} => x.op # "whiteout" /\ y.op = "whiteout"
      <4>1. /\ r.k \in DOMAIN m /\ job[u].k \in DOMAIN m
            /\ r.e \in DOMAIN Entries[m[r.k]] /\ job[u].e \in DOMAIN Entries[m[job[u].k]]
        BY <1>6, <1>7
      <4> HIDE DEF x, y
      <4>2. \A j, k \in DOMAIN m : j < k =>
              \A v \in DOMAIN Entries[m[j]], w \in DOMAIN Entries[m[k]] :
                Touched(Entries[m[j]][v]) \cap Touched(Entries[m[k]][w]) # {} =>
                  Entries[m[j]][v].op # "whiteout" /\ Entries[m[k]][w].op = "whiteout"
        BY <3>1, Zenon DEF UpperOnlyHides
      <4>3. \A v \in DOMAIN Entries[m[r.k]], w \in DOMAIN Entries[m[job[u].k]] :
              Touched(Entries[m[r.k]][v]) \cap Touched(Entries[m[job[u].k]][w]) # {} =>
                Entries[m[r.k]][v].op # "whiteout" /\ Entries[m[job[u].k]][w].op = "whiteout"
        BY <2>1, <4>1, <4>2, Zenon
      <4> QED
        BY <4>1, <4>3, Zenon DEF x, y
    <3>4. a = x /\ EntryInHand(u) = y
      BY <1>6, <1>7
    <3> HIDE DEF x, y
    <3> QED
      BY <1>3, <3>2, <3>3, <3>4
  <2>2. job[u].k = r.k => job[u].e = r.e
    BY <1>3, <1>6, <1>7 DEF Shareable, EntriesAreApart
  <2> QED
    <3>1. r.k \in Nat /\ job[u].k \in Nat
      BY <1>6, <1>7
    <3>2. job[u].k < r.k \/ job[u].k = r.k
      BY <2>1, <3>1
    <3> QED
      BY <2>2, <3>2
<1>10. ASSUME NEW p, Due(t, p) PROVE Unpacks(u, i) /\ Due(u, p)
  <2>1. Unpacks(u, i)
    BY <1>3 DEF Unpacks, At
  <2>2. \/ \E j \in DOMAIN m : Own(m[j], p) # {} /\ r.k < j
        \/ \E x \in DOMAIN Entries[m[r.k]] : p \in Touched(Entries[m[r.k]][x]) /\ r.e <= x
    BY <1>2, <1>6, <1>10 DEF Due, At, InHand, r
  <2>3. CASE job[u].k < r.k
    <3>1. \E j \in DOMAIN m : Own(m[j], p) # {} /\ job[u].k < j
      <4>1. CASE \E j \in DOMAIN m : Own(m[j], p) # {} /\ r.k < j
        <5>1. PICK j \in DOMAIN m : Own(m[j], p) # {} /\ r.k < j
          BY <4>1
        <5>2. j \in Nat /\ r.k \in Nat /\ job[u].k \in Nat
          BY <1>6, <1>7, <1>8
        <5>3. job[u].k < j
          BY <2>3, <5>1, <5>2
        <5> QED
          BY <5>1, <5>3
      <4>2. CASE \E x \in DOMAIN Entries[m[r.k]] : p \in Touched(Entries[m[r.k]][x])
        <5>1. Own(m[r.k], p) # {}
          BY <4>2, OwnIs
        <5> QED
          BY <1>6, <2>3, <5>1
      <4> QED
        BY <2>2, <4>1, <4>2
    <3> QED
      BY <1>3, <1>7, <2>1, <3>1 DEF Due, At
  <2>4. CASE job[u].k = r.k /\ job[u].e = r.e
    BY <1>3, <1>7, <2>1, <2>2, <2>4 DEF Due, At, InHand
  <2> QED
    BY <1>9, <2>3, <2>4
<1> SUFFICES ASSUME NEW p \in Path PROVE FileIs(i, p)' /\ PathIs(i, p)'
  BY DEF PathsFollow
<1>11. /\ FileIs(i, p) /\ PathIs(i, p) /\ p # t /\ (\A v \in Task : p # v)
       /\ p \in FileName
  BY PathsHold
<1>12. twins'[i] = Apart(i, gone) /\ tree'[i][p] = IF p \in gone THEN NoFile ELSE tree[i][p]
  BY <1>4, <1>6, <1>11 DEF Remove
<1>13. \A n \in FileName : {p, n} \in twins'[i] => {p, n} \in twins[i] /\ n # t
  BY <1>2, <1>11, <1>12 DEF Apart, FileIs, At, r
<1>14. FileIs(i, p)'
  <2>1. MayHold(current[i], p, tree'[i][p])
    BY <1>11, <1>12 DEF FileIs, MayHold
  <2> QED
    BY <1>1, <1>13, <2>1, FileKept
<1>15. CASE Due(t, p)
  <2>1. Unpacks(u, i) /\ Due(u, p) /\ job'[u] = job[u] /\ job[u].pc = "unpack"
    BY <1>1, <1>3, <1>10, <1>15 DEF At
  <2>2. DueAt(job[u], p, {p, u} \in twins[job[u].image])
    BY <2>1, DueIs
  <2>3. DueAt(job'[u], p, {p, u} \in twins'[job'[u].image])
    BY <2>1, <2>2 DEF DueAt
  <2>4. Unpacks(u, i)' /\ Due(u, p)'
    BY <2>1, <2>3, DueIs DEF Unpacks
  <2> QED
    BY <1>14, <2>4 DEF PathIs, SomeoneIsDue
<1>16. CASE ~Due(t, p)
  <2>1. p \notin gone
    <3>1. p \in Touched(a) => Due(t, p)
      <4>1. a = Entries[InHand(t)][r.e] /\ r.e \in DOMAIN Entries[InHand(t)] /\ r.e <= r.e
        BY <1>6 DEF InHand, r
      <4> QED
        BY <1>2, <4>1 DEF Due, At, r
    <3> QED
      BY <1>5, <1>16, <3>1
  <2>2. \A v \in Task \ {t} : {p, v} \in twins'[i] <=> {p, v} \in twins[i]
    <3>1. gone \subseteq Path
      BY <1>5, <1>6, EntriesAreTyped
    <3>2. \A v \in Task : {p, v} \cap gone = {}
      BY <2>1, <3>1, NamesDiffer
    <3> QED
      BY <1>12, <3>2 DEF Apart
  <2>3. Leaves(t, i, p)
    BY <1>1, <1>12, <2>1, <2>2 DEF Leaves
  <2>4. i \in ready' <=> i \in ready
    BY <1>2
  <2>5. PathIs(i, p)'
    BY <1>2, <1>11, <1>16, <2>3, <2>4, PathDropped
  <2> QED
    BY <1>14, <2>5
<1> QED
  BY <1>15, <1>16

\* The sentinel is written by a task that has been everywhere.
LEMMA SentinelPasses ==
  ASSUME SharedState, NEW t \in Task, PrepareImage(t),
         NEW i \in SharedImage, job[t].image = i, WriteSentinel(t)
  PROVE  PathsFollow(i)
<1>0. ImageInv /\ job \in [Task -> Job]
  BY DEF SharedState, ImageInv, TypeOK
<1>1. current' = current /\ \A v \in Task \ {t} : job'[v] = job[v]
  BY <1>0, OthersStand
<1>2. job[t].pc = "seal" /\ tree' = tree /\ twins' = twins
  BY DEF WriteSentinel, At, rootfs
<1>3. /\ DOMAIN job[t].manifest = 1 .. Len(job[t].manifest) /\ Len(job[t].manifest) \in Nat
      /\ job[t].k \in Nat /\ job[t].k > Len(job[t].manifest)
  BY <1>0, <1>2, OnShared, JobIs DEF ConfigIsSaved, At
<1>4. ASSUME NEW p \in Path PROVE PathIs(i, p)'
  <2>1. PathIs(i, p)
    BY PathsHold
  <2>2. Leaves(t, i, p)
    BY <1>1, <1>2 DEF Leaves
  <2>3. Unpacks(t, i) /\ ~Due(t, p)
    BY <1>2, <1>3 DEF Unpacks, Due, At
  <2>4. Reached(i, p)
    BY <2>3 DEF Reached
  <2> QED
    BY <2>1, <2>2, <2>3, <2>4, PathKept
<1> QED
  BY <1>2, <1>4, QuietFollows DEF At

-----------------------------------------------------------------------------
(* The invariant.                                                          *)

\* A step of a task, on whatever image.
LEMMA TaskFollows ==
  ASSUME SharedState, TwoTasks, NEW t \in Task, PrepareImage(t), NEW i \in SharedImage
  PROVE  PathsFollow(i)
<1>1. CASE At(t, "idle") \/ job[t].image # i
  BY <1>1, ElsewhereFollows
<1>2. CASE ~At(t, "idle") /\ job[t].image = i
  <2>1. \A j \in Image : ~Ask(t, j)
    BY <1>2 DEF Ask
  <2> QED
    BY <1>2, <2>1, NoLinks, PullPasses, EndPullPasses, LayerPasses, OpenFilePasses,
       WriteFilePasses, SymlinkPasses, WhiteoutPasses, OpenFailsPasses, UnpackBreaksPasses,
       CollidePasses, SentinelPasses DEF PrepareImage
<1> QED
  BY <1>1, <1>2

\* Nothing that happens breaks it, but a tag that moves, a fault or a death.
LEMMA SharedNext ==
  ASSUME SharedState, TwoTasks, [Next]_vars, counts' = counts
  PROVE  SharedInv'
<1>0. ImageInv /\ SharedInv
  BY DEF SharedState
<1>1. CASE UNCHANGED vars
  <2>1. /\ current' = current /\ tarball' = tarball /\ tree' = tree /\ twins' = twins
        /\ config' = config /\ ready' = ready /\ job' = job
    BY <1>1 DEF vars, disk, rootfs
  <2>2. PathsAreMerged' /\ FilesAreOfShared'
    <3> SUFFICES ASSUME NEW i \in SharedImage, NEW p \in Path
                 PROVE  FileIs(i, p)' /\ PathIs(i, p)'
      BY DEF PathIs, FileIs, PathsAreMerged, FilesAreOfShared
    <3>1. FileIs(i, p) /\ PathIs(i, p)
      BY PathsHold
    <3>2. FileIs(i, p)'
      BY <2>1, <3>1 DEF FileIs, At, EntryInHand, InHand
    <3>3. \A t \in Task : /\ Unpacks(t, i)' <=> Unpacks(t, i)
                          /\ Unpacks(t, i) => (Due(t, p)' <=> Due(t, p))
      BY <2>1, StandsDue
    <3>4. PathIs(i, p)'
      BY <2>1, <3>1, <3>3 DEF PathIs, Reached, SomeoneIsDue
    <3> QED
      BY <3>2, <3>4
  <2>3. ConfigsAreShared' /\ PartsAreWritten' /\ SealedAreFiled'
    BY <1>0, <2>1 DEF SharedInv, ConfigsAreShared, PartsAreWritten, SealedAreFiled, Filed,
       Fetches, At, InHand
  <2>4. \A t \in Task : LayersAreFound(t)'
    BY <1>0, <2>1, FoundIs DEF SharedInv
  <2>5. \A t \in Task : job'[t].image \in SharedImage => AttemptIsShared(t)'
    BY <1>0, <2>1 DEF SharedInv, AttemptIsShared, TagIsFollowed, ConfigIsSaved, At,
       EntriesLeft, EntryInHand, InHand
  <2> QED
    BY <2>2, <2>3, <2>4, <2>5 DEF SharedInv
<1>2. ASSUME NEW t \in Task, PrepareImage(t) PROVE SharedInv'
  <2>1. PathsAreMerged' /\ FilesAreOfShared'
    <3>1. \A i \in SharedImage : PathsFollow(i)
      BY <1>2, TaskFollows
    <3> QED
      BY <3>1 DEF PathsFollow, PathIs, FileIs, PathsAreMerged, FilesAreOfShared
  <2>2. ConfigsAreShared' /\ SealedAreFiled'
    BY <1>2, SealedNext
  <2>3. PartsAreWritten' /\ \A u \in Task : LayersAreFound(u)'
    BY <1>0, <1>2, TarballsNext DEF SharedInv
  <2>4. \A u \in Task : job'[u].image \in SharedImage => AttemptIsShared(u)'
    BY <1>2, AttemptsNext
  <2> QED
    BY <2>1, <2>2, <2>3, <2>4 DEF SharedInv
<1>3. moves \in Nat /\ faults \in Nat /\ crashes \in Nat
  BY <1>0 DEF ImageInv, TypeOK
<1>4. ASSUME (\E t \in Task : Fail(t)) \/ (\E i \in Image : MoveTag(i)) \/ AgentDies PROVE FALSE
  <2>1. moves' = moves /\ faults' = faults /\ crashes' = crashes
    BY DEF counts
  <2>2. faults' = faults + 1 \/ moves' = moves + 1 \/ crashes' = crashes + 1
    BY <1>4 DEF Fail, MoveTag, AgentDies
  <2> QED
    BY <1>3, <2>1, <2>2
<1> QED
  BY <1>1, <1>2, <1>4 DEF Next

\* The counts only grow.
LEMMA CountsGrow ==
  ASSUME ImageInv, [Next]_vars, moves' = 0 /\ faults' = 0 /\ crashes' = 0
  PROVE  moves = 0 /\ faults = 0 /\ crashes = 0 /\ counts' = counts
<1>1. moves \in Nat /\ faults \in Nat /\ crashes \in Nat
  BY DEF ImageInv, TypeOK
<1>2. ASSUME NEW t \in Task, PrepareImage(t) PROVE counts' = counts
  BY <1>2, CountsStand
<1>3. ~(\E t \in Task : Fail(t)) /\ ~(\E i \in Image : MoveTag(i)) /\ ~AgentDies
  <2>1. ASSUME (\E t \in Task : Fail(t)) \/ (\E i \in Image : MoveTag(i)) \/ AgentDies
        PROVE  faults' = faults + 1 \/ moves' = moves + 1 \/ crashes' = crashes + 1
    BY <2>1 DEF Fail, MoveTag, AgentDies
  <2> QED
    BY <1>1, <2>1
<1>4. counts' = counts
  BY <1>2, <1>3 DEF Next, vars
<1> QED
  BY <1>4 DEF counts

\* At the start there is nothing.
LEMMA SharedInit == Init => SharedInv
<1> SUFFICES ASSUME Init PROVE SharedInv
  OBVIOUS
<1>1. /\ \A t \in Task : job[t] = NoJob
      /\ \A d \in Layer : tarball[d] = "absent"
      /\ ready = {}
      /\ \A i \in Image : twins[i] = {} /\ config[i] = <<>>
      /\ \A i \in Image, n \in FileName : tree[i][n] = NoFile
  BY DEF Init
<1>2. SharedImage \subseteq Image /\ Path \subseteq FileName
  BY NamesDiffer DEF SharedImage
<1>3. \A i : \A t \in Task : ~Unpacks(t, i)
  <2>1. \A t \in Task : job[t].pc = "idle"
    <3>1. NoJob.pc = "idle"
      BY DEF NoJob
    <3> QED
      BY <1>1, <3>1
  <2> QED
    BY <2>1 DEF Unpacks
<1>4. PathsAreMerged
  BY <1>1, <1>3 DEF PathsAreMerged, Reached
<1>5. FilesAreOfShared
  BY <1>1, <1>2 DEF FilesAreOfShared, MayHold
<1>6. ConfigsAreShared /\ PartsAreWritten /\ SealedAreFiled
  BY <1>1, <1>2 DEF ConfigsAreShared, PartsAreWritten, SealedAreFiled
<1>7. \A t \in Task : LayersAreFound(t)
  BY <1>1 DEF LayersAreFound, NoJob
<1>8. \A t \in Task : job[t].image \notin SharedImage
  <2>1. NoJob.image = NoImage /\ NoImage \notin Image
    BY ImageStoreAssumption DEF NoJob
  <2> QED
    BY <1>1, <1>2, <2>1
<1> QED
  BY <1>4, <1>5, <1>6, <1>7, <1>8 DEF SharedInv

\* Both invariants, together.
LEMMA SharedInvariant == TwoTasks => (Spec => []SharedHolds)
<1> SUFFICES ASSUME TwoTasks PROVE Spec => []SharedHolds
  OBVIOUS
<1>1. Init => SharedHolds
  BY SharedInit DEF SharedHolds
<1>2. ImageInv /\ SharedHolds /\ [Next]_vars => SharedHolds'
  <2> SUFFICES ASSUME ImageInv, SharedHolds, [Next]_vars,
                      moves' = 0 /\ faults' = 0 /\ crashes' = 0
               PROVE  SharedInv'
    BY DEF SharedHolds
  <2>1. counts' = counts /\ SharedState
    BY CountsGrow DEF SharedHolds, SharedState
  <2> QED
    BY <2>1, SharedNext
<1> QED
  BY <1>1, <1>2, ImageInvariant, PTL DEF Spec

(* unpack_layer of the reconciler and the smoke test over each other: at any *)
(* moment a path that one of them has been through, and none has in front of *)
(* it, is as the layers say, and what is at any path is of the image: until  *)
(* a tag moves, a file operation fails or the agent dies.                    *)
THEOREM SharedImagesAreMerged == TwoTasks => (Spec => []SharedHolds)
<1> QED
  BY SharedInvariant

(* prepare_image: once no task is at work on an image that has its sentinel, *)
(* its rootfs holds what the layers merge to and its config is that of the   *)
(* tag, although two tasks without a lock have unpacked it over each other.  *)
THEOREM ReadyAtRestHolds ==
  TwoTasks /\ Image = SharedImage \cup TidyImage => (Spec => []ReadyAtRest)
<1> SUFFICES ASSUME TwoTasks, Image = SharedImage \cup TidyImage
             PROVE  Spec => []ReadyAtRest
  OBVIOUS
<1>1. ASSUME ImageInv, SharedHolds, moves = 0 => TidyIsPrepared
      PROVE  ReadyAtRest
  <2> SUFFICES ASSUME NEW i \in ready, moves = 0 /\ faults = 0 /\ crashes = 0,
                      \A t \in Task : job[t].image # i
               PROVE  Prepared(i)
    BY DEF ReadyAtRest
  <2>1. i \in Image /\ current[i] \in Manifests[i]
    BY <1>1 DEF ImageInv, TypeOK
  <2>2. CASE i \in TidyImage
    BY <1>1, <2>2 DEF TidyIsPrepared
  <2>3. CASE i \in SharedImage
    <3>1. SharedInv
      BY <1>1 DEF SharedHolds
    <3>2. ASSUME NEW p \in Path PROVE tree[i][p] = Merged(current[i])[p]
      <4>1. Reached(i, p) /\ ~SomeoneIsDue(i, p)
        BY DEF Reached, SomeoneIsDue, Unpacks
      <4> QED
        BY <2>3, <3>1, <4>1 DEF SharedInv, PathsAreMerged
    <3>3. config[i] = ConfigOf(current[i])
      BY <2>3, <3>1 DEF SharedInv, ConfigsAreShared
    <3> QED
      BY <2>1, <3>2, <3>3 DEF Prepared, ConfigOf
  <2> QED
    BY <2>1, <2>2, <2>3
<1> QED
  BY <1>1, ImageInvariant, SharedInvariant, TidyImagesArePrepared, PTL
=============================================================================
