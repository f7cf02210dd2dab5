---------------------------- MODULE LaunchProofs ----------------------------
(* Proofs about Launch.                                                     *)
EXTENDS Launch, SequenceTheorems, WellFoundedInduction, TLAPS

-----------------------------------------------------------------------------
(* Numbers, the extremes of finite sets of them, and folds.                *)

\* The natural numbers are well founded.
LEMMA LeastNumber ==
  ASSUME NEW T \in SUBSET Nat, T # {}
  PROVE  \E x \in T : \A y \in T : x <= y
<1>1. IsWellFoundedOn(OpToRel(<, Nat), Nat)
  BY NatLessThanWellFounded
<1>2. PICK x \in T : \A y \in T : ~(<<y, x>> \in OpToRel(<, Nat))
  BY <1>1, WFMin
<1>3. \A y \in T : ~(<<y, x>> \in {pair \in Nat \X Nat : pair[1] < pair[2]})
  BY <1>2 DEF OpToRel
<1>4. ASSUME NEW y \in T PROVE x <= y
  <2>1. y \in Nat /\ x \in Nat
    OBVIOUS
  <2>2. ~(y < x)
    BY <1>3, <2>1
  <2> QED
    BY <2>1, <2>2
<1> QED
  BY <1>4

\* What holds of 0, and of n + 1 if of n, holds of every number.
LEMMA Induction ==
  ASSUME NEW P, 0 \in P, \A n \in Nat : n \in P => n + 1 \in P
  PROVE  Nat \subseteq P
<1>1. SUFFICES ASSUME Nat \ P # {} PROVE FALSE
  OBVIOUS
<1>2. PICK x \in Nat \ P : \A y \in Nat \ P : x <= y
  BY <1>1, LeastNumber
<1>3. x - 1 \in Nat /\ x - 1 \notin Nat \ P
  BY <1>2
<1> QED
  BY <1>2, <1>3

LEMMA MinIs ==
  ASSUME NEW S \in SUBSET Nat, S # {}
  PROVE  Min(S) \in S /\ \A y \in S : Min(S) <= y
BY LeastNumber DEF Min

LEMMA MaxIs ==
  ASSUME NEW n \in Nat, NEW S \in SUBSET (1 .. n), S # {}
  PROVE  Max(S) \in S /\ \A y \in S : Max(S) >= y
<1> DEFINE T == {m \in 0 .. n : n - m \in S}
<1>1. T \in SUBSET Nat /\ T # {}
  <2>1. PICK y \in S : TRUE
    OBVIOUS
  <2>2. n - y \in 0 .. n /\ n - (n - y) = y
    BY <2>1
  <2>3. n - y \in T
    BY <2>1, <2>2
  <2>4. T \subseteq Nat
    OBVIOUS
  <2> HIDE DEF T
  <2> QED
    BY <2>3, <2>4
<1>2. PICK x \in T : \A y \in T : x <= y
  BY <1>1, LeastNumber
<1>3. n - x \in S
  OBVIOUS
<1>4. ASSUME NEW y \in S PROVE n - x >= y
  <2>1. n - y \in 0 .. n /\ n - (n - y) = y
    OBVIOUS
  <2>2. n - y \in T
    BY <2>1
  <2>3. x <= n - y
    BY <1>2, <2>2
  <2>4. x \in 0 .. n /\ y \in 1 .. n
    OBVIOUS
  <2> QED
    BY <2>3, <2>4
<1> QED
  BY <1>3, <1>4 DEF Max

\* g computes a fold on the prefixes of s up to n: op, a function of the value
\* so far and the next element, from the first element to the last.
Computes(g, base, op, s, n) ==
  \A t \in SUBSET (1 .. n) :
    g[t] = IF t = {} THEN base ELSE op[<<g[t \ {Max(t)}], s[Max(t)]>>]

LEMMA FoldsExist ==
  ASSUME NEW R, NEW X, NEW base \in R, NEW op \in [R \X X -> R], NEW s \in Seq(X)
  PROVE  \E g \in [SUBSET (1 .. Len(s)) -> R] : Computes(g, base, op, s, Len(s))
<1> DEFINE Computed(n) == \E g \in [SUBSET (1 .. n) -> R] : Computes(g, base, op, s, n)
<1> HIDE DEF Computed
<1> DEFINE P == {n \in Nat : n <= Len(s) => Computed(n)}
<1>1. 0 \in P
  <2> DEFINE g == [t \in SUBSET (1 .. 0) |-> base]
  <2>1. g \in [SUBSET (1 .. 0) -> R]
    OBVIOUS
  <2>2. \A t \in SUBSET (1 .. 0) : t = {}
    OBVIOUS
  <2>3. Computes(g, base, op, s, 0)
    BY <2>2 DEF Computes
  <2> HIDE DEF g
  <2> QED
    BY <2>1, <2>3 DEF Computed
<1>2. ASSUME NEW n \in Nat, n \in P PROVE n + 1 \in P
  <2>1. SUFFICES ASSUME n + 1 <= Len(s)
                 PROVE  Computed(n + 1)
    OBVIOUS
  <2>2. Computed(n)
    BY <1>2, <2>1
  <2>3. PICK g \in [SUBSET (1 .. n) -> R] : Computes(g, base, op, s, n)
    BY <2>2 DEF Computed
  <2> DEFINE h == [t \in SUBSET (1 .. (n + 1)) |->
                     IF n + 1 \in t THEN op[<<g[t \ {n + 1}], s[n + 1]>>] ELSE g[t]]
  <2>4. s[n + 1] \in X
    BY <2>1
  <2>5. \A t \in SUBSET (1 .. (n + 1)) :
          /\ n + 1 \in t => t \ {n + 1} \in SUBSET (1 .. n)
          /\ n + 1 \notin t => t \in SUBSET (1 .. n)
    OBVIOUS
  <2>6. \A t \in SUBSET (1 .. n) : g[t] \in R
    OBVIOUS
  <2>7. h \in [SUBSET (1 .. (n + 1)) -> R]
    BY <2>4, <2>5, <2>6
  <2>8. ASSUME NEW t \in SUBSET (1 .. (n + 1))
        PROVE  h[t] = IF t = {} THEN base ELSE op[<<h[t \ {Max(t)}], s[Max(t)]>>]
    <3>1. CASE n + 1 \in t
      <4>1. Max(t) = n + 1
        <5>1. Max(t) \in t /\ Max(t) >= n + 1
          BY <3>1, MaxIs, n + 1 \in Nat
        <5>2. Max(t) \in 1 .. (n + 1)
          BY <5>1
        <5> QED
          BY <5>1, <5>2
      <4>2. h[t \ {n + 1}] = g[t \ {n + 1}]
        BY <2>5
      <4> QED
        BY <3>1, <4>1, <4>2
    <3>2. CASE n + 1 \notin t
      <4>1. t \in SUBSET (1 .. n) /\ t \ {Max(t)} \in SUBSET (1 .. n)
        BY <3>2, <2>5
      <4>2. h[t] = g[t] /\ h[t \ {Max(t)}] = g[t \ {Max(t)}]
        BY <4>1
      <4> QED
        BY <2>3, <4>1, <4>2 DEF Computes
    <3> QED
      BY <3>1, <3>2
  <2> HIDE DEF h
  <2>9. Computes(h, base, op, s, n + 1)
    BY <2>8 DEF Computes
  <2> QED
    BY <2>7, <2>9 DEF Computed
<1> HIDE DEF P
<1>3. Nat \subseteq P
  BY <1>1, <1>2, Induction
<1> USE DEF P
<1>4. Len(s) \in Nat /\ DOMAIN s = 1 .. Len(s)
  OBVIOUS
<1>5. Computed(Len(s))
  BY <1>3, <1>4
<1> QED
  BY <1>4, <1>5 DEF Computed

\* What is left of a prefix when its last element is taken away.
LEMMA PrefixIs ==
  ASSUME NEW n \in Nat
  PROVE  /\ 1 .. 0 = {}
         /\ 1 .. (n + 1) # {}
         /\ Max(1 .. (n + 1)) = n + 1
         /\ (1 .. (n + 1)) \ {n + 1} = 1 .. n
<1>1. n + 1 \in 1 .. (n + 1) /\ n + 1 \in Nat
  OBVIOUS
<1>2. Max(1 .. (n + 1)) \in 1 .. (n + 1) /\ Max(1 .. (n + 1)) >= n + 1
  BY <1>1, MaxIs
<1> QED
  BY <1>1, <1>2

LEMMA AppendedIs ==
  ASSUME NEW X, NEW s \in Seq(X), NEW x \in X
  PROVE  ToSet(Append(s, x)) = ToSet(s) \cup {x}
<1>1. DOMAIN s = 1 .. Len(s) /\ DOMAIN Append(s, x) = (1 .. Len(s)) \cup {Len(s) + 1}
  OBVIOUS
<1>2. Append(s, x)[Len(s) + 1] = x /\ \A n \in 1 .. Len(s) : Append(s, x)[n] = s[n]
  OBVIOUS
<1>3. ASSUME NEW y PROVE y \in ToSet(Append(s, x)) <=> y \in ToSet(s) \cup {x}
  BY <1>1, <1>2 DEF ToSet
<1> QED
  BY <1>3

\* Kept is a loop over s; f has what it holds after each element.
KeepsIn(f, s, S) ==
  /\ f[0] = <<>> /\ f[Len(s)] = Kept(s, S)
  /\ \A n \in Nat : n + 1 <= Len(s) =>
       f[n + 1] = IF s[n + 1] \in S THEN Append(f[n], s[n + 1]) ELSE f[n]

LEMMA KeptIsALoop ==
  ASSUME NEW X, NEW S, NEW s \in Seq(X)
  PROVE  \E f : KeepsIn(f, s, S)
<1> DEFINE Body(g, t) ==
      IF t = {} THEN <<>>
      ELSE IF s[Max(t)] \in S THEN Append(g[t \ {Max(t)}], s[Max(t)])
                              ELSE g[t \ {Max(t)}]
<1> DEFINE Iterates(g) == g = [t \in SUBSET (DOMAIN s) |-> Body(g, t)]
<1> DEFINE it == CHOOSE g : Iterates(g)
<1>1. Kept(s, S) = it[DOMAIN s]
  BY DEF Kept, FoldLeft, MapThenFoldSet
<1> DEFINE R == Seq(X)
           op == [pair \in R \X X |-> IF pair[2] \in S THEN Append(pair[1], pair[2])
                                                     ELSE pair[1]]
<1>2. op \in [R \X X -> R] /\ <<>> \in R
  OBVIOUS
<1> HIDE DEF Body, Iterates, it, op
<1>3. \E g : Iterates(g)
  <2>1. PICK g \in [SUBSET (1 .. Len(s)) -> R] : Computes(g, <<>>, op, s, Len(s))
    <3> HIDE DEF R
    <3> QED
      BY <1>2, FoldsExist
  <2>2. /\ g \in [SUBSET (DOMAIN s) -> R]
        /\ \A t \in SUBSET (DOMAIN s) :
             g[t] = IF t = {} THEN <<>> ELSE op[<<g[t \ {Max(t)}], s[Max(t)]>>]
    BY <2>1, DOMAIN s = 1 .. Len(s) DEF Computes
  <2>3. ASSUME NEW t \in SUBSET (DOMAIN s) PROVE g[t] = Body(g, t)
    <3>1. CASE t = {}
      BY <2>2, <3>1 DEF Body
    <3>2. CASE t # {}
      <4>1. Max(t) \in DOMAIN s
        BY <3>2, MaxIs, Len(s) \in Nat, DOMAIN s = 1 .. Len(s)
      <4>2. s[Max(t)] \in X /\ g[t \ {Max(t)}] \in R
        BY <4>1
      <4>3. op[<<g[t \ {Max(t)}], s[Max(t)]>>] =
              IF s[Max(t)] \in S THEN Append(g[t \ {Max(t)}], s[Max(t)])
                                 ELSE g[t \ {Max(t)}]
        BY <4>2 DEF op
      <4> QED
        BY <2>2, <3>2, <4>3 DEF Body
    <3> QED
      BY <3>1, <3>2
  <2>4. g = [t \in SUBSET (DOMAIN s) |-> Body(g, t)]
    BY <2>3
  <2> QED
    BY <2>4 DEF Iterates
<1>4. Iterates(it)
  BY <1>3 DEF it
<1>5. \A t \in SUBSET (DOMAIN s) : it[t] = Body(it, t)
  BY <1>4 DEF Iterates
<1>6. /\ it[{}] = <<>>
      /\ \A n \in Nat : n + 1 <= Len(s) =>
           it[1 .. (n + 1)] = IF s[n + 1] \in S THEN Append(it[1 .. n], s[n + 1])
                                               ELSE it[1 .. n]
  <2>1. it[{}] = <<>>
    BY <1>5 DEF Body
  <2>2. ASSUME NEW n \in Nat, n + 1 <= Len(s)
        PROVE  it[1 .. (n + 1)] = IF s[n + 1] \in S THEN Append(it[1 .. n], s[n + 1])
                                                   ELSE it[1 .. n]
    <3>1. 1 .. (n + 1) \in SUBSET (DOMAIN s)
      BY <2>2
    <3> QED
      BY <3>1, <1>5, PrefixIs DEF Body
  <2> QED
    BY <2>1, <2>2
<1> DEFINE f == [n \in 0 .. Len(s) |-> it[1 .. n]]
<1>7. f[0] = <<>>
  <2>1. 1 .. 0 = {} /\ 0 \in 0 .. Len(s)
    OBVIOUS
  <2> QED
    BY <2>1, <1>6
<1>8. f[Len(s)] = Kept(s, S)
  BY <1>1, DOMAIN s = 1 .. Len(s)
<1>9. \A n \in Nat : n + 1 <= Len(s) =>
        f[n + 1] = IF s[n + 1] \in S THEN Append(f[n], s[n + 1]) ELSE f[n]
  BY <1>6
<1> HIDE DEF f
<1> QED
  BY <1>7, <1>8, <1>9 DEF KeepsIn

\* It passes over the elements that are not in S and keeps the others.
LEMMA KeptIs ==
  ASSUME NEW X, NEW S, NEW s \in Seq(X)
  PROVE  Kept(s, S) \in Seq(X \cap S) /\ ToSet(Kept(s, S)) = ToSet(s) \cap S
<1>1. PICK f : KeepsIn(f, s, S)
  BY KeptIsALoop
<1>2. /\ f[0] = <<>> /\ f[Len(s)] = Kept(s, S)
      /\ \A n \in Nat : n + 1 <= Len(s) =>
           f[n + 1] = IF s[n + 1] \in S THEN Append(f[n], s[n + 1]) ELSE f[n]
  BY <1>1 DEF KeepsIn
<1> DEFINE Good(n) == /\ f[n] \in Seq(X \cap S)
                      /\ ToSet(f[n]) = {s[m] : m \in 1 .. n} \cap S
<1> HIDE DEF Good
<1> DEFINE P == {n \in Nat : n <= Len(s) => Good(n)}
<1>3. 0 \in P
  <2>1. 1 .. 0 = {}
    OBVIOUS
  <2>2. f[0] = <<>>
    BY <1>2
  <2>3. {s[m] : m \in 1 .. 0} = {}
    BY <2>1
  <2>4. ToSet(<<>>) = {} /\ <<>> \in Seq(X \cap S)
    BY DEF ToSet
  <2>5. Good(0)
    BY <2>2, <2>3, <2>4 DEF Good
  <2> QED
    BY <2>5
<1>4. ASSUME NEW n \in Nat, n \in P PROVE n + 1 \in P
  <2>1. SUFFICES ASSUME n + 1 <= Len(s) PROVE Good(n + 1)
    OBVIOUS
  <2>2. Good(n)
    BY <1>4, <2>1
  <2>3. s[n + 1] \in X
    BY <2>1
  <2>4. {s[m] : m \in 1 .. (n + 1)} = {s[m] : m \in 1 .. n} \cup {s[n + 1]}
    <3>1. 1 .. (n + 1) = (1 .. n) \cup {n + 1}
      OBVIOUS
    <3> QED
      BY <3>1
  <2>5. CASE s[n + 1] \in S
    <3> DEFINE k == f[n]
    <3>1. f[n + 1] = Append(k, s[n + 1])
      BY <1>2, <2>1, <2>5
    <3>2. k \in Seq(X \cap S) /\ ToSet(k) = {s[m] : m \in 1 .. n} \cap S
      BY <2>2 DEF Good
    <3> HIDE DEF k
    <3>3. Append(k, s[n + 1]) \in Seq(X \cap S)
      BY <3>2, <2>3, <2>5
    <3>4. ToSet(Append(k, s[n + 1])) = ToSet(k) \cup {s[n + 1]}
      BY <3>2, <2>3, <2>5, AppendedIs
    <3> QED
      BY <3>1, <3>2, <3>3, <3>4, <2>4, <2>5 DEF Good
  <2>6. CASE s[n + 1] \notin S
    <3>1. f[n + 1] = f[n]
      BY <1>2, <2>1, <2>6
    <3> QED
      BY <3>1, <2>2, <2>4, <2>6 DEF Good
  <2> QED
    BY <2>5, <2>6
<1> HIDE DEF P
<1>5. Nat \subseteq P
  BY <1>3, <1>4, Induction
<1>6. Good(Len(s))
  BY <1>5 DEF P
<1>7. DOMAIN s = 1 .. Len(s) /\ ToSet(s) = {s[m] : m \in 1 .. Len(s)}
  BY DEF ToSet
<1> QED
  BY <1>2, <1>6, <1>7 DEF Good

\* Where a sequence has elements of T.
Places(q, T) == {m \in 1 .. Len(q) : q[m] \in T}

\* Kept keeps the order: its last element of a kind is the last there was.
LEMMA LastOfKept ==
  ASSUME NEW X, NEW S, NEW s \in Seq(X), NEW T \in SUBSET S
  PROVE  /\ Places(Kept(s, S), T) = {} <=> Places(s, T) = {}
         /\ Places(Kept(s, S), T) # {} =>
              Kept(s, S)[Max(Places(Kept(s, S), T))] = s[Max(Places(s, T))]
<1>1. PICK f : KeepsIn(f, s, S)
  BY KeptIsALoop
<1>2. /\ f[0] = <<>> /\ f[Len(s)] = Kept(s, S)
      /\ \A n \in Nat : n + 1 <= Len(s) =>
           f[n + 1] = IF s[n + 1] \in S THEN Append(f[n], s[n + 1]) ELSE f[n]
  BY <1>1 DEF KeepsIn
<1> DEFINE Among(q) == {m \in 1 .. Len(q) : q[m] \in T}
           Sofar(n) == {m \in 1 .. n : s[m] \in T}
           Good(n) == /\ f[n] \in Seq(X)
                      /\ Among(f[n]) = {} <=> Sofar(n) = {}
                      /\ Among(f[n]) # {} => f[n][Max(Among(f[n]))] = s[Max(Sofar(n))]
<1> HIDE DEF Good
<1> DEFINE P == {n \in Nat : n <= Len(s) => Good(n)}
<1>3. 0 \in P
  <2>1. Among(<<>>) = {} /\ Sofar(0) = {} /\ <<>> \in Seq(X)
    OBVIOUS
  <2> HIDE DEF Among, Sofar
  <2>2. Good(0)
    BY <1>2, <2>1 DEF Good
  <2> QED
    BY <2>2
<1>4. ASSUME NEW n \in Nat, n \in P PROVE n + 1 \in P
  <2>1. SUFFICES ASSUME n + 1 <= Len(s) PROVE Good(n + 1)
    OBVIOUS
  <2>2. Good(n)
    BY <1>4, <2>1
  <2> DEFINE k == f[n]  x == s[n + 1]
  <2>3. /\ k \in Seq(X) /\ (Among(k) = {} <=> Sofar(n) = {})
        /\ Among(k) # {} => k[Max(Among(k))] = s[Max(Sofar(n))]
    BY <2>2 DEF Good
  <2>4. x \in X /\ s[n + 1] = x
    BY <2>1
  <2>5. f[n + 1] = IF x \in S THEN Append(k, x) ELSE k
    BY <1>2, <2>1
  <2>6. 1 .. (n + 1) = (1 .. n) \cup {n + 1} /\ n + 1 \notin 1 .. n
    OBVIOUS
  <2>7. Sofar(n + 1) = Sofar(n) \cup (IF x \in T THEN {n + 1} ELSE {})
    BY <2>4, <2>6
  <2> HIDE DEF k, x
  <2>8. /\ Append(k, x) \in Seq(X) /\ Len(Append(k, x)) = Len(k) + 1
        /\ Append(k, x)[Len(k) + 1] = x
        /\ \A m \in 1 .. Len(k) : Append(k, x)[m] = k[m]
        /\ 1 .. (Len(k) + 1) = (1 .. Len(k)) \cup {Len(k) + 1}
    BY <2>3, <2>4
  <2>9. Among(Append(k, x)) = Among(k) \cup (IF x \in T THEN {Len(k) + 1} ELSE {})
    BY <2>8
  <2>10. /\ Among(k) \in SUBSET (1 .. Len(k)) /\ Sofar(n + 1) \in SUBSET (1 .. (n + 1))
         /\ Among(Append(k, x)) \in SUBSET (1 .. (Len(k) + 1))
         /\ Len(k) \in Nat /\ Len(k) + 1 \in Nat /\ n + 1 \in Nat
    BY <2>3, <2>8
  <2> HIDE DEF Among, Sofar
  <2>11. CASE x \notin S
    <3>1. f[n + 1] = k /\ Sofar(n + 1) = Sofar(n)
      BY <2>5, <2>7, <2>11
    <3> QED
      BY <3>1, <2>3 DEF Good
  <2>12. CASE x \in S /\ x \notin T
    <3>1. /\ f[n + 1] = Append(k, x) /\ Sofar(n + 1) = Sofar(n)
          /\ Among(Append(k, x)) = Among(k)
      BY <2>5, <2>7, <2>9, <2>12
    <3>2. Among(k) # {} => Append(k, x)[Max(Among(k))] = k[Max(Among(k))]
      BY <2>8, <2>10, MaxIs
    <3> QED
      BY <3>1, <3>2, <2>3, <2>8 DEF Good
  <2>13. CASE x \in T
    <3>1. /\ f[n + 1] = Append(k, x) /\ n + 1 \in Sofar(n + 1)
          /\ Len(k) + 1 \in Among(Append(k, x))
      BY <2>5, <2>7, <2>9, <2>13
    <3>2. Max(Sofar(n + 1)) = n + 1
      <4>1. Max(Sofar(n + 1)) \in 1 .. (n + 1) /\ Max(Sofar(n + 1)) >= n + 1
        BY <3>1, <2>10, MaxIs
      <4> QED
        BY <4>1
    <3>3. Max(Among(Append(k, x))) = Len(k) + 1
      <4>1. /\ Max(Among(Append(k, x))) \in 1 .. (Len(k) + 1)
            /\ Max(Among(Append(k, x))) >= Len(k) + 1
        BY <3>1, <2>10, MaxIs
      <4> QED
        BY <4>1, <2>10
    <3> QED
      BY <3>1, <3>2, <3>3, <2>4, <2>8 DEF Good
  <2> QED
    BY <2>11, <2>12, <2>13
<1> HIDE DEF P
<1>5. Nat \subseteq P
  BY <1>3, <1>4, Induction
<1>6. Good(Len(s))
  BY <1>5 DEF P
<1>7. Sofar(Len(s)) = Among(s)
  OBVIOUS
<1> HIDE DEF Among, Sofar
<1>8. /\ Among(Kept(s, S)) = {} <=> Among(s) = {}
      /\ Among(Kept(s, S)) # {} => Kept(s, S)[Max(Among(Kept(s, S)))] = s[Max(Among(s))]
  BY <1>2, <1>6, <1>7 DEF Good
<1> QED
  BY <1>8 DEF Among, Places

\* A process has the last value that is set for a name, or what it inherits.
LEMMA SetAllIs ==
  ASSUME NEW env \in Environment, NEW s \in Seq(Setting)
  PROVE  /\ SetAll(env, s) \in Environment
         /\ DOMAIN SetAll(env, s) = DOMAIN env \cup Sets(s)
         /\ \A n \in DOMAIN SetAll(env, s) :
              SetAll(env, s)[n] = IF n \in Sets(s) THEN LastValue(s, n) ELSE env[n]
<1> DEFINE Set(e, v) == [n \in DOMAIN e \cup {v.name} |->
                           IF n = v.name THEN v.value ELSE e[n]]
           Body(g, t) == IF t = {} THEN env
                         ELSE Set(g[t \ {Max(t)}], s[Max(t)])
           Iterates(g) == g = [t \in SUBSET (DOMAIN s) |-> Body(g, t)]
           it == CHOOSE g : Iterates(g)
<1>1. SetAll(env, s) = it[DOMAIN s]
  BY DEF SetAll, FoldLeft, MapThenFoldSet
<1> HIDE DEF Iterates, it
<1>2. ASSUME NEW e \in Environment, NEW v \in Setting
      PROVE  /\ Set(e, v) \in Environment
             /\ DOMAIN Set(e, v) = DOMAIN e \cup {v.name}
             /\ Set(e, v)[v.name] = v.value
             /\ \A n \in DOMAIN e \ {v.name} : Set(e, v)[n] = e[n]
  <2>1. PICK names \in SUBSET Name : e \in [names -> Value]
    BY DEF Environment
  <2>2. v.name \in Name /\ v.value \in Value
    BY DEF Setting
  <2>3. Set(e, v) \in [names \cup {v.name} -> Value]
    BY <2>1, <2>2
  <2>4. names \cup {v.name} \in SUBSET Name
    BY <2>1, <2>2
  <2>5. Set(e, v) \in Environment
    <3> HIDE DEF Set
    <3> QED
      BY <2>3, <2>4 DEF Environment
  <2> QED
    BY <2>5
<1> DEFINE op == [pair \in Environment \X Setting |-> Set(pair[1], pair[2])]
<1> HIDE DEF Set, Body
<1>3. op \in [Environment \X Setting -> Environment]
  BY <1>2
<1> HIDE DEF op
<1>4. \E g : Iterates(g)
  <2>1. PICK g \in [SUBSET (1 .. Len(s)) -> Environment] :
               Computes(g, env, op, s, Len(s))
    BY <1>3, FoldsExist
  <2>2. /\ DOMAIN s = 1 .. Len(s)
        /\ g \in [SUBSET (DOMAIN s) -> Environment]
        /\ \A t \in SUBSET (DOMAIN s) :
             g[t] = IF t = {} THEN env ELSE op[<<g[t \ {Max(t)}], s[Max(t)]>>]
    BY <2>1 DEF Computes
  <2>3. ASSUME NEW t \in SUBSET (DOMAIN s) PROVE g[t] = Body(g, t)
    <3>1. CASE t = {}
      BY <2>2, <3>1 DEF Body
    <3>2. CASE t # {}
      <4>1. Max(t) \in DOMAIN s
        BY <3>2, <2>2, MaxIs, Len(s) \in Nat
      <4>2. s[Max(t)] \in Setting /\ g[t \ {Max(t)}] \in Environment
        BY <4>1, <2>2
      <4>3. op[<<g[t \ {Max(t)}], s[Max(t)]>>] = Set(g[t \ {Max(t)}], s[Max(t)])
        BY <4>2 DEF op
      <4> QED
        BY <2>2, <3>2, <4>3 DEF Body
    <3> QED
      BY <3>1, <3>2
  <2>4. g = [t \in SUBSET (DOMAIN s) |-> Body(g, t)]
    BY <2>2, <2>3
  <2> QED
    BY <2>4 DEF Iterates
<1>5. Iterates(it)
  BY <1>4 DEF it
<1>6. \A t \in SUBSET (DOMAIN s) : it[t] = Body(it, t)
  BY <1>5 DEF Iterates
<1>7. it[{}] = env
  BY <1>6 DEF Body
<1>8. ASSUME NEW k \in Nat, k + 1 <= Len(s)
      PROVE  it[1 .. (k + 1)] = Set(it[1 .. k], s[k + 1])
  <2>1. 1 .. (k + 1) \in SUBSET (DOMAIN s)
    BY <1>8
  <2> QED
    BY <2>1, <1>6, PrefixIs DEF Body
<1> DEFINE Named(n, k) == {m \in 1 .. k : s[m].name = n}
           Good(k) ==
             /\ it[1 .. k] \in Environment
             /\ DOMAIN it[1 .. k] = DOMAIN env \cup {s[m].name : m \in 1 .. k}
             /\ \A n \in DOMAIN it[1 .. k] :
                  it[1 .. k][n] = IF Named(n, k) # {} THEN s[Max(Named(n, k))].value
                                                     ELSE env[n]
<1> HIDE DEF Good
<1> DEFINE P == {k \in Nat : k <= Len(s) => Good(k)}
<1>9. 0 \in P
  <2>1. 1 .. 0 = {}
    OBVIOUS
  <2>2. it[1 .. 0] = env
    BY <2>1, <1>7
  <2>3. {s[m].name : m \in 1 .. 0} = {} /\ \A n : Named(n, 0) = {}
    BY <2>1
  <2>4. Good(0)
    BY <2>2, <2>3 DEF Good
  <2> QED
    BY <2>4
<1>10. ASSUME NEW k \in Nat, k \in P PROVE k + 1 \in P
  <2>1. SUFFICES ASSUME k + 1 <= Len(s) PROVE Good(k + 1)
    OBVIOUS
  <2>2. Good(k)
    BY <1>10, <2>1
  <2>3. s[k + 1] \in Setting
    BY <2>1
  <2>4. 1 .. (k + 1) = (1 .. k) \cup {k + 1}
    OBVIOUS
  <2> DEFINE e == it[1 .. k]
             v == s[k + 1]
  <2>5. /\ e \in Environment
        /\ DOMAIN e = DOMAIN env \cup {s[m].name : m \in 1 .. k}
        /\ \A n \in DOMAIN e :
             e[n] = IF Named(n, k) # {} THEN s[Max(Named(n, k))].value ELSE env[n]
    BY <2>2 DEF Good
  <2>6. it[1 .. (k + 1)] = Set(e, v)
    BY <1>8, <2>1
  <2>7. {s[m].name : m \in 1 .. (k + 1)} = {s[m].name : m \in 1 .. k} \cup {v.name}
    BY <2>4
  <2>8. Max(Named(v.name, k + 1)) = k + 1 /\ Named(v.name, k + 1) # {}
    <3>1. k + 1 \in Named(v.name, k + 1)
      BY <2>4
    <3>2. Named(v.name, k + 1) \in SUBSET (1 .. (k + 1))
      OBVIOUS
    <3> HIDE DEF Named
    <3>3. Max(Named(v.name, k + 1)) \in 1 .. (k + 1)
      BY <3>1, <3>2, MaxIs, k + 1 \in Nat
    <3>4. Max(Named(v.name, k + 1)) >= k + 1
      BY <3>1, <3>2, MaxIs, k + 1 \in Nat
    <3> QED
      BY <3>1, <3>3, <3>4
  <2>9. \A n : n # v.name => Named(n, k + 1) = Named(n, k)
    BY <2>4
  <2>10. v \in Setting /\ s[k + 1] = v
    BY <2>3
  <2> HIDE DEF e, v, Named
  <2>11. /\ Set(e, v) \in Environment
         /\ DOMAIN Set(e, v) = DOMAIN e \cup {v.name}
         /\ Set(e, v)[v.name] = v.value
         /\ \A n \in DOMAIN e \ {v.name} : Set(e, v)[n] = e[n]
    BY <1>2, <2>10, <2>5
  <2>12. ASSUME NEW n \in DOMAIN Set(e, v)
         PROVE  Set(e, v)[n] = IF Named(n, k + 1) # {}
                               THEN s[Max(Named(n, k + 1))].value ELSE env[n]
    <3>1. CASE n = v.name
      BY <3>1, <2>10, <2>8, <2>11
    <3>2. CASE n # v.name
      BY <3>2, <2>5, <2>9, <2>11
    <3> QED
      BY <3>1, <3>2
  <2>13. DOMAIN Set(e, v) = DOMAIN env \cup {s[m].name : m \in 1 .. (k + 1)}
    BY <2>5, <2>7, <2>11
  <2> QED
    BY <2>6, <2>11, <2>12, <2>13 DEF Good
<1> HIDE DEF P
<1>11. Good(Len(s))
  <2>1. Nat \subseteq P
    BY <1>9, <1>10, Induction
  <2> QED
    BY <2>1 DEF P
<1>12. DOMAIN s = 1 .. Len(s) /\ Sets(s) = {s[m].name : m \in 1 .. Len(s)}
  BY DEF Sets, ToSet
<1>13. \A n : /\ n \in Sets(s) <=> Named(n, Len(s)) # {}
              /\ n \in Sets(s) => LastValue(s, n) = s[Max(Named(n, Len(s)))].value
  BY <1>12 DEF LastValue, SelectLastInSeq
<1> HIDE DEF Named
<1> QED
  BY <1>1, <1>11, <1>12, <1>13 DEF Good

-----------------------------------------------------------------------------
(* Words of a sequence: the first and the last place of one, and what stands *)
(* before and after it.                                                      *)

LEMMA FindIs ==
  ASSUME NEW X, NEW s \in Seq(X), NEW x
  PROVE  /\ Find(s, x) \in 0 .. Len(s)
         /\ Find(s, x) = 0 <=> x \notin ToSet(s)
         /\ Find(s, x) # 0 => s[Find(s, x)] = x
         /\ \A n \in 1 .. Len(s) : s[n] = x => Find(s, x) <= n
<1> DEFINE I == {n \in 1 .. Len(s) : s[n] = x}
<1>1. Find(s, x) = IF I # {} THEN Min(I) ELSE 0
  BY DEF Find, SelectInSeq
<1>2. I \in SUBSET Nat /\ (I # {} <=> x \in ToSet(s))
  BY DEF ToSet
<1>3. I # {} => Min(I) \in I /\ \A n \in I : Min(I) <= n
  <2> HIDE DEF I
  <2> QED
    BY <1>2, MinIs
<1>4. CASE I = {}
  BY <1>1, <1>2, <1>4
<1>5. CASE I # {}
  <2>1. /\ Min(I) \in 1 .. Len(s) /\ s[Min(I)] = x
        /\ \A n \in 1 .. Len(s) : s[n] = x => Min(I) <= n
    BY <1>3, <1>5
  <2>2. Find(s, x) = Min(I) /\ x \in ToSet(s)
    BY <1>1, <1>2, <1>5
  <2> HIDE DEF I
  <2> QED
    BY <2>1, <2>2
<1> QED
  BY <1>4, <1>5

LEMMA FindLastIs ==
  ASSUME NEW X, NEW s \in Seq(X), NEW x
  PROVE  /\ FindLast(s, x) \in 0 .. Len(s)
         /\ FindLast(s, x) = 0 <=> x \notin ToSet(s)
         /\ FindLast(s, x) # 0 => s[FindLast(s, x)] = x
         /\ \A n \in 1 .. Len(s) : s[n] = x => FindLast(s, x) >= n
<1> DEFINE I == {n \in 1 .. Len(s) : s[n] = x}
<1>1. FindLast(s, x) = IF I # {} THEN Max(I) ELSE 0
  BY DEF FindLast, SelectLastInSeq
<1>2. I \in SUBSET (1 .. Len(s)) /\ Len(s) \in Nat /\ (I # {} <=> x \in ToSet(s))
  BY DEF ToSet
<1>3. I # {} => Max(I) \in I /\ \A n \in I : Max(I) >= n
  <2> HIDE DEF I
  <2> QED
    BY <1>2, MaxIs
<1>4. CASE I = {}
  BY <1>1, <1>2, <1>4
<1>5. CASE I # {}
  <2>1. /\ Max(I) \in 1 .. Len(s) /\ s[Max(I)] = x
        /\ \A n \in 1 .. Len(s) : s[n] = x => Max(I) >= n
    BY <1>3, <1>5
  <2>2. FindLast(s, x) = Max(I) /\ x \in ToSet(s)
    BY <1>1, <1>2, <1>5
  <2> HIDE DEF I
  <2> QED
    BY <2>1, <2>2
<1> QED
  BY <1>4, <1>5

LEMMA PartsAreWords ==
  ASSUME NEW X, NEW s \in Seq(X), NEW n \in 0 .. Len(s)
  PROVE  Before(s, n) \in Seq(X) /\ After(s, n) \in Seq(X)
BY DEF Before, After

\* A sequence that is put together around x comes apart there.
LEMMA Around ==
  ASSUME NEW X, NEW a \in Seq(X), NEW b \in Seq(X), NEW x \in X
  PROVE  LET s == a \o (<<x>> \o b)
         IN  /\ s \in Seq(X) /\ Len(s) = Len(a) + 1 + Len(b)
             /\ s[Len(a) + 1] = x
             /\ \A n \in 1 .. Len(a) : s[n] = a[n]
             /\ \A n \in 1 .. Len(b) : s[Len(a) + 1 + n] = b[n]
             /\ Before(s, Len(a) + 1) = a
             /\ After(s, Len(a) + 1) = b
<1> DEFINE s == a \o (<<x>> \o b)
<1>1. s \in Seq(X) /\ Len(s) = Len(a) + 1 + Len(b)
  OBVIOUS
<1>2. s[Len(a) + 1] = x /\ \A n \in 1 .. Len(a) : s[n] = a[n]
  OBVIOUS
<1>3. \A n \in 1 .. Len(b) : s[Len(a) + 1 + n] = b[n]
  OBVIOUS
<1> HIDE DEF s
<1>4. Before(s, Len(a) + 1) = a
  <2>1. Before(s, Len(a) + 1) = SubSeq(s, 1, Len(a))
    BY DEF Before
  <2> QED
    BY <2>1, <1>1, <1>2
<1>5. After(s, Len(a) + 1) = b
  <2>1. After(s, Len(a) + 1) = SubSeq(s, Len(a) + 2, Len(s))
    BY DEF After
  <2>2. /\ SubSeq(s, Len(a) + 2, Len(s)) \in Seq(X)
        /\ Len(SubSeq(s, Len(a) + 2, Len(s))) = Len(b)
        /\ \A n \in 1 .. Len(b) :
             SubSeq(s, Len(a) + 2, Len(s))[n] = s[Len(a) + 1 + n]
    BY <1>1
  <2> DEFINE t == SubSeq(s, Len(a) + 2, Len(s))
  <2>3. t \in Seq(X) /\ Len(t) = Len(b) /\ \A n \in 1 .. Len(b) : t[n] = b[n]
    BY <2>2, <1>3
  <2> HIDE DEF t
  <2>4. t = b
    BY <2>3
  <2> QED
    BY <2>1, <2>4 DEF t
<1> QED
  BY <1>1, <1>2, <1>3, <1>4, <1>5 DEF s

LEMMA FindAround ==
  ASSUME NEW X, NEW a \in Seq(X), NEW b \in Seq(X), NEW x \in X
  PROVE  /\ x \notin ToSet(a) => Find(a \o (<<x>> \o b), x) = Len(a) + 1
         /\ x \notin ToSet(b) => FindLast(a \o (<<x>> \o b), x) = Len(a) + 1
<1> DEFINE s == a \o (<<x>> \o b)
<1>1. /\ s \in Seq(X) /\ Len(s) = Len(a) + 1 + Len(b) /\ s[Len(a) + 1] = x
      /\ \A n \in 1 .. Len(a) : s[n] = a[n]
      /\ \A n \in 1 .. Len(b) : s[Len(a) + 1 + n] = b[n]
  BY Around
<1> HIDE DEF s
<1>2. Len(a) \in Nat /\ Len(b) \in Nat /\ Len(a) + 1 \in 1 .. Len(s)
  BY <1>1
<1>3. ASSUME x \notin ToSet(a) PROVE Find(s, x) = Len(a) + 1
  <2>1. \A n \in 1 .. Len(a) : s[n] # x
    BY <1>1, <1>3 DEF ToSet
  <2>2. Find(s, x) \in 0 .. Len(s) /\ Find(s, x) <= Len(a) + 1
    BY <1>1, <1>2, FindIs
  <2>3. Find(s, x) # 0 /\ s[Find(s, x)] = x
    <3>1. x \in ToSet(s)
      BY <1>1, <1>2 DEF ToSet
    <3> QED
      BY <3>1, <1>1, FindIs
  <2> QED
    BY <1>2, <2>1, <2>2, <2>3
<1>4. ASSUME x \notin ToSet(b) PROVE FindLast(s, x) = Len(a) + 1
  <2>1. \A n \in 1 .. Len(b) : s[Len(a) + 1 + n] # x
    BY <1>1, <1>4 DEF ToSet
  <2>2. FindLast(s, x) \in 0 .. Len(s) /\ FindLast(s, x) >= Len(a) + 1
    BY <1>1, <1>2, FindLastIs
  <2>3. s[FindLast(s, x)] = x
    BY <1>1, <1>2, <2>2, FindLastIs
  <2>4. ASSUME FindLast(s, x) > Len(a) + 1 PROVE FALSE
    <3>1. FindLast(s, x) - (Len(a) + 1) \in 1 .. Len(b)
      BY <1>1, <1>2, <2>2, <2>4
    <3>2. Len(a) + 1 + (FindLast(s, x) - (Len(a) + 1)) = FindLast(s, x)
      BY <1>2, <2>2
    <3> QED
      BY <2>1, <2>3, <3>1, <3>2
  <2> QED
    BY <1>2, <2>2, <2>4
<1> QED
  BY <1>3, <1>4 DEF s

-----------------------------------------------------------------------------
(* What ImageRef::parse makes of a reference.                              *)

\* Without the tag or the digest.
NameOf(image) ==
  IF image.host = None THEN image.path ELSE image.host \o (<<"/">> \o image.path)

LEMMA WordsAre ==
  /\ {"/", ":", "@", Hub, Library, Latest} \subseteq Word /\ None \notin Word
  /\ \A image \in Image :
       /\ image.host # None => image.host \in Seq(Word)
       /\ image.path \in Seq(Word)
       /\ image.tag # None => image.tag \in Word
       /\ image.digest # None => image.digest \in Seq(Word)
       /\ NameOf(image) \in Seq(Word)
<1>1. {"/", ":", "@", Hub, Library, Latest} \subseteq Word /\ None \notin Word
  BY LaunchAssumption
<1>2. ASSUME NEW image \in Image
      PROVE  /\ image.host # None => image.host \in Seq(Word)
             /\ image.path \in Seq(Word)
             /\ image.tag # None => image.tag \in Word
             /\ image.digest # None => image.digest \in Seq(Word)
             /\ NameOf(image) \in Seq(Word)
  <2>1. /\ image.host # None => image.host \in Seq(Word)
        /\ image.path \in Seq(Word)
        /\ image.tag # None => image.tag \in Word
        /\ image.digest # None => image.digest \in Seq(Word)
    BY DEF Image, Option
  <2>2. CASE image.host = None
    BY <2>1, <2>2 DEF NameOf
  <2>3. CASE image.host # None
    <3>1. image.host \o (<<"/">> \o image.path) \in Seq(Word)
      BY <1>1, <2>1, <2>3
    <3> QED
      BY <2>1, <2>3, <3>1 DEF NameOf
  <2> QED
    BY <2>2, <2>3
<1> QED
  BY <1>1, <1>2

LEMMA TextIs ==
  ASSUME NEW image \in Image
  PROVE  /\ Text(image) \in Seq(Word)
         /\ image.tag = None /\ image.digest = None => Text(image) = NameOf(image)
         /\ image.tag # None /\ image.digest = None =>
              Text(image) = NameOf(image) \o (<<":">> \o <<image.tag>>)
         /\ image.tag = None /\ image.digest # None =>
              Text(image) = NameOf(image) \o (<<"@">> \o image.digest)
<1> DEFINE H == IF image.host = None THEN <<>> ELSE image.host \o <<"/">>
           T == IF image.tag = None THEN <<>> ELSE <<":", image.tag>>
           D == IF image.digest = None THEN <<>> ELSE <<"@">> \o image.digest
<1>1. Text(image) = H \o image.path \o T \o D
  BY DEF Text
<1>2. /\ image.host # None => image.host \in Seq(Word)
      /\ image.path \in Seq(Word)
      /\ image.tag # None => image.tag \in Word
      /\ image.digest # None => image.digest \in Seq(Word)
      /\ <<"/">> \in Seq(Word) /\ <<"@">> \in Seq(Word)
  BY WordsAre
<1>3. H \in Seq(Word) /\ T \in Seq(Word) /\ D \in Seq(Word)
  <2>1. H \in Seq(Word)
    BY <1>2
  <2>2. T \in Seq(Word)
    BY <1>2, WordsAre
  <2>3. D \in Seq(Word)
    BY <1>2
  <2> QED
    BY <2>1, <2>2, <2>3
<1>4. H \o image.path = NameOf(image)
  <2>1. CASE image.host = None
    BY <1>2, <2>1, ConcatEmptySeq DEF NameOf
  <2>2. CASE image.host # None
    <3>1. image.host \in Seq(Word) /\ image.path \in Seq(Word) /\ <<"/">> \in Seq(Word)
      BY <1>2, <2>2
    <3>2. (image.host \o <<"/">>) \o image.path = image.host \o (<<"/">> \o image.path)
      <4>1. \A a, b, c \in Seq(Word) : (a \o b) \o c = a \o (b \o c)
        BY ConcatAssociative
      <4> QED
        BY <3>1, <4>1, Zenon
    <3> QED
      BY <2>2, <3>2, Zenon DEF NameOf
  <2> QED
    BY <2>1, <2>2
<1>5. NameOf(image) \in Seq(Word)
  BY WordsAre
<1>6. image.tag # None => T = <<":">> \o <<image.tag>>
  BY <1>2
<1>7. image.tag = None => T = <<>>
  OBVIOUS
<1>8. image.digest = None => D = <<>>
  OBVIOUS
<1>9. image.digest # None => D = <<"@">> \o image.digest
  OBVIOUS
<1> HIDE DEF H, T, D
<1>10. Text(image) = NameOf(image) \o T \o D
  BY <1>1, <1>4
<1>11. NameOf(image) \o T \in Seq(Word) /\ NameOf(image) \o T \o D \in Seq(Word)
  BY <1>3, <1>5
<1>12. /\ T = <<>> => NameOf(image) \o T = NameOf(image)
       /\ D = <<>> => NameOf(image) \o T \o D = NameOf(image) \o T
  BY <1>3, <1>5, <1>11, ConcatEmptySeq
<1> QED
  BY <1>6, <1>7, <1>8, <1>9, <1>10, <1>11, <1>12

LEMMA ParseIsTyped ==
  ASSUME NEW s \in Seq(Word)
  PROVE  Parse(s) \in Reference
<1>1. ReferenceAt(s) \in 0 .. Len(s)
  BY FindIs, FindLastIs, Len(s) \in Nat DEF ReferenceAt
<1>2. NamePart(s) \in Seq(Word)
  BY <1>1, PartsAreWords DEF NamePart
<1>3. (IF ReferenceAt(s) = 0 THEN <<Latest>> ELSE After(s, ReferenceAt(s))) \in Seq(Word)
  BY <1>1, PartsAreWords, WordsAre
<1> DEFINE name  == NamePart(s)
           slash == Find(name, "/")
           host  == Before(name, slash)
           isHost == \E x \in ToSet(host) : x \in Dotted \cup {":"}
<1> HIDE DEF name
<1>4. name \in Seq(Word) /\ slash \in 0 .. Len(name)
  BY <1>2, FindIs DEF name
<1>5. host \in Seq(Word) /\ After(name, slash) \in Seq(Word)
  BY <1>4, PartsAreWords
<1>6. <<Hub>> \in Seq(Word) /\ <<Library, "/">> \in Seq(Word)
  BY WordsAre
<1>7. <<Library, "/">> \o name \in Seq(Word)
  BY <1>4, <1>6
<1>8. Parse(s) = [registry   |-> IF slash # 0 /\ isHost THEN host ELSE <<Hub>>,
                  repository |-> IF slash = 0 THEN <<Library, "/">> \o name
                                 ELSE IF isHost THEN After(name, slash) ELSE name,
                  reference  |-> IF ReferenceAt(s) = 0 THEN <<Latest>>
                                 ELSE After(s, ReferenceAt(s))]
  BY DEF Parse, name
<1> HIDE DEF slash, host, isHost
<1>9. (IF slash # 0 /\ isHost THEN host ELSE <<Hub>>) \in Seq(Word)
  BY <1>5, <1>6
<1>10. (IF slash = 0 THEN <<Library, "/">> \o name
        ELSE IF isHost THEN After(name, slash) ELSE name) \in Seq(Word)
  BY <1>4, <1>5, <1>7
<1> QED
  BY <1>3, <1>8, <1>9, <1>10 DEF Reference

\* A name with a host comes apart at the slash after the host; the first part of
\* a name without one is part of the path.
LEMMA NameIsRead ==
  ASSUME NEW image \in Image, WellFormed(image)
  PROVE  LET name   == NameOf(image)
             slash  == Find(name, "/")
             isHost == \E x \in ToSet(Before(name, slash)) : x \in Dotted \cup {":"}
         IN  /\ "@" \notin ToSet(name)
             /\ ~(FindLast(name, ":") > slash)
             /\ image.host # None => /\ slash # 0 /\ isHost
                                     /\ Before(name, slash) = image.host
                                     /\ After(name, slash) = image.path
             /\ image.host = None => /\ slash = 0 <=> Len(image.path) = 1
                                     /\ slash # 0 => ~isHost
                                     /\ name = image.path
<1> DEFINE name   == NameOf(image)
           slash  == Find(name, "/")
           isHost == \E x \in ToSet(Before(name, slash)) : x \in Dotted \cup {":"}
<1>1. /\ image.path \in Seq(Word) /\ image.host # None => image.host \in Seq(Word)
      /\ name \in Seq(Word) /\ "/" \in Word
  BY WordsAre
<1>2. CASE image.host # None
  <2> DEFINE h == image.host  p == image.path
  <2>1. name = h \o (<<"/">> \o p)
    BY <1>2, Zenon DEF NameOf
  <2>2. name = h \o (<<"/">> \o p) /\ h \in Seq(Word) /\ p \in Seq(Word)
    BY <1>1, <1>2, <2>1
  <2>3. /\ "/" \notin ToSet(h) /\ "@" \notin ToSet(h)
        /\ ToSet(h) \cap (Dotted \cup {":"}) # {}
        /\ ":" \notin ToSet(p) /\ "@" \notin ToSet(p)
    BY <1>2 DEF WellFormed
  <2>4. /\ Len(name) = Len(h) + 1 + Len(p) /\ name[Len(h) + 1] = "/"
        /\ \A n \in 1 .. Len(h) : name[n] = h[n]
        /\ \A n \in 1 .. Len(p) : name[Len(h) + 1 + n] = p[n]
        /\ Before(name, Len(h) + 1) = h
        /\ After(name, Len(h) + 1) = p
    <3> HIDE DEF name, h, p
    <3> QED
      BY <1>1, <2>2, Around
  <2>5. slash = Len(h) + 1
    BY <1>1, <2>2, <2>3, FindAround
  <2>6. isHost
    BY <2>3, <2>4, <2>5
  <2> HIDE DEF name, slash, h, p
  <2>7. ASSUME NEW n \in 1 .. Len(name)
        PROVE  name[n] # "@" /\ (name[n] = ":" => n <= Len(h))
    <3>1. CASE n \in 1 .. Len(h)
      <4>1. name[n] \in ToSet(h)
        BY <3>1, <2>2, <2>4 DEF ToSet
      <4> QED
        BY <4>1, <3>1, <2>3
    <3>2. CASE n = Len(h) + 1
      BY <3>2, <2>4
    <3>3. CASE n \in Len(h) + 2 .. Len(name)
      <4>1. n - (Len(h) + 1) \in 1 .. Len(p) /\ Len(h) + 1 + (n - (Len(h) + 1)) = n
        BY <3>3, <2>2, <2>4
      <4>2. name[n] = p[n - (Len(h) + 1)]
        BY <4>1, <2>4
      <4>3. name[n] \in ToSet(p)
        BY <4>1, <4>2, <2>2 DEF ToSet
      <4> QED
        BY <4>3, <2>3
    <3> QED
      BY <3>1, <3>2, <3>3, <2>2
  <2>8. "@" \notin ToSet(name)
    BY <2>7, <1>1 DEF ToSet, name
  <2>9. ~(FindLast(name, ":") > slash)
    <3>1. /\ FindLast(name, ":") \in 0 .. Len(name)
          /\ FindLast(name, ":") # 0 => name[FindLast(name, ":")] = ":"
      BY <1>1, FindLastIs DEF name
    <3>2. FindLast(name, ":") <= Len(h)
      BY <3>1, <2>7, <2>2
    <3> QED
      BY <3>1, <3>2, <2>5, <2>2
  <2>10. slash # 0 /\ Before(name, slash) = h /\ After(name, slash) = p
    BY <2>2, <2>4, <2>5
  <2> QED
    BY <1>2, <2>6, <2>8, <2>9, <2>10, Zenon DEF name, slash, h, p
<1>3. CASE image.host = None
  <2> DEFINE p == image.path
  <2>1. name = p /\ p \in Seq(Word)
    BY <1>1, <1>3 DEF NameOf
  <2>2. /\ ":" \notin ToSet(p) /\ "@" \notin ToSet(p)
        /\ Len(p) = 1 <=> "/" \notin ToSet(p)
        /\ Len(p) # 1 => \A n \in DOMAIN p :
                           p[n] \in Dotted => \E m \in 1 .. (n - 1) : p[m] = "/"
    BY <1>3 DEF WellFormed
  <2> HIDE DEF p
  <2>3. /\ Find(p, "/") \in 0 .. Len(p)
        /\ Find(p, "/") = 0 <=> "/" \notin ToSet(p)
        /\ \A n \in 1 .. Len(p) : p[n] = "/" => Find(p, "/") <= n
    BY <2>1, FindIs
  <2>4. FindLast(p, ":") = 0
    BY <2>1, <2>2, FindLastIs
  <2>5. ASSUME Find(p, "/") # 0, NEW x \in ToSet(Before(p, Find(p, "/")))
        PROVE  x \notin Dotted \cup {":"}
    <3>1. PICK n \in 1 .. (Find(p, "/") - 1) : x = p[n]
      <4>1. /\ Len(Before(p, Find(p, "/"))) = Find(p, "/") - 1
            /\ \A n \in 1 .. (Find(p, "/") - 1) : Before(p, Find(p, "/"))[n] = p[n]
            /\ Before(p, Find(p, "/")) \in Seq(Word)
        BY <2>1, <2>3, <2>5 DEF Before
      <4> QED
        BY <4>1 DEF ToSet
    <3>2. n \in 1 .. Len(p) /\ n < Find(p, "/")
      BY <2>3, <2>1
    <3>3. p[n] # ":"
      BY <2>1, <2>2, <3>2 DEF ToSet
    <3>4. p[n] \notin Dotted
      <4>1. SUFFICES ASSUME NEW m \in 1 .. (n - 1), p[m] = "/" PROVE FALSE
        BY <2>1, <2>2, <2>3, <2>5, <3>2
      <4>2. m \in 1 .. Len(p) /\ m < Find(p, "/")
        BY <3>2, <2>1, <2>3
      <4> QED
        BY <4>1, <4>2, <2>3
    <3> QED
      BY <3>1, <3>3, <3>4
  <2>6. ~(FindLast(p, ":") > Find(p, "/"))
    BY <2>3, <2>4, <2>1
  <2> QED
    BY <1>3, <2>1, <2>2, <2>3, <2>5, <2>6 DEF p
<1> QED
  BY <1>2, <1>3

LEMMA ParseIs ==
  ASSUME NEW image \in Image, WellFormed(image), image.tag = None \/ image.digest = None
  PROVE  LET read == Parse(Text(image))
         IN  /\ read.registry = Or(image.host, <<Hub>>)
             /\ read.repository = IF image.host = None /\ Len(image.path) = 1
                                  THEN <<Library, "/">> \o image.path ELSE image.path
             /\ read.reference = IF image.digest # None THEN image.digest
                                 ELSE <<Or(image.tag, Latest)>>
<1> DEFINE s      == Text(image)
           name   == NameOf(image)
           slash  == Find(name, "/")
           isHost == \E x \in ToSet(Before(name, slash)) : x \in Dotted \cup {":"}
           meant  == IF image.digest # None THEN image.digest
                     ELSE <<Or(image.tag, Latest)>>
<1>1. /\ name \in Seq(Word) /\ "@" \in Word /\ ":" \in Word
      /\ image.tag # None => image.tag \in Word
      /\ image.digest # None => image.digest \in Seq(Word)
  BY WordsAre
<1>2. /\ s \in Seq(Word)
      /\ image.tag = None /\ image.digest = None => s = name
      /\ image.tag # None /\ image.digest = None => s = name \o (<<":">> \o <<image.tag>>)
      /\ image.tag = None /\ image.digest # None => s = name \o (<<"@">> \o image.digest)
  BY TextIs
<1>3. /\ "@" \notin ToSet(name) /\ ~(FindLast(name, ":") > slash)
      /\ image.host # None => /\ slash # 0 /\ isHost
                              /\ Before(name, slash) = image.host
                              /\ After(name, slash) = image.path
      /\ image.host = None => /\ slash = 0 <=> Len(image.path) = 1
                              /\ slash # 0 => ~isHost
                              /\ name = image.path
  BY NameIsRead
<1>4. NamePart(s) = name /\ (IF ReferenceAt(s) = 0 THEN <<Latest>>
                             ELSE After(s, ReferenceAt(s))) = meant
  <2> HIDE DEF s, name, slash, isHost
  <2>1. CASE image.digest # None
    <3> DEFINE d == image.digest
    <3>1. s = name \o (<<"@">> \o d) /\ d \in Seq(Word) /\ name \in Seq(Word)
      BY <1>1, <1>2, <2>1
    <3> HIDE DEF d
    <3>2. Find(s, "@") = Len(name) + 1
      BY <1>1, <1>3, <3>1, FindAround
    <3>3. Before(s, Len(name) + 1) = name /\ After(s, Len(name) + 1) = d
      BY <1>1, <3>1, Around
    <3>4. ReferenceAt(s) = Len(name) + 1 /\ ReferenceAt(s) # 0
      BY <3>2, <1>1 DEF ReferenceAt
    <3>5. NamePart(s) = name
      BY <3>3, <3>4 DEF NamePart
    <3> QED
      BY <2>1, <3>3, <3>4, <3>5 DEF d
  <2>2. CASE image.digest = None /\ image.tag = None
    <3>1. s = name
      BY <1>2, <2>2
    <3>2. Find(s, "@") = 0
      BY <1>1, <1>3, <3>1, FindIs
    <3>3. ReferenceAt(s) = 0
      BY <1>3, <3>1, <3>2 DEF ReferenceAt, slash
    <3> QED
      BY <2>2, <3>1, <3>3 DEF NamePart, Or
  <2>3. CASE image.digest = None /\ image.tag # None
    <3> DEFINE t == image.tag
    <3>1. t \in Word /\ t \notin {"/", ":", "@"} /\ <<t>> \in Seq(Word)
      BY <1>1, <2>3 DEF WellFormed
    <3>2. s = name \o (<<":">> \o <<t>>)
      BY <1>2, <2>3
    <3>3. ToSet(<<t>>) = {t}
      BY DEF ToSet
    <3> HIDE DEF t
    <3>4. FindLast(s, ":") = Len(name) + 1
      <4>1. ":" \notin ToSet(<<t>>)
        BY <3>1, <3>3
      <4> QED
        BY <1>1, <3>1, <3>2, <4>1, FindAround
    <3>5. /\ s \in Seq(Word) /\ Len(s) = Len(name) + 2 /\ s[Len(name) + 1] = ":"
          /\ \A n \in 1 .. Len(name) : s[n] = name[n]
          /\ s[Len(name) + 2] = t
          /\ Before(s, Len(name) + 1) = name /\ After(s, Len(name) + 1) = <<t>>
      <4> DEFINE b == <<t>>
      <4>1. b \in Seq(Word) /\ s = name \o (<<":">> \o b)
        BY <3>1, <3>2
      <4> HIDE DEF b
      <4>2. /\ s \in Seq(Word) /\ Len(s) = Len(name) + 1 + Len(b)
            /\ s[Len(name) + 1] = ":"
            /\ \A n \in 1 .. Len(name) : s[n] = name[n]
            /\ \A n \in 1 .. Len(b) : s[Len(name) + 1 + n] = b[n]
            /\ Before(s, Len(name) + 1) = name /\ After(s, Len(name) + 1) = b
        BY <1>1, <4>1, Around
      <4> USE DEF b
      <4>3. Len(<<t>>) = 1 /\ <<t>>[1] = t /\ 1 \in 1 .. Len(<<t>>)
        OBVIOUS
      <4>4. Len(name) \in Nat /\ Len(name) + 1 + 1 = Len(name) + 2
        BY <1>1
      <4> QED
        BY <4>2, <4>3, <4>4
    <3>6. Find(s, "@") = 0
      <4>1. \A n \in 1 .. Len(s) : s[n] # "@"
        <5>1. \A n \in 1 .. Len(name) : name[n] # "@"
          BY <1>1, <1>3 DEF ToSet
        <5>2. \A n \in 1 .. Len(s) :
                n \in 1 .. Len(name) \/ n = Len(name) + 1 \/ n = Len(name) + 2
          BY <1>1, <3>5
        <5> QED
          BY <3>1, <3>5, <5>1, <5>2
      <4>2. "@" \notin ToSet(s)
        BY <4>1, <3>5 DEF ToSet
      <4> QED
        BY <4>2, <3>5, FindIs
    <3>7. FindLast(s, ":") > Find(s, "/")
      <4>1. /\ Find(s, "/") \in 0 .. Len(s)
            /\ Find(s, "/") # 0 => s[Find(s, "/")] = "/"
        BY <3>5, FindIs
      <4>2. Find(s, "/") # Len(name) + 1 /\ Find(s, "/") # Len(name) + 2
        BY <4>1, <3>1, <3>5, <1>1
      <4> QED
        BY <4>1, <4>2, <3>4, <3>5, <1>1
    <3>8. ReferenceAt(s) = Len(name) + 1 /\ ReferenceAt(s) # 0
      BY <3>4, <3>6, <3>7, <1>1 DEF ReferenceAt
    <3>9. NamePart(s) = name
      BY <3>5, <3>8 DEF NamePart
    <3> QED
      BY <2>3, <3>5, <3>8, <3>9 DEF t, Or
  <2> QED
    BY <2>1, <2>2, <2>3
<1>5. Parse(s) = [registry   |-> IF slash # 0 /\ isHost THEN Before(name, slash) ELSE <<Hub>>,
                  repository |-> IF slash = 0 THEN <<Library, "/">> \o name
                                 ELSE IF isHost THEN After(name, slash) ELSE name,
                  reference  |-> meant]
  <2> HIDE DEF s, name, meant
  <2> QED
    BY <1>4 DEF Parse
<1> HIDE DEF s, name, slash, isHost, meant
<1>6. /\ Parse(s).registry = IF slash # 0 /\ isHost THEN Before(name, slash) ELSE <<Hub>>
      /\ Parse(s).repository = IF slash = 0 THEN <<Library, "/">> \o name
                               ELSE IF isHost THEN After(name, slash) ELSE name
      /\ Parse(s).reference = meant
  BY <1>5
<1>7. Parse(s).registry = Or(image.host, <<Hub>>)
  BY <1>3, <1>6 DEF Or
<1>8. Parse(s).repository = IF image.host = None /\ Len(image.path) = 1
                            THEN <<Library, "/">> \o image.path ELSE image.path
  BY <1>3, <1>6
<1> QED
  BY <1>6, <1>7, <1>8 DEF s, meant

-----------------------------------------------------------------------------
(* The platform, and what is put together for a process.                   *)

LEMMA PlatformIs ==
  ASSUME NEW b \in Bodies, IsList(b)
  PROVE  /\ PlatformOf(b) \in 0 .. Len(b.entries)
         /\ PlatformOf(b) # 0 =>
              /\ b.entries[PlatformOf(b)] \in Manifests
              /\ b.entries[PlatformOf(b)].os = "linux"
              /\ b.entries[PlatformOf(b)].arch # Arch =>
                   \A e \in ToSet(b.entries) : e.os # "linux" \/ e.arch # Arch
<1> DEFINE es == b.entries
           Exact == {n \in 1 .. Len(es) : es[n].os = "linux" /\ es[n].arch = Arch}
           Linux == {n \in 1 .. Len(es) : es[n].os = "linux"}
<1>1. PlatformOf(b) = IF (IF Exact # {} THEN Min(Exact) ELSE 0) # 0
                      THEN (IF Exact # {} THEN Min(Exact) ELSE 0)
                      ELSE (IF Linux # {} THEN Min(Linux) ELSE 0)
  BY DEF PlatformOf, SelectInSeq
<1>2. es \in Seq(Manifests)
  BY LaunchAssumption
<1>3. ToSet(es) = {es[n] : n \in 1 .. Len(es)}
  BY <1>2 DEF ToSet
<1>4. Exact \in SUBSET Nat /\ Linux \in SUBSET Nat
  OBVIOUS
<1>5. /\ \A n \in Exact : n \in 1 .. Len(es) /\ es[n].os = "linux" /\ es[n].arch = Arch
      /\ \A n \in Linux : n \in 1 .. Len(es) /\ es[n].os = "linux"
      /\ Exact = {} => \A e \in ToSet(es) : e.os # "linux" \/ e.arch # Arch
  BY <1>3
<1> HIDE DEF Exact, Linux
<1>6. /\ Exact # {} => Min(Exact) \in Exact
      /\ Linux # {} => Min(Linux) \in Linux
  BY <1>4, MinIs
<1> HIDE DEF es
<1>7. CASE Exact # {}
  BY <1>1, <1>2, <1>5, <1>6, <1>7 DEF es
<1>8. CASE Exact = {} /\ Linux # {}
  BY <1>1, <1>2, <1>5, <1>6, <1>8 DEF es
<1>9. CASE Exact = {} /\ Linux = {}
  <2>1. PlatformOf(b) = 0
    BY <1>1, <1>9
  <2> QED
    BY <1>2, <2>1 DEF es
<1> QED
  BY <1>7, <1>8, <1>9

LEMMA FieldsAreTyped ==
  ASSUME pod \in Pods, config \in Configs
  PROVE  /\ pod.image \in Image /\ WellFormed(pod.image)
         /\ pod.command \in Option(Seq(Program)) /\ pod.args \in Option(Seq(Program))
         /\ pod.env \in Option(Seq([name : Name, value : Option(Value)]))
         /\ pod.mounts \in Option(Seq(Place)) /\ pod.dir \in Option(Place)
         /\ FromImage("entrypoint", <<>>) \in Seq(Program)
         /\ FromImage("cmd", <<>>) \in Seq(Program)
         /\ FromImage("env", <<>>) \in Seq(Setting)
         /\ FromImage("dir", None) \in Option(Place)
<1>1. pod \in Pod /\ WellFormed(pod.image)
  BY LaunchAssumption
<1>2. config # None =>
        /\ config["entrypoint"] \in Option(Seq(Program))
        /\ config["cmd"] \in Option(Seq(Program))
        /\ config["env"] \in Option(Seq(Setting))
        /\ config["dir"] \in Option(Place)
  <2>1. config # None => config \in Config
    BY LaunchAssumption DEF Option
  <2> QED
    BY <2>1 DEF Config
<1>3. /\ pod.image \in Image
      /\ pod.command \in Option(Seq(Program)) /\ pod.args \in Option(Seq(Program))
      /\ pod.env \in Option(Seq([name : Name, value : Option(Value)]))
      /\ pod.mounts \in Option(Seq(Place)) /\ pod.dir \in Option(Place)
  BY <1>1 DEF Pod
<1>4. \A X : <<>> \in Seq(X)
  OBVIOUS
<1>5. /\ FromImage("entrypoint", <<>>) \in Seq(Program)
      /\ FromImage("cmd", <<>>) \in Seq(Program)
      /\ FromImage("env", <<>>) \in Seq(Setting)
      /\ FromImage("dir", None) \in Option(Place)
  BY <1>2, <1>4 DEF FromImage, Or, Option
<1> QED
  BY <1>1, <1>3, <1>5

\* The literals among a pod's settings, and the mounts the device has.
LEMMA KeptAreTyped ==
  ASSUME pod \in Pods, config \in Configs
  PROVE  /\ Literals \in Seq(Setting) /\ ResolveEnv \in Seq(Setting)
         /\ ResolveMounts \in Seq(Place)
         /\ ToSet(ResolveMounts) = ToSet(Or(pod.mounts, <<>>)) \cap HostPaths
<1> DEFINE Said == [name : Name, value : Option(Value)]
           env == Or(pod.env, <<>>)
           mounts == Or(pod.mounts, <<>>)
<1>1. env \in Seq(Said) /\ mounts \in Seq(Place)
  BY FieldsAreTyped DEF Or, Option
<1>2. Literals = Kept(env, Setting) /\ ResolveMounts = Kept(mounts, HostPaths)
  BY DEF Literals, ResolveMounts
<1> HIDE DEF env, mounts, Said
<1>3. Kept(env, Setting) \in Seq(Said \cap Setting)
  BY <1>1, KeptIs
<1>4. Kept(mounts, HostPaths) \in Seq(Place \cap HostPaths)
      /\ ToSet(Kept(mounts, HostPaths)) = ToSet(mounts) \cap HostPaths
  BY <1>1, KeptIs
<1>5. Literals \in Seq(Setting) /\ ResolveMounts \in Seq(Place)
  <2>1. Said \cap Setting \subseteq Setting /\ Place \cap HostPaths \subseteq Place
    OBVIOUS
  <2> QED
    BY <1>2, <1>3, <1>4, <2>1, SeqMonotonic
<1>6. ResolveEnv \in Seq(Setting)
  <2>1. FromImage("env", <<>>) \in Seq(Setting)
    BY FieldsAreTyped
  <2> QED
    BY <1>5, <2>1, ConcatProperties DEF ResolveEnv
<1> QED
  BY <1>2, <1>4, <1>5, <1>6 DEF mounts

LEMMA CommandIsTyped ==
  ASSUME pod \in Pods, config \in Configs
  PROVE  /\ Or(pod.command, FromImage("entrypoint", <<>>)) \in Seq(Program)
         /\ Or(pod.args, FromImage("cmd", <<>>)) \in Seq(Program)
         /\ ResolveCommand \in Seq(Program)
<1>1. /\ Or(pod.command, FromImage("entrypoint", <<>>)) \in Seq(Program)
      /\ Or(pod.args, FromImage("cmd", <<>>)) \in Seq(Program)
  BY FieldsAreTyped DEF Or, Option
<1> QED
  BY <1>1, ConcatProperties DEF ResolveCommand

LEMMA StartedIsTyped ==
  ASSUME pod \in Pods, config \in Configs
  PROVE  Started \in Process
<1>1. ResolveCommand \in Seq(Program) /\ ResolveMounts \in Seq(Place)
  BY CommandIsTyped, KeptAreTyped
<1>2. SetAll(SetAll(Inherited, Defaults), ResolveEnv) \in Environment
  BY LaunchAssumption, KeptAreTyped, SetAllIs
<1>3. WorkingDir \in Place
  BY FieldsAreTyped, LaunchAssumption DEF WorkingDir, Or, Option
<1> QED
  BY <1>1, <1>2, <1>3 DEF Started, Process

-----------------------------------------------------------------------------
(* The invariant.                                                          *)

LEMMA InitInv == Init => LaunchInv
BY LaunchAssumption DEF Init, LaunchInv, TypeOK, Option

\* Inputs stay as they are, and with them what is put together from them.
LEMMA InputsStay ==
  ASSUME UNCHANGED inputs
  PROVE  /\ pod' = pod /\ body' = body /\ config' = config /\ guarded' = guarded
         /\ ResolveCommand' = ResolveCommand /\ Started' = Started
<1>1. pod' = pod /\ body' = body /\ config' = config /\ guarded' = guarded
  BY DEF inputs
<1> QED
  BY <1>1 DEF ResolveCommand, Started, ResolveEnv, Literals, ResolveMounts, WorkingDir,
              FromImage

LEMMA NextInv == LaunchInv /\ [Next]_vars => LaunchInv'
<1> SUFFICES ASSUME LaunchInv, [Next]_vars PROVE LaunchInv'
  OBVIOUS
<1>1. UNCHANGED inputs
  BY DEF Next, vars, ReadReference, SeeReady, Answered, Challenged, ResolveToken,
         RequestFails, TakeManifest, ChoosePlatform, NoPlatform, TakePlatform, TakeBlob,
         Spawn, SpawnFails
<1>2. /\ pod' = pod /\ body' = body /\ config' = config /\ guarded' = guarded
      /\ ResolveCommand' = ResolveCommand /\ Started' = Started
  BY <1>1, InputsStay
<1> USE <1>2 DEF LaunchInv, TypeOK, Option, Goto
<1>3. CASE ReadReference
  <2>1. Parse(Text(pod.image)) \in Reference
    BY FieldsAreTyped, TextIs, ParseIsTyped
  <2> QED
    BY <1>3, <2>1 DEF ReadReference
<1>4. CASE SeeReady
  BY <1>4 DEF SeeReady
<1>5. CASE Answered
  BY <1>5 DEF Answered
<1>6. CASE Challenged
  BY <1>6 DEF Challenged
<1>7. CASE ResolveToken
  BY <1>7 DEF ResolveToken
<1>8. CASE RequestFails
  BY <1>8 DEF RequestFails
<1>9. CASE TakeManifest
  <2>1. body \in Manifests /\ body # None
    BY <1>9, LaunchAssumption DEF TakeManifest
  <2> QED
    BY <1>9, <2>1 DEF TakeManifest
<1>10. CASE ChoosePlatform
  <2>1. body.entries[PlatformOf(body)] \in Manifests
        /\ body.entries[PlatformOf(body)] # None
    BY <1>10, PlatformIs, LaunchAssumption DEF ChoosePlatform
  <2> QED
    BY <1>10, <2>1 DEF ChoosePlatform
<1>11. CASE NoPlatform
  BY <1>11 DEF NoPlatform
<1>12. CASE TakePlatform
  BY <1>12 DEF TakePlatform
<1>13. CASE TakeBlob
  BY <1>13 DEF TakeBlob
<1>14. CASE Spawn
  <2>1. Started \in Process
    BY StartedIsTyped
  <2> QED
    BY <1>14, <2>1 DEF Spawn, Runnable
<1>15. CASE SpawnFails
  BY <1>15 DEF SpawnFails
<1>16. CASE UNCHANGED vars
  BY <1>16 DEF vars
<1> QED
  BY <1>3, <1>4, <1>5, <1>6, <1>7, <1>8, <1>9, <1>10, <1>11, <1>12, <1>13, <1>14,
     <1>15, <1>16 DEF Next

\* From all of this: the invariant holds of every run of a start.
LEMMA LaunchInvariant == Spec => []LaunchInv
<1>1. Init => LaunchInv
  BY InitInv
<1>2. LaunchInv /\ [Next]_vars => LaunchInv'
  BY NextInv
<1> QED
  BY <1>1, <1>2, PTL DEF Spec

-----------------------------------------------------------------------------
\* Every variable keeps to its type: what is parsed is a reference, what is
\* chosen a manifest of one platform, what is spawned a process with an
\* environment and mounts (ImageRef::parse, fetch_manifest, execute).
THEOREM TypeCorrect == Spec => []TypeOK
<1>1. LaunchInv => TypeOK
  BY DEF LaunchInv
<1> QED
  BY <1>1, LaunchInvariant, PTL

\* The registry is asked for the image its author meant (ImageRef::parse).
THEOREM ReadsReference == Spec => []ReferenceIsRead
<1>1. LaunchInv => ReferenceIsRead
  <2> SUFFICES ASSUME LaunchInv PROVE ReferenceIsRead
    OBVIOUS
  <2>1. pod \in Pods /\ config \in Configs /\ (ref # None => ref = Parse(Text(pod.image)))
    BY DEF LaunchInv, TypeOK
  <2>2. pod.image \in Image /\ WellFormed(pod.image)
    BY <2>1, FieldsAreTyped
  <2> QED
    BY <2>1, <2>2, ParseIs DEF ReferenceIsRead
<1> QED
  BY <1>1, LaunchInvariant, PTL

\* A list yields an entry for linux, and for the agent's architecture whenever
\* it has one (fetch_manifest).
THEOREM TakesPlatform == Spec => []PlatformIsRight
<1>1. LaunchInv => PlatformIsRight
  BY PlatformIs DEF LaunchInv, TypeOK, PlatformIsRight
<1> QED
  BY <1>1, LaunchInvariant, PTL

\* A sequence put together from two begins with the one and ends with the other.
LEMMA BeginsAndEnds ==
  ASSUME NEW X, NEW a \in Seq(X), NEW b \in Seq(X)
  PROVE  IsPrefix(a, a \o b) /\ IsSuffix(b, a \o b)
<1> DEFINE s == a \o b
<1>1. /\ s \in Seq(X) /\ Len(s) = Len(a) + Len(b)
      /\ \A n \in 1 .. Len(a) : s[n] = a[n]
      /\ \A n \in 1 .. Len(b) : s[Len(a) + n] = b[n]
  OBVIOUS
<1> HIDE DEF s
<1>2. IsPrefix(a, s)
  <2>1. SubSeq(a, 1, Len(a)) = SubSeq(s, 1, Len(a))
    BY <1>1
  <2> QED
    BY <2>1, <1>1 DEF IsPrefix
<1>3. IsSuffix(b, s)
  <2> DEFINE rb == Reverse(b)  rs == Reverse(s)
  <2>1. /\ rb \in Seq(X) /\ Len(rb) = Len(b)
        /\ \A n \in 1 .. Len(b) : rb[n] = b[Len(b) - n + 1]
    BY DEF Reverse
  <2>2. /\ rs \in Seq(X) /\ Len(rs) = Len(s)
        /\ \A n \in 1 .. Len(s) : rs[n] = s[Len(s) - n + 1]
    BY <1>1 DEF Reverse
  <2>3. ASSUME NEW n \in 1 .. Len(b) PROVE rb[n] = rs[n]
    <3>1. /\ n \in 1 .. Len(s) /\ Len(b) - n + 1 \in 1 .. Len(b)
          /\ Len(s) - n + 1 = Len(a) + (Len(b) - n + 1)
      BY <1>1
    <3>2. PICK k \in 1 .. Len(b) : k = Len(b) - n + 1 /\ Len(s) - n + 1 = Len(a) + k
      BY <3>1
    <3>3. s[Len(a) + k] = b[k]
      BY <1>1
    <3> QED
      BY <2>1, <2>2, <3>1, <3>2, <3>3
  <2> HIDE DEF rb, rs
  <2>4. Len(rb) <= Len(rs) /\ SubSeq(rb, 1, Len(rb)) = SubSeq(rs, 1, Len(rb))
    BY <1>1, <2>1, <2>2, <2>3
  <2> QED
    BY <2>4 DEF IsSuffix, IsPrefix, rb, rs
<1> QED
  BY <1>2, <1>3 DEF s

\* A process runs what the pod says, or where it says nothing the image, and a
\* program named by its path is there (resolve_command,
\* ensure_workload_command_exists).
THEOREM RunsTheCommand == Spec => []RunsWhatPodSays
<1>1. LaunchInv => RunsWhatPodSays
  <2> SUFFICES ASSUME LaunchInv, pc = "spawned" PROVE RunsWhatPodSays
    BY DEF RunsWhatPodSays
  <2> DEFINE first == Or(pod.command, FromImage("entrypoint", <<>>))
             rest  == Or(pod.args, FromImage("cmd", <<>>))
  <2>1. /\ pod \in Pods /\ config \in Configs
        /\ Runnable(ResolveCommand) /\ process = Started
    BY DEF LaunchInv, TypeOK
  <2>2. process.command = first \o rest
    BY <2>1 DEF Started, ResolveCommand
  <2>3. first \in Seq(Program) /\ rest \in Seq(Program)
    BY <2>1, CommandIsTyped
  <2>4. IsPrefix(first, process.command) /\ IsSuffix(rest, process.command)
    <3> HIDE DEF first, rest
    <3> QED
      BY <2>2, <2>3, BeginsAndEnds
  <2>5. process.command[1].absolute => process.command[1] \in Present
    BY <2>1 DEF Started, Runnable
  <2> QED
    BY <2>2, <2>4, <2>5 DEF RunsWhatPodSays, Or
<1> QED
  BY <1>1, LaunchInvariant, PTL

\* The last of two sequences of settings that has a name has its value.
LEMMA LastOfTwo ==
  ASSUME NEW a \in Seq(Setting), NEW b \in Seq(Setting)
  PROVE  /\ Sets(a \o b) = Sets(a) \cup Sets(b)
         /\ \A n : n \in Sets(b) => LastValue(a \o b, n) = LastValue(b, n)
         /\ \A n : n \in Sets(a) \ Sets(b) => LastValue(a \o b, n) = LastValue(a, n)
<1> DEFINE s == a \o b
           Named(t, n) == {m \in 1 .. Len(t) : t[m].name = n}
<1>1. /\ s \in Seq(Setting) /\ Len(s) = Len(a) + Len(b)
      /\ \A m \in 1 .. Len(a) : s[m] = a[m]
      /\ \A m \in 1 .. Len(b) : s[Len(a) + m] = b[m]
      /\ Len(a) \in Nat /\ Len(b) \in Nat
  OBVIOUS
<1> HIDE DEF s
<1>2. ASSUME NEW t \in Seq(Setting), NEW n
      PROVE  /\ n \in Sets(t) <=> Named(t, n) # {}
             /\ n \in Sets(t) => LastValue(t, n) = t[Max(Named(t, n))].value
             /\ Named(t, n) \in SUBSET (1 .. Len(t))
             /\ Named(t, n) # {} =>
                  /\ Max(Named(t, n)) \in Named(t, n)
                  /\ \A m \in Named(t, n) : Max(Named(t, n)) >= m
  <2>1. n \in Sets(t) <=> Named(t, n) # {}
    BY DEF Sets, ToSet
  <2>2. Named(t, n) # {} => LastValue(t, n) = t[Max(Named(t, n))].value
    BY DEF LastValue, SelectLastInSeq
  <2>3. Named(t, n) \in SUBSET (1 .. Len(t)) /\ Len(t) \in Nat
    OBVIOUS
  <2> HIDE DEF Named
  <2>4. Named(t, n) # {} =>
          /\ Max(Named(t, n)) \in Named(t, n)
          /\ \A m \in Named(t, n) : Max(Named(t, n)) >= m
    BY <2>3, MaxIs
  <2> QED
    BY <2>1, <2>2, <2>3, <2>4
<1>3. ASSUME NEW n PROVE Named(s, n) = Named(a, n) \cup {Len(a) + m : m \in Named(b, n)}
  <2>1. 1 .. Len(s) = (1 .. Len(a)) \cup {Len(a) + m : m \in 1 .. Len(b)}
    <3>1. ASSUME NEW m \in 1 .. Len(s), m \notin 1 .. Len(a)
          PROVE  m - Len(a) \in 1 .. Len(b) /\ m = Len(a) + (m - Len(a))
      BY <1>1, <3>1
    <3>2. ASSUME NEW m \in 1 .. Len(b) PROVE Len(a) + m \in 1 .. Len(s)
      BY <1>1
    <3>3. 1 .. Len(a) \subseteq 1 .. Len(s)
      BY <1>1
    <3> QED
      BY <3>1, <3>2, <3>3
  <2> QED
    BY <2>1, <1>1
<1> HIDE DEF Named
<1>4. ASSUME NEW n PROVE n \in Sets(s) <=> n \in Sets(a) \cup Sets(b)
  <2> DEFINE shifted == {Len(a) + m : m \in Named(b, n)}
  <2>1. Named(s, n) = Named(a, n) \cup shifted /\ (shifted = {} <=> Named(b, n) = {})
    BY <1>3
  <2> HIDE DEF shifted
  <2>2. Named(s, n) # {} <=> Named(a, n) # {} \/ Named(b, n) # {}
    BY <2>1
  <2> QED
    BY <2>2, <1>1, <1>2
<1>5. ASSUME NEW n, n \in Sets(b) PROVE LastValue(s, n) = LastValue(b, n)
  <2>1. PICK last \in Named(b, n) :
           /\ last = Max(Named(b, n)) /\ last \in 1 .. Len(b)
           /\ \A m \in Named(b, n) : last >= m /\ m \in 1 .. Len(b)
    BY <1>2, <1>5
  <2>2. Max(Named(s, n)) = Len(a) + last
    <3>1. Len(a) + last \in Named(s, n)
      BY <2>1, <1>3
    <3>2. ASSUME NEW m \in Named(s, n) PROVE Len(a) + last >= m
      <4>1. CASE m \in Named(a, n)
        <5>1. m \in 1 .. Len(a)
          BY <4>1, <1>2
        <5> QED
          BY <5>1, <2>1, <1>1
      <4>2. CASE m \in {Len(a) + k : k \in Named(b, n)}
        <5>1. PICK k \in Named(b, n) : m = Len(a) + k
          BY <4>2
        <5>2. last >= k /\ k \in 1 .. Len(b)
          BY <2>1
        <5> QED
          BY <5>1, <5>2, <2>1, <1>1
      <4> QED
        BY <4>1, <4>2, <1>3
    <3>3. /\ Max(Named(s, n)) \in Named(s, n)
          /\ \A m \in Named(s, n) : Max(Named(s, n)) >= m
          /\ Named(s, n) \subseteq 1 .. Len(s)
      <4>1. Named(s, n) # {}
        BY <3>1
      <4> QED
        BY <4>1, <1>1, <1>2
    <3>4. Max(Named(s, n)) \in Nat /\ Len(a) + last \in Nat
      BY <3>3, <2>1, <1>1
    <3> QED
      BY <3>1, <3>2, <3>3, <3>4
  <2>3. s[Len(a) + last] = b[last]
    BY <2>1, <1>1
  <2>4. n \in Sets(s)
    BY <1>4, <1>5
  <2>5. /\ LastValue(s, n) = s[Max(Named(s, n))].value
        /\ LastValue(b, n) = b[last].value
    BY <1>1, <1>2, <1>5, <2>1, <2>4
  <2> QED
    BY <2>2, <2>3, <2>5
<1>6. ASSUME NEW n, n \in Sets(a), n \notin Sets(b)
      PROVE  LastValue(s, n) = LastValue(a, n)
  <2>1. Named(b, n) = {}
    BY <1>2, <1>6
  <2>2. Named(s, n) = Named(a, n)
    <3>1. {Len(a) + m : m \in Named(b, n)} = {}
      BY <2>1
    <3> QED
      BY <1>3, <3>1
  <2>3. Named(a, n) # {} /\ n \in Sets(s)
    BY <1>2, <1>4, <1>6
  <2>4. Max(Named(a, n)) \in 1 .. Len(a)
    BY <1>2, <2>3
  <2>5. /\ LastValue(s, n) = s[Max(Named(a, n))].value
        /\ LastValue(a, n) = a[Max(Named(a, n))].value
    BY <1>1, <1>2, <1>6, <2>2, <2>3
  <2> QED
    BY <1>1, <2>4, <2>5
<1> QED
  BY <1>4, <1>5, <1>6 DEF s

\* Where a pod gives a variable a literal value for the last time.
LastLiteral(n) ==
  SelectLastInSeq(Or(pod.env, <<>>), LAMBDA v : v.name = n /\ v.value # None)

LEMMA LiteralsAre ==
  ASSUME pod \in Pods, config \in Configs
  PROVE  /\ Sets(Literals) =
              {v.name : v \in {x \in ToSet(Or(pod.env, <<>>)) : x.value # None}}
         /\ \A n : /\ n \in Sets(Literals) <=> LastLiteral(n) # 0
                   /\ n \in Sets(Literals) =>
                        LastValue(Literals, n) = Or(pod.env, <<>>)[LastLiteral(n)].value
<1> DEFINE Said == [name : Name, value : Option(Value)]
           said == Or(pod.env, <<>>)
<1>1. said \in Seq(Said) /\ Literals = Kept(said, Setting) /\ Literals \in Seq(Setting)
  BY FieldsAreTyped, KeptAreTyped DEF Or, Option, Literals
<1>2. \A v \in Said : v \in Setting <=> v.value # None
  BY LaunchAssumption DEF Option, Setting
<1> HIDE DEF Said, said
<1>3. ToSet(Literals) = {x \in ToSet(said) : x.value # None}
  <2>1. ToSet(Literals) = ToSet(said) \cap Setting
    BY <1>1, KeptIs
  <2>2. ToSet(said) \subseteq Said
    BY <1>1 DEF ToSet
  <2> QED
    BY <1>2, <2>1, <2>2
<1>4. ASSUME NEW n
      PROVE  /\ n \in Sets(Literals) <=> LastLiteral(n) # 0
             /\ n \in Sets(Literals) => LastValue(Literals, n) = said[LastLiteral(n)].value
  <2> DEFINE T == {v \in Setting : v.name = n}
  <2>1. Places(said, T) = {m \in 1 .. Len(said) : said[m].name = n /\ said[m].value # None}
    <3>1. \A m \in 1 .. Len(said) : said[m] \in Said
      BY <1>1
    <3>2. \A m \in 1 .. Len(said) :
            said[m] \in T <=> said[m].name = n /\ said[m].value # None
      BY <3>1, <1>2
    <3> HIDE DEF T
    <3> QED
      BY <3>2 DEF Places
  <2>2. Places(Literals, T) = {m \in 1 .. Len(Literals) : Literals[m].name = n}
    BY <1>1 DEF Places
  <2>3. LastLiteral(n) = IF Places(said, T) # {} THEN Max(Places(said, T)) ELSE 0
    BY <2>1 DEF LastLiteral, SelectLastInSeq, said
  <2>4. Places(Literals, T) # {} =>
          LastValue(Literals, n) = Literals[Max(Places(Literals, T))].value
    BY <2>2 DEF LastValue, SelectLastInSeq
  <2>5. n \in Sets(Literals) <=> Places(Literals, T) # {}
    <3>1. DOMAIN Literals = 1 .. Len(Literals)
      BY <1>1
    <3>2. Sets(Literals) = {Literals[m].name : m \in 1 .. Len(Literals)}
      BY <3>1 DEF Sets, ToSet
    <3> QED
      BY <2>2, <3>2
  <2>6. /\ Places(Literals, T) = {} <=> Places(said, T) = {}
        /\ Places(Literals, T) # {} =>
             Literals[Max(Places(Literals, T))] = said[Max(Places(said, T))]
    <3>1. T \in SUBSET Setting
      OBVIOUS
    <3> HIDE DEF T
    <3> QED
      BY <1>1, <3>1, LastOfKept
  <2>7. Places(said, T) # {} => Max(Places(said, T)) # 0
    <3>1. Places(said, T) \in SUBSET (1 .. Len(said)) /\ Len(said) \in Nat
      BY <1>1 DEF Places
    <3>2. Places(said, T) # {} => Max(Places(said, T)) \in 1 .. Len(said)
      BY <3>1, MaxIs
    <3> QED
      BY <3>1, <3>2
  <2> QED
    BY <2>3, <2>4, <2>5, <2>6, <2>7
<1> QED
  BY <1>3, <1>4 DEF Sets, said

\* A process has the pod's value of a variable before the image's, the image's
\* before the broker's and that before the agent's own, and no mount of a path
\* the device does not have (resolve_env, execute).
THEOREM PodSpeaksLast == Spec => []PodHasLastWord
<1>1. LaunchInv => PodHasLastWord
  <2> SUFFICES ASSUME LaunchInv, pc = "spawned" PROVE PodHasLastWord
    BY DEF PodHasLastWord
  <2> DEFINE image == FromImage("env", <<>>)
             base  == SetAll(Inherited, Defaults)
             env   == SetAll(base, ResolveEnv)
  <2>1. pod \in Pods /\ config \in Configs /\ process = Started
    BY DEF LaunchInv, TypeOK
  <2>2. process.env = env /\ process.mounts = ResolveMounts
    BY <2>1 DEF Started
  <2>3. /\ image \in Seq(Setting) /\ Literals \in Seq(Setting)
        /\ ResolveEnv \in Seq(Setting) /\ ResolveEnv = image \o Literals
        /\ ToSet(ResolveMounts) = ToSet(Or(pod.mounts, <<>>)) \cap HostPaths
    BY <2>1, FieldsAreTyped, KeptAreTyped DEF ResolveEnv
  <2> HIDE DEF image
  <2>4. /\ Sets(ResolveEnv) = Sets(image) \cup Sets(Literals)
        /\ \A n : n \in Sets(Literals) => LastValue(ResolveEnv, n) = LastValue(Literals, n)
        /\ \A n : n \in Sets(image) \ Sets(Literals) =>
                    LastValue(ResolveEnv, n) = LastValue(image, n)
    BY <2>3, LastOfTwo
  <2>5. /\ base \in Environment
        /\ DOMAIN base = DOMAIN Inherited \cup Sets(Defaults)
        /\ \A n \in DOMAIN base :
             base[n] = IF n \in Sets(Defaults) THEN LastValue(Defaults, n) ELSE Inherited[n]
    BY LaunchAssumption, SetAllIs
  <2> HIDE DEF base
  <2>6. /\ DOMAIN env = DOMAIN base \cup Sets(ResolveEnv)
        /\ \A n \in DOMAIN env :
             env[n] = IF n \in Sets(ResolveEnv) THEN LastValue(ResolveEnv, n) ELSE base[n]
    BY <2>3, <2>5, SetAllIs
  <2> HIDE DEF env
  <2>7. DOMAIN env = DOMAIN Inherited \cup Sets(Defaults) \cup Sets(Literals) \cup Sets(image)
    BY <2>4, <2>5, <2>6
  <2>8. ASSUME NEW n \in DOMAIN env
        PROVE  env[n] = IF n \in Sets(Literals) THEN LastValue(Literals, n)
                        ELSE IF n \in Sets(image) THEN LastValue(image, n)
                        ELSE IF n \in Sets(Defaults) THEN LastValue(Defaults, n)
                        ELSE Inherited[n]
    <3>1. CASE n \in Sets(ResolveEnv)
      BY <3>1, <2>4, <2>6
    <3>2. CASE n \notin Sets(ResolveEnv)
      BY <3>2, <2>4, <2>5, <2>6
    <3> QED
      BY <3>1, <3>2
  <2> DEFINE said == Or(pod.env, <<>>)
  <2>9. /\ Sets(Literals) = {v.name : v \in {x \in ToSet(said) : x.value # None}}
        /\ \A n : /\ n \in Sets(Literals) <=> LastLiteral(n) # 0
                  /\ n \in Sets(Literals) =>
                       LastValue(Literals, n) = said[LastLiteral(n)].value
    BY <2>1, LiteralsAre
  <2> HIDE DEF said
  <2>10. DOMAIN env = DOMAIN Inherited \cup Sets(Defaults) \cup Sets(image)
                        \cup {v.name : v \in {x \in ToSet(said) : x.value # None}}
    <3> DEFINE literals == {v.name : v \in {x \in ToSet(said) : x.value # None}}
    <3> HIDE DEF literals
    <3>1. Sets(Literals) = literals
      BY <2>9 DEF literals
    <3>2. DOMAIN env = DOMAIN Inherited \cup Sets(Defaults) \cup Sets(image) \cup literals
      BY <2>7, <3>1
    <3> QED
      BY <3>2 DEF literals
  <2>11. ASSUME NEW n \in DOMAIN env
         PROVE  env[n] = IF LastLiteral(n) # 0 THEN said[LastLiteral(n)].value
                         ELSE IF n \in Sets(image) THEN LastValue(image, n)
                         ELSE IF n \in Sets(Defaults) THEN LastValue(Defaults, n)
                         ELSE Inherited[n]
    BY <2>8, <2>9
  <2> QED
    BY <2>2, <2>3, <2>10, <2>11, Zenon DEF PodHasLastWord, LastLiteral, image, said
<1> QED
  BY <1>1, LaunchInvariant, PTL
=============================================================================
