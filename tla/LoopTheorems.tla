---------------------------- MODULE LoopTheorems ----------------------------
(***************************************************************************)
(* Induction over finite sets and intervals, and what it says of the loops *)
(* of the code, which the modules write as FoldLeft.  Each statement is    *)
(* about sets and functions, so that it can be cited without instantiating *)
(* an operator.                                                            *)
(***************************************************************************)
EXTENDS SequencesExt, FiniteSetTheorems, SequenceTheorems, TLAPS

\* Induction over the subsets of a finite set: a property that fails for some
\* fails for a smallest one.
LEMMA SmallestSubset ==
    ASSUME NEW S, IsFiniteSet(S), NEW Bad, Bad \subseteq SUBSET S, Bad # {}
    PROVE  \E D \in Bad : \A C \in Bad : C \subseteq D => C = D
<1>1. IsWellFoundedOn(StrictSubsetOrdering(S), SUBSET S)
  BY FS_StrictSubsetOrderingWellFounded, FS_FiniteSubsetsOfFinite
<1>2. PICK D \in Bad : \A C \in Bad : <<C, D>> \notin StrictSubsetOrdering(S)
  <2> HIDE DEF StrictSubsetOrdering
  <2> QED BY <1>1, WFMin
<1> QED BY <1>2 DEF StrictSubsetOrdering

\* Induction over an interval.
LEMMA IntervalInduction ==
    ASSUME NEW n \in Nat, NEW Good, 0 \in Good,
           \A k \in 0 .. n - 1 : k \in Good => k + 1 \in Good
    PROVE  0 .. n \subseteq Good
<1> SUFFICES ASSUME NEW b \in 0 .. n, b \notin Good PROVE FALSE
  OBVIOUS
<1> DEFINE Bad == {D \in SUBSET (0 .. n) : \E k \in 0 .. n : k \notin Good /\ D = 0 .. k}
<1>1. 0 .. b \in Bad
  OBVIOUS
<1>2. PICK D \in Bad : \A C \in Bad : C \subseteq D => C = D
  <2> DEFINE I == 0 .. n
  <2>1. Bad \subseteq SUBSET I /\ Bad # {}
    BY <1>1
  <2>2. IsFiniteSet(I)
    BY FS_Interval
  <2> HIDE DEF Bad, I
  <2> QED BY <2>1, <2>2, SmallestSubset
<1>3. PICK k \in 0 .. n : k \notin Good /\ D = 0 .. k
  BY <1>2
<1>4. k # 0 /\ k - 1 \in 0 .. n - 1
  BY <1>3
<1>5. k - 1 \notin Good
  BY <1>3, <1>4
<1>6. 0 .. (k - 1) \in Bad
  BY <1>4, <1>5
<1>7. 0 .. (k - 1) \subseteq D /\ 0 .. (k - 1) # D
  BY <1>3, <1>4
<1> QED BY <1>2, <1>6, <1>7

\* A finite set of integers has a greatest element, which Max finds.
LEMMA MaxExists ==
    ASSUME NEW S, IsFiniteSet(S), S # {}, S \subseteq Int
    PROVE  Max(S) \in S /\ \A x \in S : x <= Max(S)
<1> DEFINE Bounded(D) == \E x \in D : \A y \in D : x >= y
           Bad == {D \in SUBSET S : D # {} /\ ~Bounded(D)}
<1>1. Bounded(S)
  <2> SUFFICES ASSUME ~Bounded(S) PROVE FALSE
    OBVIOUS
  <2>1. Bad # {} /\ Bad \subseteq SUBSET S
    OBVIOUS
  <2>2. PICK D \in Bad : \A C \in Bad : C \subseteq D => C = D
    <3>1. IsFiniteSet(S)
      OBVIOUS
    <3> HIDE DEF Bad, Bounded
    <3> QED BY ONLY <2>1, <3>1, SmallestSubset
  <2>3. PICK d \in D : TRUE
    BY <2>2
  <2>4. D \ {d} # {} /\ D \ {d} \in SUBSET S /\ D \ {d} # D
    BY <2>2, <2>3
  <2>5. D \ {d} \notin Bad
    BY <2>2, <2>4
  <2>6. Bounded(D \ {d})
    <3> HIDE DEF Bounded
    <3> QED BY <2>4, <2>5
  <2>7. PICK x \in D \ {d} : \A y \in D \ {d} : x >= y
    BY <2>6
  <2>8. x \in Int /\ d \in Int
    BY <2>2, <2>3, <2>7
  <2>9. CASE x >= d
    BY <2>2, <2>7, <2>9
  <2>10. CASE d > x
    <3>1. \A y \in D : d >= y
      BY <2>2, <2>7, <2>8, <2>10
    <3> QED BY <2>2, <2>3, <3>1
  <2> QED BY <2>8, <2>9, <2>10
<1> QED BY <1>1 DEF Max

\* A finite set of integers has a least element, which Min finds.
LEMMA MinExists ==
    ASSUME NEW S, IsFiniteSet(S), S # {}, S \subseteq Int
    PROVE  Min(S) \in S /\ \A x \in S : Min(S) <= x
<1> DEFINE Bounded(D) == \E x \in D : \A y \in D : x =< y
           Bad == {D \in SUBSET S : D # {} /\ ~Bounded(D)}
<1>1. Bounded(S)
  <2> SUFFICES ASSUME ~Bounded(S) PROVE FALSE
    OBVIOUS
  <2>1. Bad # {} /\ Bad \subseteq SUBSET S
    OBVIOUS
  <2>2. PICK D \in Bad : \A C \in Bad : C \subseteq D => C = D
    <3>1. IsFiniteSet(S)
      OBVIOUS
    <3> HIDE DEF Bad, Bounded
    <3> QED BY ONLY <2>1, <3>1, SmallestSubset
  <2>3. PICK d \in D : TRUE
    BY <2>2
  <2>4. D \ {d} # {} /\ D \ {d} \in SUBSET S /\ D \ {d} # D
    BY <2>2, <2>3
  <2>5. D \ {d} \notin Bad
    BY <2>2, <2>4
  <2>6. Bounded(D \ {d})
    <3> HIDE DEF Bounded
    <3> QED BY <2>4, <2>5
  <2>7. PICK x \in D \ {d} : \A y \in D \ {d} : x =< y
    BY <2>6
  <2>8. x \in Int /\ d \in Int
    BY <2>2, <2>3, <2>7
  <2>9. CASE x <= d
    BY <2>2, <2>7, <2>9
  <2>10. CASE d < x
    <3>1. \A y \in D : d =< y
      BY <2>2, <2>7, <2>8, <2>10
    <3> QED BY <2>2, <2>3, <3>1
  <2> QED BY <2>8, <2>9, <2>10
<1> QED BY <1>1 DEF Min

\* g is the state of a loop after its body F was run for the indices in a set,
\* in ascending order.
IsLoop(g, n, base, F) ==
    \A s \in SUBSET (1 .. n) :
       g[s] = IF s = {} THEN base ELSE F[<<g[s \ {Max(s)}], Max(s)>>]

\* The recursion behind FoldLeft has a solution.
LEMMA LoopExists ==
    ASSUME NEW n \in Nat, NEW A, NEW base \in A, NEW F \in [A \X (1 .. n) -> A]
    PROVE  \E g \in [SUBSET (1 .. n) -> A] : IsLoop(g, n, base, F)
<1> DEFINE Loop(g, k) == \A s \in SUBSET (1 .. k) :
                g[s] = IF s = {} THEN base ELSE F[<<g[s \ {Max(s)}], Max(s)>>]
           Good == {k \in 0 .. n : \E g \in [SUBSET (1 .. k) -> A] : Loop(g, k)}
<1>1. 0 \in Good
  <2>1. SUBSET (1 .. 0) = {{}}
    OBVIOUS
  <2>2. [s \in SUBSET (1 .. 0) |-> base] \in [SUBSET (1 .. 0) -> A]
    OBVIOUS
  <2>3. Loop([s \in SUBSET (1 .. 0) |-> base], 0)
    BY <2>1
  <2>4. 0 \in 0 .. n
    OBVIOUS
  <2> HIDE DEF Loop
  <2> QED BY <2>2, <2>3, <2>4
<1>2. ASSUME NEW k \in 0 .. n - 1, k \in Good PROVE k + 1 \in Good
  <2>1. PICK g \in [SUBSET (1 .. k) -> A] : Loop(g, k)
    BY <1>2
  <2> DEFINE m == k + 1
             h == [s \in SUBSET (1 .. m) |->
                     IF m \in s THEN F[<<g[s \ {m}], m>>] ELSE g[s]]
  <2>2. m \in 1 .. n /\ \A s \in SUBSET (1 .. m) : s \ {m} \in SUBSET (1 .. k)
    OBVIOUS
  <2>3. \A s \in SUBSET (1 .. m) : m \notin s => s \in SUBSET (1 .. k)
    OBVIOUS
  <2>4. h \in [SUBSET (1 .. m) -> A]
    BY <2>1, <2>2, <2>3
  <2>5. ASSUME NEW s \in SUBSET (1 .. m)
        PROVE  h[s] = IF s = {} THEN base ELSE F[<<h[s \ {Max(s)}], Max(s)>>]
    <3>1. s # {} => Max(s) \in s /\ \A x \in s : x <= Max(s)
      <4> DEFINE I == 1 .. m
      <4>1. IsFiniteSet(I) /\ s \subseteq I /\ s \subseteq Int
        BY FS_Interval
      <4>2. IsFiniteSet(s)
        <5> HIDE DEF I
        <5> QED BY <4>1, FS_Subset
      <4> QED BY <4>1, <4>2, MaxExists
    <3>2. CASE m \in s
      <4>1. Max(s) = m
        <5>1. Max(s) \in 1 .. m /\ m <= Max(s)
          BY <3>1, <3>2
        <5> QED BY <5>1
      <4>2. h[s \ {m}] = g[s \ {m}]
        OBVIOUS
      <4> QED BY <3>2, <4>1, <4>2
    <3>3. CASE m \notin s
      <4>1. s \in SUBSET (1 .. k) /\ h[s] = g[s]
        BY <2>3, <3>3
      <4>2. CASE s = {}
        BY <2>1, <4>1, <4>2
      <4>3. CASE s # {}
        <5>1. s \ {Max(s)} \in SUBSET (1 .. m) /\ m \notin s \ {Max(s)}
          BY <3>3
        <5>2. h[s \ {Max(s)}] = g[s \ {Max(s)}]
          BY <5>1
        <5> QED BY <2>1, <4>1, <4>3, <5>2
      <4> QED BY <4>2, <4>3
    <3> QED BY <3>2, <3>3
  <2>6. Loop(h, m)
    BY <2>5
  <2>7. m \in 0 .. n
    OBVIOUS
  <2> HIDE DEF h, Loop
  <2> QED BY <2>4, <2>6, <2>7
<1>3. n \in Good
  <2> HIDE DEF Good
  <2>1. 0 .. n \subseteq Good
    BY <1>1, <1>2, IntervalInduction
  <2> QED BY <2>1
<1> QED BY <1>3 DEF IsLoop

\* The invariant of a loop: what holds at first and is kept by the body holds
\* after every iteration.
LEMMA LoopInvariant ==
    ASSUME NEW n \in Nat, NEW A, NEW g, g[{}] \in A,
           \A s \in SUBSET (1 .. n) :
              s # {} /\ g[s \ {Max(s)}] \in A => g[s] \in A
    PROVE  \A s \in SUBSET (1 .. n) : g[s] \in A
<1> DEFINE Bad == {s \in SUBSET (1 .. n) : g[s] \notin A}
<1> SUFFICES ASSUME Bad # {} PROVE FALSE
  OBVIOUS
<1> DEFINE I == 1 .. n
<1>1. IsFiniteSet(I) /\ Bad \subseteq SUBSET I
  BY FS_Interval
<1>2. PICK s \in Bad : \A t \in Bad : t \subseteq s => t = s
  <2> HIDE DEF Bad, I
  <2> QED BY <1>1, SmallestSubset
<1>3. s # {} /\ s \in SUBSET I /\ s \subseteq Int
  <2>1. s \in SUBSET (1 .. n) /\ g[s] \notin A
    BY <1>2
  <2> QED BY <2>1
<1>4. Max(s) \in s
  <2>1. IsFiniteSet(s)
    <3> HIDE DEF I
    <3> QED BY <1>1, <1>3, FS_Subset
  <2> QED BY <1>3, <2>1, MaxExists
<1>5. s \ {Max(s)} \in SUBSET I /\ s \ {Max(s)} # s
  <2>1. ASSUME NEW x \in s PROVE s \ {x} \in SUBSET I /\ s \ {x} # s
    BY <1>3
  <2> QED BY <1>4, <2>1
<1>6. g[s \ {Max(s)}] \in A
  BY <1>2, <1>5
<1> QED BY <1>2, <1>3, <1>6

\* RemoveAt drops one entry and keeps the others.
LEMMA RemoveAtKeeps ==
    ASSUME NEW S, NEW s \in Seq(S), NEW i \in 1 .. Len(s)
    PROVE  /\ RemoveAt(s, i) \in Seq(S)
           /\ \A j \in DOMAIN s \ {i} :
                 \E k \in DOMAIN RemoveAt(s, i) : RemoveAt(s, i)[k] = s[j]
<1> DEFINE a == SubSeq(s, 1, i - 1)
           b == SubSeq(s, i + 1, Len(s))
           t == a \o b
<1>1. Len(s) \in Nat /\ DOMAIN s = 1 .. Len(s)
  OBVIOUS
<1>2. a \in Seq(S) /\ Len(a) = i - 1 /\ \A j \in 1 .. i - 1 : a[j] = s[j]
  BY <1>1
<1>3. b \in Seq(S) /\ Len(b) = Len(s) - i /\ \A j \in 1 .. Len(s) - i : b[j] = s[i + j]
  <2>1. \A j \in i + 1 .. Len(s) : s[j] \in S
    BY <1>1
  <2>2. /\ b \in Seq(S)
        /\ Len(b) = IF i + 1 <= Len(s) THEN Len(s) - (i + 1) + 1 ELSE 0
        /\ \A j \in 1 .. Len(s) - (i + 1) + 1 : b[j] = s[i + 1 + j - 1]
    BY SMTT(30), <1>1, <2>1, SubSeqProperties
  <2> HIDE DEF b
  <2>3. Len(b) = Len(s) - i
    <3> DEFINE l == Len(s)
    <3>1. l \in Nat /\ i \in 1 .. l /\ Len(b) = IF i + 1 <= l THEN l - (i + 1) + 1 ELSE 0
      BY <1>1, <2>2
    <3> HIDE DEF l
    <3>2. CASE i + 1 <= l
      BY <3>1, <3>2 DEF l
    <3>3. CASE i = l
      BY <3>1, <3>3 DEF l
    <3>4. i + 1 <= l \/ i = l
      BY <3>1
    <3> QED BY Zenon, <3>2, <3>3, <3>4
  <2>4. ASSUME NEW j \in 1 .. Len(s) - i PROVE b[j] = s[i + j]
    <3>1. j \in 1 .. Len(s) - (i + 1) + 1 /\ i + 1 + j - 1 = i + j
      BY <1>1
    <3> QED BY <2>2, <3>1
  <2> QED BY <2>2, <2>3, <2>4
<1> HIDE DEF a, b
<1>4. /\ t \in Seq(S) /\ DOMAIN t = 1 .. Len(s) - 1
      /\ \A j \in 1 .. i - 1 : t[j] = a[j]
      /\ \A j \in i .. Len(s) - 1 : t[j] = b[j - (i - 1)]
  <2>1. /\ t \in Seq(S) /\ Len(t) = Len(a) + Len(b)
        /\ \A j \in 1 .. Len(a) + Len(b) :
              t[j] = IF j <= Len(a) THEN a[j] ELSE b[j - Len(a)]
    BY <1>2, <1>3, ConcatProperties
  <2> HIDE DEF t
  <2>2. Len(t) = Len(s) - 1 /\ DOMAIN t = 1 .. Len(s) - 1
    BY <1>1, <1>2, <1>3, <2>1
  <2>3. ASSUME NEW j \in 1 .. i - 1 PROVE t[j] = a[j]
    BY <1>1, <1>2, <1>3, <2>1
  <2>4. ASSUME NEW j \in i .. Len(s) - 1 PROVE t[j] = b[j - (i - 1)]
    <3>1. j \in 1 .. Len(a) + Len(b) /\ ~(j <= Len(a)) /\ j - Len(a) = j - (i - 1)
      BY <1>1, <1>2, <1>3
    <3> QED BY <2>1, <3>1
  <2> QED BY <2>1, <2>2, <2>3, <2>4
<1> HIDE DEF t
<1>5. ASSUME NEW j \in DOMAIN s \ {i} PROVE \E k \in DOMAIN t : t[k] = s[j]
  <2>1. CASE j < i
    <3>1. j \in 1 .. i - 1 /\ j \in 1 .. Len(s) - 1
      BY <1>1, <2>1
    <3>2. t[j] = a[j] /\ a[j] = s[j]
      BY <1>2, <1>4, <3>1
    <3> QED BY <1>4, <3>1, <3>2
  <2>2. CASE j > i
    <3>1. j - 1 \in i .. Len(s) - 1 /\ j - i \in 1 .. Len(s) - i
      BY <1>1, <2>2
    <3>2. t[j - 1] = b[j - i] /\ b[j - i] = s[j]
      BY <1>1, <1>3, <1>4, <3>1
    <3> QED BY <1>1, <1>4, <3>1, <3>2
  <2> QED BY <1>1, <2>1, <2>2
<1>6. RemoveAt(s, i) = t
  BY DEF RemoveAt, t, a, b
<1> QED BY <1>4, <1>5, <1>6

\* SetToSeq lists the elements of a finite set, each once.
LEMMA SetToSeqLists ==
    ASSUME NEW S, IsFiniteSet(S)
    PROVE  /\ SetToSeq(S) \in [1 .. Cardinality(S) -> S]
           /\ Cardinality(S) \in Nat
           /\ Range(SetToSeq(S)) = S
           /\ \A i, j \in 1 .. Cardinality(S) :
                 SetToSeq(S)[i] = SetToSeq(S)[j] => i = j
<1> DEFINE n == Cardinality(S)
<1>1. n \in Nat /\ IsFiniteSet(1 .. n) /\ Cardinality(1 .. n) = n
  BY FS_CardinalityType, FS_Interval
<1>2. \E f \in [1 .. n -> S] : IsInjective(f)
  BY <1>1, FS_NatBijection, FS_CountingElements, FS_CardinalityType DEF ExistsBijection, Bijection, Injection, IsInjective
<1>3. SetToSeq(S) \in [1 .. n -> S] /\ IsInjective(SetToSeq(S))
  BY <1>2 DEF SetToSeq
<1>4. SetToSeq(S) \in Injection(1 .. n, S)
  BY <1>3 DEF Injection
<1>5. SetToSeq(S) \in Surjection(1 .. n, S)
  <2> HIDE DEF n
  <2>1. Cardinality(1 .. n) = Cardinality(S)
    BY <1>1 DEF n
  <2> QED BY <1>4, <2>1, FS_Injection
<1> QED BY <1>1, <1>3, <1>5 DEF Surjection, IsInjective, Range

\* The indices a loop has run over: the last one is one of them.
LEMMA MaxOfIndices ==
    ASSUME NEW n \in Nat, NEW S \in SUBSET (1 .. n), S # {}
    PROVE  Max(S) \in 1 .. n /\ Max(S) \in S /\ \A x \in S : x <= Max(S)
<1> DEFINE I == 1 .. n
<1>1. IsFiniteSet(I) /\ S \subseteq I /\ S \subseteq Int
  BY FS_Interval
<1>2. IsFiniteSet(S)
  <2> HIDE DEF I
  <2> QED BY <1>1, FS_Subset
<1> QED BY <1>1, <1>2, MaxExists
=============================================================================
