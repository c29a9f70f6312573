------------------------------ MODULE FoldLemmas ------------------------------
(***************************************************************************)
(* What proofs need to know of the folds of SequencesExt and Functions and *)
(* of recursive functions. The step of a fold is given as a function, so   *)
(* that the lemmas are first-order; a fold by an operator is one by the    *)
(* function that operator is on the states it meets.                       *)
(***************************************************************************)
EXTENDS Integers, Sequences, FiniteSets, Functions, FiniteSetTheorems, WellFoundedInduction, TLAPS

\* What SequencesExt's folds choose of a set of numbers.
Top(s) == CHOOSE x \in s : \A y \in s : x >= y

\* A non-empty set of numbers has a least one.
LEMMA LeastNumber ==
  ASSUME NEW T \in SUBSET Nat, T # {}
  PROVE  \E x \in T : \A y \in T : x <= y
  <1>1. PICK x \in T : \A y \in T : <<y, x>> \notin OpToRel(<, Nat)
    BY NatLessThanWellFounded, WFMin
  <1>2. ASSUME NEW y \in T, y < x PROVE FALSE
    BY <1>1, <1>2 DEF OpToRel
  <1> QED BY <1>2

\* Induction along an initial stretch of the numbers.
LEMMA UpTo ==
  ASSUME NEW N \in Nat, NEW T, 0 \in T, \A n \in 1 .. N : n - 1 \in T => n \in T
  PROVE  \A n \in 0 .. N : n \in T
  <1> SUFFICES ASSUME (0 .. N) \ T # {} PROVE FALSE
    OBVIOUS
  <1> DEFINE Rest == (0 .. N) \ T
  <1>0. Rest \in SUBSET Nat /\ Rest # {}
    OBVIOUS
  <1> HIDE DEF Rest
  <1>1. PICK x \in Rest : \A y \in Rest : x <= y
    BY <1>0, LeastNumber
  <1> USE DEF Rest
  <1>2. x \in 1 .. N /\ x - 1 \in 0 .. N /\ ~ (x <= x - 1)
    OBVIOUS
  <1> QED BY <1>1, <1>2

LEMMA TopOfStretch ==
  ASSUME NEW n \in Nat, NEW s \in SUBSET (1 .. n), n \in s
  PROVE  Top(s) = n
  <1>1. n \in s /\ \A y \in s : n >= y
    OBVIOUS
  <1>2. \A x \in s : (\A y \in s : x >= y) => x = n
    <2> SUFFICES ASSUME NEW x \in s, \A y \in s : x >= y PROVE x = n
      OBVIOUS
    <2>1. x >= n /\ x \in 1 .. n
      OBVIOUS
    <2> QED BY <2>1
  <1>3. \A x, y : (x \in s /\ \A z \in s : x >= z) => Top(s) \in s /\ \A z \in s : Top(s) >= z
    BY DEF Top
  <1> QED BY <1>1, <1>2, <1>3

LEMMA TopOfIndices ==
  ASSUME NEW n \in Nat, NEW s \in SUBSET (1 .. n), s # {}
  PROVE  Top(s) \in s /\ \A y \in s : Top(s) >= y
  <1> DEFINE T == {k \in 0 .. n : n - k \in s}
  <1>1. T \in SUBSET Nat /\ T # {}
    <2>1. PICK x \in s : TRUE
      OBVIOUS
    <2>2. x \in 1 .. n /\ n - x \in 0 .. n /\ n - (n - x) = x
      OBVIOUS
    <2>3. n - x \in T
      BY <2>2
    <2>4. T \in SUBSET Nat
      OBVIOUS
    <2> QED BY <2>3, <2>4
  <1>2. PICK k \in T : \A j \in T : k <= j
    <2> HIDE DEF T
    <2> QED BY <1>1, LeastNumber
  <1>3. ASSUME NEW y \in s PROVE n - k >= y
    <2>1. y \in 1 .. n /\ n - y \in 0 .. n /\ n - (n - y) = y
      OBVIOUS
    <2>2. n - y \in T
      BY <2>1
    <2> QED BY <1>2, <2>1, <2>2
  <1>4. n - k \in s
    OBVIOUS
  <1>5. \A x : (x \in s /\ \A z \in s : x >= z) => Top(s) \in s /\ \A z \in s : Top(s) >= z
    BY DEF Top
  <1> QED BY <1>3, <1>4, <1>5

\* The fold of a sequence, on every set of its indices: it exists, with values in R.
Folds(g, step, base, seq) ==
  g = [s \in SUBSET DOMAIN seq |-> IF s = {} THEN base ELSE step[g[s \ {Top(s)}], seq[Top(s)]]]

LEMMA FoldExists ==
  ASSUME NEW R, NEW base \in R, NEW M, NEW seq \in Seq(M), NEW step \in [R \X M -> R]
  PROVE  \E g \in [SUBSET DOMAIN seq -> R] : Folds(g, step, base, seq)
  <1> DEFINE Is(g, n) ==
        /\ g \in [SUBSET (1 .. n) -> R]
        /\ \A s \in SUBSET (1 .. n) :
             g[s] = IF s = {} THEN base ELSE step[g[s \ {Top(s)}], seq[Top(s)]]
      T == {n \in 0 .. Len(seq) : \E g : Is(g, n)}
  <1>1. 0 \in T
    <2> DEFINE g == [s \in SUBSET (1 .. 0) |-> base]
    <2>1. \A s \in SUBSET (1 .. 0) : s = {}
      OBVIOUS
    <2>2. Is(g, 0)
      BY <2>1
    <2> HIDE DEF Is, g
    <2> QED BY <2>2
  <1>2. ASSUME NEW n \in 1 .. Len(seq), n - 1 \in T PROVE n \in T
    <2>1. PICK g : Is(g, n - 1)
      BY <1>2
    <2> DEFINE h == [s \in SUBSET (1 .. n) |->
                       IF n \in s THEN step[g[s \ {n}], seq[n]] ELSE g[s]]
    <2>2. seq[n] \in M
      OBVIOUS
    <2>3. ASSUME NEW s \in SUBSET (1 .. n)
          PROVE  /\ n \in s => s \ {n} \in SUBSET (1 .. n - 1) /\ s \ {n} \in SUBSET (1 .. n)
                 /\ n \notin s => s \in SUBSET (1 .. n - 1)
      OBVIOUS
    <2>4. h \in [SUBSET (1 .. n) -> R]
      BY <2>1, <2>2, <2>3
    <2>5. ASSUME NEW s \in SUBSET (1 .. n)
          PROVE  h[s] = IF s = {} THEN base ELSE step[h[s \ {Top(s)}], seq[Top(s)]]
      <3>1. CASE n \in s
        <4>1. Top(s) = n
          BY <3>1, TopOfStretch
        <4>2. h[s \ {n}] = g[s \ {n}]
          BY <2>3, <3>1
        <4> QED BY <3>1, <4>1, <4>2
      <3>2. CASE n \notin s /\ s # {}
        <4>1. s \in SUBSET (1 .. n - 1) /\ h[s] = g[s]
          BY <2>3, <3>2
        <4>2. s \ {Top(s)} \in SUBSET (1 .. n - 1) /\ h[s \ {Top(s)}] = g[s \ {Top(s)}]
          BY <4>1, <3>2, <2>3
        <4> QED BY <2>1, <4>1, <4>2, <3>2
      <3>3. CASE s = {}
        BY <2>1, <3>3
      <3> QED BY <3>1, <3>2, <3>3
    <2>6. Is(h, n)
      BY <2>4, <2>5
    <2> HIDE DEF Is, h
    <2> QED BY <2>6
  <1>3. Len(seq) \in T
    <2>1. Len(seq) \in Nat /\ Len(seq) \in 0 .. Len(seq)
      OBVIOUS
    <2> HIDE DEF T
    <2>2. \A n \in 1 .. Len(seq) : n - 1 \in T => n \in T
      BY <1>2
    <2>3. \A n \in 0 .. Len(seq) : n \in T
      BY <2>1, <2>2, <1>1, UpTo
    <2> QED BY <2>1, <2>3
  <1>4. DOMAIN seq = 1 .. Len(seq)
    OBVIOUS
  <1>5. PICK g : Is(g, Len(seq))
    BY <1>3
  <1>6. g = [s \in SUBSET DOMAIN seq |-> g[s]]
    BY <1>4, <1>5
  <1>7. Folds(g, step, base, seq)
    BY <1>4, <1>5, <1>6 DEF Folds
  <1> QED BY <1>4, <1>5, <1>7

\* Taking the indices of a sequence from the top leaves its beginnings.
LEMMA Beginnings ==
  ASSUME NEW M, NEW seq \in Seq(M), NEW n \in 1 .. Len(seq)
  PROVE  /\ 1 .. n \in SUBSET DOMAIN seq /\ 1 .. n # {}
         /\ Top(1 .. n) = n /\ (1 .. n) \ {n} = 1 .. n - 1
         /\ 1 .. 0 = {} /\ {} \in SUBSET DOMAIN seq /\ DOMAIN seq = 1 .. Len(seq)
  BY TopOfStretch

\* A fold goes from state to state along the sequence.
FoldsIn(R, g, step, base, seq) ==
  \A s \in SUBSET DOMAIN seq :
    IF s = {} THEN g[s] = base
    ELSE g[s \ {Top(s)}] \in R => g[s] = step[g[s \ {Top(s)}], seq[Top(s)]]

Along(f, R, g, step, base, seq) ==
  /\ f \in [0 .. Len(seq) -> R]
  /\ f[0] = base /\ f[Len(seq)] = g[DOMAIN seq] /\ f[Len(seq)] \in R
  /\ \A n \in 1 .. Len(seq) : f[n] = step[f[n - 1], seq[n]]

LEMMA FoldSteps ==
  ASSUME NEW R, NEW base \in R, NEW M, NEW seq \in Seq(M), NEW step \in [R \X M -> R],
         NEW g, FoldsIn(R, g, step, base, seq)
  PROVE  \E f : Along(f, R, g, step, base, seq)
  <1> DEFINE f == [n \in 0 .. Len(seq) |-> g[1 .. n]]
             T == {n \in 0 .. Len(seq) : f[n] \in R}
  <1>0. Len(seq) \in Nat /\ Len(seq) \in 0 .. Len(seq) /\ DOMAIN seq = 1 .. Len(seq) /\ 0 \in 0 .. Len(seq)
    OBVIOUS
  <1>1. f[0] = base
    <2>1. 1 .. 0 = {} /\ {} \in SUBSET DOMAIN seq
      OBVIOUS
    <2>2. g[{}] = base
      BY <2>1 DEF FoldsIn
    <2> QED BY <1>0, <2>1, <2>2
  <1>2. ASSUME NEW n \in 1 .. Len(seq)
        PROVE  (f[n - 1] \in R => f[n] = step[f[n - 1], seq[n]]) /\ n \in 0 .. Len(seq) /\ n - 1 \in 0 .. Len(seq) /\ seq[n] \in M
    <2>1. n \in 0 .. Len(seq) /\ n - 1 \in 0 .. Len(seq) /\ seq[n] \in M
      BY <1>0
    <2>2. g[(1 .. n) \ {Top(1 .. n)}] \in R => g[1 .. n] = step[g[(1 .. n) \ {Top(1 .. n)}], seq[Top(1 .. n)]]
      <3>1. 1 .. n \in SUBSET DOMAIN seq /\ 1 .. n # {}
        BY Beginnings
      <3> QED BY <3>1 DEF FoldsIn
    <2>3. g[1 .. n - 1] \in R => g[1 .. n] = step[g[1 .. n - 1], seq[n]]
      BY <2>2, Beginnings
    <2> QED BY <2>1, <2>3
  <1>3. \A n \in 0 .. Len(seq) : n \in T
    <2>1. 0 \in T
      BY <1>0, <1>1
    <2>2. \A n \in 1 .. Len(seq) : n - 1 \in T => n \in T
      <3> SUFFICES ASSUME NEW n \in 1 .. Len(seq), f[n - 1] \in R PROVE f[n] \in R /\ n \in 0 .. Len(seq)
        OBVIOUS
      <3> HIDE DEF f
      <3> QED BY <1>2
    <2> HIDE DEF T
    <2> QED BY <1>0, <2>1, <2>2, UpTo
  <1>4. f \in [0 .. Len(seq) -> R]
    BY <1>3
  <1>5. f[Len(seq)] = g[DOMAIN seq]
    BY <1>0
  <1> HIDE DEF f
  <1>6. \A n \in 1 .. Len(seq) : f[n] = step[f[n - 1], seq[n]]
    BY <1>2, <1>4
  <1>7. Along(f, R, g, step, base, seq)
    BY <1>0, <1>1, <1>4, <1>5, <1>6 DEF Along
  <1> QED BY <1>7

-----------------------------------------------------------------------------
\* Sums over a finite set.
Pick(s) == CHOOSE x \in s : TRUE
Sums(g, f, S) ==
  g = [s \in SUBSET S |-> IF s = {} THEN 0 ELSE f[Pick(s)] + g[s \ {Pick(s)}]]

LEMMA Picked ==
  ASSUME NEW S, IsFiniteSet(S), NEW s \in SUBSET S, s # {}
  PROVE  /\ IsFiniteSet(s) /\ Pick(s) \in s /\ s \ {Pick(s)} \in SUBSET S
         /\ Cardinality(s) \in Nat /\ Cardinality(s) # 0
         /\ Cardinality(s \ {Pick(s)}) = Cardinality(s) - 1
  <1>1. IsFiniteSet(s)
    BY FS_Subset
  <1>2. Pick(s) \in s
    BY DEF Pick
  <1>3. Cardinality(s) \in Nat /\ Cardinality(s) # 0
    BY <1>1, FS_CardinalityType, FS_EmptySet
  <1>4. Cardinality(s \ {Pick(s)}) = Cardinality(s) - 1
    BY <1>1, <1>2, FS_RemoveElement
  <1> QED BY <1>1, <1>2, <1>3, <1>4

LEMMA SubsetSize ==
  ASSUME NEW S, IsFiniteSet(S), NEW s \in SUBSET S
  PROVE  IsFiniteSet(s) /\ Cardinality(s) \in 0 .. Cardinality(S) /\ Cardinality(S) \in Nat
  BY FS_Subset, FS_CardinalityType

LEMMA SumExists ==
  ASSUME NEW S, IsFiniteSet(S), NEW f \in [S -> Int]
  PROVE  \E g \in [SUBSET S -> Int] : Sums(g, f, S)
  <1> DEFINE Body(g, s) == IF s = {} THEN 0 ELSE f[Pick(s)] + g[s \ {Pick(s)}]
             Is(g, n) == g \in [SUBSET S -> Int] /\ \A s \in SUBSET S : Cardinality(s) <= n => g[s] = Body(g, s)
             T == {n \in 0 .. Cardinality(S) : \E g : Is(g, n)}
  <1>0. Cardinality(S) \in Nat /\ Cardinality(S) \in 0 .. Cardinality(S)
    BY FS_CardinalityType
  <1>1. 0 \in T
    <2> DEFINE g == [s \in SUBSET S |-> 0]
    <2>1. ASSUME NEW s \in SUBSET S, Cardinality(s) <= 0 PROVE s = {}
      <3>1. Cardinality(s) = 0 /\ IsFiniteSet(s)
        BY <2>1, SubsetSize
      <3> QED BY <3>1, FS_EmptySet
    <2>2. g \in [SUBSET S -> Int]
      OBVIOUS
    <2>3. \A s \in SUBSET S : Cardinality(s) <= 0 => g[s] = Body(g, s)
      BY <2>1
    <2>4. Is(g, 0)
      BY <2>2, <2>3
    <2> HIDE DEF Is, g
    <2> QED BY <2>4, <1>0
  <1>2. ASSUME NEW n \in 1 .. Cardinality(S), n - 1 \in T PROVE n \in T
    <2>1. PICK g : Is(g, n - 1)
      BY <1>2
    <2> DEFINE h == [s \in SUBSET S |-> IF Cardinality(s) = n THEN Body(g, s) ELSE g[s]]
    <2>2. ASSUME NEW s \in SUBSET S PROVE Body(g, s) \in Int
      <3>1. CASE s # {}
        <4>1. Pick(s) \in S /\ s \ {Pick(s)} \in SUBSET S
          BY <3>1, Picked
        <4>2. g[s \ {Pick(s)}] \in Int /\ f[Pick(s)] \in Int
          BY <4>1, <2>1
        <4> QED BY <4>2, <3>1
      <3> QED BY <3>1
    <2>3. h \in [SUBSET S -> Int]
      <3> HIDE DEF Body
      <3> QED BY <2>1, <2>2
    <2>4. ASSUME NEW s \in SUBSET S, Cardinality(s) <= n PROVE h[s] = Body(h, s)
      <3>1. CASE s = {}
        <4>1. Cardinality(s) = 0 /\ n # 0 /\ 0 <= n - 1
          BY <3>1, <1>0, FS_EmptySet
        <4> QED BY <3>1, <4>1, <2>1
      <3>2. CASE s # {}
        <4> DEFINE t == s \ {Pick(s)}
        <4>1. t \in SUBSET S /\ Cardinality(s) \in Nat /\ Cardinality(t) = Cardinality(s) - 1
          BY <3>2, Picked
        <4>2. Cardinality(t) # n
          BY <4>1, <2>4, <1>0
        <4> HIDE DEF t
        <4>3. h[t] = g[t]
          BY <4>1, <4>2
        <4>4. h[s] = Body(g, s)
          <5>1. CASE Cardinality(s) = n
            BY <5>1
          <5>2. CASE Cardinality(s) # n
            <6>1. Cardinality(s) <= n - 1
              BY <5>2, <4>1, <2>4, <1>0
            <6> QED BY <6>1, <5>2, <2>1
          <5> QED BY <5>1, <5>2
        <4>5. Body(g, s) = Body(h, s)
          BY <4>3, <3>2 DEF t
        <4> QED BY <4>4, <4>5
      <3> QED BY <3>1, <3>2
    <2>5. Is(h, n)
      BY <2>3, <2>4
    <2> HIDE DEF Is, h
    <2> QED BY <2>5, <1>0
  <1>3. Cardinality(S) \in T
    <2> HIDE DEF T
    <2>1. \A n \in 1 .. Cardinality(S) : n - 1 \in T => n \in T
      BY <1>2
    <2>2. \A n \in 0 .. Cardinality(S) : n \in T
      BY <1>0, <1>1, <2>1, UpTo
    <2> QED BY <1>0, <2>2
  <1>4. PICK g : Is(g, Cardinality(S))
    BY <1>3
  <1>5. \A s \in SUBSET S : g[s] = Body(g, s)
    BY <1>4, SubsetSize
  <1> QED BY <1>4, <1>5 DEF Sums

\* The sum of a function.
SumOf(f) == FoldFunctionOnSet(+, 0, f, DOMAIN f)

LEMMA SumByFold ==
  ASSUME NEW S, IsFiniteSet(S), NEW f \in [S -> Int]
  PROVE  \E g : Sums(g, f, S) /\ SumOf(f) = g[S]
  <1> DEFINE G == CHOOSE g : Sums(g, f, S)
  <1>1. SumOf(f) = G[S]
    BY DEF SumOf, FoldFunctionOnSet, MapThenFoldSet, Sums, Pick
  <1>2. Sums(G, f, S)
    BY SumExists
  <1> HIDE DEF G
  <1> QED BY <1>1, <1>2

\* Changing a function in one place changes its sum by as much.
LEMMA SumChange ==
  ASSUME NEW S, IsFiniteSet(S), NEW e \in [S -> Int], NEW f \in [S -> Int], NEW x \in S,
         \A y \in S : y # x => e[y] = f[y]
  PROVE  /\ SumOf(e) \in Int
         /\ SumOf(f) = SumOf(e) - e[x] + f[x]
  <1>1. PICK g : Sums(g, e, S) /\ SumOf(e) = g[S]
    BY SumByFold
  <1>2. PICK h : Sums(h, f, S) /\ SumOf(f) = h[S]
    BY SumByFold
  <1> DEFINE Ok(s) == g[s] \in Int /\ h[s] = IF x \in s THEN g[s] - e[x] + f[x] ELSE g[s]
             T == {n \in 0 .. Cardinality(S) : \A s \in SUBSET S : Cardinality(s) = n => Ok(s)}
  <1>0. Cardinality(S) \in Nat /\ Cardinality(S) \in 0 .. Cardinality(S) /\ S \in SUBSET S
    BY FS_CardinalityType
  <1>3. 0 \in T
    <2>1. ASSUME NEW s \in SUBSET S, Cardinality(s) = 0 PROVE Ok(s)
      <3>1. s = {}
        BY <2>1, SubsetSize, FS_EmptySet
      <3>2. g[{}] = 0 /\ h[{}] = 0
        BY <1>1, <1>2 DEF Sums
      <3> QED BY <3>1, <3>2
    <2> HIDE DEF Ok
    <2> QED BY <2>1, <1>0
  <1>4. ASSUME NEW n \in 1 .. Cardinality(S), n - 1 \in T PROVE n \in T
    <2>1. ASSUME NEW s \in SUBSET S, Cardinality(s) = n PROVE Ok(s)
      <3>1. s # {}
        BY <2>1, <1>0, FS_EmptySet
      <3> DEFINE t == s \ {Pick(s)}
      <3>2. t \in SUBSET S /\ Cardinality(t) = n - 1 /\ Pick(s) \in s /\ Pick(s) \in S
        BY <3>1, <2>1, Picked
      <3>3. Ok(t)
        BY <3>2, <1>4
      <3>4. g[s] = e[Pick(s)] + g[t] /\ h[s] = f[Pick(s)] + h[t]
        BY <3>1, <1>1, <1>2 DEF Sums
      <3>5. e[Pick(s)] \in Int /\ f[Pick(s)] \in Int /\ e[x] \in Int /\ f[x] \in Int
        BY <3>2
      <3>6. CASE x = Pick(s)
        <4>1. x \in s /\ x \notin t
          BY <3>6, <3>2
        <4> HIDE DEF t
        <4> QED BY <3>3, <3>4, <3>5, <3>6, <4>1
      <3>7. CASE x # Pick(s)
        <4>1. (x \in s <=> x \in t) /\ e[Pick(s)] = f[Pick(s)]
          BY <3>7, <3>2
        <4> HIDE DEF t
        <4> QED BY <3>3, <3>4, <3>5, <4>1
      <3> QED BY <3>6, <3>7
    <2> HIDE DEF Ok
    <2> QED BY <2>1, <1>0
  <1>5. Cardinality(S) \in T
    <2> HIDE DEF T
    <2>1. \A n \in 1 .. Cardinality(S) : n - 1 \in T => n \in T
      BY <1>4
    <2>2. \A n \in 0 .. Cardinality(S) : n \in T
      BY <1>0, <1>3, <2>1, UpTo
    <2> QED BY <1>0, <2>2
  <1>6. Ok(S)
    <2> HIDE DEF Ok
    <2> QED BY <1>0, <1>5
  <1> QED BY <1>1, <1>2, <1>6

LEMMA SumOfNothing ==
  ASSUME NEW S, IsFiniteSet(S), NEW f \in [S -> Int], \A x \in S : f[x] = 0
  PROVE  SumOf(f) = 0
  <1>1. PICK g : Sums(g, f, S) /\ SumOf(f) = g[S]
    BY SumByFold
  <1> DEFINE T == {n \in 0 .. Cardinality(S) : \A s \in SUBSET S : Cardinality(s) = n => g[s] = 0}
  <1>0. Cardinality(S) \in Nat /\ Cardinality(S) \in 0 .. Cardinality(S) /\ S \in SUBSET S
    BY FS_CardinalityType
  <1>2. 0 \in T
    <2>1. ASSUME NEW s \in SUBSET S, Cardinality(s) = 0 PROVE g[s] = 0
      <3>1. s = {}
        BY <2>1, SubsetSize, FS_EmptySet
      <3> QED BY <3>1, <1>1 DEF Sums
    <2> QED BY <2>1, <1>0
  <1>3. ASSUME NEW n \in 1 .. Cardinality(S), n - 1 \in T PROVE n \in T
    <2>1. ASSUME NEW s \in SUBSET S, Cardinality(s) = n PROVE g[s] = 0
      <3>1. s # {}
        BY <2>1, <1>0, FS_EmptySet
      <3> DEFINE t == s \ {Pick(s)}
      <3>2. t \in SUBSET S /\ Cardinality(t) = n - 1 /\ Pick(s) \in S
        BY <3>1, <2>1, Picked
      <3>3. g[s] = f[Pick(s)] + g[t]
        BY <3>1, <1>1 DEF Sums
      <3> HIDE DEF t
      <3> QED BY <3>2, <3>3, <1>3
    <2> QED BY <2>1, <1>0
  <1>4. Cardinality(S) \in T
    <2> HIDE DEF T
    <2>1. \A n \in 1 .. Cardinality(S) : n - 1 \in T => n \in T
      BY <1>3
    <2>2. \A n \in 0 .. Cardinality(S) : n \in T
      BY <1>0, <1>2, <2>1, UpTo
    <2> QED BY <1>0, <2>2
  <1> QED BY <1>0, <1>1, <1>4

\* What holds of every finite subset that is so of all smaller ones holds of all.
LEMMA BySize ==
  ASSUME NEW S, IsFiniteSet(S), NEW T,
         \A s \in SUBSET S :
           (\A t \in SUBSET S : Cardinality(t) < Cardinality(s) => t \in T) => s \in T
  PROVE  SUBSET S \subseteq T
  <1> DEFINE Bad == {n \in 0 .. Cardinality(S) : \E s \in SUBSET S : s \notin T /\ Cardinality(s) = n}
  <1>1. SUFFICES ASSUME NEW s \in SUBSET S, s \notin T PROVE FALSE
    OBVIOUS
  <1>2. Cardinality(s) \in Bad
    BY <1>1, SubsetSize
  <1>3. Bad \in SUBSET Nat
    OBVIOUS
  <1>4. PICK n \in Bad : \A m \in Bad : n <= m
    <2> HIDE DEF Bad
    <2> QED BY <1>2, <1>3, LeastNumber
  <1>5. PICK u \in SUBSET S : u \notin T /\ Cardinality(u) = n
    BY <1>4
  <1>6. ASSUME NEW t \in SUBSET S, Cardinality(t) < Cardinality(u) PROVE t \in T
    <2>1. Cardinality(t) \in 0 .. Cardinality(S) /\ Cardinality(t) \in Nat /\ n \in Nat
      BY SubsetSize, <1>3
    <2>2. Cardinality(t) \notin Bad
      <3> HIDE DEF Bad
      <3> QED BY <1>4, <1>5, <1>6, <2>1
    <2> QED BY <2>1, <2>2
  <1> QED BY <1>5, <1>6

\* A sum does not depend on which element is taken first.
LEMMA SumTakes ==
  ASSUME NEW S, IsFiniteSet(S), NEW f \in [S -> Int], NEW g, Sums(g, f, S)
  PROVE  \A s \in SUBSET S : g[s] \in Int /\ \A x \in s : g[s] = f[x] + g[s \ {x}]
  <1> DEFINE Ok(s) == g[s] \in Int /\ \A x \in s : g[s] = f[x] + g[s \ {x}]
             T == {s \in SUBSET S : Ok(s)}
  <1>1. ASSUME NEW s \in SUBSET S,
               \A t \in SUBSET S : Cardinality(t) < Cardinality(s) => t \in T
        PROVE  s \in T
    <2>1. CASE s = {}
      BY <2>1 DEF Sums
    <2>2. CASE s # {}
      <3> DEFINE y == Pick(s)
      <3>1. /\ IsFiniteSet(s) /\ y \in s /\ y \in S
            /\ g[s] = f[y] + g[s \ {y}]
        BY <2>2, Picked DEF Sums
      <3> HIDE DEF y
      <3>2. ASSUME NEW x \in s PROVE s \ {x} \in SUBSET S /\ Ok(s \ {x})
        <4>1. Cardinality(s \ {x}) = Cardinality(s) - 1 /\ Cardinality(s) \in Nat
          BY <3>1, FS_RemoveElement, FS_CardinalityType
        <4>2. s \ {x} \in SUBSET S /\ Cardinality(s \ {x}) < Cardinality(s)
          BY <4>1
        <4>3. s \ {x} \in T
          BY <4>2, <1>1
        <4> QED BY <4>2, <4>3
      <3>3. g[s] \in Int
        BY <3>1, <3>2
      <3>4. ASSUME NEW x \in s, x # y PROVE g[s] = f[x] + g[s \ {x}]
        <4> DEFINE r == (s \ {y}) \ {x}
        <4>1. r = (s \ {x}) \ {y} /\ x \in s \ {y} /\ y \in s \ {x}
          BY <3>1, <3>4
        <4>2. g[s \ {y}] = f[x] + g[r]
          BY <3>1, <3>2, <4>1
        <4>3. g[s \ {x}] = f[y] + g[r]
          BY <3>2, <4>1
        <4>4. g[r] \in Int /\ f[x] \in Int /\ f[y] \in Int
          <5>1. r \in SUBSET S /\ Cardinality(r) < Cardinality(s)
            <6>1. IsFiniteSet(s \ {y}) /\ Cardinality(s \ {y}) = Cardinality(s) - 1 /\ Cardinality(s) \in Nat
              BY <3>1, FS_RemoveElement, FS_CardinalityType
            <6>2. Cardinality(r) = Cardinality(s \ {y}) - 1
              BY <4>1, <6>1, FS_RemoveElement
            <6> QED BY <6>1, <6>2
          <5>2. r \in T
            BY <5>1, <1>1
          <5> QED BY <5>2, <3>1
        <4> HIDE DEF r
        <4> QED BY <3>1, <4>2, <4>3, <4>4
      <3> QED BY <3>1, <3>3, <3>4
    <2> QED BY <2>1, <2>2
  <1>2. SUBSET S \subseteq T
    <2> HIDE DEF T
    <2> QED BY <1>1, BySize
  <1> QED BY <1>2

\* The same for one part and one element.
LEMMA SumTake ==
  ASSUME NEW S, IsFiniteSet(S), NEW f, f \in [S -> Int], NEW g, Sums(g, f, S),
         NEW s \in SUBSET S, NEW x \in s
  PROVE  g[s] = f[x] + g[s \ {x}] /\ g[s \ {x}] \in Int
  <1>1. s \ {x} \in SUBSET S
    OBVIOUS
  <1> QED BY <1>1, SumTakes

\* The sum over a part, however it is computed.
LEMMA SumOfPart ==
  ASSUME NEW S, IsFiniteSet(S), NEW f \in [S -> Int], NEW g, Sums(g, f, S),
         NEW R \in SUBSET S, NEW e,
         \A s \in SUBSET R : e[s] = IF s = {} THEN 0 ELSE e[s \ {Pick(s)}] + f[Pick(s)]
  PROVE  e[R] = g[R]
  <1> DEFINE T == {s \in SUBSET R : e[s] = g[s]}
  <1>1. IsFiniteSet(R)
    BY FS_Subset
  <1>2. ASSUME NEW s \in SUBSET R,
               \A t \in SUBSET R : Cardinality(t) < Cardinality(s) => t \in T
        PROVE  s \in T
    <2>1. CASE s = {}
      BY <2>1 DEF Sums
    <2>2. CASE s # {}
      <3> DEFINE y == Pick(s)
      <3>1. /\ y \in s /\ y \in S /\ s \in SUBSET S /\ s \ {y} \in SUBSET R /\ s \ {y} \in SUBSET S
            /\ e[s] = e[s \ {y}] + f[y]
            /\ Cardinality(s \ {y}) < Cardinality(s)
        <4>1. Cardinality(s \ {y}) = Cardinality(s) - 1 /\ Cardinality(s) \in Nat /\ y \in s
          BY <1>1, <2>2, Picked
        <4> QED BY <2>2, <4>1
      <3>2. g[s] = f[y] + g[s \ {y}] /\ g[s \ {y}] \in Int /\ f[y] \in Int
        BY <3>1, SumTakes
      <3>3. e[s \ {y}] = g[s \ {y}]
        BY <3>1, <1>2
      <3> HIDE DEF y
      <3> QED BY <3>1, <3>2, <3>3
    <2> QED BY <2>1, <2>2
  <1>3. SUBSET R \subseteq T
    <2> HIDE DEF T
    <2> QED BY <1>1, <1>2, BySize
  <1> QED BY <1>3

-----------------------------------------------------------------------------
\* Walks down the chains: those of Chain, of any shares sh that each name an earlier one or none.

BackLinked(sh) ==
  /\ Len(sh) \in Nat
  /\ \A h \in 1 .. Len(sh) : sh[h].previous \in Nat /\ sh[h].previous < h

Steps(f, sh, S) == f = [x \in 0 .. Len(sh) |-> IF x \in S THEN <<x>> \o f[sh[x].previous] ELSE <<>>]
Walk(sh, S, x) == (CHOOSE f : Steps(f, sh, S))[x]

LEMMA PreviousIs ==
  ASSUME NEW sh, BackLinked(sh), NEW h \in 1 .. Len(sh)
  PROVE  /\ Len(sh) \in Nat /\ h \in Nat /\ sh[h].previous \in Nat /\ sh[h].previous < h
         /\ h \in 0 .. Len(sh) /\ sh[h].previous \in 0 .. Len(sh)
  BY DEF BackLinked

\* What holds of a share when it does of all earlier ones holds of all.
LEMMA ByShares ==
  ASSUME NEW N \in Nat, NEW T,
         \A x \in 0 .. N : (\A y \in 0 .. N : y < x => y \in T) => x \in T
  PROVE  \A x \in 0 .. N : x \in T
  <1> DEFINE U == {n \in 0 .. N : \A y \in 0 .. N : y <= n => y \in T}
  <1>1. 0 \in U
    BY SMT
  <1>2. \A n \in 1 .. N : n - 1 \in U => n \in U
    BY SMT
  <1> HIDE DEF U
  <1>3. \A n \in 0 .. N : n \in U
    BY <1>1, <1>2, UpTo
  <1> QED BY <1>3 DEF U

LEMMA StepsExist ==
  ASSUME NEW sh, BackLinked(sh), NEW S \in SUBSET (1 .. Len(sh))
  PROVE  \E f \in [0 .. Len(sh) -> Seq(Nat)] : Steps(f, sh, S)
  <1> DEFINE N == Len(sh)
             Body(f, x) == IF x \in S THEN <<x>> \o f[sh[x].previous] ELSE <<>>
             Is(f, n) == f \in [0 .. N -> Seq(Nat)] /\ \A x \in 0 .. n : f[x] = Body(f, x)
             T == {n \in 0 .. N : \E f : Is(f, n)}
  <1>0. N \in Nat /\ \A x \in S : x \in 1 .. N /\ sh[x].previous \in 0 .. N /\ sh[x].previous < x
    <2>1. N \in Nat
      BY DEF BackLinked
    <2>2. ASSUME NEW x \in S
          PROVE  x \in 1 .. N /\ sh[x].previous \in 0 .. N /\ sh[x].previous < x
      <3>1. x \in 1 .. Len(sh)
        OBVIOUS
      <3> HIDE DEF N
      <3>2. sh[x].previous < x /\ sh[x].previous \in 0 .. Len(sh)
        BY ONLY <3>1, PreviousIs, BackLinked(sh)
      <3> QED BY ONLY <3>1, <3>2 DEF N
    <2> HIDE DEF N
    <2> QED BY ONLY <2>1, <2>2
  <1> HIDE DEF N
  <1>1. 0 \in T
    <2>1. PICK f : f = [x \in 0 .. N |-> <<>>]
      OBVIOUS
    <2>2. f \in [0 .. N -> Seq(Nat)]
      BY <2>1
    <2>3. \A x \in 0 .. 0 : x \notin S /\ f[x] = <<>>
      BY <1>0, <2>1
    <2>4. Is(f, 0)
      BY <2>2, <2>3
    <2> HIDE DEF Is
    <2> QED BY <1>0, <2>4
  <1>2. ASSUME NEW n \in 1 .. N, n - 1 \in T PROVE n \in T
    <2>1. PICK f : Is(f, n - 1)
      BY <1>2
    <2>2. Body(f, n) \in Seq(Nat)
      <3>1. CASE n \in S
        <4>1. f[sh[n].previous] \in Seq(Nat) /\ <<n>> \in Seq(Nat)
          BY <1>0, <2>1, <3>1
        <4> QED BY <3>1, <4>1
      <3> QED BY <3>1
    <2>3. PICK e : e \in Seq(Nat) /\ e = Body(f, n)
      BY <2>2
    <2>4. PICK g : g = [f EXCEPT ![n] = e]
      OBVIOUS
    <2>5. g \in [0 .. N -> Seq(Nat)] /\ \A x \in 0 .. N : g[x] = IF x = n THEN e ELSE f[x]
      BY <2>1, <2>3, <2>4
    <2>6. ASSUME NEW x \in 0 .. n PROVE g[x] = Body(g, x)
      <3>1. x \in 0 .. N /\ n \in 0 .. N
        BY <1>0
      <3>2. CASE x \in S
        <4>1. sh[x].previous \in 0 .. N /\ sh[x].previous # n
          BY <1>0, <3>2
        <4>2. g[sh[x].previous] = f[sh[x].previous]
          BY <2>5, <4>1
        <4>3. x = n \/ x \in 0 .. n - 1
          BY <1>0
        <4> QED BY <2>1, <2>3, <2>5, <3>1, <3>2, <4>2, <4>3
      <3>3. CASE x \notin S
        <4>1. x = n \/ x \in 0 .. n - 1
          BY <1>0
        <4> QED BY <2>1, <2>3, <2>5, <3>1, <3>3, <4>1
      <3> QED BY <3>2, <3>3
    <2>7. Is(g, n)
      BY <2>5, <2>6
    <2> HIDE DEF Is
    <2> QED BY <1>0, <2>7
  <1>3. N \in T
    <2> HIDE DEF T
    <2>1. \A n \in 0 .. N : n \in T
      BY <1>0, <1>1, <1>2, UpTo
    <2> QED BY <1>0, <2>1
  <1>4. PICK f : Is(f, N)
    BY <1>3
  <1>5. f = [x \in 0 .. N |-> Body(f, x)]
    <2> HIDE DEF Body
    <2> QED BY <1>4
  <1> QED BY <1>4, <1>5 DEF Steps, N

\* A walk meets its first share, when that is there, and what the walk from the one before meets.
LEMMA WalkSteps ==
  ASSUME NEW sh, BackLinked(sh), NEW S \in SUBSET (1 .. Len(sh)), NEW x \in 0 .. Len(sh)
  PROVE  /\ Walk(sh, S, x) \in Seq(Nat)
         /\ x \in S => Walk(sh, S, x) = <<x>> \o Walk(sh, S, sh[x].previous)
         /\ x \notin S => Walk(sh, S, x) = <<>>
  <1> DEFINE F == CHOOSE f : Steps(f, sh, S)
             T == {y \in 0 .. Len(sh) : F[y] \in Seq(Nat)}
  <1>1. Steps(F, sh, S)
    BY StepsExist
  <1> HIDE DEF F
  <1>2. \A y \in 0 .. Len(sh) : F[y] = IF y \in S THEN <<y>> \o F[sh[y].previous] ELSE <<>>
    BY <1>1 DEF Steps
  <1>3. ASSUME NEW y \in 0 .. Len(sh), \A z \in 0 .. Len(sh) : z < y => z \in T
        PROVE  y \in T
    <2>1. CASE y \in S
      <3>1. sh[y].previous \in 0 .. Len(sh) /\ sh[y].previous < y /\ y \in Nat
        BY <2>1, PreviousIs
      <3>2. F[sh[y].previous] \in Seq(Nat) /\ <<y>> \in Seq(Nat)
        BY <1>3, <3>1
      <3>3. <<y>> \o F[sh[y].previous] \in Seq(Nat)
        BY <3>2
      <3> QED BY <1>2, <2>1, <3>3
    <2>2. CASE y \notin S
      <3>1. F[y] = <<>>
        BY <1>2, <2>2
      <3>2. <<>> \in Seq(Nat)
        OBVIOUS
      <3> QED BY <3>1, <3>2
    <2> QED BY <2>1, <2>2
  <1>4. x \in T
    <2>1. Len(sh) \in Nat
      BY DEF BackLinked
    <2> HIDE DEF T
    <2> QED BY <1>3, <2>1, ByShares
  <1> QED BY <1>2, <1>4 DEF Walk, F

-----------------------------------------------------------------------------
\* The whole chain of a share, how many shares it has, and the share n before x, none at its end.
Line(sh, x) == Walk(sh, 1 .. Len(sh), x)
DepthOf(sh, x) == Len(Line(sh, x))
NthBack(sh, x, n) == IF n = DepthOf(sh, x) THEN 0 ELSE Line(sh, x)[n + 1]

LEMMA LineSteps ==
  ASSUME NEW sh, BackLinked(sh)
  PROVE  /\ \A x \in 0 .. Len(sh) : Line(sh, x) \in Seq(Nat) /\ DepthOf(sh, x) \in Nat
         /\ 0 \in 0 .. Len(sh) /\ Line(sh, 0) = <<>> /\ DepthOf(sh, 0) = 0
         /\ \A x \in 1 .. Len(sh) :
              /\ sh[x].previous \in 0 .. Len(sh) /\ sh[x].previous < x /\ x \in 0 .. Len(sh)
              /\ Line(sh, x) = <<x>> \o Line(sh, sh[x].previous)
              /\ DepthOf(sh, x) = DepthOf(sh, sh[x].previous) + 1
  <1>0. Len(sh) \in Nat /\ 0 \in 0 .. Len(sh) /\ 0 \notin 1 .. Len(sh)
    BY DEF BackLinked
  <1>1. ASSUME NEW x \in 0 .. Len(sh) PROVE Line(sh, x) \in Seq(Nat) /\ DepthOf(sh, x) \in Nat
    <2>1. Line(sh, x) \in Seq(Nat)
      BY WalkSteps DEF Line
    <2> QED BY <2>1 DEF DepthOf
  <1>2. Line(sh, 0) = <<>>
    BY <1>0, WalkSteps DEF Line
  <1>3. DepthOf(sh, 0) = 0
    BY <1>2 DEF DepthOf
  <1>4. ASSUME NEW x \in 1 .. Len(sh)
        PROVE  /\ sh[x].previous \in 0 .. Len(sh) /\ sh[x].previous < x /\ x \in 0 .. Len(sh)
               /\ Line(sh, x) = <<x>> \o Line(sh, sh[x].previous)
               /\ DepthOf(sh, x) = DepthOf(sh, sh[x].previous) + 1
    <2>1. sh[x].previous \in 0 .. Len(sh) /\ sh[x].previous < x /\ x \in 0 .. Len(sh)
      BY PreviousIs
    <2>2. Line(sh, x) = <<x>> \o Line(sh, sh[x].previous)
      BY <2>1, WalkSteps DEF Line
    <2>3. PICK w \in Seq(Nat) : w = Line(sh, sh[x].previous)
      BY <1>1, <2>1
    <2>4. Len(<<x>> \o w) = Len(w) + 1
      BY <2>3
    <2> QED BY <2>1, <2>2, <2>3, <2>4 DEF DepthOf
  <1> QED BY <1>0, <1>1, <1>2, <1>3, <1>4

LEMMA AtSteps ==
  ASSUME NEW sh, BackLinked(sh)
  PROVE  /\ \A x \in 0 .. Len(sh) : NthBack(sh, x, 0) = x
         /\ \A x \in 1 .. Len(sh) : \A n \in 1 .. DepthOf(sh, x) :
              NthBack(sh, x, n) = NthBack(sh, sh[x].previous, n - 1)
  <1>1. ASSUME NEW x \in 0 .. Len(sh) PROVE NthBack(sh, x, 0) = x
    <2>1. CASE x = 0
      BY <2>1, LineSteps DEF NthBack
    <2>2. CASE x \in 1 .. Len(sh)
      <3>1. PICK w \in Seq(Nat) : w = Line(sh, sh[x].previous)
        BY <2>2, LineSteps
      <3>2. Line(sh, x) = <<x>> \o w
        BY <2>2, <3>1, LineSteps
      <3>3. (<<x>> \o w)[1] = x /\ Len(<<x>> \o w) # 0
        BY <3>1
      <3> QED BY <3>2, <3>3 DEF NthBack, DepthOf
    <2> QED BY <2>1, <2>2
  <1>2. ASSUME NEW x \in 1 .. Len(sh), NEW n \in 1 .. DepthOf(sh, x)
        PROVE  NthBack(sh, x, n) = NthBack(sh, sh[x].previous, n - 1)
    <2>1. PICK w \in Seq(Nat) : w = Line(sh, sh[x].previous)
      BY LineSteps
    <2>2. Line(sh, x) = <<x>> \o w /\ DepthOf(sh, x) = Len(w) + 1 /\ DepthOf(sh, sh[x].previous) = Len(w)
      BY <2>1, LineSteps DEF DepthOf
    <2>3. CASE n = DepthOf(sh, x)
      <3>1. n - 1 = Len(w)
        BY <2>1, <2>2, <2>3
      <3> QED BY <2>2, <2>3, <3>1 DEF NthBack
    <2>4. CASE n # DepthOf(sh, x)
      <3>1. n \in 1 .. Len(w) /\ n - 1 # Len(w) /\ n - 1 + 1 = n
        BY <2>1, <2>2, <2>4
      <3>2. (<<x>> \o w)[n + 1] = w[n]
        BY <2>1, <3>1
      <3> QED BY <2>1, <2>2, <2>4, <3>1, <3>2 DEF NthBack
    <2> QED BY <2>3, <2>4
  <1> QED BY <1>1, <1>2

\* Going n back and then m is going n + m back.
GoesBack(sh, x) ==
  \A n \in 0 .. DepthOf(sh, x) :
    /\ NthBack(sh, x, n) \in 0 .. Len(sh) /\ NthBack(sh, x, n) <= x
    /\ DepthOf(sh, NthBack(sh, x, n)) = DepthOf(sh, x) - n
    /\ n < DepthOf(sh, x) =>
         /\ NthBack(sh, x, n) \in 1 .. Len(sh)
         /\ sh[NthBack(sh, x, n)].previous = NthBack(sh, x, n + 1)
    /\ n = DepthOf(sh, x) => NthBack(sh, x, n) = 0
    /\ \A m \in 0 .. DepthOf(sh, x) - n : NthBack(sh, NthBack(sh, x, n), m) = NthBack(sh, x, n + m)

LEMMA AtBack ==
  ASSUME NEW sh, BackLinked(sh)
  PROVE  \A x \in 0 .. Len(sh) : GoesBack(sh, x)
  <1> DEFINE T == {x \in 0 .. Len(sh) : GoesBack(sh, x)}
  <1>0. Len(sh) \in Nat
    BY DEF BackLinked
  <1>1. ASSUME NEW x \in 0 .. Len(sh), \A y \in 0 .. Len(sh) : y < x => y \in T
        PROVE  GoesBack(sh, x)
    <2>1. CASE x = 0
      <3>1. DepthOf(sh, 0) = 0 /\ NthBack(sh, 0, 0) = 0 /\ 0 \in 0 .. Len(sh)
        BY <2>1, LineSteps, AtSteps
      <3>2. \A n \in 0 .. DepthOf(sh, 0) : n = 0
        BY <3>1
      <3> QED BY <2>1, <3>1, <3>2 DEF GoesBack
    <2>2. CASE x # 0
      <3> DEFINE y == sh[x].previous
      <3>1. /\ x \in 1 .. Len(sh) /\ y \in 0 .. Len(sh) /\ y < x
            /\ DepthOf(sh, x) = DepthOf(sh, y) + 1 /\ DepthOf(sh, y) \in Nat
            /\ NthBack(sh, x, 0) = x /\ NthBack(sh, y, 0) = y
        <4>1. x \in 1 .. Len(sh)
          BY <1>0, <2>2
        <4> QED BY <4>1, LineSteps, AtSteps
      <3>2. GoesBack(sh, y)
        BY <1>1, <3>1
      <3>3. \A n \in 1 .. DepthOf(sh, x) : NthBack(sh, x, n) = NthBack(sh, y, n - 1)
        BY <3>1, AtSteps
      <3> HIDE DEF y
      <3>4. ASSUME NEW n \in 1 .. DepthOf(sh, x)
            PROVE  /\ NthBack(sh, x, n) \in 0 .. Len(sh) /\ NthBack(sh, x, n) <= x
                   /\ DepthOf(sh, NthBack(sh, x, n)) = DepthOf(sh, x) - n
                   /\ n < DepthOf(sh, x) =>
                        /\ NthBack(sh, x, n) \in 1 .. Len(sh)
                        /\ sh[NthBack(sh, x, n)].previous = NthBack(sh, x, n + 1)
                   /\ n = DepthOf(sh, x) => NthBack(sh, x, n) = 0
                   /\ \A m \in 0 .. DepthOf(sh, x) - n : NthBack(sh, NthBack(sh, x, n), m) = NthBack(sh, x, n + m)
        <4>1. n - 1 \in 0 .. DepthOf(sh, y) /\ NthBack(sh, x, n) = NthBack(sh, y, n - 1)
          BY <3>1, <3>3
        <4>2. /\ NthBack(sh, y, n - 1) \in 0 .. Len(sh) /\ NthBack(sh, y, n - 1) <= y
              /\ DepthOf(sh, NthBack(sh, y, n - 1)) = DepthOf(sh, y) - (n - 1)
              /\ n - 1 < DepthOf(sh, y) =>
                   /\ NthBack(sh, y, n - 1) \in 1 .. Len(sh)
                   /\ sh[NthBack(sh, y, n - 1)].previous = NthBack(sh, y, n - 1 + 1)
              /\ n - 1 = DepthOf(sh, y) => NthBack(sh, y, n - 1) = 0
              /\ \A m \in 0 .. DepthOf(sh, y) - (n - 1) : NthBack(sh, NthBack(sh, y, n - 1), m) = NthBack(sh, y, n - 1 + m)
          BY <3>2, <4>1 DEF GoesBack
        <4>3. NthBack(sh, x, n) <= x
          <5>1. NthBack(sh, y, n - 1) \in Nat /\ y \in Nat /\ x \in Nat
            BY <3>1, <4>2
          <5> QED BY <3>1, <4>1, <4>2, <5>1
        <4>4. DepthOf(sh, y) - (n - 1) = DepthOf(sh, x) - n
          BY <3>1
        <4>5. ASSUME n < DepthOf(sh, x) PROVE sh[NthBack(sh, x, n)].previous = NthBack(sh, x, n + 1)
          <5>1. n - 1 < DepthOf(sh, y) /\ n + 1 \in 1 .. DepthOf(sh, x) /\ n + 1 - 1 = n - 1 + 1
            BY <3>1, <4>5
          <5>2. NthBack(sh, x, n + 1) = NthBack(sh, y, n + 1 - 1)
            BY <3>3, <5>1
          <5> QED BY <4>1, <4>2, <5>1, <5>2
        <4>6. ASSUME NEW m \in 0 .. DepthOf(sh, x) - n PROVE NthBack(sh, NthBack(sh, x, n), m) = NthBack(sh, x, n + m)
          <5>1. m \in 0 .. DepthOf(sh, y) - (n - 1) /\ n + m \in 1 .. DepthOf(sh, x) /\ n + m - 1 = n - 1 + m
            BY <3>1
          <5>2. NthBack(sh, x, n + m) = NthBack(sh, y, n + m - 1)
            BY <3>3, <5>1
          <5> QED BY <4>1, <4>2, <5>1, <5>2
        <4>7. n < DepthOf(sh, x) => n - 1 < DepthOf(sh, y)
          BY <3>1
        <4>8. n = DepthOf(sh, x) => n - 1 = DepthOf(sh, y)
          BY <3>1
        <4> QED BY <4>1, <4>2, <4>3, <4>4, <4>5, <4>6, <4>7, <4>8
      <3>5. /\ NthBack(sh, x, 0) \in 0 .. Len(sh) /\ NthBack(sh, x, 0) <= x
            /\ DepthOf(sh, NthBack(sh, x, 0)) = DepthOf(sh, x) - 0
            /\ NthBack(sh, x, 0) \in 1 .. Len(sh)
            /\ sh[NthBack(sh, x, 0)].previous = NthBack(sh, x, 0 + 1)
            /\ 0 # DepthOf(sh, x)
            /\ \A m \in 0 .. DepthOf(sh, x) - 0 : NthBack(sh, NthBack(sh, x, 0), m) = NthBack(sh, x, 0 + m)
        <4>1. 1 \in 1 .. DepthOf(sh, x) /\ 1 - 1 = 0
          BY <3>1
        <4>2. NthBack(sh, x, 1) = y
          BY <3>1, <3>3, <4>1
        <4>3. sh[x].previous = y
          BY DEF y
        <4> QED BY <3>1, <4>1, <4>2, <4>3
      <3>6. \A n \in 0 .. DepthOf(sh, x) : n = 0 \/ n \in 1 .. DepthOf(sh, x)
        BY <3>1
      <3> QED BY <3>4, <3>5, <3>6 DEF GoesBack
    <2> QED BY <2>1, <2>2
  <1>2. \A x \in 0 .. Len(sh) : x \in T
    <2>1. \A x \in 0 .. Len(sh) : (\A y \in 0 .. Len(sh) : y < x => y \in T) => x \in T
      BY <1>1
    <2> HIDE DEF T
    <2> QED BY <1>0, <2>1, ByShares
  <1> QED BY <1>2

\* A walk over some of the shares is the beginning of the whole chain.
LEMMA WalkIsBeginning ==
  ASSUME NEW sh, BackLinked(sh), NEW S \in SUBSET (1 .. Len(sh)), NEW x \in 0 .. Len(sh)
  PROVE  /\ Walk(sh, S, x) \in Seq(Nat) /\ Len(Walk(sh, S, x)) \in Nat
         /\ Len(Walk(sh, S, x)) <= DepthOf(sh, x)
         /\ \A i \in 1 .. Len(Walk(sh, S, x)) : Walk(sh, S, x)[i] = NthBack(sh, x, i - 1) /\ NthBack(sh, x, i - 1) \in S
         /\ NthBack(sh, x, Len(Walk(sh, S, x))) \notin S
  <1> DEFINE W(z) == Walk(sh, S, z)
             Ok(z) == /\ Len(W(z)) <= DepthOf(sh, z)
                      /\ \A i \in 1 .. Len(W(z)) : W(z)[i] = NthBack(sh, z, i - 1) /\ NthBack(sh, z, i - 1) \in S
                      /\ NthBack(sh, z, Len(W(z))) \notin S
             T == {z \in 0 .. Len(sh) : Ok(z)}
  <1>0. Len(sh) \in Nat
    BY DEF BackLinked
  <1>1. ASSUME NEW z \in 0 .. Len(sh), \A y \in 0 .. Len(sh) : y < z => y \in T
        PROVE  Ok(z)
    <2>1. CASE z \notin S
      <3>1. W(z) = <<>>
        BY <2>1, WalkSteps
      <3>2. Len(<<>>) = 0 /\ NthBack(sh, z, 0) = z /\ DepthOf(sh, z) \in Nat
        BY AtSteps, LineSteps
      <3> QED BY <2>1, <3>1, <3>2
    <2>2. CASE z \in S
      <3> DEFINE y == sh[z].previous
      <3>1. z \in 1 .. Len(sh) /\ y \in 0 .. Len(sh) /\ y < z
        BY <2>2, LineSteps
      <3>2. Ok(y)
        BY <1>1, <3>1
      <3>3. PICK w \in Seq(Nat) : w = W(y)
        BY <3>1, WalkSteps
      <3>4. W(z) = <<z>> \o w
        BY <2>2, <3>3, WalkSteps
      <3>5. /\ DepthOf(sh, z) = DepthOf(sh, y) + 1 /\ DepthOf(sh, y) \in Nat /\ DepthOf(sh, z) \in Nat
            /\ NthBack(sh, z, 0) = z
            /\ \A n \in 1 .. DepthOf(sh, z) : NthBack(sh, z, n) = NthBack(sh, y, n - 1)
        BY <3>1, LineSteps, AtSteps
      <3> HIDE DEF y
      <3>6. PICK v : v = <<z>> \o w
        OBVIOUS
      <3>7. Len(v) = Len(w) + 1 /\ v[1] = z /\ \A i \in 2 .. Len(w) + 1 : v[i] = w[i - 1]
        BY <3>3, <3>6
      <3>8. Len(w) <= DepthOf(sh, y) /\ Len(w) \in Nat
        BY <3>2, <3>3
      <3>9. Len(v) \in 1 .. DepthOf(sh, z) /\ DepthOf(sh, z) \in Nat
        BY <3>5, <3>7, <3>8
      <3>10. ASSUME NEW i \in 1 .. Len(v) PROVE v[i] = NthBack(sh, z, i - 1) /\ NthBack(sh, z, i - 1) \in S
        <4>1. CASE i = 1
          BY <2>2, <3>5, <3>7, <4>1
        <4>2. CASE i # 1
          <5>1. i \in 2 .. Len(w) + 1 /\ i - 1 \in 1 .. Len(w) /\ i - 1 \in 1 .. DepthOf(sh, z)
            BY <3>7, <3>8, <3>9, <4>2
          <5>2. v[i] = w[i - 1] /\ w[i - 1] = NthBack(sh, y, i - 1 - 1) /\ NthBack(sh, y, i - 1 - 1) \in S
            BY <3>2, <3>3, <3>7, <5>1
          <5>3. NthBack(sh, z, i - 1) = NthBack(sh, y, i - 1 - 1)
            BY <3>5, <5>1
          <5> QED BY <5>2, <5>3
        <4> QED BY <4>1, <4>2
      <3>11. NthBack(sh, z, Len(v)) \notin S
        <4>1. NthBack(sh, z, Len(v)) = NthBack(sh, y, Len(v) - 1) /\ Len(v) - 1 = Len(w)
          BY <3>5, <3>7, <3>8, <3>9
        <4> QED BY <3>2, <3>3, <4>1
      <3>12. W(z) = v /\ Len(v) <= DepthOf(sh, z)
        BY <3>4, <3>5, <3>6, <3>9
      <3> HIDE DEF W
      <3> QED BY <3>10, <3>11, <3>12
    <2> QED BY <2>1, <2>2
  <1>2. \A z \in 0 .. Len(sh) : z \in T
    <2>1. \A z \in 0 .. Len(sh) : (\A y \in 0 .. Len(sh) : y < z => y \in T) => z \in T
      BY <1>1
    <2> HIDE DEF T
    <2> QED BY <1>0, <2>1, ByShares
  <1>3. Ok(x)
    BY <1>2
  <1>4. Walk(sh, S, x) \in Seq(Nat) /\ Len(Walk(sh, S, x)) \in Nat
    <2>1. Walk(sh, S, x) \in Seq(Nat)
      BY WalkSteps
    <2> QED BY <2>1
  <1> QED BY <1>3, <1>4

\* More shares change no chain that was there.
LEMMA LineExtended ==
  ASSUME NEW sh, BackLinked(sh), NEW more, BackLinked(more), Len(sh) <= Len(more),
         \A h \in 1 .. Len(sh) : more[h].previous = sh[h].previous
  PROVE  \A x \in 0 .. Len(sh) :
           /\ Line(more, x) = Line(sh, x) /\ DepthOf(more, x) = DepthOf(sh, x)
           /\ \A n : NthBack(more, x, n) = NthBack(sh, x, n)
  <1> DEFINE T == {x \in 0 .. Len(sh) : Line(more, x) = Line(sh, x)}
  <1>0. Len(sh) \in Nat /\ Len(more) \in Nat
    BY DEF BackLinked
  <1>1. ASSUME NEW x \in 0 .. Len(sh), \A y \in 0 .. Len(sh) : y < x => y \in T
        PROVE  Line(more, x) = Line(sh, x)
    <2>1. CASE x = 0
      BY <2>1, LineSteps
    <2>2. CASE x # 0
      <3>1. x \in 1 .. Len(sh) /\ x \in 1 .. Len(more)
        BY <1>0, <2>2
      <3>2. sh[x].previous \in 0 .. Len(sh) /\ sh[x].previous < x
        BY <3>1, LineSteps
      <3>3. Line(sh, x) = <<x>> \o Line(sh, sh[x].previous)
        BY <3>1, LineSteps
      <3>4. Line(more, x) = <<x>> \o Line(more, more[x].previous)
        BY <3>1, LineSteps
      <3>5. Line(more, sh[x].previous) = Line(sh, sh[x].previous)
        BY <1>1, <3>2
      <3> QED BY <3>1, <3>3, <3>4, <3>5
    <2> QED BY <2>1, <2>2
  <1>2. \A x \in 0 .. Len(sh) : x \in T
    <2>1. \A x \in 0 .. Len(sh) : (\A y \in 0 .. Len(sh) : y < x => y \in T) => x \in T
      BY <1>1
    <2> HIDE DEF T
    <2> QED BY <1>0, <2>1, ByShares
  <1> QED BY <1>2 DEF DepthOf, NthBack

\* A share has no more shares before it than its number says.
LEMMA DepthBound ==
  ASSUME NEW sh, BackLinked(sh)
  PROVE  \A x \in 0 .. Len(sh) : DepthOf(sh, x) <= x
  <1> DEFINE T == {x \in 0 .. Len(sh) : DepthOf(sh, x) <= x}
  <1>0. Len(sh) \in Nat
    BY DEF BackLinked
  <1>1. ASSUME NEW x \in 0 .. Len(sh), \A y \in 0 .. Len(sh) : y < x => y \in T
        PROVE  x \in T
    <2>1. CASE x = 0
      BY <2>1, LineSteps
    <2>2. CASE x # 0
      <3>1. x \in 1 .. Len(sh)
        BY <1>0, <2>2
      <3>2. /\ sh[x].previous \in 0 .. Len(sh) /\ sh[x].previous < x
            /\ DepthOf(sh, x) = DepthOf(sh, sh[x].previous) + 1
        BY <3>1, LineSteps
      <3>3. DepthOf(sh, sh[x].previous) <= sh[x].previous /\ DepthOf(sh, sh[x].previous) \in Nat
        BY <1>1, <3>2, LineSteps
      <3>4. DepthOf(sh, x) <= x
        BY <3>2, <3>3
      <3> QED BY <3>4
    <2> QED BY <2>1, <2>2
  <1>2. \A x \in 0 .. Len(sh) : x \in T
    <2> HIDE DEF T
    <2> QED BY <1>0, <1>1, ByShares
  <1> QED BY <1>2
===============================================================================
