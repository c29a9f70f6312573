--------------------------- MODULE ShareChainProofs ---------------------------
(***************************************************************************)
(* Proofs about ShareChain: whatever shares arrive, in whatever order, and *)
(* whichever of them are flawed, think() and clean_tracker() keep the two  *)
(* trackers in order, the share they choose to build on is present and not *)
(* naughty, and what a head lacks is being asked for.                      *)
(***************************************************************************)
EXTENDS ShareChain, ForestLemmas, FoldLemmas

\* What never changes: the forest and which of its shares fail check().
Fixed == previous_hash \in Previous /\ bad \in SUBSET Hash

-----------------------------------------------------------------------------
\* Numbers.

LEMMA OfTwo ==
  ASSUME NEW a \in Int, NEW b \in Int
  PROVE  /\ Min({a, b}) \in Int /\ Min({a, b}) = IF a <= b THEN a ELSE b
         /\ Max({a, b}) \in Int /\ Max({a, b}) = IF a >= b THEN a ELSE b
  <1> DEFINE S == {a, b}
  <1>1. \A x : (x \in S /\ \A y \in S : x <= y) => x = IF a <= b THEN a ELSE b
    OBVIOUS
  <1>2. \A x : (x \in S /\ \A y \in S : x >= y) => x = IF a >= b THEN a ELSE b
    OBVIOUS
  <1>3. LET m == IF a <= b THEN a ELSE b IN m \in S /\ \A y \in S : m <= y
    OBVIOUS
  <1>4. LET m == IF a >= b THEN a ELSE b IN m \in S /\ \A y \in S : m >= y
    OBVIOUS
  <1>5. Min(S) = IF a <= b THEN a ELSE b
    BY <1>1, <1>3 DEF Min
  <1>6. Max(S) = IF a >= b THEN a ELSE b
    BY <1>2, <1>4 DEF Max
  <1> QED BY <1>5, <1>6

LEMMA LeastOf ==
  ASSUME NEW n \in Nat, NEW S \in SUBSET (1 .. n), S # {}
  PROVE  Min(S) \in S /\ \A y \in S : Min(S) <= y
  <1>1. PICK x \in S : \A y \in S : x <= y
    BY LeastNumber
  <1> QED BY <1>1 DEF Min

-----------------------------------------------------------------------------
\* Walks.

\* How high a node is above the first absent hash.
LEMMA HeightEq ==
  ASSUME NEW I, IsForest(I, previous_hash), NEW x \in Node
  PROVE  /\ get_height(I, x) \in Nat
         /\ x \in I => /\ previous_hash[x] \in Node
                       /\ get_height(I, previous_hash[x]) \in Nat
                       /\ get_height(I, x) = get_height(I, previous_hash[x]) + 1
         /\ x \notin I => get_height(I, x) = 0
  <1> DEFINE p == previous_hash
             met(y) == Chain(I, p)[y] \cap I
  <1>0. \A z \in Node : \A y :
          y \in Chain(I, p)[z] <=> (y = z \/ (z \in I /\ y \in Chain(I, p)[p[z]]))
    BY ChainEq
  <1>1. IsFiniteSet(I)
    BY FS_Subset, ShareChainAssumption DEF IsForest
  <1>2. ASSUME NEW y PROVE IsFiniteSet(met(y)) /\ Cardinality(met(y)) \in Nat
    BY <1>1, FS_Subset, FS_CardinalityType
  <1>3. CASE x \in I
    <2>1. p[x] \in Node /\ p[x] < x /\ x \in Nat /\ p[x] \in Nat
      BY <1>3, PreviousIsEarlier DEF IsForest
    <2>2. x \notin met(p[x])
      <3>1. \A y \in Chain(I, p)[p[x]] : y <= p[x]
        BY <2>1, ChainBelow
      <3> QED BY <2>1, <3>1
    <2>3. met(x) = met(p[x]) \cup {x}
      BY <1>0, <1>3
    <2>4. Cardinality(met(p[x]) \cup {x}) = Cardinality(met(p[x])) + 1
      <3> HIDE DEF met
      <3> QED BY <1>2, <2>2, FS_AddElement
    <2>5. \A y : get_height(I, y) = Cardinality(met(y)) /\ get_height(I, y) \in Nat
      BY <1>2 DEF get_height, Height
    <2> HIDE DEF met
    <2> QED BY <1>3, <2>1, <2>3, <2>4, <2>5
  <1>4. CASE x \notin I
    <2>1. met(x) = {}
      BY <1>0, <1>4
    <2>2. get_height(I, x) = Cardinality(met(x))
      BY DEF get_height, Height
    <2> HIDE DEF met
    <2> QED BY <1>4, <2>1, <2>2, FS_EmptySet
  <1> QED BY <1>3, <1>4

\* The walk back from x, told step by step.
IsWalk(f, x, n) == f = [k \in 0 .. n |-> IF k = 0 THEN x ELSE previous_hash[f[k - 1]]]

LEMMA WalkExists ==
  ASSUME NEW x, NEW n \in Nat
  PROVE  \E f : IsWalk(f, x, n)
  <1> DEFINE T == {k \in 0 .. n : \E f : IsWalk(f, x, k)}
  <1>1. 0 \in T
    <2> DEFINE f == [k \in 0 .. 0 |-> x]
    <2>1. IsWalk(f, x, 0)
      BY DEF IsWalk
    <2> HIDE DEF f
    <2> QED BY <2>1
  <1>2. ASSUME NEW k \in 1 .. n, k - 1 \in T PROVE k \in T
    <2>1. PICK f : IsWalk(f, x, k - 1)
      BY <1>2
    <2> DEFINE g == [i \in 0 .. k |-> IF i = k THEN previous_hash[f[k - 1]] ELSE f[i]]
    <2>2. ASSUME NEW i \in 0 .. k PROVE g[i] = IF i = 0 THEN x ELSE previous_hash[g[i - 1]]
      <3>1. CASE i = k
        <4>1. g[k - 1] = f[k - 1] /\ k # 0
          OBVIOUS
        <4> QED BY <3>1, <4>1
      <3>2. CASE i # k /\ i = 0
        <4>1. f[0] = x
          BY <2>1 DEF IsWalk
        <4> QED BY <3>2, <4>1
      <3>3. CASE i # k /\ i # 0
        <4>1. i \in 0 .. k - 1 /\ i - 1 \in 0 .. k - 1 /\ i - 1 # k
          BY <3>3
        <4>2. f[i] = previous_hash[f[i - 1]]
          BY <2>1, <3>3, <4>1 DEF IsWalk
        <4> QED BY <3>3, <4>1, <4>2
      <3> QED BY <3>1, <3>2, <3>3
    <2>3. g = [i \in 0 .. k |-> g[i]]
      OBVIOUS
    <2>4. IsWalk(g, x, k)
      BY <2>2, <2>3 DEF IsWalk
    <2> HIDE DEF g
    <2> QED BY <2>4
  <1> HIDE DEF T
  <1>3. n \in T
    BY <1>1, <1>2, UpTo
  <1> QED BY <1>3 DEF T

LEMMA NthParent ==
  ASSUME NEW x
  PROVE  /\ nth_parent(x, 0) = x
         /\ \A n \in Nat : nth_parent(x, n + 1) = previous_hash[nth_parent(x, n)]
  <1> DEFINE up(n) == CHOOSE f : IsWalk(f, x, n)
  <1>1. ASSUME NEW n \in Nat PROVE IsWalk(up(n), x, n) /\ nth_parent(x, n) = up(n)[n]
    <2>1. nth_parent(x, n) = up(n)[n]
      BY DEF nth_parent, IsWalk
    <2>2. \E f : IsWalk(f, x, n)
      BY WalkExists
    <2> QED BY <2>1, <2>2
  <1> HIDE DEF up
  <1>2. ASSUME NEW n \in Nat PROVE up(n)[0] = x /\ \A k \in 1 .. n : up(n)[k] = previous_hash[up(n)[k - 1]]
    BY <1>1 DEF IsWalk
  <1>3. ASSUME NEW n \in Nat PROVE up(n + 1)[n] = up(n)[n]
    <2> DEFINE T == {k \in 0 .. n : up(n + 1)[k] = up(n)[k]}
    <2>1. 0 \in T
      BY <1>2
    <2>2. ASSUME NEW k \in 1 .. n, k - 1 \in T PROVE k \in T
      BY <1>2, <2>2
    <2> HIDE DEF T
    <2>3. n \in T
      BY <2>1, <2>2, UpTo
    <2> QED BY <2>3 DEF T
  <1>4. ASSUME NEW n \in Nat PROVE nth_parent(x, n + 1) = previous_hash[nth_parent(x, n)]
    <2>1. n + 1 \in Nat /\ n + 1 \in 1 .. n + 1 /\ (n + 1) - 1 = n
      OBVIOUS
    <2>2. up(n + 1)[n + 1] = previous_hash[up(n + 1)[n]]
      BY <1>2, <2>1
    <2> QED BY <1>1, <1>3, <2>1, <2>2
  <1> QED BY <1>1, <1>2, <1>4

\* A walk of no more shares than there are stays among them.
LEMMA Ancestor ==
  ASSUME NEW I, IsForest(I, previous_hash), NEW x \in Node, NEW n \in Nat, n <= get_height(I, x)
  PROVE  /\ nth_parent(x, n) \in Node
         /\ get_height(I, nth_parent(x, n)) = get_height(I, x) - n
         /\ get_last(I, nth_parent(x, n)) = get_last(I, x)
         /\ n < get_height(I, x) => nth_parent(x, n) \in I
  <1> DEFINE Is(k) == /\ nth_parent(x, k) \in Node
                      /\ get_height(I, nth_parent(x, k)) = get_height(I, x) - k
                      /\ get_last(I, nth_parent(x, k)) = get_last(I, x)
             T == {k \in 0 .. n : Is(k)}
  <1>0. get_height(I, x) \in Nat
    BY HeightEq
  <1>1. 0 \in T
    BY <1>0, NthParent
  <1>2. ASSUME NEW k \in Nat, Is(k), k < get_height(I, x) PROVE nth_parent(x, k) \in I
    BY <1>0, <1>2, HeightEq
  <1>3. ASSUME NEW k \in 1 .. n, k - 1 \in T PROVE k \in T
    <2> DEFINE y == nth_parent(x, k - 1)
    <2>1. k - 1 \in Nat /\ Is(k - 1) /\ k - 1 < get_height(I, x) /\ (k - 1) + 1 = k /\ k \in 0 .. n
      BY <1>0, <1>3
    <2>2. y \in I /\ y \in Node
      BY <1>2, <2>1
    <2>3. nth_parent(x, k) = previous_hash[y]
      BY <2>1, NthParent
    <2>4. /\ previous_hash[y] \in Node /\ get_height(I, previous_hash[y]) \in Nat
          /\ get_height(I, y) = get_height(I, previous_hash[y]) + 1
          /\ get_last(I, y) = get_last(I, previous_hash[y])
      <3> HIDE DEF y
      <3> QED BY <2>2, HeightEq, LastEq DEF get_last
    <2>5. get_height(I, y) = get_height(I, x) - (k - 1) /\ get_last(I, y) = get_last(I, x)
      BY <2>1
    <2> HIDE DEF y
    <2>6. Is(k)
      BY <1>0, <2>1, <2>3, <2>4, <2>5
    <2> QED BY <2>1, <2>6
  <1>4. n \in T
    <2> HIDE DEF T
    <2> QED BY <1>1, <1>3, UpTo
  <1>5. Is(n)
    BY <1>4
  <1> QED BY <1>2, <1>5

LEMMA ChainOf ==
  ASSUME NEW I, IsForest(I, previous_hash), NEW x \in Node, NEW n \in Nat, n <= get_height(I, x)
  PROVE  /\ get_chain(x, n) \in Seq(I) /\ Len(get_chain(x, n)) = n /\ DOMAIN get_chain(x, n) = 1 .. n
         /\ \A i \in 1 .. n : /\ get_chain(x, n)[i] = nth_parent(x, i - 1)
                              /\ get_height(I, get_chain(x, n)[i]) = get_height(I, x) - (i - 1)
                              /\ get_last(I, get_chain(x, n)[i]) = get_last(I, x)
  <1>0. get_height(I, x) \in Nat
    BY HeightEq
  <1>1. ASSUME NEW i \in 1 .. n
        PROVE  /\ nth_parent(x, i - 1) \in I
               /\ get_height(I, nth_parent(x, i - 1)) = get_height(I, x) - (i - 1)
               /\ get_last(I, nth_parent(x, i - 1)) = get_last(I, x)
    <2>1. i - 1 \in Nat /\ i - 1 < get_height(I, x) /\ i - 1 <= get_height(I, x)
      BY <1>0
    <2> QED BY <2>1, Ancestor
  <1>2. get_chain(x, n) \in [1 .. n -> I]
    BY <1>1 DEF get_chain
  <1>3. \A i \in 1 .. n : get_chain(x, n)[i] = nth_parent(x, i - 1)
    BY DEF get_chain
  <1> HIDE DEF get_chain
  <1>4. get_chain(x, n) \in Seq(I) /\ Len(get_chain(x, n)) = n
    BY <1>2
  <1> QED BY <1>1, <1>2, <1>3, <1>4

-----------------------------------------------------------------------------
\* The working state of think() and clean_tracker().

\* What may be desired: a hash, dated by the newest shares under some head.
Wishes == {<<x, newest(I, h)>> : x \in Hash, I \in SUBSET Hash, h \in Hash}

Marks == [Hash -> 0 .. Generations]

Raised == {"none", "KeyError", "TypeError"}

Sets == SUBSET Hash
WishSets == SUBSET Wishes

State(D) ==
  [items : Sets, verified : Sets, naughty : Marks, desired : D, bads : Seq(bad),
   best : Node, top : Sets,
   error : Raised \cup {"NotImplementedError", "AssertionError"}]

\* The verified shares are among the tracker's and pass check(), and nothing has been raised
\* that an assertion or the middle of a chain would raise.
Sound(D, s) ==
  /\ s \in State(D)
  /\ s.verified \subseteq s.items \ bad
  /\ s.error \in Raised

LEMMA ConstantTypes ==
  /\ CHAIN_LENGTH \in Nat \ {0} /\ Few \in Nat \ {0} /\ Generations \in Nat \ {0} /\ Slack \in Nat
  /\ Cardinality(Hash) \in Nat /\ IsFiniteSet(Hash) /\ Solved \subseteq Hash
  BY ShareChainAssumption, FS_CardinalityType

LEMMA MarkKept ==
  ASSUME Fixed, NEW marks \in Marks, NEW h \in Hash
  PROVE  Checked(marks, h) \in Marks
  <1> DEFINE parent == previous_hash[h]
             mark   == IF marks[parent] > 0 THEN (marks[parent] + 1) % (Generations + 1)
                       ELSE IF h \in excess THEN 1 ELSE marks[h]
  <1>1. CASE parent = None
    BY <1>1 DEF Checked
  <1>2. CASE parent # None
    <2>1. parent \in Hash
      BY <1>2, PreviousIsEarlier DEF Fixed, Node
    <2>2. marks[parent] \in 0 .. Generations /\ marks[h] \in 0 .. Generations
      BY <2>1 DEF Marks
    <2>3. mark \in 0 .. Generations
      BY <2>2, ConstantTypes
    <2>4. Checked(marks, h) = [marks EXCEPT ![h] = mark]
      BY <1>2 DEF Checked
    <2> HIDE DEF mark
    <2> QED BY <2>3, <2>4 DEF Marks
  <1> QED BY <1>1, <1>2

LEMMA MarksKept ==
  ASSUME Fixed, NEW marks \in Marks, NEW path \in Seq(Hash), NEW V
  PROVE  Marked(marks, path, V) \in Marks
  <1> DEFINE R == Marks
             To(m, h) == IF h \in V THEN m ELSE Checked(m, h)
             step == [x \in R \X Hash |-> To(x[1], x[2])]
  <1>1. ASSUME NEW m \in R, NEW h \in Hash PROVE To(m, h) \in R
    BY MarkKept
  <1>2. step \in [R \X Hash -> R]
    <2> HIDE DEF R, To
    <2> QED BY <1>1
  <1>3. ASSUME NEW r \in R, NEW x \in Hash PROVE step[r, x] = To(r, x)
    <2> HIDE DEF R, To
    <2> QED OBVIOUS
  <1>4. DOMAIN path = 1 .. Len(path) /\ Len(path) \in Nat
        /\ \A i \in DOMAIN path : path[i] \in Hash
    OBVIOUS
  <1>5. marks \in R
    OBVIOUS
  <1> HIDE DEF R, To
  <1>6. ASSUME NEW u \in SUBSET DOMAIN path, u # {}
        PROVE  Sq!Max(u) = Top(u) /\ Top(u) \in DOMAIN path /\ u \ {Top(u)} \in SUBSET DOMAIN path
    <2>1. Sq!Max(u) = Top(u)
      BY DEF Sq!Max, Top
    <2> QED BY <1>4, <1>6, <2>1, TopOfIndices
  <1> DEFINE Is(g) == g = [u \in SUBSET DOMAIN path |->
                             IF u = {} THEN marks
                             ELSE To(g[u \ {Sq!Max(u)}], path[Sq!Max(u)])]
             G == CHOOSE g : Is(g)
  <1>7. Marked(marks, path, V) = G[DOMAIN path]
    BY DEF Marked, Sq!FoldLeft, Sq!MapThenFoldSet, To
  <1>8. Is(G)
    <2>1. PICK g \in [SUBSET DOMAIN path -> R] : Folds(g, step, marks, path)
      <3> HIDE DEF step
      <3> QED BY <1>2, <1>4, <1>5, FoldExists
    <2>2. ASSUME NEW u \in SUBSET DOMAIN path
          PROVE  g[u] = IF u = {} THEN marks ELSE To(g[u \ {Sq!Max(u)}], path[Sq!Max(u)])
      <3>1. CASE u = {}
        BY <2>1, <3>1 DEF Folds
      <3>2. CASE u # {}
        <4>1. g[u] = step[g[u \ {Top(u)}], path[Top(u)]]
          BY <2>1, <3>2 DEF Folds
        <4> HIDE DEF step
        <4> QED BY <1>3, <1>4, <1>6, <3>2, <4>1
      <3> QED BY <3>1, <3>2
    <2>3. g = [u \in SUBSET DOMAIN path |-> g[u]]
      OBVIOUS
    <2>4. Is(g)
      BY <2>2, <2>3
    <2> HIDE DEF Is
    <2> QED BY <2>4
  <1>9. FoldsIn(R, G, step, marks, path)
    <2>1. ASSUME NEW u \in SUBSET DOMAIN path
          PROVE  G[u] = IF u = {} THEN marks ELSE To(G[u \ {Sq!Max(u)}], path[Sq!Max(u)])
      <3> HIDE DEF G
      <3> QED BY <1>8
    <2> HIDE DEF G
    <2>2. G[{}] = marks
      BY <2>1
    <2>3. ASSUME NEW u \in SUBSET DOMAIN path, u # {}, G[u \ {Top(u)}] \in R
          PROVE  G[u] = step[G[u \ {Top(u)}], path[Top(u)]]
      <3>1. G[u] = To(G[u \ {Top(u)}], path[Top(u)])
        BY <1>6, <2>1, <2>3
      <3> HIDE DEF step
      <3> QED BY <1>3, <1>4, <1>6, <2>3, <3>1
    <2> HIDE DEF step
    <2> QED BY <2>2, <2>3 DEF FoldsIn
  <1> HIDE DEF G, step
  <1>10. PICK f : Along(f, R, G, step, marks, path)
    BY <1>2, <1>4, <1>5, <1>9, FoldSteps
  <1>11. Marked(marks, path, V) = f[Len(path)] /\ f[Len(path)] \in R
    BY <1>7, <1>10 DEF Along
  <1> QED BY <1>11 DEF R

\* attempt_verify, where the shares have the ancestors it needs, marks and verifies.
LEMMA AttemptKeeps ==
  ASSUME Fixed, NEW s, Sound(WishSets, s), NEW path \in Seq(s.items), \A h \in Range(path) : Judgeable(s, h)
  PROVE  /\ Sound(WishSets, Attempt(s, path))
         /\ s.verified \subseteq Attempt(s, path).verified
         /\ Attempt(s, path).verified = s.verified \cup (Range(path) \ bad)
         /\ \E m, v : Attempt(s, path) = [s EXCEPT !.verified = v, !.naughty = m]
  <1> DEFINE m == Marked(s.naughty, path, s.verified)
             v == s.verified \cup (Range(path) \ bad)
  <1>1. s.items \in SUBSET Hash /\ s.naughty \in Marks /\ s.verified \subseteq s.items
    BY DEF Sound, State, Sets
  <1>2. path \in Seq(Hash) /\ Range(path) \subseteq s.items
    BY <1>1 DEF Range
  <1>3. m \in Marks
    BY <1>1, <1>2, MarksKept
  <1>4. Attempt(s, path) = [s EXCEPT !.verified = v, !.naughty = m]
    BY DEF Attempt
  <1>5. v \in Sets /\ v \subseteq s.items \ bad /\ s.verified \subseteq v
    BY <1>1, <1>2 DEF Sound, Sets
  <1>8. v = s.verified \cup (Range(path) \ bad)
    OBVIOUS
  <1> HIDE DEF m, v
  <1>6. Sound(WishSets, [s EXCEPT !.verified = v, !.naughty = m])
    BY <1>3, <1>5 DEF Sound, State
  <1>7. [s EXCEPT !.verified = v, !.naughty = m].verified = v
    BY DEF Sound, State
  <1> QED BY <1>4, <1>5, <1>6, <1>7, <1>8

LEMMA Beginning ==
  ASSUME NEW S, NEW path \in Seq(S), NEW k \in 0 .. Len(path)
  PROVE  /\ SubSeq(path, 1, k) \in Seq(S) /\ Len(SubSeq(path, 1, k)) = k
         /\ \A i \in 1 .. k : SubSeq(path, 1, k)[i] = path[i]
         /\ Range(SubSeq(path, 1, k)) \subseteq Range(path)
  <1>1. SubSeq(path, 1, k) = [i \in 1 .. k |-> path[i]]
    OBVIOUS
  <1>2. k \in Nat /\ \A i \in 1 .. k : path[i] \in S /\ i \in DOMAIN path
    OBVIOUS
  <1>3. SubSeq(path, 1, k) \in Seq(S) /\ Len(SubSeq(path, 1, k)) = k
    BY <1>1, <1>2
  <1> QED BY <1>1, <1>2, <1>3 DEF Range

\* What is missing is desired.
LEMMA WishKept ==
  ASSUME NEW I \in Sets, NEW head \in Hash, NEW x \in Node
  PROVE  Wish(I, head, x) \subseteq Wishes
  <1>1. CASE x = None
    BY <1>1 DEF Wish
  <1>2. CASE x # None
    <2>1. x \in Hash
      BY <1>2 DEF Node
    <2> HIDE DEF newest
    <2> QED BY <2>1, <1>2 DEF Wish, Wishes, Sets
  <1> QED BY <1>1, <1>2

\* What a loop of think() leaves alone.
SameShares(s, t) == t.items = s.items /\ t.best = s.best /\ t.top = s.top

\* What became of a head in r: the j shares at it failed, and the one under them passes; or what
\* is missing below is desired; or all of its shares failed.
Judged(s, head, r) ==
  LET last == get_last(s.items, head)
      tall == get_height(s.items, head)
  IN /\ r.error = "none" /\ s.verified \subseteq r.verified /\ s.desired \subseteq r.desired
     /\ \E j \in 0 .. tall :
          /\ r.bads = s.bads \o get_chain(head, j)
          /\ last # None /\ j # 0 => j + CHAIN_LENGTH <= tall
          /\ \/ j < tall /\ nth_parent(head, j) \in r.verified
             \/ last # None /\ <<last, newest(s.items, head)>> \in r.desired
             \/ j = tall

LEMMA VerifyHeadKeeps ==
  ASSUME Fixed, NEW s, Sound(WishSets, s), NEW head \in s.items
  PROVE  /\ Sound(WishSets, VerifyHead(s, head)) /\ SameShares(s, VerifyHead(s, head))
         /\ s.error = "none" => Judged(s, head, VerifyHead(s, head))
  <1> DEFINE last == get_last(s.items, head)
             tall == get_height(s.items, head)
             n    == IF last = None THEN tall ELSE Min({Few, Max({0, tall - CHAIN_LENGTH})})
             path == get_chain(head, n)
             good == {i \in 1 .. n : Passes(s, path[i])}
             k    == IF good = {} THEN n ELSE Min(good)
             done == Attempt(s, SubSeq(path, 1, k))
             fell == SubSeq(path, 1, IF good = {} THEN n ELSE k - 1)
             want == IF good = {} THEN Wish(s.items, head, last) ELSE {}
             new  == [done EXCEPT !.bads = @ \o fell, !.desired = @ \cup want]
  <1>0. VerifyHead(s, head) = Unless(s, new)
    BY DEF VerifyHead
  <1>1. s.items \in Sets /\ IsForest(s.items, previous_hash) /\ head \in Hash /\ head \in Node
    BY DEF Sound, State, Fixed, IsForest, Sets, Node
  <1>2. last \in Node /\ tall \in Nat
    BY <1>1, LastIsAbsent, HeightEq DEF get_last
  <1> HIDE DEF tall, last
  <1> DEFINE m == Max({0, tall - CHAIN_LENGTH})
  <1>4. m \in Nat /\ m = IF tall <= CHAIN_LENGTH THEN 0 ELSE tall - CHAIN_LENGTH
    <2> DEFINE d == tall - CHAIN_LENGTH
    <2>1. d \in Int /\ (tall <= CHAIN_LENGTH <=> 0 >= d)
      BY <1>2, ConstantTypes
    <2> HIDE DEF d
    <2>2. Max({0, d}) = IF 0 >= d THEN 0 ELSE d
      BY ONLY <2>1, OfTwo
    <2>3. m = IF 0 >= d THEN 0 ELSE d
      BY <2>2 DEF d
    <2> HIDE DEF m
    <2> QED BY <2>1, <2>3 DEF d
  <1>3. n \in Nat /\ n <= tall /\ (last # None => n <= m) /\ (last = None => n = tall)
    <2>1. n = IF last = None THEN tall ELSE Min({Few, m})
      OBVIOUS
    <2> HIDE DEF m, n
    <2>2. Min({Few, m}) = IF Few <= m THEN Few ELSE m
      BY <1>4, ConstantTypes, OfTwo
    <2> QED BY <1>2, <1>4, <2>1, <2>2, ConstantTypes
  <1> HIDE DEF m
  <1> HIDE DEF n
  <1>5. /\ path \in Seq(s.items) /\ Len(path) = n /\ DOMAIN path = 1 .. n
        /\ \A i \in 1 .. n : /\ get_height(s.items, path[i]) = tall - (i - 1)
                             /\ get_last(s.items, path[i]) = last
    BY <1>1, <1>3, ChainOf DEF tall, last
  <1> HIDE DEF path
  <1>6. \A i \in 1 .. n : Judgeable(s, path[i])
    <2> SUFFICES ASSUME NEW i \in 1 .. n PROVE Judgeable(s, path[i])
      OBVIOUS
    <2>1. CASE last = None
      BY <1>5, <2>1 DEF Judgeable
    <2>2. CASE last # None
      <3>1. n <= m
        BY <1>3, <2>2
      <3>2. tall - (i - 1) > CHAIN_LENGTH
        BY <1>2, <1>3, <1>4, <3>1, ConstantTypes
      <3> QED BY <1>5, <3>2 DEF Judgeable
    <2> QED BY <2>1, <2>2
  <1>7. /\ k \in 0 .. n /\ (good = {} => k = n)
        /\ good # {} => k \in good /\ k - 1 \in 0 .. n /\ k \in 1 .. n /\ \A i \in good : k <= i
    <2>1. CASE good = {}
      BY <1>3, <2>1
    <2>2. CASE good # {}
      <3>1. good \in SUBSET (1 .. n)
        OBVIOUS
      <3> HIDE DEF good
      <3>2. Min(good) \in good /\ \A i \in good : Min(good) <= i
        BY ONLY <1>3, <2>2, <3>1, LeastOf
      <3>3. k = Min(good)
        BY <2>2
      <3>4. k \in 1 .. n
        BY <3>1, <3>2, <3>3
      <3> HIDE DEF k
      <3> QED BY <1>3, <2>2, <3>2, <3>3, <3>4
    <2> QED BY <2>1, <2>2
  <1> HIDE DEF k
  <1>8. /\ Sound(WishSets, done) /\ \E w, v : done = [s EXCEPT !.verified = v, !.naughty = w]
        /\ done.verified = s.verified \cup (Range(SubSeq(path, 1, k)) \ bad)
    <2> DEFINE part == SubSeq(path, 1, k)
    <2>1. part \in Seq(s.items) /\ Range(part) \subseteq Range(path)
      BY <1>5, <1>7, Beginning
    <2>2. \A h \in Range(path) : Judgeable(s, h)
      BY <1>5, <1>6 DEF Range
    <2> HIDE DEF part
    <2>3. \A h \in Range(part) : Judgeable(s, h)
      BY <2>1, <2>2
    <2>4. /\ Sound(WishSets, Attempt(s, part))
          /\ Attempt(s, part).verified = s.verified \cup (Range(part) \ bad)
          /\ \E w, v : Attempt(s, part) = [s EXCEPT !.verified = v, !.naughty = w]
      BY <2>1, <2>3, AttemptKeeps
    <2> QED BY <2>4 DEF part
  <1>9. fell \in Seq(bad)
    <2> DEFINE j == IF good = {} THEN n ELSE k - 1
    <2>1. j \in 0 .. n /\ \A i \in 1 .. j : i \in 1 .. n /\ i \notin good
      <3>1. CASE good = {}
        BY <1>3, <3>1
      <3>2. CASE good # {}
        <4>1. j = k - 1 /\ k \in 0 .. n /\ k - 1 \in 0 .. n /\ \A i \in good : k <= i
          BY <1>7, <3>2
        <4> HIDE DEF j, good
        <4> QED BY <1>3, <4>1
      <3> QED BY <3>1, <3>2
    <2>2. \A i \in 1 .. j : path[i] \in bad
      BY <2>1 DEF Passes
    <2> HIDE DEF j
    <2>3. fell = SubSeq(path, 1, j)
      BY DEF j
    <2>4. SubSeq(path, 1, j) = [i \in 1 .. j |-> path[i]]
      BY <1>5, <2>1
    <2>5. j \in Nat
      BY <1>3, <2>1
    <2>6. [i \in 1 .. j |-> path[i]] \in Seq(bad)
      BY <2>2, <2>5
    <2> HIDE DEF fell
    <2> QED BY <2>3, <2>4, <2>6
  <1>10. want \subseteq Wishes
    BY <1>1, <1>2, WishKept DEF tall, last
  <1>12. \E j \in 0 .. tall :
           /\ fell = get_chain(head, j) /\ (last # None /\ j # 0 => j + CHAIN_LENGTH <= tall)
           /\ \/ j < tall /\ nth_parent(head, j) \in done.verified
              \/ last # None /\ <<last, newest(s.items, head)>> \in want
              \/ j = tall
    <2> DEFINE j == IF good = {} THEN n ELSE k - 1
    <2>1. j \in 0 .. n
      BY <1>3, <1>7
    <2>2. fell = get_chain(head, j)
      <3> HIDE DEF j
      <3>1. SubSeq(path, 1, j) = [i \in 1 .. j |-> path[i]]
        BY <1>5, <2>1
      <3>2. \A i \in 1 .. j : path[i] = nth_parent(head, i - 1)
        BY <1>3, <2>1 DEF path, get_chain
      <3>3. SubSeq(path, 1, j) = get_chain(head, j)
        BY <3>1, <3>2 DEF get_chain
      <3> QED BY <3>3 DEF j
    <2>3. last # None /\ j # 0 => j + CHAIN_LENGTH <= tall
      <3> HIDE DEF j
      <3> QED BY <1>2, <1>3, <1>4, <2>1, ConstantTypes
    <2>4. CASE good = {} /\ last = None
      BY <1>3, <2>1, <2>2, <2>4
    <2>5. CASE good = {} /\ last # None
      <3>1. want = Wish(s.items, head, last)
        BY <2>5
      <3> HIDE DEF newest
      <3>2. <<last, newest(s.items, head)>> \in want
        BY <2>5, <3>1 DEF Wish
      <3> QED BY <1>3, <2>1, <2>2, <2>3, <2>5, <3>2
    <2>6. CASE good # {}
      <3>1. k \in good /\ k \in 1 .. n /\ j = k - 1 /\ path[k] = nth_parent(head, j)
        BY <1>7, <2>6 DEF path, get_chain
      <3>2. path[k] \in Range(SubSeq(path, 1, k))
        <4>1. SubSeq(path, 1, k) = [i \in 1 .. k |-> path[i]]
          BY <1>5, <3>1
        <4>2. k \in 1 .. k
          BY <3>1
        <4> QED BY <4>1, <4>2 DEF Range
      <3>3. path[k] \in s.verified \/ path[k] \notin bad
        BY <3>1 DEF Passes
      <3>4. nth_parent(head, j) \in done.verified
        BY <1>8, <3>1, <3>2, <3>3
      <3>5. j < tall /\ j \in 0 .. tall
        <4> HIDE DEF j, good
        <4> QED BY <1>2, <1>3, <3>1
      <3> HIDE DEF j, fell, done
      <3> QED BY <2>2, <2>3, <3>4, <3>5
    <2> QED BY <2>4, <2>5, <2>6
  <1> HIDE DEF fell, want, done, good
  <1>11. Sound(WishSets, new) /\ SameShares(s, new)
    <2>1. done \in State(WishSets) /\ done.bads \o fell \in Seq(bad) /\ done.desired \cup want \in WishSets
      <3>1. done \in State(WishSets)
        BY <1>8 DEF Sound
      <3>2. done.bads \in Seq(bad) /\ done.desired \in WishSets
        BY <3>1 DEF State
      <3> QED BY <1>9, <1>10, <3>1, <3>2 DEF WishSets
    <2>2. done.items = s.items /\ done.best = s.best /\ done.top = s.top
      BY <1>8 DEF Sound, State
    <2>3. new \in State(WishSets)
      BY <2>1 DEF State
    <2>4. /\ new.items = done.items /\ new.verified = done.verified /\ new.error = done.error
          /\ new.best = done.best /\ new.top = done.top
      BY <2>1 DEF State
    <2> HIDE DEF new
    <2> QED BY <1>8, <2>2, <2>3, <2>4 DEF Sound, SameShares
  <1>13. s.error = "none" => Judged(s, head, new)
    <2> SUFFICES ASSUME s.error = "none" PROVE Judged(s, head, new)
      OBVIOUS
    <2>1. done.bads = s.bads /\ done.desired = s.desired /\ done.error = s.error
      BY <1>8 DEF Sound, State
    <2>2. /\ new.bads = s.bads \o fell /\ new.desired = s.desired \cup want
          /\ new.verified = done.verified /\ new.error = "none"
      BY <1>8, <2>1 DEF Sound, State
    <2>3. s.verified \subseteq new.verified
      BY <1>8, <2>2
    <2> HIDE DEF new
    <2>4. PICK j \in 0 .. tall :
            /\ fell = get_chain(head, j) /\ (last # None /\ j # 0 => j + CHAIN_LENGTH <= tall)
            /\ \/ j < tall /\ nth_parent(head, j) \in done.verified
               \/ last # None /\ <<last, newest(s.items, head)>> \in want
               \/ j = tall
      BY <1>12
    <2>5. /\ new.bads = s.bads \o get_chain(head, j)
          /\ \/ j < tall /\ nth_parent(head, j) \in new.verified
             \/ last # None /\ <<last, newest(s.items, head)>> \in new.desired
             \/ j = tall
      BY <2>2, <2>4
    <2> QED BY <2>2, <2>3, <2>4, <2>5 DEF Judged, last, tall
  <1> HIDE DEF new
  <1> QED BY <1>0, <1>11, <1>13 DEF Unless, SameShares

\* What was verified in r under a verified head: q of the n shares looked at, all of them or down
\* to one that fails; n is as many as there are or as are wanted, if none is missing below, and
\* otherwise what is missing is desired.
Extended(s, head, r) ==
  LET tall  == get_height(s.verified, head)
      last  == get_last(s.verified, head)
      below == get_height(s.items, last)
      end   == get_last(s.items, last)
  IN /\ r.error = "none" /\ s.desired \subseteq r.desired
     /\ tall < CHAIN_LENGTH /\ end # None => <<end, newest(s.verified, head)>> \in r.desired
     /\ \E n \in 0 .. below : \E q \in 0 .. n :
          /\ r.verified = s.verified \cup {nth_parent(last, i - 1) : i \in 1 .. q}
          /\ q < n => nth_parent(last, q) \in bad
          /\ tall < CHAIN_LENGTH /\ end = None => n = below \/ n = CHAIN_LENGTH - tall

LEMMA ExtendHeadKeeps ==
  ASSUME Fixed, NEW s, Sound(WishSets, s), NEW head \in s.verified
  PROVE  /\ Sound(WishSets, ExtendHead(s, head)) /\ SameShares(s, ExtendHead(s, head))
         /\ s.verified \subseteq ExtendHead(s, head).verified
         /\ s.error = "none" => Extended(s, head, ExtendHead(s, head))
  <1> DEFINE tall  == get_height(s.verified, head)
             last  == get_last(s.verified, head)
             below == get_height(s.items, last)
             end   == get_last(s.items, last)
             want  == Max({0, CHAIN_LENGTH - tall})
             can   == IF end = None THEN below ELSE Max({0, below - 1 - CHAIN_LENGTH})
             n     == Min({want, can})
             path  == get_chain(last, n)
             stop  == {i \in DOMAIN path : ~Passes(s, path[i])}
             part  == IF stop = {} THEN path ELSE SubSeq(path, 1, Min(stop))
             done  == Attempt(s, part)
             need  == IF tall < CHAIN_LENGTH THEN Wish(s.verified, head, end) ELSE {}
             new   == [done EXCEPT !.desired = @ \cup need]
  <1>0. ExtendHead(s, head) = Unless(s, new)
    BY DEF ExtendHead
  <1>1. /\ s.items \in Sets /\ IsForest(s.items, previous_hash) /\ s.verified \in Sets
        /\ IsForest(s.verified, previous_hash) /\ head \in Hash /\ head \in Node
    BY DEF Sound, State, Fixed, IsForest, Sets, Node
  <1>2. last \in Node /\ tall \in Nat
    BY <1>1, LastIsAbsent, HeightEq DEF get_last
  <1> HIDE DEF last, tall
  <1>3. end \in Node /\ below \in Nat
    BY <1>1, <1>2, LastIsAbsent, HeightEq DEF get_last
  <1> HIDE DEF end, below
  <1>4. /\ want \in Nat /\ can \in Nat /\ can <= below
        /\ end # None /\ can # 0 => can = below - 1 - CHAIN_LENGTH
        /\ end = None => can = below
        /\ tall < CHAIN_LENGTH => want = CHAIN_LENGTH - tall
    <2>1. CHAIN_LENGTH - tall \in Int /\ below - 1 - CHAIN_LENGTH \in Int
      BY <1>2, <1>3, ConstantTypes
    <2> DEFINE a == CHAIN_LENGTH - tall
               b == below - 1 - CHAIN_LENGTH
    <2> HIDE DEF a, b
    <2>2. a \in Int /\ b \in Int
      BY <2>1 DEF a, b
    <2>7. 0 \in Int /\ a \in Int
      BY <2>2
    <2>3. Max({0, a}) = IF 0 >= a THEN 0 ELSE a
      BY ONLY <2>7, OfTwo
    <2>8. 0 \in Int /\ b \in Int
      BY <2>2
    <2>6. Max({0, b}) = IF 0 >= b THEN 0 ELSE b
      BY ONLY <2>8, OfTwo
    <2>4. want = Max({0, a}) /\ can = IF end = None THEN below ELSE Max({0, b})
      BY DEF a, b
    <2>9. tall < CHAIN_LENGTH => want = CHAIN_LENGTH - tall
      <3>1. tall < CHAIN_LENGTH => a > 0
        BY <1>2, ConstantTypes DEF a
      <3> HIDE DEF want
      <3>2. tall < CHAIN_LENGTH => want = a
        BY <2>2, <2>3, <2>4, <3>1
      <3> QED BY <3>2 DEF a
    <2> HIDE DEF want, can
    <2>5. want \in Nat /\ can \in Nat /\ (end = None => can = below) /\ (end # None /\ can # 0 => can = b)
      BY <1>3, <2>2, <2>3, <2>4, <2>6
    <2> QED BY <1>3, <2>5, <2>9, ConstantTypes DEF b
  <1> HIDE DEF want, can
  <1>5. n \in Nat /\ n <= can /\ (n = want \/ n = can)
    <2>1. Min({want, can}) = IF want <= can THEN want ELSE can
      BY ONLY <1>4, OfTwo
    <2> QED BY <1>4, <2>1
  <1> HIDE DEF n
  <1>6. n <= below
    BY <1>3, <1>4, <1>5
  <1>7. /\ path \in Seq(s.items) /\ Len(path) = n /\ DOMAIN path = 1 .. n
        /\ \A i \in 1 .. n : /\ get_height(s.items, path[i]) = below - (i - 1)
                             /\ get_last(s.items, path[i]) = end
    BY <1>1, <1>2, <1>5, <1>6, ChainOf DEF below, end
  <1> HIDE DEF path
  <1>8. \A h \in Range(path) : Judgeable(s, h)
    <2> SUFFICES ASSUME NEW i \in 1 .. n PROVE Judgeable(s, path[i])
      BY <1>7 DEF Range
    <2>1. CASE end = None
      BY <1>7, <2>1 DEF Judgeable
    <2>2. CASE end # None
      <3>1. can # 0 /\ i <= can /\ i >= 1
        BY <1>4, <1>5
      <3>2. below - (i - 1) > CHAIN_LENGTH
        BY <1>3, <1>4, <1>5, <2>2, <3>1, ConstantTypes
      <3> QED BY <1>7, <3>2 DEF Judgeable
    <2> QED BY <2>1, <2>2
  <1>13. \E q \in 0 .. n :
           /\ Range(part) \ bad = {path[i] : i \in 1 .. q} \ bad
           /\ \A i \in 1 .. q : Passes(s, path[i])
           /\ q < n => path[q + 1] \in bad
    <2>1. CASE stop = {}
      <3>1. part = path /\ \A i \in 1 .. n : Passes(s, path[i])
        BY <1>7, <2>1
      <3>2. Range(part) = {path[i] : i \in 1 .. n}
        BY <1>7, <3>1 DEF Range
      <3> HIDE DEF part, stop
      <3> QED BY <1>5, <3>1, <3>2
    <2>2. CASE stop # {}
      <3>1. stop \in SUBSET (1 .. n) /\ part = SubSeq(path, 1, Min(stop))
        BY <1>7, <2>2
      <3>2. \A i \in 1 .. n : i \notin stop => Passes(s, path[i])
        BY <1>7
      <3>3. \A i \in stop : path[i] \in bad
        BY DEF Passes
      <3> HIDE DEF part, stop
      <3>4. PICK k : k = Min(stop) /\ k \in stop /\ \A i \in stop : k <= i
        BY ONLY <1>5, <2>2, <3>1, LeastOf
      <3>5. k \in 1 .. n /\ k - 1 \in 0 .. n /\ (k - 1) + 1 = k
        BY ONLY <1>5, <3>1, <3>4
      <3>6. \A i \in 1 .. k - 1 : i \in 1 .. n /\ i \notin stop
        BY ONLY <1>5, <3>1, <3>4, <3>5
      <3>7. SubSeq(path, 1, k) = [i \in 1 .. k |-> path[i]]
        BY <1>7, <3>5
      <3>8. Range(part) = {path[i] : i \in 1 .. k}
        BY <3>1, <3>4, <3>7 DEF Range
      <3>9. Range(part) \ bad = {path[i] : i \in 1 .. k - 1} \ bad
        <4>1. \A i \in 1 .. k : i = k \/ i \in 1 .. k - 1
          BY <3>5
        <4>2. \A i \in 1 .. k - 1 : i \in 1 .. k
          BY <3>5
        <4>3. path[k] \in bad
          BY <3>3, <3>4
        <4> QED BY <3>8, <4>1, <4>2, <4>3
      <3>10. path[(k - 1) + 1] \in bad
        BY <3>3, <3>4, <3>5
      <3> QED BY <3>2, <3>5, <3>6, <3>9, <3>10
    <2> QED BY <2>1, <2>2
  <1>9. part \in Seq(s.items) /\ Range(part) \subseteq Range(path)
    <2>1. CASE stop = {}
      BY <1>7, <2>1
    <2>2. CASE stop # {}
      <3>5. part = SubSeq(path, 1, Min(stop))
        BY <2>2
      <3>1. stop \in SUBSET (1 .. n)
        BY <1>7
      <3> HIDE DEF stop, part
      <3>2. Min(stop) \in stop
        BY ONLY <1>5, <2>2, <3>1, LeastOf
      <3>6. Min(stop) \in 1 .. n
        BY ONLY <3>1, <3>2
      <3>3. Min(stop) \in 0 .. Len(path)
        <4>1. Len(path) = n
          BY <1>7
        <4> HIDE DEF path
        <4> QED BY ONLY <1>5, <3>6, <4>1
      <3>4. SubSeq(path, 1, Min(stop)) \in Seq(s.items)
            /\ Range(SubSeq(path, 1, Min(stop))) \subseteq Range(path)
        BY <1>7, <3>3, Beginning
      <3> QED BY <3>4, <3>5
    <2> QED BY <2>1, <2>2
  <1> HIDE DEF part
  <1>10. /\ Sound(WishSets, done) /\ s.verified \subseteq done.verified
         /\ done.verified = s.verified \cup (Range(part) \ bad)
         /\ \E w, v : done = [s EXCEPT !.verified = v, !.naughty = w]
    <2>1. \A h \in Range(part) : Judgeable(s, h)
      BY <1>8, <1>9
    <2> QED BY <1>9, <2>1, AttemptKeeps
  <1>11. need \subseteq Wishes
    BY <1>1, <1>3, WishKept
  <1> HIDE DEF need, done
  <1>12. Sound(WishSets, new) /\ SameShares(s, new) /\ s.verified \subseteq new.verified
    <2>1. done \in State(WishSets) /\ done.desired \cup need \in WishSets
      <3>1. done \in State(WishSets)
        BY <1>10 DEF Sound
      <3>2. done.desired \in WishSets
        BY <3>1 DEF State
      <3> QED BY <1>11, <3>1, <3>2 DEF WishSets
    <2>2. done.items = s.items /\ done.best = s.best /\ done.top = s.top
      BY <1>10 DEF Sound, State
    <2>3. new \in State(WishSets)
      BY <2>1 DEF State
    <2>4. /\ new.items = done.items /\ new.verified = done.verified /\ new.error = done.error
          /\ new.best = done.best /\ new.top = done.top
      BY <2>1 DEF State
    <2> HIDE DEF new
    <2> QED BY <1>10, <2>2, <2>3, <2>4 DEF Sound, SameShares
  <1>14. s.error = "none" => Extended(s, head, new)
    <2> SUFFICES ASSUME s.error = "none" PROVE Extended(s, head, new)
      OBVIOUS
    <2>1. done.desired = s.desired /\ done.error = s.error
      BY <1>10 DEF Sound, State
    <2>2. new.desired = s.desired \cup need /\ new.verified = done.verified /\ new.error = "none"
      BY <1>10, <2>1 DEF Sound, State
    <2> HIDE DEF new
    <2>3. tall < CHAIN_LENGTH /\ end # None => <<end, newest(s.verified, head)>> \in need
      <3> HIDE DEF newest
      <3> QED BY DEF need, Wish
    <2>4. PICK q \in 0 .. n :
             /\ Range(part) \ bad = {path[i] : i \in 1 .. q} \ bad
             /\ \A i \in 1 .. q : Passes(s, path[i])
             /\ q < n => path[q + 1] \in bad
      BY <1>13
    <2>5. \A i \in 1 .. n : path[i] = nth_parent(last, i - 1)
      BY DEF path, get_chain
    <2>6. q < n => nth_parent(last, q) \in bad
      <3>1. q < n => q + 1 \in 1 .. n /\ (q + 1) - 1 = q
        BY <1>5
      <3>2. q < n => path[q + 1] \in bad
        BY <2>4
      <3>3. q < n => path[q + 1] = nth_parent(last, (q + 1) - 1)
        BY <2>5, <3>1
      <3> QED BY <3>1, <3>2, <3>3
    <2>7. new.verified = s.verified \cup {nth_parent(last, i - 1) : i \in 1 .. q}
      <3>1. \A i \in 1 .. q : i \in 1 .. n
        BY <1>5
      <3>2. {path[i] : i \in 1 .. q} = {nth_parent(last, i - 1) : i \in 1 .. q}
        BY <2>5, <3>1
      <3>3. \A i \in 1 .. q : path[i] \in s.verified \/ path[i] \notin bad
        <4>1. \A i \in 1 .. q : Passes(s, path[i])
          BY <2>4
        <4> HIDE DEF path
        <4> QED BY <4>1 DEF Passes
      <3>4. Range(part) \ bad = {path[i] : i \in 1 .. q} \ bad
        BY <2>4
      <3> QED BY <1>10, <2>2, <3>2, <3>3, <3>4
    <2>8. n \in 0 .. below
      BY <1>3, <1>5, <1>6
    <2>9. tall < CHAIN_LENGTH /\ end = None => n = below \/ n = CHAIN_LENGTH - tall
      BY <1>4, <1>5
    <2> QED BY <2>2, <2>3, <2>4, <2>6, <2>7, <2>8, <2>9 DEF Extended, tall, last, below, end
  <1> HIDE DEF new
  <1> QED BY <1>0, <1>12, <1>14 DEF Unless, SameShares

\* What nothing changes before the choice of the best share, and after it.
SameChoice(s, t) == t.best = s.best /\ t.top = s.top

Without(s, h, v) == [s EXCEPT !.items = @ \ {h}, !.verified = v, !.naughty[h] = 0]

LEMMA RemoveKeeps ==
  ASSUME NEW D, NEW s, Sound(D, s), NEW h \in Hash, NEW v \in Sets, v \subseteq s.verified, h \notin v
  PROVE  /\ Sound(D, Without(s, h, v)) /\ SameChoice(s, Without(s, h, v))
         /\ Without(s, h, v).items = s.items \ {h} /\ Without(s, h, v).verified = v
         /\ Without(s, h, v).error = s.error /\ Without(s, h, v).naughty = [s.naughty EXCEPT ![h] = 0]
  <1> DEFINE r == Without(s, h, v)
  <1>1. s \in State(D) /\ s.items \ {h} \in Sets /\ [s.naughty EXCEPT ![h] = 0] \in Marks
    <2>1. s \in State(D)
      BY DEF Sound
    <2>2. 0 \in 0 .. Generations
      BY ConstantTypes
    <2>3. s.items \in Sets /\ s.naughty \in Marks
      BY <2>1 DEF State
    <2> QED BY <2>1, <2>2, <2>3 DEF Sets, Marks
  <1>2. r = [s EXCEPT !.items = s.items \ {h}, !.verified = v, !.naughty = [s.naughty EXCEPT ![h] = 0]]
    BY DEF Without
  <1>3. /\ r.naughty = [s.naughty EXCEPT ![h] = 0] /\ r \in State(D)
        /\ r.items = s.items \ {h} /\ r.verified = v /\ r.error = s.error
        /\ SameChoice(s, r)
    BY <1>1, <1>2 DEF State, SameChoice
  <1>4. v \subseteq (s.items \ {h}) \ bad
    BY DEF Sound
  <1> HIDE DEF r
  <1>5. Sound(D, r)
    BY <1>3, <1>4 DEF Sound
  <1> QED BY <1>3, <1>5 DEF r

LEMMA RaiseKeeps ==
  ASSUME NEW D, NEW s, Sound(D, s), NEW e \in Raised
  PROVE  Sound(D, Raise(s, e)) /\ SameChoice(s, Raise(s, e)) /\ Raise(s, e).error = e
  <1>1. s \in State(D)
    BY DEF Sound
  <1>2. /\ Raise(s, e) \in State(D) /\ Raise(s, e).items = s.items /\ Raise(s, e).verified = s.verified
        /\ Raise(s, e).error = e /\ SameChoice(s, Raise(s, e))
    BY <1>1 DEF State, Raise, SameChoice
  <1> QED BY <1>2 DEF Sound

\* A share that failed may be listed twice: then it is not found.
LEMMA RemoveBadKeeps ==
  ASSUME Fixed, NEW s, Sound(WishSets, s), NEW b \in bad
  PROVE  Sound(WishSets, RemoveBad(s, b)) /\ SameChoice(s, RemoveBad(s, b))
  <1>1. b \in Hash /\ b \notin s.verified /\ s.verified \in Sets
    BY DEF Fixed, Sound, State
  <1>2. CASE s.error # "none" \/ (b \in s.items /\ ~Removable(s.items, b))
    BY <1>1, <1>2 DEF RemoveBad, Unless, SameChoice
  <1>3. CASE s.error = "none" /\ b \notin s.items
    <2>1. RemoveBad(s, b) = Raise(s, "KeyError")
      BY <1>1, <1>3 DEF RemoveBad, Unless
    <2> QED BY <2>1, RaiseKeeps DEF Raised
  <1>4. CASE s.error = "none" /\ b \in s.items /\ Removable(s.items, b)
    <2>1. RemoveBad(s, b) = [s EXCEPT !.items = @ \ {b}, !.naughty[b] = 0]
      BY <1>1, <1>4 DEF RemoveBad, Unless
    <2>2. [s EXCEPT !.items = @ \ {b}, !.naughty[b] = 0]
            = Without(s, b, s.verified)
      BY DEF Sound, State, Without
    <2> DEFINE v == s.verified
    <2>3. v \in Sets /\ v \subseteq s.verified /\ b \notin v
      BY <1>1
    <2> HIDE DEF v
    <2>4. Sound(WishSets, Without(s, b, v)) /\ SameChoice(s, Without(s, b, v))
      BY <1>1, <2>3, RemoveKeeps
    <2>5. RemoveBad(s, b) = Without(s, b, v)
      BY <2>1, <2>2 DEF v
    <2> QED BY <2>4, <2>5
  <1> QED BY <1>2, <1>3, <1>4

-----------------------------------------------------------------------------
\* The loops of think(), told step by step.

LEMMA SomeOrder ==
  ASSUME NEW S, IsFiniteSet(S), NEW order \in Sq!SetToSeqs(S)
  PROVE  order \in Seq(S)
  <1>1. Sq!Cardinality(S) \in Nat
    <2>1. Cardinality(S) = Sq!Cardinality(S)
      BY DEF Sq!Cardinality, Cardinality
    <2> QED BY <2>1, FS_CardinalityType
  <1>2. order \in [1 .. Sq!Cardinality(S) -> S]
    BY DEF Sq!SetToSeqs
  <1> QED BY <1>1, <1>2

\* The states f of the loop over the unverified heads in some order.
VerifyRun(f, s, order) ==
  /\ f[0] = s /\ f[Len(order)] = Sq!FoldLeft(VerifyHead, s, order)
  /\ \A n \in 0 .. Len(order) : Sound(WishSets, f[n]) /\ SameShares(s, f[n])
  /\ \A n \in 1 .. Len(order) : f[n] = VerifyHead(f[n - 1], order[n])

LEMMA VerifySteps ==
  ASSUME Fixed, NEW s, Sound(WishSets, s), NEW order \in Seq(s.items)
  PROVE  \E f : VerifyRun(f, s, order)
  <1> DEFINE R == {r \in State(WishSets) : Sound(WishSets, r) /\ SameShares(s, r)}
             To(r, x) == VerifyHead(r, x)
             step == [y \in R \X s.items |-> To(y[1], y[2])]
  <1>1. ASSUME NEW r \in R, NEW x \in s.items PROVE To(r, x) \in R
    <2>1. Sound(WishSets, r) /\ SameShares(s, r) /\ x \in r.items
      BY <1>1 DEF SameShares
    <2>2. Sound(WishSets, VerifyHead(r, x)) /\ SameShares(r, VerifyHead(r, x))
      BY <2>1, VerifyHeadKeeps
    <2> QED BY <2>1, <2>2 DEF Sound, SameShares
  <1>2. step \in [R \X s.items -> R]
    <2> HIDE DEF R, To
    <2> QED BY <1>1
  <1>3. ASSUME NEW r \in R, NEW x \in s.items PROVE step[r, x] = To(r, x)
    <2> HIDE DEF R, To
    <2> QED OBVIOUS
  <1>4. order \in Seq(s.items) /\ DOMAIN order = 1 .. Len(order) /\ Len(order) \in Nat
        /\ \A i \in DOMAIN order : order[i] \in s.items
    OBVIOUS
  <1>5. s \in R
    BY DEF Sound, SameShares, SameChoice
  <1> HIDE DEF R, To
  <1>6. ASSUME NEW u \in SUBSET DOMAIN order, u # {}
        PROVE  Sq!Max(u) = Top(u) /\ Top(u) \in DOMAIN order /\ u \ {Top(u)} \in SUBSET DOMAIN order
    <2>1. Sq!Max(u) = Top(u)
      BY DEF Sq!Max, Top
    <2> QED BY <1>4, <1>6, <2>1, TopOfIndices
  <1> DEFINE Is(g) == g = [u \in SUBSET DOMAIN order |->
                             IF u = {} THEN s
                             ELSE To(g[u \ {Sq!Max(u)}], order[Sq!Max(u)])]
             G == CHOOSE g : Is(g)
  <1>7. Sq!FoldLeft(VerifyHead, s, order) = G[DOMAIN order]
    BY DEF Sq!FoldLeft, Sq!MapThenFoldSet, To
  <1>8. Is(G)
    <2>1. PICK g \in [SUBSET DOMAIN order -> R] : Folds(g, step, s, order)
      <3> HIDE DEF step
      <3> QED BY <1>2, <1>4, <1>5, FoldExists
    <2>2. ASSUME NEW u \in SUBSET DOMAIN order
          PROVE  g[u] = IF u = {} THEN s ELSE To(g[u \ {Sq!Max(u)}], order[Sq!Max(u)])
      <3>1. CASE u = {}
        BY <2>1, <3>1 DEF Folds
      <3>2. CASE u # {}
        <4>1. g[u] = step[g[u \ {Top(u)}], order[Top(u)]]
          BY <2>1, <3>2 DEF Folds
        <4> HIDE DEF step
        <4> QED BY <1>3, <1>4, <1>6, <3>2, <4>1
      <3> QED BY <3>1, <3>2
    <2>3. g = [u \in SUBSET DOMAIN order |-> g[u]]
      OBVIOUS
    <2>4. Is(g)
      BY <2>2, <2>3
    <2> HIDE DEF Is
    <2> QED BY <2>4
  <1>9. FoldsIn(R, G, step, s, order)
    <2>1. ASSUME NEW u \in SUBSET DOMAIN order
          PROVE  G[u] = IF u = {} THEN s ELSE To(G[u \ {Sq!Max(u)}], order[Sq!Max(u)])
      <3> HIDE DEF G
      <3> QED BY <1>8
    <2> HIDE DEF G
    <2>2. G[{}] = s
      BY <2>1
    <2>3. ASSUME NEW u \in SUBSET DOMAIN order, u # {}, G[u \ {Top(u)}] \in R
          PROVE  G[u] = step[G[u \ {Top(u)}], order[Top(u)]]
      <3>1. G[u] = To(G[u \ {Top(u)}], order[Top(u)])
        BY <1>6, <2>1, <2>3
      <3> HIDE DEF step
      <3> QED BY <1>3, <1>4, <1>6, <2>3, <3>1
    <2> HIDE DEF step
    <2> QED BY <2>2, <2>3 DEF FoldsIn
  <1> HIDE DEF G, step
  <1>10. PICK f : Along(f, R, G, step, s, order)
    BY <1>2, <1>4, <1>5, <1>9, FoldSteps
  <1>11. ASSUME NEW n \in 0 .. Len(order) PROVE f[n] \in R
    <2>1. CASE n = 0
      BY <1>5, <1>10, <2>1 DEF Along
    <2>2. CASE n # 0
      BY <1>4, <1>10, <2>2 DEF Along
    <2> QED BY <2>1, <2>2
  <1>12. ASSUME NEW n \in 1 .. Len(order) PROVE f[n] = To(f[n - 1], order[n])
    <2>0. n - 1 \in 0 .. Len(order) /\ n \in DOMAIN order
      BY <1>4
    <2>1. f[n - 1] \in R /\ f[n] = step[f[n - 1], order[n]]
      BY <1>10, <1>11, <2>0 DEF Along
    <2> QED BY <1>3, <1>4, <2>0, <2>1
  <1>13. f[0] = s /\ f[Len(order)] = Sq!FoldLeft(VerifyHead, s, order)
    BY <1>4, <1>7, <1>10 DEF Along
  <1> QED BY <1>11, <1>12, <1>13 DEF R, To, VerifyRun

LEMMA VerifyKeeps ==
  ASSUME Fixed, NEW s, Sound(WishSets, s), NEW order \in Seq(s.items)
  PROVE  LET t == Sq!FoldLeft(VerifyHead, s, order)
         IN Sound(WishSets, t) /\ SameShares(s, t)
  <1>1. Len(order) \in 0 .. Len(order)
    OBVIOUS
  <1> QED BY <1>1, VerifySteps DEF VerifyRun

\* The states of the loop over what failed.
PurgeRun(f, s) ==
  /\ f[0] = s /\ f[Len(s.bads)] = Purge(s)
  /\ \A n \in 0 .. Len(s.bads) : Sound(WishSets, f[n]) /\ SameChoice(s, f[n])
  /\ \A n \in 1 .. Len(s.bads) : f[n] = RemoveBad(f[n - 1], s.bads[n])

LEMMA PurgeSteps ==
  ASSUME Fixed, NEW s, Sound(WishSets, s)
  PROVE  \E f : PurgeRun(f, s)
  <1> DEFINE R == {r \in State(WishSets) : Sound(WishSets, r) /\ SameChoice(s, r)}
             To(r, x) == RemoveBad(r, x)
             step == [y \in R \X bad |-> To(y[1], y[2])]
  <1>1. ASSUME NEW r \in R, NEW x \in bad PROVE To(r, x) \in R
    <2>1. Sound(WishSets, RemoveBad(r, x)) /\ SameChoice(r, RemoveBad(r, x))
      BY <1>1, RemoveBadKeeps
    <2> QED BY <1>1, <2>1 DEF Sound, SameChoice
  <1>2. step \in [R \X bad -> R]
    <2> HIDE DEF R, To
    <2> QED BY <1>1
  <1>3. ASSUME NEW r \in R, NEW x \in bad PROVE step[r, x] = To(r, x)
    <2> HIDE DEF R, To
    <2> QED OBVIOUS
  <1>4. s.bads \in Seq(bad) /\ DOMAIN s.bads = 1 .. Len(s.bads) /\ Len(s.bads) \in Nat
        /\ \A i \in DOMAIN s.bads : s.bads[i] \in bad
    BY DEF Sound, State
  <1>5. s \in R
    BY DEF Sound, SameShares, SameChoice
  <1> HIDE DEF R, To
  <1>6. ASSUME NEW u \in SUBSET DOMAIN s.bads, u # {}
        PROVE  Sq!Max(u) = Top(u) /\ Top(u) \in DOMAIN s.bads /\ u \ {Top(u)} \in SUBSET DOMAIN s.bads
    <2>1. Sq!Max(u) = Top(u)
      BY DEF Sq!Max, Top
    <2> QED BY <1>4, <1>6, <2>1, TopOfIndices
  <1> DEFINE Is(g) == g = [u \in SUBSET DOMAIN s.bads |->
                             IF u = {} THEN s
                             ELSE To(g[u \ {Sq!Max(u)}], s.bads[Sq!Max(u)])]
             G == CHOOSE g : Is(g)
  <1>7. Purge(s) = G[DOMAIN s.bads]
    BY DEF Purge, Sq!FoldLeft, Sq!MapThenFoldSet, To
  <1>8. Is(G)
    <2>1. PICK g \in [SUBSET DOMAIN s.bads -> R] : Folds(g, step, s, s.bads)
      <3> HIDE DEF step
      <3> QED BY <1>2, <1>4, <1>5, FoldExists
    <2>2. ASSUME NEW u \in SUBSET DOMAIN s.bads
          PROVE  g[u] = IF u = {} THEN s ELSE To(g[u \ {Sq!Max(u)}], s.bads[Sq!Max(u)])
      <3>1. CASE u = {}
        BY <2>1, <3>1 DEF Folds
      <3>2. CASE u # {}
        <4>1. g[u] = step[g[u \ {Top(u)}], s.bads[Top(u)]]
          BY <2>1, <3>2 DEF Folds
        <4> HIDE DEF step
        <4> QED BY <1>3, <1>4, <1>6, <3>2, <4>1
      <3> QED BY <3>1, <3>2
    <2>3. g = [u \in SUBSET DOMAIN s.bads |-> g[u]]
      OBVIOUS
    <2>4. Is(g)
      BY <2>2, <2>3
    <2> HIDE DEF Is
    <2> QED BY <2>4
  <1>9. FoldsIn(R, G, step, s, s.bads)
    <2>1. ASSUME NEW u \in SUBSET DOMAIN s.bads
          PROVE  G[u] = IF u = {} THEN s ELSE To(G[u \ {Sq!Max(u)}], s.bads[Sq!Max(u)])
      <3> HIDE DEF G
      <3> QED BY <1>8
    <2> HIDE DEF G
    <2>2. G[{}] = s
      BY <2>1
    <2>3. ASSUME NEW u \in SUBSET DOMAIN s.bads, u # {}, G[u \ {Top(u)}] \in R
          PROVE  G[u] = step[G[u \ {Top(u)}], s.bads[Top(u)]]
      <3>1. G[u] = To(G[u \ {Top(u)}], s.bads[Top(u)])
        BY <1>6, <2>1, <2>3
      <3> HIDE DEF step
      <3> QED BY <1>3, <1>4, <1>6, <2>3, <3>1
    <2> HIDE DEF step
    <2> QED BY <2>2, <2>3 DEF FoldsIn
  <1> HIDE DEF G, step
  <1>10. PICK f : Along(f, R, G, step, s, s.bads)
    BY <1>2, <1>4, <1>5, <1>9, FoldSteps
  <1>11. ASSUME NEW n \in 0 .. Len(s.bads) PROVE f[n] \in R
    <2>1. CASE n = 0
      BY <1>5, <1>10, <2>1 DEF Along
    <2>2. CASE n # 0
      BY <1>4, <1>10, <2>2 DEF Along
    <2> QED BY <2>1, <2>2
  <1>12. ASSUME NEW n \in 1 .. Len(s.bads) PROVE f[n] = To(f[n - 1], s.bads[n])
    <2>0. n - 1 \in 0 .. Len(s.bads) /\ n \in DOMAIN s.bads
      BY <1>4
    <2>1. f[n - 1] \in R /\ f[n] = step[f[n - 1], s.bads[n]]
      BY <1>10, <1>11, <2>0 DEF Along
    <2> QED BY <1>3, <1>4, <2>0, <2>1
  <1>13. f[0] = s /\ f[Len(s.bads)] = Purge(s)
    BY <1>4, <1>7, <1>10 DEF Along
  <1> QED BY <1>11, <1>12, <1>13 DEF R, To, PurgeRun

LEMMA PurgeKeeps ==
  ASSUME Fixed, NEW s, Sound(WishSets, s)
  PROVE  Sound(WishSets, Purge(s)) /\ SameChoice(s, Purge(s))
  <1>1. Len(s.bads) \in 0 .. Len(s.bads)
    BY DEF Sound, State
  <1> QED BY <1>1, PurgeSteps DEF PurgeRun

\* The states of the loop over the verified heads in some order.
ExtendRun(f, s, order) ==
  /\ f[0] = s /\ f[Len(order)] = Sq!FoldLeft(ExtendHead, s, order)
  /\ \A n \in 0 .. Len(order) : Sound(WishSets, f[n]) /\ SameShares(s, f[n]) /\ s.verified \subseteq f[n].verified
  /\ \A n \in 1 .. Len(order) : f[n] = ExtendHead(f[n - 1], order[n])

LEMMA ExtendSteps ==
  ASSUME Fixed, NEW s, Sound(WishSets, s), NEW order \in Seq(s.verified)
  PROVE  \E f : ExtendRun(f, s, order)
  <1> DEFINE R == {r \in State(WishSets) : Sound(WishSets, r) /\ SameShares(s, r)
                                       /\ s.verified \subseteq r.verified}
             To(r, x) == ExtendHead(r, x)
             step == [y \in R \X s.verified |-> To(y[1], y[2])]
  <1>1. ASSUME NEW r \in R, NEW x \in s.verified PROVE To(r, x) \in R
    <2>1. Sound(WishSets, r) /\ SameShares(s, r) /\ x \in r.verified /\ s.verified \subseteq r.verified
      BY <1>1
    <2>2. Sound(WishSets, ExtendHead(r, x)) /\ SameShares(r, ExtendHead(r, x))
          /\ r.verified \subseteq ExtendHead(r, x).verified
      BY <2>1, ExtendHeadKeeps
    <2> QED BY <2>1, <2>2 DEF Sound, SameShares
  <1>2. step \in [R \X s.verified -> R]
    <2> HIDE DEF R, To
    <2> QED BY <1>1
  <1>3. ASSUME NEW r \in R, NEW x \in s.verified PROVE step[r, x] = To(r, x)
    <2> HIDE DEF R, To
    <2> QED OBVIOUS
  <1>4. order \in Seq(s.verified) /\ DOMAIN order = 1 .. Len(order) /\ Len(order) \in Nat
        /\ \A i \in DOMAIN order : order[i] \in s.verified
    OBVIOUS
  <1>5. s \in R
    BY DEF Sound, SameShares, SameChoice
  <1> HIDE DEF R, To
  <1>6. ASSUME NEW u \in SUBSET DOMAIN order, u # {}
        PROVE  Sq!Max(u) = Top(u) /\ Top(u) \in DOMAIN order /\ u \ {Top(u)} \in SUBSET DOMAIN order
    <2>1. Sq!Max(u) = Top(u)
      BY DEF Sq!Max, Top
    <2> QED BY <1>4, <1>6, <2>1, TopOfIndices
  <1> DEFINE Is(g) == g = [u \in SUBSET DOMAIN order |->
                             IF u = {} THEN s
                             ELSE To(g[u \ {Sq!Max(u)}], order[Sq!Max(u)])]
             G == CHOOSE g : Is(g)
  <1>7. Sq!FoldLeft(ExtendHead, s, order) = G[DOMAIN order]
    BY DEF Sq!FoldLeft, Sq!MapThenFoldSet, To
  <1>8. Is(G)
    <2>1. PICK g \in [SUBSET DOMAIN order -> R] : Folds(g, step, s, order)
      <3> HIDE DEF step
      <3> QED BY <1>2, <1>4, <1>5, FoldExists
    <2>2. ASSUME NEW u \in SUBSET DOMAIN order
          PROVE  g[u] = IF u = {} THEN s ELSE To(g[u \ {Sq!Max(u)}], order[Sq!Max(u)])
      <3>1. CASE u = {}
        BY <2>1, <3>1 DEF Folds
      <3>2. CASE u # {}
        <4>1. g[u] = step[g[u \ {Top(u)}], order[Top(u)]]
          BY <2>1, <3>2 DEF Folds
        <4> HIDE DEF step
        <4> QED BY <1>3, <1>4, <1>6, <3>2, <4>1
      <3> QED BY <3>1, <3>2
    <2>3. g = [u \in SUBSET DOMAIN order |-> g[u]]
      OBVIOUS
    <2>4. Is(g)
      BY <2>2, <2>3
    <2> HIDE DEF Is
    <2> QED BY <2>4
  <1>9. FoldsIn(R, G, step, s, order)
    <2>1. ASSUME NEW u \in SUBSET DOMAIN order
          PROVE  G[u] = IF u = {} THEN s ELSE To(G[u \ {Sq!Max(u)}], order[Sq!Max(u)])
      <3> HIDE DEF G
      <3> QED BY <1>8
    <2> HIDE DEF G
    <2>2. G[{}] = s
      BY <2>1
    <2>3. ASSUME NEW u \in SUBSET DOMAIN order, u # {}, G[u \ {Top(u)}] \in R
          PROVE  G[u] = step[G[u \ {Top(u)}], order[Top(u)]]
      <3>1. G[u] = To(G[u \ {Top(u)}], order[Top(u)])
        BY <1>6, <2>1, <2>3
      <3> HIDE DEF step
      <3> QED BY <1>3, <1>4, <1>6, <2>3, <3>1
    <2> HIDE DEF step
    <2> QED BY <2>2, <2>3 DEF FoldsIn
  <1> HIDE DEF G, step
  <1>10. PICK f : Along(f, R, G, step, s, order)
    BY <1>2, <1>4, <1>5, <1>9, FoldSteps
  <1>11. ASSUME NEW n \in 0 .. Len(order) PROVE f[n] \in R
    <2>1. CASE n = 0
      BY <1>5, <1>10, <2>1 DEF Along
    <2>2. CASE n # 0
      BY <1>4, <1>10, <2>2 DEF Along
    <2> QED BY <2>1, <2>2
  <1>12. ASSUME NEW n \in 1 .. Len(order) PROVE f[n] = To(f[n - 1], order[n])
    <2>0. n - 1 \in 0 .. Len(order) /\ n \in DOMAIN order
      BY <1>4
    <2>1. f[n - 1] \in R /\ f[n] = step[f[n - 1], order[n]]
      BY <1>10, <1>11, <2>0 DEF Along
    <2> QED BY <1>3, <1>4, <2>0, <2>1
  <1>13. f[0] = s /\ f[Len(order)] = Sq!FoldLeft(ExtendHead, s, order)
    BY <1>4, <1>7, <1>10 DEF Along
  <1> QED BY <1>11, <1>12, <1>13 DEF R, To, ExtendRun

LEMMA ExtendKeeps ==
  ASSUME Fixed, NEW s, Sound(WishSets, s), NEW order \in Seq(s.verified)
  PROVE  LET t == Sq!FoldLeft(ExtendHead, s, order)
         IN Sound(WishSets, t) /\ SameShares(s, t)
  <1>1. Len(order) \in 0 .. Len(order)
    OBVIOUS
  <1> QED BY <1>1, ExtendSteps DEF ExtendRun

-----------------------------------------------------------------------------
\* The greatest of some hashes, and induction from the latest share back.

LEMMA FiniteImage ==
  ASSUME NEW S, IsFiniteSet(S), NEW e
  PROVE  IsFiniteSet({e[x] : x \in S})
  <1> DEFINE T == {e[x] : x \in S}
             f == [x \in S |-> e[x]]
  <1>1. f \in Surjection(S, T)
    BY DEF Surjection
  <1> QED BY <1>1, FS_Surjection

LEMMA Greatest ==
  ASSUME NEW S \in SUBSET Nat, IsFiniteSet(S), S # {}
  PROVE  \E x \in S : \A y \in S : x >= y
  <1>1. PICK n \in Nat : ExistsBijection(1 .. n, S)
    BY FS_NatBijection
  <1>2. PICK f \in [1 .. n -> S] : \A y \in S : \E i \in 1 .. n : f[i] = y
    BY <1>1 DEF ExistsBijection, Bijection, Surjection
  <1> DEFINE T == {k \in 0 .. n : \E b \in Nat : \A i \in 1 .. k : f[i] <= b}
  <1>3. 0 \in T
    OBVIOUS
  <1>4. ASSUME NEW k \in 1 .. n, k - 1 \in T PROVE k \in T
    <2>1. PICK b \in Nat : \A i \in 1 .. k - 1 : f[i] <= b
      BY <1>4
    <2>0. \A i \in 1 .. n : f[i] \in Nat
      BY <1>2
    <2>3. \A i \in 1 .. k : f[i] \in Nat
      BY <2>0
    <2>2. f[k] \in Nat /\ \A i \in 1 .. k : i \in 1 .. k - 1 \/ i = k
      BY <2>0
    <2>4. \A i \in 1 .. k : f[i] <= b + f[k]
      BY <2>1, <2>2, <2>3
    <2>5. b + f[k] \in Nat /\ k \in 0 .. n
      BY <2>2
    <2> QED BY <2>4, <2>5
  <1> HIDE DEF T
  <1>5. n \in T
    BY <1>3, <1>4, UpTo
  <1>6. PICK b \in Nat : \A i \in 1 .. n : f[i] <= b
    BY <1>5 DEF T
  <1>7. \A y \in S : y <= b /\ y \in Nat /\ b - y \in Nat
    BY <1>2, <1>6
  <1> DEFINE D == {b - y : y \in S}
  <1>8. D \in SUBSET Nat /\ D # {}
    BY <1>7
  <1> HIDE DEF D
  <1>9. PICK d \in D : \A e \in D : d <= e
    BY <1>8, LeastNumber
  <1>10. PICK x \in S : d = b - x
    BY <1>9 DEF D
  <1>11. \A y \in S : b - x <= b - y
    BY <1>9, <1>10 DEF D
  <1> QED BY <1>7, <1>11

LEMMA Backwards ==
  ASSUME NEW T, \A y \in Hash : (\A z \in Hash : z > y => z \in T) => y \in T
  PROVE  Hash \subseteq T
  <1> DEFINE Rest == Hash \ T
  <1>1. Rest \in SUBSET Nat /\ IsFiniteSet(Rest)
    BY HashAssumption, ShareChainAssumption, FS_Subset
  <1>2. SUFFICES ASSUME Rest # {} PROVE FALSE
    OBVIOUS
  <1>3. PICK y \in Rest : \A z \in Rest : y >= z
    <2> HIDE DEF Rest
    <2> QED BY <1>1, <1>2, Greatest
  <1>4. \A z \in Hash : z > y => z \in T
    BY <1>1, <1>3, HashAssumption
  <1> QED BY <1>3, <1>4

-----------------------------------------------------------------------------
\* best_descendent.

Ahead(a, b) == a[1] > b[1] \/ (a[1] = b[1] /\ a[2] >= b[2])

Good(s, y) == {x \in Kids(s.items, y) : s.naughty[x] = 0}

OneOn(kids, y) ==
  LET far == CHOOSE e \in kids : \A g \in kids : Ahead(e, g)
  IN IF kids = {} THEN <<0, y>> ELSE <<far[1] + 1, far[2]>>

Farthest(s, f, y) == OneOn({f[k] : k \in Good(s, y)}, y)

IsEnds(s, f) == f = [y \in Hash |-> Farthest(s, f, y)]
Ends(s) == CHOOSE f : IsEnds(s, f)

\* Only what was built on a share decides where its line ends.
LEMMA FarthestOfHeirs ==
  ASSUME Fixed, NEW s, s.items \in Sets, NEW y \in Hash, NEW f, NEW g,
         \A z \in Hash : z > y => f[z] = g[z]
  PROVE  Farthest(s, f, y) = Farthest(s, g, y)
  <1>1. \A k \in Good(s, y) : k \in Hash /\ k > y
    BY PreviousIsEarlier DEF Good, Kids, Children, Fixed, Sets
  <1>2. {f[k] : k \in Good(s, y)} = {g[k] : k \in Good(s, y)}
    BY <1>1
  <1> HIDE DEF Good
  <1> QED BY <1>2 DEF Farthest

LEMMA EndsExist ==
  ASSUME Fixed, NEW s, s.items \in Sets, NEW h \in Hash
  PROVE  /\ best_descendent(s, h) = Ends(s)[h][2]
         /\ \A y \in Hash : Ends(s)[y] = Farthest(s, Ends(s), y)
  <1>1. best_descendent(s, h) = Ends(s)[h][2]
    BY DEF best_descendent, Ends, IsEnds, Farthest, OneOn, Good, Ahead
  <1> DEFINE From(f, y) == \A z \in Hash : z >= y => f[z] = Farthest(s, f, z)
             T == {y \in Hash : \E f : From(f, y)}
  <1>0. Hash \subseteq Nat
    BY HashAssumption
  <1>2. ASSUME NEW y \in Hash, \A z \in Hash : z > y => z \in T PROVE y \in T
    <2>1. \E f : \A z \in Hash : z > y => f[z] = Farthest(s, f, z)
      <3> DEFINE Later == {z \in Hash : z > y}
      <3>1. CASE Later = {}
        BY <3>1
      <3>2. CASE Later # {}
        <4>1. Later \in SUBSET Nat
          BY <1>0
        <4>2. PICK x \in Later : \A z \in Later : x <= z
          <5> HIDE DEF Later
          <5> QED BY <3>2, <4>1, LeastNumber
        <4>3. PICK f : From(f, x)
          BY <1>2, <4>2
        <4>4. \A z \in Hash : z > y => z >= x
          BY <1>0, <4>2
        <4> QED BY <4>3, <4>4
      <3> QED BY <3>1, <3>2
    <2>2. PICK f : \A z \in Hash : z > y => f[z] = Farthest(s, f, z)
      BY <2>1
    <2> DEFINE g == [z \in Hash |-> IF z = y THEN Farthest(s, f, y) ELSE f[z]]
    <2>3. \A z \in Hash : z # y => g[z] = f[z]
      OBVIOUS
    <2>4. g[y] = Farthest(s, f, y)
      OBVIOUS
    <2> HIDE DEF g
    <2>5. ASSUME NEW z \in Hash, z >= y PROVE Farthest(s, g, z) = Farthest(s, f, z)
      <3>1. \A x \in Hash : x > z => g[x] = f[x]
        BY <1>0, <2>3, <2>5
      <3> QED BY <3>1, FarthestOfHeirs
    <2>6. ASSUME NEW z \in Hash, z >= y PROVE g[z] = Farthest(s, g, z)
      <3>1. z = y \/ z > y
        BY <1>0, <2>6
      <3> QED BY <2>2, <2>3, <2>4, <2>5, <2>6, <3>1
    <2>7. From(g, y)
      BY <2>6
    <2> HIDE DEF From
    <2> QED BY <2>7
  <1>3. Hash \subseteq T
    <2> HIDE DEF T
    <2> QED BY <1>2, Backwards
  <1>4. PICK f : \A z \in Hash : f[z] = Farthest(s, f, z)
    <2>1. PICK x \in Hash : \A y \in Hash : x <= y
      BY <1>0, LeastNumber
    <2>2. PICK f : From(f, x)
      BY <1>3
    <2>3. \A y \in Hash : y >= x
      BY <1>0, <2>1
    <2> QED BY <2>2, <2>3
  <1> DEFINE g == [z \in Hash |-> f[z]]
  <1>5. \A z \in Hash : Farthest(s, g, z) = Farthest(s, f, z) /\ g[z] = f[z]
    <2>1. \A z \in Hash : g[z] = f[z]
      OBVIOUS
    <2> HIDE DEF g
    <2> QED BY <2>1, FarthestOfHeirs
  <1>6. g = [z \in Hash |-> Farthest(s, g, z)]
    <2>1. g = [z \in Hash |-> g[z]]
      OBVIOUS
    <2> HIDE DEF g
    <2> QED BY <1>4, <1>5, <2>1
  <1>7. IsEnds(s, g)
    BY <1>6 DEF IsEnds
  <1> HIDE DEF g
  <1>8. IsEnds(s, Ends(s))
    BY <1>7 DEF Ends
  <1>9. \A y \in Hash : Ends(s)[y] = Farthest(s, Ends(s), y)
    <2> DEFINE e == Ends(s)
    <2>1. e = [y \in Hash |-> Farthest(s, e, y)]
      BY <1>8 DEF IsEnds
    <2> HIDE DEF e
    <2>2. \A y \in Hash : e[y] = Farthest(s, e, y)
      BY <2>1
    <2> QED BY <2>2 DEF e
  <1> QED BY <1>1, <1>9

LEMMA FurthestExists ==
  ASSUME NEW K \in SUBSET (Nat \X Nat), IsFiniteSet(K), K # {}
  PROVE  \E e \in K : \A g \in K : Ahead(e, g)
  <1> DEFINE first == [e \in K |-> e[1]]
             F == {first[e] : e \in K}
  <1>1. IsFiniteSet(F) /\ F \in SUBSET Nat /\ F # {}
    <2>1. F \in SUBSET Nat /\ F # {}
      OBVIOUS
    <2> HIDE DEF first
    <2>2. IsFiniteSet(F)
      BY FiniteImage
    <2> QED BY <2>1, <2>2
  <1>2. PICK m \in F : \A n \in F : m >= n
    <2> HIDE DEF F
    <2> QED BY <1>1, Greatest
  <1>3. \A g \in K : m >= g[1] /\ g[1] \in Nat /\ g[2] \in Nat
    BY <1>2
  <1> DEFINE J == {e \in K : e[1] = m}
             second == [e \in J |-> e[2]]
             H == {second[e] : e \in J}
  <1>4. J # {}
    BY <1>2
  <1>5. IsFiniteSet(H) /\ H \in SUBSET Nat /\ H # {}
    <2>1. H \in SUBSET Nat /\ H # {}
      BY <1>3, <1>4
    <2>2. IsFiniteSet(J)
      BY FS_Subset
    <2> HIDE DEF second, J
    <2>3. IsFiniteSet(H)
      BY <2>2, FiniteImage
    <2> QED BY <2>1, <2>3
  <1>6. PICK n \in H : \A o \in H : n >= o
    <2> HIDE DEF H
    <2> QED BY <1>5, Greatest
  <1>7. PICK e \in J : e[2] = n
    BY <1>6
  <1>8. \A g \in J : e[2] >= g[2]
    BY <1>6, <1>7
  <1>9. e \in K /\ e[1] = m
    BY <1>7
  <1>10. \A g \in K : Ahead(e, g)
    <2> SUFFICES ASSUME NEW g \in K PROVE Ahead(e, g)
      OBVIOUS
    <2>1. m \in Nat /\ m >= g[1] /\ g[1] \in Nat
      BY <1>1, <1>2, <1>3
    <2>2. g[1] = m => e[2] >= g[2]
      BY <1>8
    <2> QED BY <1>9, <2>1, <2>2 DEF Ahead
  <1> QED BY <1>9, <1>10

\* From a share that is not naughty, the way up ends at one that is not.
LEMMA BestDescendentIsFair ==
  ASSUME Fixed, NEW s, Sound(WishSets, s), NEW a \in s.items, s.naughty[a] = 0
  PROVE  best_descendent(s, a) \in s.items /\ s.naughty[best_descendent(s, a)] = 0
  <1> DEFINE e == Ends(s)
             Fair(y) == y \in s.items /\ s.naughty[y] = 0
             T == {y \in Hash : e[y] \in Nat \X Hash /\ (Fair(y) => Fair(e[y][2]))}
  <1>1. s.items \in Sets /\ s.items \subseteq Hash /\ IsFiniteSet(s.items) /\ Hash \subseteq Nat
    BY HashAssumption, ShareChainAssumption, FS_Subset DEF Sound, State, Sets
  <1>2. best_descendent(s, a) = e[a][2] /\ \A y \in Hash : e[y] = Farthest(s, e, y)
    BY <1>1, EndsExist
  <1> HIDE DEF e
  <1>3. ASSUME NEW y \in Hash, \A z \in Hash : z > y => z \in T PROVE y \in T
    <2> DEFINE kids == {e[k] : k \in Good(s, y)}
               far  == CHOOSE x \in kids : \A g \in kids : Ahead(x, g)
    <2>1. e[y] = IF kids = {} THEN <<0, y>> ELSE <<far[1] + 1, far[2]>>
      BY <1>2 DEF Farthest, OneOn
    <2>2. \A k \in Good(s, y) : k \in Hash /\ k > y /\ k \in s.items /\ s.naughty[k] = 0
      BY <1>1, PreviousIsEarlier DEF Good, Kids, Children, Fixed
    <2>3. \A k \in Good(s, y) : e[k] \in Nat \X Hash /\ Fair(e[k][2])
      BY <1>3, <2>2
    <2>4. CASE kids = {}
      BY <2>1, <2>4
    <2>5. CASE kids # {}
      <3>1. kids \in SUBSET (Nat \X Nat)
        BY <1>1, <2>3
      <3>2. IsFiniteSet(kids)
        <4>1. IsFiniteSet(Good(s, y))
          BY <1>1, FS_Subset DEF Good, Kids, Children
        <4> QED BY <4>1, FiniteImage
      <3> HIDE DEF kids
      <3>3. far \in kids
        BY <2>5, <3>1, <3>2, FurthestExists
      <3> HIDE DEF far
      <3>4. PICK k \in Good(s, y) : far = e[k]
        BY <3>3 DEF kids
      <3>5. far[1] \in Nat /\ far[2] \in Hash /\ Fair(far[2])
        BY <2>3, <3>4
      <3>6. e[y] = <<far[1] + 1, far[2]>>
        BY <2>1, <2>5
      <3>7. e[y] \in Nat \X Hash /\ e[y][2] = far[2]
        BY <3>5, <3>6
      <3> HIDE DEF Fair
      <3> QED BY <3>5, <3>7
    <2> QED BY <2>4, <2>5
  <1>4. Hash \subseteq T
    <2> HIDE DEF T
    <2> QED BY <1>3, Backwards
  <1>5. a \in T /\ Fair(a)
    BY <1>1, <1>4
  <1> QED BY <1>2, <1>5

-----------------------------------------------------------------------------
\* The share to build on.

Chosen(r) ==
  /\ r.best \in r.items \cup {None}
  /\ r.best \in Hash \ Solved => r.naughty[r.best] = 0

\* What a handler leaves behind: where it raised, the trackers only.
Ended(r) ==
  /\ r.items \in Sets /\ r.verified \subseteq r.items \ bad /\ r.naughty \in Marks
  /\ r.error \in Raised
  /\ r.error = "none" => Sound(Sets, r) /\ Chosen(r)

LEMMA PunishFair ==
  ASSUME NEW s, s.naughty \in Marks, NEW h \in Hash
  PROVE  /\ Punish(s, h) <= 0 => h \in Solved \/ s.naughty[h] = 0
         /\ Punish(s, h) < 0 => h \in Solved
  <1>1. s.naughty[h] \in Nat
    BY ConstantTypes DEF Marks
  <1>2. CASE h \in Solved
    BY <1>2
  <1>3. CASE h \notin Solved /\ s.naughty[h] > 0
    <2>1. Punish(s, h) = s.naughty[h]
      BY <1>1, <1>3 DEF Punish
    <2> QED BY <1>1, <1>3, <2>1
  <1>4. CASE h \notin Solved /\ s.naughty[h] = 0
    <2>1. Punish(s, h) = IF h \in heavy THEN 1 ELSE 0
      BY <1>4 DEF Punish
    <2> QED BY <1>4, <2>1
  <1> QED BY <1>1, <1>2, <1>3, <1>4

LEMMA BestKept ==
  ASSUME NEW s, Sound(WishSets, s), NEW b \in Node
  PROVE  LET r == [s EXCEPT !.best = b]
         IN Sound(WishSets, r) /\ r.best = b
            /\ r.items = s.items /\ r.naughty = s.naughty /\ r.error = s.error
  BY DEF Sound, State

LEMMA JumpEnds ==
  ASSUME Fixed, NEW s, Sound(WishSets, s), s.error = "none", NEW h \in s.items
  PROVE  LET r == Jump(s, h)
         IN Sound(WishSets, r) /\ (r.error = "none" => Chosen(r))
  <1> DEFINE tall == get_height(s.items, h)
             line == get_chain(h, tall)
             fair == {i \in DOMAIN line : Punish(s, line[i]) <= 0}
             a    == line[Min(fair)]
  <1>1. /\ s.items \in Sets /\ IsForest(s.items, previous_hash) /\ h \in Hash /\ h \in Node
        /\ s.naughty \in Marks /\ s.items \subseteq Node /\ s.items \subseteq Hash
    BY DEF Sound, State, Fixed, IsForest, Sets, Node
  <1>2. tall \in Nat
    BY <1>1, HeightEq
  <1> HIDE DEF tall
  <1>3. /\ line \in Seq(s.items) /\ Len(line) = tall /\ DOMAIN line = 1 .. tall
        /\ \A i \in 1 .. tall : line[i] = nth_parent(h, i - 1)
    <2>1. tall <= get_height(s.items, h)
      BY <1>2 DEF tall
    <2> HIDE DEF fair, a
    <2>2. /\ get_chain(h, tall) \in Seq(s.items) /\ Len(get_chain(h, tall)) = tall
          /\ DOMAIN get_chain(h, tall) = 1 .. tall
          /\ \A i \in 1 .. tall : get_chain(h, tall)[i] = nth_parent(h, i - 1)
      BY ONLY <1>1, <1>2, <2>1, ChainOf
    <2> QED BY <2>2
  <1> HIDE DEF line
  <1>4. fair \in SUBSET (1 .. tall)
    BY <1>3
  <1>5. ASSUME fair = {}
        PROVE  Jump(s, h) = [Raise(s, "KeyError") EXCEPT !.best = None]
    BY <1>5 DEF Jump, line, tall
  <1>11. ASSUME 1 \in fair
         PROVE  Jump(s, h) = [s EXCEPT !.best = h]
    BY <1>11 DEF Jump, line, tall
  <1>12. ASSUME fair # {}, 1 \notin fair
         PROVE  Jump(s, h) = [s EXCEPT !.best = IF Punish(s, a) < 0 THEN a ELSE best_descendent(s, a)]
    BY <1>12 DEF Jump, line, tall
  <1>6. \A i \in fair : line[i] \in s.items /\ line[i] \in Hash /\ Punish(s, line[i]) <= 0
    <2>1. \A i \in 1 .. tall : line[i] \in s.items
      BY <1>3
    <2>2. \A i \in fair : i \in 1 .. tall /\ Punish(s, line[i]) <= 0
      BY <1>4
    <2> HIDE DEF fair
    <2> QED BY <1>1, <2>1, <2>2
  <1>7. fair # {} => Min(fair) \in fair
    <2> HIDE DEF fair
    <2> QED BY ONLY <1>2, <1>4, LeastOf
  <1> HIDE DEF fair
  <1>8. CASE fair = {}
    <2>1. Jump(s, h) = [Raise(s, "KeyError") EXCEPT !.best = None]
      BY <1>5, <1>8
    <2>2. Sound(WishSets, Raise(s, "KeyError")) /\ Raise(s, "KeyError").error = "KeyError"
      BY RaiseKeeps DEF Raised
    <2>3. None \in Node
      BY DEF Node
    <2> QED BY <2>1, <2>2, <2>3, BestKept
  <1>9. CASE 1 \in fair
    <2>1. Jump(s, h) = [s EXCEPT !.best = h]
      BY <1>9, <1>11
    <2>2. line[1] = h
      <3>1. nth_parent(h, 0) = h
        BY NthParent
      <3>2. 1 \in 1 .. tall /\ 1 - 1 = 0
        BY <1>4, <1>9
      <3> QED BY <1>3, <3>1, <3>2
    <2>3. h \in Solved \/ s.naughty[h] = 0
      BY <1>1, <1>6, <1>9, <2>2, PunishFair
    <2> QED BY <1>1, <2>1, <2>3, BestKept DEF Chosen
  <1>10. CASE fair # {} /\ 1 \notin fair
    <2>1. a \in s.items /\ a \in Hash /\ Punish(s, a) <= 0
      BY <1>6, <1>7, <1>10
    <2> HIDE DEF a
    <2>2. Jump(s, h) = [s EXCEPT !.best = IF Punish(s, a) < 0 THEN a ELSE best_descendent(s, a)]
      BY <1>10, <1>12
    <2>3. CASE Punish(s, a) < 0 \/ a \in Solved
      <3>1. a \in Solved
        BY <1>1, <2>1, <2>3, PunishFair
      <3>2. Punish(s, a) = -1
        BY <3>1 DEF Punish
      <3>3. Jump(s, h) = [s EXCEPT !.best = a]
        BY <2>2, <3>2
      <3> QED BY <1>1, <2>1, <3>1, <3>3, BestKept DEF Chosen
    <2>4. CASE ~(Punish(s, a) < 0) /\ a \notin Solved
      <3>1. s.naughty[a] = 0
        BY <1>1, <2>1, <2>4, PunishFair
      <3> DEFINE b == best_descendent(s, a)
      <3>2. b \in s.items /\ s.naughty[b] = 0
        BY <2>1, <3>1, BestDescendentIsFair
      <3> HIDE DEF b
      <3>3. Jump(s, h) = [s EXCEPT !.best = b]
        BY <2>2, <2>4 DEF b
      <3> QED BY <1>1, <3>2, <3>3, BestKept DEF Chosen
    <2> QED BY <2>3, <2>4
  <1> QED BY <1>8, <1>9, <1>10

LEMMA TopHeadsAreVerified ==
  ASSUME NEW s, Sound(WishSets, s), NEW n, NEW K \in TopHeads(s, n)
  PROVE  K \subseteq s.verified /\ K \in Sets
  <1>1. K \subseteq s.verified
    BY DEF TopHeads, Over, HeadsAbove, HeadSet
  <1> QED BY <1>1 DEF Sound, State, Sets

LEMMA RecentKeeps ==
  ASSUME NEW r, Sound(WishSets, r), NEW K \in Sets
  PROVE  LET t == [Recent(r) EXCEPT !.top = K]
         IN Sound(Sets, t) /\ t.items = r.items /\ t.verified = r.verified /\ t.naughty = r.naughty
            /\ t.best = r.best /\ t.error = r.error /\ t.top = K
  <1> DEFINE d == {w[1] : w \in {v \in r.desired : v[2] >= timestamp_cutoff(r.best)}}
             t == [Recent(r) EXCEPT !.top = K]
  <1>1. r \in State(WishSets) /\ r.desired \subseteq Wishes
    BY DEF Sound, State, WishSets
  <1>2. d \in Sets
    <2>1. \A w \in Wishes : w[1] \in Hash
      <3> HIDE DEF newest
      <3> QED BY DEF Wishes
    <2> HIDE DEF Wishes
    <2> QED BY <1>1, <2>1 DEF Sets
  <1>3. Recent(r) = [r EXCEPT !.desired = d]
    BY DEF Recent
  <1> HIDE DEF d
  <1>4. t = [r EXCEPT !.desired = d, !.top = K]
    BY <1>3
  <1>5. /\ t \in State(Sets) /\ t.items = r.items /\ t.verified = r.verified /\ t.naughty = r.naughty
        /\ t.best = r.best /\ t.error = r.error /\ t.top = K
    BY <1>1, <1>2, <1>4 DEF State
  <1> HIDE DEF t
  <1>6. Sound(Sets, t)
    BY <1>5 DEF Sound
  <1> QED BY <1>5, <1>6 DEF t

LEMMA DecisionsEnd ==
  ASSUME Fixed, NEW s, Sound(WishSets, s), s.best = None, NEW r \in Decisions(s)
  PROVE  Ended(r)
  <1>1. \A t : Sound(WishSets, t) /\ t.error # "none" => Ended(t)
    BY DEF Sound, State, Ended, Sets
  <1>2. CASE s.error # "none"
    BY <1>1, <1>2 DEF Decisions
  <1>3. CASE s.error = "none" /\ Incomparable(s)
    <2>1. r = Raise(s, "TypeError")
      BY <1>3 DEF Decisions
    <2> QED BY <1>1, <2>1, RaiseKeeps DEF Raised
  <1>4. CASE s.error = "none" /\ ~Incomparable(s)
    <2>1. PICK q \in IF s.verified = {} THEN {s} ELSE {Jump(s, h) : h \in UNION TopHeads(s, 1)},
               K \in TopHeads(s, Few) :
            r = [(IF q.error = "none" THEN Recent(q) ELSE q) EXCEPT !.top = K]
      BY <1>4 DEF Decisions
    <2>2. K \in Sets
      BY TopHeadsAreVerified
    <2>3. Sound(WishSets, q) /\ (q.error = "none" => Chosen(q))
      <3>1. CASE s.verified = {}
        <4>1. q = s
          BY <2>1, <3>1
        <4>2. None \notin Hash
          BY HashAssumption DEF None
        <4> QED BY <4>1, <4>2 DEF Chosen
      <3>2. CASE s.verified # {}
        <4>1. PICK h \in UNION TopHeads(s, 1) : q = Jump(s, h)
          BY <2>1, <3>2
        <4>2. h \in s.items
          BY TopHeadsAreVerified DEF Sound
        <4> QED BY <1>4, <4>1, <4>2, JumpEnds
      <3> QED BY <3>1, <3>2
    <2>4. CASE q.error = "none"
      <3>1. r = [Recent(q) EXCEPT !.top = K]
        BY <2>1, <2>4
      <3>2. /\ Sound(Sets, r) /\ r.items = q.items /\ r.verified = q.verified /\ r.naughty = q.naughty
            /\ r.best = q.best /\ r.error = q.error
        BY <2>2, <2>3, <3>1, RecentKeeps
      <3>3. Chosen(r)
        BY <2>3, <2>4, <3>2 DEF Chosen
      <3> QED BY <3>2, <3>3 DEF Ended, Sound, State
    <2>5. CASE q.error # "none"
      <3>1. r = [q EXCEPT !.top = K]
        BY <2>1, <2>5
      <3>2. Sound(WishSets, r) /\ r.error = q.error
        BY <2>2, <2>3, <3>1 DEF Sound, State
      <3> QED BY <1>1, <2>5, <3>2
    <2> QED BY <2>4, <2>5
  <1> QED BY <1>2, <1>3, <1>4

-----------------------------------------------------------------------------
\* think() from whatever shares are there.

LEMMA ThinkEnds ==
  ASSUME Fixed, NEW I \in Sets, NEW V, V \subseteq I \ bad, NEW N \in Marks, NEW r \in think(I, V, N)
  PROVE  Ended(r)
  <1> DEFINE start == [items |-> I, verified |-> V, naughty |-> N, desired |-> {}, bads |-> <<>>,
                       best |-> None, top |-> {}, error |-> "none"]
             heads == Heads(I) \ Heads(V)
  <1>1. PICK s \in Verify(start, heads) :
          \E t \in Extend(Purge(s), Heads(Purge(s).verified)) : r \in Decisions(t)
    BY DEF think
  <1>2. Sound(WishSets, start) /\ start.best = None /\ start.items = I
    BY DEF Sound, State, Sets, WishSets, Raised, Node
  <1> HIDE DEF start
  <1>3. \A J \in Sets : IsFiniteSet(J)
    BY ShareChainAssumption, FS_Subset DEF Sets
  <1>4. heads \in Sets /\ heads \subseteq I
    BY DEF Heads, HeadSet, Sets
  <1> HIDE DEF heads
  <1>5. Sound(WishSets, s) /\ s.best = None
    <2>1. PICK order \in Sq!SetToSeqs(heads) : s = Sq!FoldLeft(VerifyHead, start, order)
      BY DEF Verify
    <2>2. order \in Seq(heads)
      BY <1>3, <1>4, SomeOrder
    <2>3. order \in Seq(start.items)
      BY <1>2, <1>4, <2>2
    <2> QED BY <1>2, <2>1, <2>3, VerifyKeeps DEF SameShares
  <1> DEFINE p == Purge(s)
  <1>6. Sound(WishSets, p) /\ p.best = None
    BY <1>5, PurgeKeeps DEF SameChoice
  <1>7. PICK t \in Extend(p, Heads(p.verified)) : r \in Decisions(t)
    BY <1>1
  <1> HIDE DEF p
  <1>8. Sound(WishSets, t) /\ t.best = None
    <2>1. PICK order \in Sq!SetToSeqs(Heads(p.verified)) : t = Sq!FoldLeft(ExtendHead, p, order)
      BY DEF Extend
    <2>2. Heads(p.verified) \in Sets /\ Heads(p.verified) \subseteq p.verified
      BY <1>6 DEF Sound, State, Sets, Heads, HeadSet
    <2>3. order \in Seq(Heads(p.verified))
      BY <1>3, <2>2, SomeOrder
    <2>4. order \in Seq(p.verified)
      BY <2>2, <2>3
    <2> QED BY <1>6, <2>1, <2>4, ExtendKeeps DEF SameShares
  <1> QED BY <1>7, <1>8, DecisionsEnd

-----------------------------------------------------------------------------
\* clean_tracker().

\* A working state in which nothing has been raised.
Clear(s) == Sound(Sets, s) /\ s.error = "none"

LEMMA SetInOrder ==
  ASSUME NEW S, IsFiniteSet(S)
  PROVE  /\ Sq!SetToSeq(S) \in Seq(S)
         /\ \A i, j \in DOMAIN Sq!SetToSeq(S) : Sq!SetToSeq(S)[i] = Sq!SetToSeq(S)[j] => i = j
  <1> DEFINE n == Sq!Cardinality(S)
             Is(f) == f \in [1 .. n -> S] /\ Sq!IsInjective(f)
  <1>1. n \in Nat /\ ExistsBijection(1 .. n, S)
    <2>1. Cardinality(S) = Sq!Cardinality(S)
      BY DEF Sq!Cardinality, Cardinality
    <2>2. PICK m \in Nat : ExistsBijection(1 .. m, S)
      BY FS_NatBijection
    <2>3. Cardinality(S) = m
      BY <2>2, FS_CountingElements
    <2> QED BY <2>1, <2>2, <2>3
  <1> HIDE DEF n
  <1>2. PICK f : Is(f)
    <2>1. PICK f \in Bijection(1 .. n, S) : TRUE
      BY <1>1 DEF ExistsBijection
    <2>2. f \in [1 .. n -> S] /\ \A i, j \in 1 .. n : f[i] = f[j] => i = j
      BY DEF Bijection, Injection, IsInjective
    <2>3. Is(f)
      BY <2>2 DEF Sq!IsInjective
    <2> QED BY <2>3
  <1> DEFINE order == Sq!SetToSeq(S)
  <1>3. order = CHOOSE g \in [1 .. n -> S] : Sq!IsInjective(g)
    BY DEF Sq!SetToSeq, n
  <1>4. Is(order)
    <2> HIDE DEF order
    <2> QED BY <1>2, <1>3
  <1> HIDE DEF order
  <1>5. order \in [1 .. n -> S] /\ \A i, j \in 1 .. n : order[i] = order[j] => i = j
    BY <1>4 DEF Sq!IsInjective
  <1>6. order \in Seq(S) /\ DOMAIN order = 1 .. n
    BY <1>1, <1>5
  <1> QED BY <1>5, <1>6 DEF order

\* A head of the tracker can be taken out of both trackers.
LEMMA TakeOutHead ==
  ASSUME NEW s, Clear(s), NEW h \in Heads(s.items)
  PROVE  TakeOut(s, h) = Without(s, h, s.verified \ {h}) /\ h \in Hash
  <1>1. s.verified \subseteq s.items /\ s.items \subseteq Hash /\ s.error = "none"
    BY DEF Clear, Sound, State, Sets
  <1>2. Removable(s.items, h) /\ h \in Hash
    BY <1>1 DEF Removable, Heads, HeadSet
  <1>3. h \in s.verified => Removable(s.verified, h)
    BY <1>1 DEF Removable, Heads, HeadSet, Children
  <1> QED BY <1>1, <1>2, <1>3 DEF TakeOut, Unless, Without

LEMMA WithoutIsClear ==
  ASSUME NEW s, Clear(s), NEW h \in Hash
  PROVE  LET r == Without(s, h, s.verified \ {h})
         IN Clear(r) /\ SameChoice(s, r) /\ r.items = s.items \ {h}
  <1> DEFINE v == s.verified \ {h}
  <1>1. v \in Sets /\ v \subseteq s.verified /\ h \notin v
    BY DEF Clear, Sound, State, Sets
  <1> HIDE DEF v
  <1>2. /\ Sound(Sets, Without(s, h, v)) /\ SameChoice(s, Without(s, h, v))
        /\ Without(s, h, v).items = s.items \ {h} /\ Without(s, h, v).error = s.error
    <2> DEFINE D == Sets
    <2>1. Sound(D, s)
      BY DEF Clear
    <2> HIDE DEF D
    <2>2. Sound(D, Without(s, h, v)) /\ SameChoice(s, Without(s, h, v))
      BY <1>1, <2>1, RemoveKeeps
    <2>3. Without(s, h, v).items = s.items \ {h} /\ Without(s, h, v).error = s.error
      BY <2>1 DEF Without, Sound, State
    <2> QED BY <2>2, <2>3 DEF D
  <1> QED BY <1>2 DEF Clear, v

LEMMA TakeRootKeeps ==
  ASSUME NEW s, Clear(s), NEW h \in Hash
  PROVE  Clear(TakeRoot(s, h)) /\ SameChoice(s, TakeRoot(s, h))
  <1>1. CASE previous_hash[h] \notin Tails(s.items)
    BY <1>1 DEF TakeRoot, SameChoice
  <1>2. CASE previous_hash[h] \in Tails(s.items)
    <2>1. previous_hash[h] \notin s.items /\ previous_hash[h] \notin s.verified /\ s.error = "none"
      BY <1>2 DEF Tails, TailSet, Clear, Sound
    <2>2. TakeRoot(s, h) = Without(s, h, s.verified \ {h})
      BY <1>2, <2>1 DEF TakeRoot, TakeOut, Unless, Removable, Without
    <2> QED BY <2>2, WithoutIsClear
  <1> QED BY <1>1, <1>2

LEMMA TakeOutTypes ==
  ASSUME NEW s \in State(Sets), NEW h \in Hash
  PROVE  TakeOut(s, h) \in State(Sets)
  <1>1. s.items \ {h} \in Sets /\ s.verified \ {h} \in Sets /\ [s.naughty EXCEPT ![h] = 0] \in Marks
    <2>1. 0 \in 0 .. Generations
      BY ConstantTypes
    <2> QED BY <2>1 DEF State, Sets, Marks
  <1>2. [s EXCEPT !.items = @ \ {h}, !.verified = @ \ {h}, !.naughty[h] = 0]
          = [s EXCEPT !.items = s.items \ {h}, !.verified = s.verified \ {h},
                      !.naughty = [s.naughty EXCEPT ![h] = 0]]
    OBVIOUS
  <1>3. [s EXCEPT !.items = @ \ {h}, !.verified = @ \ {h}, !.naughty[h] = 0] \in State(Sets)
    BY <1>1, <1>2 DEF State
  <1>4. Raise(s, "NotImplementedError") \in State(Sets)
    BY DEF State, Raise
  <1> QED BY <1>3, <1>4 DEF TakeOut, Unless

\* The heads that go are heads until each has gone, so nothing is taken out of the middle.
LEMMA EatRoundKeeps ==
  ASSUME NEW s, Clear(s), NEW old, NEW quiet
  PROVE  Clear(EatRound(s, old, quiet)) /\ SameChoice(s, EatRound(s, old, quiet))
  <1> DEFINE gone == {h \in Heads(s.items) :
                       /\ h \notin s.top /\ h \in old
                       /\ (h \in s.verified) \/ Kids(s.items, get_last(s.items, h)) \subseteq quiet}
             order == Sq!SetToSeq(gone)
             R == State(Sets)
             To(r, x) == TakeOut(r, x)
             step == [y \in R \X Hash |-> To(y[1], y[2])]
  <1>12. gone \subseteq Heads(s.items) /\ gone \subseteq Hash /\ IsFiniteSet(gone)
    <2>1. gone \subseteq Heads(s.items) /\ gone \subseteq Hash
      BY DEF Heads, HeadSet, Clear, Sound, State, Sets
    <2> QED BY <2>1, ShareChainAssumption, FS_Subset
  <1>13. EatRound(s, old, quiet) = Sq!FoldLeft(TakeOut, s, order)
    BY DEF EatRound
  <1> HIDE DEF gone
  <1>14. order \in Seq(gone) /\ \A i, j \in DOMAIN order : order[i] = order[j] => i = j
    BY <1>12, SetInOrder
  <1> HIDE DEF order
  <1>1. ASSUME NEW r \in R, NEW x \in Hash PROVE To(r, x) \in R
    BY TakeOutTypes
  <1>2. step \in [R \X Hash -> R]
    <2> HIDE DEF R, To
    <2> QED BY <1>1
  <1>3. ASSUME NEW r \in R, NEW x \in Hash PROVE step[r, x] = To(r, x)
    <2> HIDE DEF R, To
    <2> QED OBVIOUS
  <1>4. order \in Seq(Hash) /\ DOMAIN order = 1 .. Len(order) /\ Len(order) \in Nat
        /\ \A i \in DOMAIN order : order[i] \in Hash
    BY <1>12, <1>14
  <1>5. s \in R
    BY DEF Clear, Sound
  <1> HIDE DEF R, To
  <1>6. ASSUME NEW u \in SUBSET DOMAIN order, u # {}
        PROVE  Sq!Max(u) = Top(u) /\ Top(u) \in DOMAIN order /\ u \ {Top(u)} \in SUBSET DOMAIN order
    <2>1. Sq!Max(u) = Top(u)
      BY DEF Sq!Max, Top
    <2> QED BY <1>4, <1>6, <2>1, TopOfIndices
  <1> DEFINE Is(g) == g = [u \in SUBSET DOMAIN order |->
                             IF u = {} THEN s
                             ELSE To(g[u \ {Sq!Max(u)}], order[Sq!Max(u)])]
             G == CHOOSE g : Is(g)
  <1>7. Sq!FoldLeft(TakeOut, s, order) = G[DOMAIN order]
    BY DEF Sq!FoldLeft, Sq!MapThenFoldSet, To
  <1>8. Is(G)
    <2>1. PICK g \in [SUBSET DOMAIN order -> R] : Folds(g, step, s, order)
      <3> HIDE DEF step
      <3> QED BY <1>2, <1>4, <1>5, FoldExists
    <2>2. ASSUME NEW u \in SUBSET DOMAIN order
          PROVE  g[u] = IF u = {} THEN s ELSE To(g[u \ {Sq!Max(u)}], order[Sq!Max(u)])
      <3>1. CASE u = {}
        BY <2>1, <3>1 DEF Folds
      <3>2. CASE u # {}
        <4>1. g[u] = step[g[u \ {Top(u)}], order[Top(u)]]
          BY <2>1, <3>2 DEF Folds
        <4> HIDE DEF step
        <4> QED BY <1>3, <1>4, <1>6, <3>2, <4>1
      <3> QED BY <3>1, <3>2
    <2>3. g = [u \in SUBSET DOMAIN order |-> g[u]]
      OBVIOUS
    <2>4. Is(g)
      BY <2>2, <2>3
    <2> HIDE DEF Is
    <2> QED BY <2>4
  <1>9. FoldsIn(R, G, step, s, order)
    <2>1. ASSUME NEW u \in SUBSET DOMAIN order
          PROVE  G[u] = IF u = {} THEN s ELSE To(G[u \ {Sq!Max(u)}], order[Sq!Max(u)])
      <3> HIDE DEF G
      <3> QED BY <1>8
    <2> HIDE DEF G
    <2>2. G[{}] = s
      BY <2>1
    <2>3. ASSUME NEW u \in SUBSET DOMAIN order, u # {}, G[u \ {Top(u)}] \in R
          PROVE  G[u] = step[G[u \ {Top(u)}], order[Top(u)]]
      <3>1. G[u] = To(G[u \ {Top(u)}], order[Top(u)])
        BY <1>6, <2>1, <2>3
      <3> HIDE DEF step
      <3> QED BY <1>3, <1>4, <1>6, <2>3, <3>1
    <2> HIDE DEF step
    <2> QED BY <2>2, <2>3 DEF FoldsIn
  <1> HIDE DEF G, step
  <1>10. PICK f : Along(f, R, G, step, s, order)
    BY <1>2, <1>4, <1>5, <1>9, FoldSteps
  <1>11. Sq!FoldLeft(TakeOut, s, order) = f[Len(order)]
    BY <1>4, <1>7, <1>10 DEF Along
  <1> DEFINE Before(i) == {order[j] : j \in 1 .. i}
             Done(i) == Clear(f[i]) /\ SameChoice(s, f[i]) /\ f[i].items = s.items \ Before(i)
             T == {i \in 0 .. Len(order) : Done(i)}
  <1>15. 0 \in T
    <2>1. f[0] = s
      BY <1>10 DEF Along
    <2>2. Before(0) = {}
      OBVIOUS
    <2>3. s.items \ Before(0) = s.items
      BY <2>2
    <2> HIDE DEF Before
    <2> QED BY <1>4, <2>1, <2>3 DEF SameChoice
  <1>16. ASSUME NEW i \in 1 .. Len(order), i - 1 \in T PROVE i \in T
    <2> DEFINE h == order[i]
               r == f[i - 1]
    <2>1. i \in DOMAIN order /\ i - 1 \in 0 .. Len(order) /\ h \in gone /\ h \in Hash
      BY <1>4, <1>12, <1>14
    <2>2. f[i] = TakeOut(r, h)
      <3>1. r \in R /\ f[i] = step[r, h]
        BY <1>10, <2>1 DEF Along
      <3> QED BY <1>3, <2>1, <3>1 DEF To
    <2>3. Before(i) = Before(i - 1) \cup {h}
      BY <1>4
    <2>4. h \notin Before(i - 1)
      <3>1. \A j \in 1 .. i - 1 : j \in DOMAIN order /\ j # i
        BY <1>4
      <3> QED BY <1>14, <2>1, <3>1
    <2> HIDE DEF Before
    <2>5. Clear(r) /\ SameChoice(s, r) /\ r.items = s.items \ Before(i - 1)
      BY <1>16
    <2>6. h \in Heads(r.items)
      BY <1>12, <2>1, <2>4, <2>5 DEF Heads, HeadSet, Children
    <2> HIDE DEF h, r
    <2>7. f[i] = Without(r, h, r.verified \ {h})
      BY <2>2, <2>5, <2>6, TakeOutHead
    <2>8. Clear(f[i]) /\ SameChoice(r, f[i]) /\ f[i].items = r.items \ {h}
      BY <2>1, <2>5, <2>7, WithoutIsClear
    <2>9. f[i].items = s.items \ Before(i)
      BY <2>3, <2>5, <2>8
    <2> QED BY <2>5, <2>8, <2>9 DEF SameChoice
  <1> HIDE DEF T
  <1>17. Len(order) \in T
    <2> DEFINE n == Len(order)
    <2>1. n \in Nat /\ \A i \in 1 .. n : i - 1 \in T => i \in T
      BY <1>4, <1>16
    <2> HIDE DEF n
    <2>2. n \in T
      BY <1>15, <2>1, UpTo
    <2> QED BY <2>2 DEF n
  <1>18. Done(Len(order))
    BY <1>17 DEF T
  <1> QED BY <1>11, <1>13, <1>18

LEMMA RoundsType == Rounds \in Seq(Nat)
  <1>1. \A i \in 1 .. Cardinality(Hash) : i \in Nat
    OBVIOUS
  <1> QED BY <1>1, ConstantTypes DEF Rounds

LEMMA EatHeadsKeeps ==
  ASSUME NEW s, Clear(s), NEW old, NEW quiet
  PROVE  Clear(EatHeads(s, old, quiet)) /\ SameChoice(s, EatHeads(s, old, quiet))
  <1> DEFINE e == Sq!FoldLeft(LAMBDA r, i : EatRound(r, old, quiet), s, Rounds)
             R == {r \in State(Sets) : Clear(r) /\ SameChoice(s, r)}
             To(r, x) == EatRound(r, old, quiet)
             step == [y \in R \X Nat |-> To(y[1], y[2])]
  <1>1. ASSUME NEW r \in R, NEW x \in Nat PROVE To(r, x) \in R
    <2>1. Clear(EatRound(r, old, quiet)) /\ SameChoice(r, EatRound(r, old, quiet))
      BY <1>1, EatRoundKeeps
    <2> QED BY <1>1, <2>1 DEF Clear, Sound, SameChoice
  <1>2. step \in [R \X Nat -> R]
    <2> HIDE DEF R, To
    <2> QED BY <1>1
  <1>3. ASSUME NEW r \in R, NEW x \in Nat PROVE step[r, x] = To(r, x)
    <2> HIDE DEF R, To
    <2> QED OBVIOUS
  <1>4. Rounds \in Seq(Nat) /\ DOMAIN Rounds = 1 .. Len(Rounds) /\ Len(Rounds) \in Nat
        /\ \A i \in DOMAIN Rounds : Rounds[i] \in Nat
    BY RoundsType
  <1>5. s \in R
    BY DEF Clear, Sound, SameChoice
  <1> HIDE DEF R, To
  <1>6. ASSUME NEW u \in SUBSET DOMAIN Rounds, u # {}
        PROVE  Sq!Max(u) = Top(u) /\ Top(u) \in DOMAIN Rounds /\ u \ {Top(u)} \in SUBSET DOMAIN Rounds
    <2>1. Sq!Max(u) = Top(u)
      BY DEF Sq!Max, Top
    <2> QED BY <1>4, <1>6, <2>1, TopOfIndices
  <1> DEFINE Is(g) == g = [u \in SUBSET DOMAIN Rounds |->
                             IF u = {} THEN s
                             ELSE To(g[u \ {Sq!Max(u)}], Rounds[Sq!Max(u)])]
             G == CHOOSE g : Is(g)
  <1>7. e = G[DOMAIN Rounds]
    BY DEF e, Sq!FoldLeft, Sq!MapThenFoldSet, To
  <1>8. Is(G)
    <2>1. PICK g \in [SUBSET DOMAIN Rounds -> R] : Folds(g, step, s, Rounds)
      <3> HIDE DEF step
      <3> QED BY <1>2, <1>4, <1>5, FoldExists
    <2>2. ASSUME NEW u \in SUBSET DOMAIN Rounds
          PROVE  g[u] = IF u = {} THEN s ELSE To(g[u \ {Sq!Max(u)}], Rounds[Sq!Max(u)])
      <3>1. CASE u = {}
        BY <2>1, <3>1 DEF Folds
      <3>2. CASE u # {}
        <4>1. g[u] = step[g[u \ {Top(u)}], Rounds[Top(u)]]
          BY <2>1, <3>2 DEF Folds
        <4> HIDE DEF step
        <4> QED BY <1>3, <1>4, <1>6, <3>2, <4>1
      <3> QED BY <3>1, <3>2
    <2>3. g = [u \in SUBSET DOMAIN Rounds |-> g[u]]
      OBVIOUS
    <2>4. Is(g)
      BY <2>2, <2>3
    <2> HIDE DEF Is
    <2> QED BY <2>4
  <1>9. FoldsIn(R, G, step, s, Rounds)
    <2>1. ASSUME NEW u \in SUBSET DOMAIN Rounds
          PROVE  G[u] = IF u = {} THEN s ELSE To(G[u \ {Sq!Max(u)}], Rounds[Sq!Max(u)])
      <3> HIDE DEF G
      <3> QED BY <1>8
    <2> HIDE DEF G
    <2>2. G[{}] = s
      BY <2>1
    <2>3. ASSUME NEW u \in SUBSET DOMAIN Rounds, u # {}, G[u \ {Top(u)}] \in R
          PROVE  G[u] = step[G[u \ {Top(u)}], Rounds[Top(u)]]
      <3>1. G[u] = To(G[u \ {Top(u)}], Rounds[Top(u)])
        BY <1>6, <2>1, <2>3
      <3> HIDE DEF step
      <3> QED BY <1>3, <1>4, <1>6, <2>3, <3>1
    <2> HIDE DEF step
    <2> QED BY <2>2, <2>3 DEF FoldsIn
  <1> HIDE DEF G, step
  <1>10. PICK f : Along(f, R, G, step, s, Rounds)
    BY <1>2, <1>4, <1>5, <1>9, FoldSteps
  <1>11. e = f[Len(Rounds)] /\ f[Len(Rounds)] \in R
    BY <1>4, <1>7, <1>10 DEF Along
  <1>12. Clear(e) /\ SameChoice(s, e)
    BY <1>11 DEF R
  <1>13. EatHeads(s, old, quiet) = IF s.top = {} THEN s ELSE e
    BY DEF EatHeads
  <1> HIDE DEF e
  <1> QED BY <1>12, <1>13 DEF SameChoice

LEMMA DropRoundKeeps ==
  ASSUME NEW s, Clear(s)
  PROVE  Clear(DropRound(s)) /\ SameChoice(s, DropRound(s))
  <1> DEFINE tall == {t \in Tails(s.items) :
                       \A h \in Over(s.items, t) : get_height(s.items, h) >= 2 * CHAIN_LENGTH + Slack}
             roots == UNION {Kids(s.items, t) : t \in tall}
             order == Sq!SetToSeq(roots)
  <1>12. DropRound(s) = Sq!FoldLeft(TakeRoot, s, order)
    BY DEF DropRound
  <1>13. roots \subseteq Hash /\ IsFiniteSet(roots)
    <2>1. roots \subseteq Hash
      BY DEF Kids, Children, Clear, Sound, State, Sets
    <2> QED BY <2>1, ShareChainAssumption, FS_Subset
  <1> HIDE DEF roots
  <1>14. order \in Seq(roots)
    BY <1>13, SetInOrder
  <1> HIDE DEF order
  <1> DEFINE R == {r \in State(Sets) : Clear(r) /\ SameChoice(s, r)}
             To(r, x) == TakeRoot(r, x)
             step == [y \in R \X Hash |-> To(y[1], y[2])]
  <1>1. ASSUME NEW r \in R, NEW x \in Hash PROVE To(r, x) \in R
    <2>1. Clear(TakeRoot(r, x)) /\ SameChoice(r, TakeRoot(r, x))
      BY <1>1, TakeRootKeeps
    <2> QED BY <1>1, <2>1 DEF Clear, Sound, SameChoice
  <1>2. step \in [R \X Hash -> R]
    <2> HIDE DEF R, To
    <2> QED BY <1>1
  <1>3. ASSUME NEW r \in R, NEW x \in Hash PROVE step[r, x] = To(r, x)
    <2> HIDE DEF R, To
    <2> QED OBVIOUS
  <1>4. order \in Seq(Hash) /\ DOMAIN order = 1 .. Len(order) /\ Len(order) \in Nat
        /\ \A i \in DOMAIN order : order[i] \in Hash
    BY <1>13, <1>14
  <1>5. s \in R
    BY DEF Clear, Sound, SameChoice
  <1> HIDE DEF R, To
  <1>6. ASSUME NEW u \in SUBSET DOMAIN order, u # {}
        PROVE  Sq!Max(u) = Top(u) /\ Top(u) \in DOMAIN order /\ u \ {Top(u)} \in SUBSET DOMAIN order
    <2>1. Sq!Max(u) = Top(u)
      BY DEF Sq!Max, Top
    <2> QED BY <1>4, <1>6, <2>1, TopOfIndices
  <1> DEFINE Is(g) == g = [u \in SUBSET DOMAIN order |->
                             IF u = {} THEN s
                             ELSE To(g[u \ {Sq!Max(u)}], order[Sq!Max(u)])]
             G == CHOOSE g : Is(g)
  <1>7. Sq!FoldLeft(TakeRoot, s, order) = G[DOMAIN order]
    BY DEF Sq!FoldLeft, Sq!MapThenFoldSet, To
  <1>8. Is(G)
    <2>1. PICK g \in [SUBSET DOMAIN order -> R] : Folds(g, step, s, order)
      <3> HIDE DEF step
      <3> QED BY <1>2, <1>4, <1>5, FoldExists
    <2>2. ASSUME NEW u \in SUBSET DOMAIN order
          PROVE  g[u] = IF u = {} THEN s ELSE To(g[u \ {Sq!Max(u)}], order[Sq!Max(u)])
      <3>1. CASE u = {}
        BY <2>1, <3>1 DEF Folds
      <3>2. CASE u # {}
        <4>1. g[u] = step[g[u \ {Top(u)}], order[Top(u)]]
          BY <2>1, <3>2 DEF Folds
        <4> HIDE DEF step
        <4> QED BY <1>3, <1>4, <1>6, <3>2, <4>1
      <3> QED BY <3>1, <3>2
    <2>3. g = [u \in SUBSET DOMAIN order |-> g[u]]
      OBVIOUS
    <2>4. Is(g)
      BY <2>2, <2>3
    <2> HIDE DEF Is
    <2> QED BY <2>4
  <1>9. FoldsIn(R, G, step, s, order)
    <2>1. ASSUME NEW u \in SUBSET DOMAIN order
          PROVE  G[u] = IF u = {} THEN s ELSE To(G[u \ {Sq!Max(u)}], order[Sq!Max(u)])
      <3> HIDE DEF G
      <3> QED BY <1>8
    <2> HIDE DEF G
    <2>2. G[{}] = s
      BY <2>1
    <2>3. ASSUME NEW u \in SUBSET DOMAIN order, u # {}, G[u \ {Top(u)}] \in R
          PROVE  G[u] = step[G[u \ {Top(u)}], order[Top(u)]]
      <3>1. G[u] = To(G[u \ {Top(u)}], order[Top(u)])
        BY <1>6, <2>1, <2>3
      <3> HIDE DEF step
      <3> QED BY <1>3, <1>4, <1>6, <2>3, <3>1
    <2> HIDE DEF step
    <2> QED BY <2>2, <2>3 DEF FoldsIn
  <1> HIDE DEF G, step
  <1>10. PICK f : Along(f, R, G, step, s, order)
    BY <1>2, <1>4, <1>5, <1>9, FoldSteps
  <1>11. Sq!FoldLeft(TakeRoot, s, order) = f[Len(order)] /\ f[Len(order)] \in R
    BY <1>4, <1>7, <1>10 DEF Along
  <1> QED BY <1>11, <1>12 DEF R

LEMMA DropTailsKeeps ==
  ASSUME NEW s, Clear(s)
  PROVE  Clear(DropTails(s)) /\ SameChoice(s, DropTails(s))
  <1> DEFINE R == {r \in State(Sets) : Clear(r) /\ SameChoice(s, r)}
             To(r, x) == DropRound(r)
             step == [y \in R \X Nat |-> To(y[1], y[2])]
  <1>1. ASSUME NEW r \in R, NEW x \in Nat PROVE To(r, x) \in R
    <2>1. Clear(DropRound(r)) /\ SameChoice(r, DropRound(r))
      BY <1>1, DropRoundKeeps
    <2> QED BY <1>1, <2>1 DEF Clear, Sound, SameChoice
  <1>2. step \in [R \X Nat -> R]
    <2> HIDE DEF R, To
    <2> QED BY <1>1
  <1>3. ASSUME NEW r \in R, NEW x \in Nat PROVE step[r, x] = To(r, x)
    <2> HIDE DEF R, To
    <2> QED OBVIOUS
  <1>4. Rounds \in Seq(Nat) /\ DOMAIN Rounds = 1 .. Len(Rounds) /\ Len(Rounds) \in Nat
        /\ \A i \in DOMAIN Rounds : Rounds[i] \in Nat
    BY RoundsType
  <1>5. s \in R
    BY DEF Clear, Sound, SameChoice
  <1> HIDE DEF R, To
  <1>6. ASSUME NEW u \in SUBSET DOMAIN Rounds, u # {}
        PROVE  Sq!Max(u) = Top(u) /\ Top(u) \in DOMAIN Rounds /\ u \ {Top(u)} \in SUBSET DOMAIN Rounds
    <2>1. Sq!Max(u) = Top(u)
      BY DEF Sq!Max, Top
    <2> QED BY <1>4, <1>6, <2>1, TopOfIndices
  <1> DEFINE Is(g) == g = [u \in SUBSET DOMAIN Rounds |->
                             IF u = {} THEN s
                             ELSE To(g[u \ {Sq!Max(u)}], Rounds[Sq!Max(u)])]
             G == CHOOSE g : Is(g)
  <1>7. DropTails(s) = G[DOMAIN Rounds]
    BY DEF DropTails, Sq!FoldLeft, Sq!MapThenFoldSet, To
  <1>8. Is(G)
    <2>1. PICK g \in [SUBSET DOMAIN Rounds -> R] : Folds(g, step, s, Rounds)
      <3> HIDE DEF step
      <3> QED BY <1>2, <1>4, <1>5, FoldExists
    <2>2. ASSUME NEW u \in SUBSET DOMAIN Rounds
          PROVE  g[u] = IF u = {} THEN s ELSE To(g[u \ {Sq!Max(u)}], Rounds[Sq!Max(u)])
      <3>1. CASE u = {}
        BY <2>1, <3>1 DEF Folds
      <3>2. CASE u # {}
        <4>1. g[u] = step[g[u \ {Top(u)}], Rounds[Top(u)]]
          BY <2>1, <3>2 DEF Folds
        <4> HIDE DEF step
        <4> QED BY <1>3, <1>4, <1>6, <3>2, <4>1
      <3> QED BY <3>1, <3>2
    <2>3. g = [u \in SUBSET DOMAIN Rounds |-> g[u]]
      OBVIOUS
    <2>4. Is(g)
      BY <2>2, <2>3
    <2> HIDE DEF Is
    <2> QED BY <2>4
  <1>9. FoldsIn(R, G, step, s, Rounds)
    <2>1. ASSUME NEW u \in SUBSET DOMAIN Rounds
          PROVE  G[u] = IF u = {} THEN s ELSE To(G[u \ {Sq!Max(u)}], Rounds[Sq!Max(u)])
      <3> HIDE DEF G
      <3> QED BY <1>8
    <2> HIDE DEF G
    <2>2. G[{}] = s
      BY <2>1
    <2>3. ASSUME NEW u \in SUBSET DOMAIN Rounds, u # {}, G[u \ {Top(u)}] \in R
          PROVE  G[u] = step[G[u \ {Top(u)}], Rounds[Top(u)]]
      <3>1. G[u] = To(G[u \ {Top(u)}], Rounds[Top(u)])
        BY <1>6, <2>1, <2>3
      <3> HIDE DEF step
      <3> QED BY <1>3, <1>4, <1>6, <2>3, <3>1
    <2> HIDE DEF step
    <2> QED BY <2>2, <2>3 DEF FoldsIn
  <1> HIDE DEF G, step
  <1>10. PICK f : Along(f, R, G, step, s, Rounds)
    BY <1>2, <1>4, <1>5, <1>9, FoldSteps
  <1>11. DropTails(s) = f[Len(Rounds)] /\ f[Len(Rounds)] \in R
    BY <1>4, <1>7, <1>10 DEF Along
  <1> QED BY <1>11 DEF R

\* The working state in which clean_tracker() chooses the best share again, or ends early.
LEMMA CleanEnds ==
  ASSUME NEW s, Ended(s), NEW old, NEW quiet
  PROVE  LET r == IF s.error = "none" THEN DropTails(EatHeads(s, old, quiet)) ELSE s
         IN /\ r.error = "none" => Clear(r)
            /\ r.error # "none" => Ended(r)
  <1>1. CASE s.error = "none"
    <2>1. Clear(s)
      BY <1>1 DEF Ended, Clear
    <2>2. Clear(EatHeads(s, old, quiet))
      BY <2>1, EatHeadsKeeps
    <2>3. Clear(DropTails(EatHeads(s, old, quiet)))
      BY <2>2, DropTailsKeeps
    <2> QED BY <1>1, <2>3 DEF Clear
  <1>2. CASE s.error # "none"
    BY <1>2
  <1> QED BY <1>1, <1>2

-----------------------------------------------------------------------------
\* What a peer with every share answers.

LEMMA AnswerIsShares ==
  ASSUME Fixed, NEW h \in Hash, NEW parents \in Nat
  PROVE  handle_get_shares(h, parents) \subseteq Hash
  <1> DEFINE upTo(x) == nth_parent(x, Min({Max({0, get_height(items, x) - 1}), 2 * Few}))
             stops   == Heads(items) \cup {upTo(x) : x \in Heads(items)}
             tall    == get_height(Hash, h)
             n       == Min({parents + 1, tall})
             line    == get_chain(h, n)
             stop    == {i \in DOMAIN line : line[i] \in stops}
             part    == IF stop = {} THEN line ELSE SubSeq(line, 1, Min(stop) - 1)
  <1>1. handle_get_shares(h, parents) = Range(part)
    BY DEF handle_get_shares
  <1> HIDE DEF stops
  <1>2. IsForest(Hash, previous_hash) /\ h \in Node
    BY DEF Fixed, IsForest, Node
  <1>3. tall \in Nat
    BY <1>2, HeightEq
  <1>4. n \in Nat /\ n <= tall
    <2> HIDE DEF tall
    <2>1. parents + 1 \in Int /\ tall \in Int
      BY <1>3
    <2>2. n = IF parents + 1 <= tall THEN parents + 1 ELSE tall
      BY ONLY <2>1, OfTwo
    <2> HIDE DEF n
    <2> QED BY <1>3, <2>2
  <1> HIDE DEF n
  <1>5. line \in Seq(Hash) /\ Len(line) = n /\ DOMAIN line = 1 .. n
    BY <1>2, <1>4, ChainOf
  <1> HIDE DEF line
  <1>6. part \in Seq(Hash)
    <2>1. CASE stop = {}
      BY <1>5, <2>1
    <2>2. CASE stop # {}
      <3>1. stop \in SUBSET (1 .. n)
        BY <1>5
      <3>2. part = SubSeq(line, 1, Min(stop) - 1)
        BY <2>2
      <3> HIDE DEF stop, part
      <3>3. Min(stop) \in stop
        BY ONLY <1>4, <2>2, <3>1, LeastOf
      <3>4. Min(stop) \in 1 .. n
        BY ONLY <3>1, <3>3
      <3>5. Min(stop) - 1 \in 0 .. Len(line)
        <4> HIDE DEF tall
        <4> QED BY <1>4, <1>5, <3>4
      <3> QED BY <1>5, <3>2, <3>5, Beginning
    <2> QED BY <2>1, <2>2
  <1> HIDE DEF part
  <1> QED BY <1>1, <1>6 DEF Range

-----------------------------------------------------------------------------
\* What think() leaves asked for, where no share is dated before the one it is built on. A share
\* that passes check() is not; of one that fails nothing is known.

TimesGrow ==
  \A p \in Forests : \A h \in Hash : p[h] \in Hash => Timestamp[p[h]] <= Timestamp[h]

Grown ==
  \A h \in Hash : previous_hash[h] \in Hash => Timestamp[previous_hash[h]] <= Timestamp[h]

\* The shares of I that h is, or is under.
Upon(I, h) == {y \in I : h \in Chain(I, previous_hash)[y]}

\* What a walk meets are its nth parents.
LEMMA WalkMeets ==
  ASSUME NEW I, IsForest(I, previous_hash), NEW x \in Node
  PROVE  /\ \A n \in 0 .. get_height(I, x) : nth_parent(x, n) \in Chain(I, previous_hash)[x]
         /\ \A y \in Chain(I, previous_hash)[x] : \E n \in 0 .. get_height(I, x) : y = nth_parent(x, n)
  <1> DEFINE C(z) == Chain(I, previous_hash)[z]
             tall == get_height(I, x)
             up(n) == nth_parent(x, n)
  <1>0. tall \in Nat
    BY HeightEq
  <1>1. \A z \in Node : \A y : y \in C(z) <=> (y = z \/ (z \in I /\ y \in C(previous_hash[z])))
    BY ChainEq
  <1>2. ASSUME NEW n \in 0 .. tall PROVE up(n) \in Node /\ (n < tall => up(n) \in I)
    BY <1>0, Ancestor
  <1>3. up(0) = x /\ \A n \in 1 .. tall : up(n) = previous_hash[up(n - 1)]
    <2>1. \A n \in 1 .. tall : n - 1 \in Nat /\ (n - 1) + 1 = n
      BY <1>0
    <2> QED BY <2>1, NthParent
  <1>4. up(tall) \notin I
    <2>1. get_height(I, up(tall)) = tall - tall
      BY <1>0, Ancestor
    <2>2. get_height(I, up(tall)) = 0 /\ up(tall) \in Node
      BY <1>0, <1>2, <2>1
    <2> HIDE DEF up
    <2> QED BY <2>2, HeightEq
  <1>5. \A n \in 0 .. tall : up(n) \in C(x)
    <2> DEFINE T == {n \in 0 .. tall : up(n) \in C(x)}
    <2>1. 0 \in T
      BY <1>0, <1>1, <1>3
    <2>2. ASSUME NEW n \in 1 .. tall, n - 1 \in T PROVE n \in T
      <3>1. n - 1 \in 0 .. tall /\ n - 1 < tall /\ up(n - 1) \in C(x) /\ n \in 0 .. tall
        BY <1>0, <2>2
      <3>2. up(n - 1) \in Node /\ up(n - 1) \in I /\ previous_hash[up(n - 1)] \in Node
        <4>1. up(n - 1) \in Node /\ up(n - 1) \in I
          BY <1>2, <3>1
        <4> HIDE DEF up
        <4> QED BY <4>1, HeightEq
      <3>3. up(n) \in C(up(n - 1))
        <4>1. up(n) = previous_hash[up(n - 1)]
          BY <1>3
        <4> HIDE DEF up, C
        <4> QED BY <1>1, <3>2, <4>1
      <3>4. up(n) \in C(x)
        <4> HIDE DEF up
        <4> QED BY <3>1, <3>3, ChainGoesOn
      <3> QED BY <3>1, <3>4
    <2> HIDE DEF T
    <2>3. \A n \in 0 .. tall : n \in T
      BY <1>0, <2>1, <2>2, UpTo
    <2> QED BY <2>3 DEF T
  <1>6. ASSUME NEW y \in C(x) PROVE \E n \in 0 .. tall : y = up(n)
    <2> SUFFICES ASSUME \A n \in 0 .. tall : y # up(n) PROVE FALSE
      OBVIOUS
    <2> DEFINE T == {n \in 0 .. tall : y \in C(up(n))}
    <2>1. 0 \in T
      BY <1>0, <1>3, <1>6
    <2>2. ASSUME NEW n \in 1 .. tall, n - 1 \in T PROVE n \in T
      <3>1. n - 1 \in 0 .. tall /\ n \in 0 .. tall /\ y \in C(up(n - 1))
        BY <1>0, <2>2
      <3>2. up(n - 1) \in Node /\ up(n) = previous_hash[up(n - 1)] /\ y # up(n - 1)
        BY <1>2, <1>3, <3>1
      <3>3. y \in C(up(n))
        <4> HIDE DEF up, C
        <4> QED BY <1>1, <3>1, <3>2
      <3> QED BY <3>1, <3>3
    <2> HIDE DEF T
    <2>3. tall \in T
      BY <1>0, <2>1, <2>2, UpTo
    <2>4. y \in C(up(tall)) /\ up(tall) \in Node /\ y # up(tall)
      BY <1>0, <1>2, <2>3 DEF T
    <2> HIDE DEF up, C
    <2> QED BY <1>1, <1>4, <2>4
  <1> QED BY <1>5, <1>6

\* A share is dated no later than one above it.
LEMMA Older ==
  ASSUME Grown, NEW I, IsForest(I, previous_hash), NEW x \in I, NEW y \in I,
         y \in Chain(I, previous_hash)[x]
  PROVE  Timestamp[y] <= Timestamp[x]
  <1> DEFINE S == {z \in Node : z \in I /\ y \in Chain(I, previous_hash)[z] => Timestamp[y] <= Timestamp[z]}
  <1>1. \A z \in Node : \A u :
          u \in Chain(I, previous_hash)[z] <=> (u = z \/ (z \in I /\ u \in Chain(I, previous_hash)[previous_hash[z]]))
    BY ChainEq
  <1>2. I \subseteq Hash /\ I \subseteq Node /\ \A z \in Hash : Timestamp[z] \in Nat
    BY ShareChainAssumption DEF IsForest, Node
  <1>3. ASSUME NEW z \in Node, \A u \in Node : u < z => u \in S PROVE z \in S
    <2> SUFFICES ASSUME z \in I, y \in Chain(I, previous_hash)[z], y # z PROVE Timestamp[y] <= Timestamp[z]
      BY <1>2, <1>3
    <2> DEFINE u == previous_hash[z]
    <2>1. u \in Node /\ u < z /\ y \in Chain(I, previous_hash)[u]
      BY <1>1, <1>2, PreviousIsEarlier DEF IsForest
    <2>2. u \in I
      <3>1. u \notin I => y = u
        <4> HIDE DEF u
        <4> QED BY <1>1, <2>1
      <3> QED BY <3>1
    <2>3. u \in S
      BY <1>3, <2>1
    <2>4. Timestamp[y] <= Timestamp[u]
      BY <2>1, <2>2, <2>3
    <2>5. Timestamp[u] <= Timestamp[z]
      BY <1>2, <2>2 DEF Grown
    <2>6. Timestamp[y] \in Nat /\ Timestamp[u] \in Nat /\ Timestamp[z] \in Nat
      BY <1>2, <2>2
    <2> QED BY <2>4, <2>5, <2>6
  <1> HIDE DEF S
  <1>4. x \in S
    BY <1>2, <1>3, NodeInduction
  <1> QED BY <1>2, <1>4 DEF S

\* The newest of the few shares at a head is the head.
LEMMA NewestIs ==
  ASSUME Grown, NEW I, IsForest(I, previous_hash), NEW x \in I
  PROVE  newest(I, x) = Timestamp[x]
  <1> DEFINE tall == get_height(I, x)
             m == Min({Few, tall})
             line == get_chain(x, m)
             T == {Timestamp[y] : y \in Range(line)}
  <1>1. x \in Node /\ x \in Hash /\ \A z \in Hash : Timestamp[z] \in Nat
    BY ShareChainAssumption DEF IsForest, Node
  <1>2. tall \in Nat /\ tall >= 1
    BY <1>1, HeightEq
  <1>3. m \in Nat /\ m >= 1 /\ m <= tall
    <2> HIDE DEF tall
    <2>1. Few \in Int /\ tall \in Int /\ Few >= 1
      BY <1>2, ConstantTypes
    <2>2. m = IF Few <= tall THEN Few ELSE tall
      BY ONLY <2>1, OfTwo
    <2> HIDE DEF m
    <2> QED BY <1>2, <2>1, <2>2, ConstantTypes
  <1> HIDE DEF m
  <1>4. /\ line \in Seq(I) /\ Len(line) = m /\ DOMAIN line = 1 .. m
        /\ \A i \in 1 .. m : line[i] = nth_parent(x, i - 1)
    BY <1>1, <1>3, ChainOf
  <1>5. line[1] = x /\ x \in Range(line)
    <2>1. 1 \in 1 .. m /\ 1 - 1 = 0
      BY <1>3
    <2>2. line[1] = nth_parent(x, 0)
      BY <1>4, <2>1
    <2> HIDE DEF line
    <2> QED BY <1>4, <2>1, <2>2, NthParent DEF Range
  <1>6. ASSUME NEW y \in Range(line) PROVE Timestamp[y] \in Nat /\ Timestamp[y] <= Timestamp[x]
    <2>1. PICK i \in 1 .. m : y = line[i]
      BY <1>4 DEF Range
    <2>2. y \in I /\ y = nth_parent(x, i - 1)
      <3> HIDE DEF line
      <3>1. line[i] \in I
        BY <1>4
      <3> QED BY <1>4, <2>1, <3>1
    <2>3. i - 1 \in 0 .. tall
      BY <1>2, <1>3
    <2>4. y \in Chain(I, previous_hash)[x]
      BY <1>1, <2>2, <2>3, WalkMeets
    <2>5. y \in Hash
      BY <2>2 DEF IsForest
    <2> QED BY <1>1, <2>2, <2>4, <2>5, Older
  <1>7. Timestamp[x] \in T /\ \A t \in T : t \in Nat /\ t <= Timestamp[x]
    BY <1>5, <1>6
  <1>8. newest(I, x) = Max(T)
    BY DEF newest, m, tall
  <1>9. Timestamp[x] \in Nat
    BY <1>1
  <1> HIDE DEF T
  <1>10. \A t : (t \in T /\ \A u \in T : t >= u) => t = Timestamp[x]
    BY <1>7, <1>9
  <1>11. Timestamp[x] \in T /\ \A u \in T : Timestamp[x] >= u
    BY <1>7, <1>9
  <1> QED BY <1>8, <1>10, <1>11 DEF Max

\* Over every share there is a head.
LEMMA HeadOver ==
  ASSUME NEW I, IsForest(I, previous_hash), NEW h \in I
  PROVE  \E g \in Heads(I) : g \in Upon(I, h)
  <1> DEFINE C(z) == Chain(I, previous_hash)[z]
  <1>1. \A z \in Node : \A u : u \in C(z) <=> (u = z \/ (z \in I /\ u \in C(previous_hash[z])))
    BY ChainEq
  <1>2. I \subseteq Hash /\ I \subseteq Node /\ Hash \subseteq Nat /\ IsFiniteSet(I)
    BY HashAssumption, ShareChainAssumption, FS_Subset DEF IsForest, Node
  <1>3. Upon(I, h) \in SUBSET Nat /\ IsFiniteSet(Upon(I, h)) /\ h \in Upon(I, h)
    BY <1>1, <1>2, FS_Subset DEF Upon
  <1>4. PICK g \in Upon(I, h) : \A y \in Upon(I, h) : g >= y
    <2>1. Upon(I, h) # {}
      BY <1>3
    <2> QED BY <1>3, <2>1, Greatest
  <1>5. g \in I /\ h \in C(g)
    BY <1>4 DEF Upon
  <1>6. ASSUME NEW y \in I, previous_hash[y] = g PROVE FALSE
    <2>1. y \in Node /\ y \in Hash /\ g < y /\ g \in Nat /\ y \in Nat
      BY <1>2, <1>5, <1>6, PreviousIsEarlier DEF IsForest
    <2>2. h \in C(y)
      BY <1>1, <1>5, <1>6, <2>1
    <2>3. g >= y
      BY <1>4, <1>6, <2>2 DEF Upon
    <2> QED BY <2>1, <2>3
  <1>7. g \in Heads(I)
    BY <1>5, <1>6 DEF Heads, HeadSet, Children
  <1> QED BY <1>4, <1>7

LEMMA NthPlus ==
  ASSUME NEW x, NEW a \in Nat, NEW b \in Nat
  PROVE  nth_parent(nth_parent(x, a), b) = nth_parent(x, a + b)
  <1> DEFINE y == nth_parent(x, a)
             T == {k \in 0 .. b : nth_parent(y, k) = nth_parent(x, a + k)}
  <1>1. 0 \in T
    <2>1. nth_parent(y, 0) = y /\ a + 0 = a
      BY NthParent
    <2> QED BY <2>1
  <1>2. ASSUME NEW k \in 1 .. b, k - 1 \in T PROVE k \in T
    <2>1. k - 1 \in Nat /\ (k - 1) + 1 = k /\ a + (k - 1) \in Nat /\ (a + (k - 1)) + 1 = a + k /\ k \in 0 .. b
      OBVIOUS
    <2>2. nth_parent(y, k - 1) = nth_parent(x, a + (k - 1))
      BY <1>2
    <2>3. nth_parent(y, k) = previous_hash[nth_parent(y, k - 1)]
      <3> HIDE DEF y
      <3> QED BY <2>1, NthParent
    <2>4. nth_parent(x, a + k) = previous_hash[nth_parent(x, a + (k - 1))]
      BY <2>1, NthParent
    <2> QED BY <2>1, <2>2, <2>3, <2>4
  <1> HIDE DEF T
  <1>3. b \in T
    BY <1>1, <1>2, UpTo
  <1> QED BY <1>3 DEF T

\* What is known of a share h of I when the heads P have been judged: what is missing under it is
\* desired; or it or a share above it is verified; or it is listed as bad after all that are above it
\* and are listed; or no head above it has been judged.
Fate(s, I, h, P) ==
  \/ \E g \in Heads(I) \cap Upon(I, h) :
       get_last(I, g) # None /\ <<get_last(I, g), newest(I, g)>> \in s.desired
  \/ s.verified \cap Upon(I, h) # {}
  \/ \E i \in DOMAIN s.bads : /\ s.bads[i] = h
                              /\ \A j \in DOMAIN s.bads : s.bads[j] \in Upon(I, h) \ {h} => j < i
  \/ P \cap Upon(I, h) = {} /\ \A j \in DOMAIN s.bads : s.bads[j] \notin Upon(I, h)

\* A share listed as bad is no root of a tree whose ancestors are missing.
Deep(s, I) ==
  \A i \in DOMAIN s.bads :
    /\ s.bads[i] \in I
    /\ get_last(I, s.bads[i]) # None => previous_hash[s.bads[i]] \in I

LEMMA JudgedFate ==
  ASSUME Fixed, NEW I \in Sets, NEW s, NEW r, Sound(WishSets, s), NEW g \in Heads(I), s.items = I,
         Judged(s, g, r), NEW h \in I, NEW P, Fate(s, I, h, P), Deep(s, I)
  PROVE  Fate(r, I, h, P \cup {g}) /\ Deep(r, I)
  <1> DEFINE last == get_last(I, g)
             tall == get_height(I, g)
             up(n) == nth_parent(g, n)
             D == Upon(I, h)
  <1>0. /\ IsForest(I, previous_hash) /\ I \subseteq Node /\ g \in Node /\ h \in Node /\ g \in I
        /\ tall \in Nat /\ s.bads \in Seq(bad) /\ CHAIN_LENGTH \in Nat \ {0}
    <2>1. /\ IsForest(I, previous_hash) /\ I \subseteq Node /\ g \in I /\ s.bads \in Seq(bad)
      BY DEF Fixed, IsForest, Sets, Node, Sound, State, Heads, HeadSet
    <2> QED BY <2>1, HeightEq, ConstantTypes
  <1>1. PICK j \in 0 .. tall :
          /\ r.bads = s.bads \o get_chain(g, j)
          /\ last # None /\ j # 0 => j + CHAIN_LENGTH <= tall
          /\ \/ j < tall /\ up(j) \in r.verified
             \/ last # None /\ <<last, newest(I, g)>> \in r.desired
             \/ j = tall
    BY DEF Judged
  <1>2. s.verified \subseteq r.verified /\ s.desired \subseteq r.desired
    BY DEF Judged
  <1> DEFINE fell == get_chain(g, j)
             L == Len(s.bads)
  <1>3. fell \in Seq(I) /\ Len(fell) = j /\ \A i \in 1 .. j : fell[i] = up(i - 1)
    BY <1>0, <1>1, ChainOf
  <1>4. L \in Nat /\ DOMAIN s.bads = 1 .. L
    BY <1>0
  <1> HIDE DEF fell, L
  <1>5. /\ DOMAIN r.bads = 1 .. L + j
        /\ \A i \in 1 .. L : r.bads[i] = s.bads[i]
        /\ \A e \in 0 .. j - 1 : r.bads[L + e + 1] = up(e)
        /\ \A i \in DOMAIN r.bads : i \in 1 .. L \/ \E e \in 0 .. j - 1 : i = L + e + 1
    <2>1. r.bads = s.bads \o fell /\ L = Len(s.bads)
      BY <1>1 DEF fell, L
    <2>2. DOMAIN r.bads = 1 .. L + j /\ \A i \in 1 .. L : r.bads[i] = s.bads[i]
      <3>1. s.bads \in Seq(bad \cup I) /\ fell \in Seq(bad \cup I) /\ j \in Nat
        BY <1>0, <1>1, <1>3
      <3>4. s.bads \o fell \in Seq(bad \cup I) /\ Len(s.bads \o fell) = L + j
        <4>1. PICK a : a = s.bads
          OBVIOUS
        <4>2. a \in Seq(bad \cup I) /\ fell \in Seq(bad \cup I) /\ Len(a) = L /\ Len(fell) = j
          BY <1>3, <2>1, <3>1, <4>1
        <4>3. a \o fell \in Seq(bad \cup I) /\ Len(a \o fell) = Len(a) + Len(fell)
          BY ONLY <4>2
        <4> QED BY <4>1, <4>2, <4>3
      <3>2. DOMAIN (s.bads \o fell) = 1 .. L + j
        BY <3>4
      <3>3. \A i \in 1 .. L : (s.bads \o fell)[i] = s.bads[i]
        BY <1>3, <1>4, <2>1, <3>1
      <3> QED BY <2>1, <3>2, <3>3
    <2>3. ASSUME NEW e \in 0 .. j - 1 PROVE r.bads[L + e + 1] = up(e)
      <3>1. L + e + 1 \in L + 1 .. L + j /\ (L + e + 1) - L = e + 1 /\ e + 1 \in 1 .. j /\ (e + 1) - 1 = e
        BY <1>0, <1>1, <1>4
      <3>2. r.bads[L + e + 1] = fell[e + 1]
        BY <1>0, <1>3, <1>4, <2>1, <3>1
      <3> QED BY <1>3, <3>1, <3>2
    <2>4. ASSUME NEW i \in 1 .. L + j PROVE i \in 1 .. L \/ \E e \in 0 .. j - 1 : i = L + e + 1
      <3>1. i \in 1 .. L \/ (i - L - 1 \in 0 .. j - 1 /\ i = L + (i - L - 1) + 1)
        BY <1>0, <1>1, <1>4
      <3> QED BY <3>1
    <2> QED BY <2>2, <2>3, <2>4
  <1>6. ASSUME NEW e \in 0 .. tall, e < tall
        PROVE  /\ up(e) \in I /\ up(e) \in Node /\ get_height(I, up(e)) = tall - e
               /\ get_last(I, up(e)) = last
               /\ up(e) \in Chain(I, previous_hash)[g]
    BY <1>0, <1>6, Ancestor, WalkMeets
  <1>7. \A e \in 0 .. j - 1 : e \in 0 .. tall /\ e < tall
    BY <1>0, <1>1
  <1>8. Deep(r, I)
    <2> SUFFICES ASSUME NEW i \in DOMAIN r.bads
                 PROVE  /\ r.bads[i] \in I
                        /\ get_last(I, r.bads[i]) # None => previous_hash[r.bads[i]] \in I
      BY DEF Deep
    <2>1. CASE i \in 1 .. L
      BY <1>4, <1>5, <2>1 DEF Deep
    <2>2. CASE i \notin 1 .. L
      <3>1. PICK e \in 0 .. j - 1 : i = L + e + 1
        BY <1>5, <2>2
      <3>2. PICK y : y = up(e) /\ r.bads[i] = y
        BY <1>5, <3>1
      <3>3. /\ y \in I /\ y \in Node /\ get_height(I, y) = tall - e /\ get_last(I, y) = last
        BY <1>6, <1>7, <3>2
      <3>4. ASSUME last # None PROVE previous_hash[y] \in I
        <4>1. previous_hash[y] \in Node /\ get_height(I, previous_hash[y]) \in Nat
              /\ get_height(I, y) = get_height(I, previous_hash[y]) + 1
          BY <1>0, <3>3, HeightEq
        <4>2. tall - e >= 2
          BY <1>0, <1>1, <3>4
        <4>3. get_height(I, previous_hash[y]) # 0
          BY <3>3, <4>1, <4>2
        <4> QED BY <1>0, <4>1, <4>3, HeightEq
      <3> QED BY <3>2, <3>3, <3>4
    <2> QED BY <2>1, <2>2
  <1>9. CASE g \notin D
    <2>1. ASSUME NEW e \in 0 .. j - 1 PROVE up(e) \notin D
      <3>1. up(e) \in Chain(I, previous_hash)[g]
        BY <1>6, <1>7
      <3>2. h \in Chain(I, previous_hash)[up(e)] => h \in Chain(I, previous_hash)[g]
        <4> HIDE DEF up
        <4> QED BY <1>0, <3>1, ChainGoesOn
      <3> QED BY <1>0, <1>9, <3>2 DEF Upon
    <2>2. \A i \in DOMAIN r.bads : r.bads[i] \in D => i \in DOMAIN s.bads /\ r.bads[i] = s.bads[i]
      BY <1>4, <1>5, <2>1
    <2>3. \A i \in DOMAIN s.bads : i \in DOMAIN r.bads /\ r.bads[i] = s.bads[i]
      BY <1>0, <1>1, <1>4, <1>5
    <2> HIDE DEF D
    <2>4. CASE \E x \in Heads(I) \cap D : get_last(I, x) # None /\ <<get_last(I, x), newest(I, x)>> \in s.desired
      <3> HIDE DEF newest
      <3> QED BY <1>2, <1>8, <2>4 DEF Fate, D
    <2>5. CASE s.verified \cap D # {}
      BY <1>2, <1>8, <2>5 DEF Fate, D
    <2>6. CASE \E i \in DOMAIN s.bads : /\ s.bads[i] = h
                                        /\ \A k \in DOMAIN s.bads : s.bads[k] \in D \ {h} => k < i
      <3>1. PICK i \in DOMAIN s.bads : /\ s.bads[i] = h
                                       /\ \A k \in DOMAIN s.bads : s.bads[k] \in D \ {h} => k < i
        BY <2>6
      <3>2. i \in DOMAIN r.bads /\ r.bads[i] = h /\ \A k \in DOMAIN r.bads : r.bads[k] \in D \ {h} => k < i
        BY <2>2, <2>3, <3>1
      <3> QED BY <1>8, <3>2 DEF Fate, D
    <2>7. CASE P \cap D = {} /\ \A k \in DOMAIN s.bads : s.bads[k] \notin D
      <3>1. (P \cup {g}) \cap D = {} /\ \A k \in DOMAIN r.bads : r.bads[k] \notin D
        BY <1>9, <2>2, <2>7
      <3> QED BY <1>8, <3>1 DEF Fate, D
    <2> QED BY <2>4, <2>5, <2>6, <2>7 DEF Fate, D
  <1>10. CASE g \in D
    <2>1. PICK d \in 0 .. tall : h = up(d)
      BY <1>0, <1>10, WalkMeets DEF Upon
    <2>2. d < tall
      <3>1. get_height(I, up(d)) = tall - d
        BY <1>0, Ancestor
      <3>2. get_height(I, h) = tall - d /\ get_height(I, h) # 0
        BY <1>0, <2>1, <3>1, HeightEq
      <3> QED BY <1>0, <3>2
    <2>3. CASE d < j
      <3>1. L + d + 1 \in DOMAIN r.bads /\ r.bads[L + d + 1] = h
        <4>1. d \in 0 .. j - 1 /\ L + d + 1 \in 1 .. L + j
          BY <1>0, <1>1, <1>4, <2>3
        <4> QED BY <1>5, <2>1, <4>1
      <3>2. ASSUME NEW k \in DOMAIN r.bads, r.bads[k] \in D \ {h} PROVE k < L + d + 1
        <4>1. CASE k \in 1 .. L
          BY <1>4, <4>1
        <4>2. CASE k \notin 1 .. L
          <5>1. PICK e \in 0 .. j - 1 : k = L + e + 1
            BY <1>5, <4>2
          <5>2. PICK y : y = up(e) /\ y \in D /\ y # h
            BY <1>5, <3>2, <5>1
          <5>3. y \in I /\ y \in Node /\ get_height(I, y) = tall - e
            BY <1>6, <1>7, <5>2
          <5>4. PICK m \in 0 .. get_height(I, y) : h = nth_parent(y, m)
            BY <1>0, <5>2, <5>3, WalkMeets DEF Upon
          <5>5. get_height(I, h) = get_height(I, y) - m
            BY <1>0, <5>3, <5>4, Ancestor
          <5>6. get_height(I, h) = tall - d
            BY <1>6, <2>1, <2>2
          <5>7. e <= d
            BY <1>0, <1>1, <5>3, <5>5, <5>6
          <5>8. e # d
            BY <2>1, <5>2
          <5> QED BY <1>1, <1>4, <5>1, <5>7, <5>8
        <4> QED BY <4>1, <4>2
      <3> QED BY <1>8, <3>1, <3>2 DEF Fate
    <2>4. CASE ~(d < j)
      <3>1. j <= d /\ j < tall
        BY <1>0, <1>1, <2>2, <2>4
      <3>2. CASE up(j) \in r.verified
        <4>1. up(j) \in I /\ up(j) \in Node /\ get_height(I, up(j)) = tall - j
          BY <1>6, <3>1
        <4>2. d - j \in Nat /\ j + (d - j) = d /\ d - j \in 0 .. tall - j /\ j \in Nat
          BY <1>0, <1>1, <2>1, <2>2, <3>1
        <4>3. h = nth_parent(up(j), d - j)
          BY <2>1, <4>2, NthPlus
        <4>4. h \in Chain(I, previous_hash)[up(j)]
          <5> HIDE DEF up
          <5> QED BY <1>0, <4>1, <4>2, <4>3, WalkMeets
        <4> QED BY <1>8, <3>2, <4>1, <4>4 DEF Fate, Upon
      <3>3. CASE last # None /\ <<last, newest(I, g)>> \in r.desired
        <4> HIDE DEF newest
        <4> QED BY <1>8, <1>10, <3>3 DEF Fate
      <3> QED BY <1>1, <3>1, <3>2, <3>3
    <2> QED BY <2>3, <2>4
  <1> QED BY <1>9, <1>10

\* The heads judged in turn.
LEMMA VerifyFate ==
  ASSUME Fixed, NEW I \in Sets, NEW s, Sound(WishSets, s), s.items = I, s.error = "none", s.bads = <<>>,
         NEW order \in Seq(I), Range(order) \subseteq Heads(I), NEW h \in I
  PROVE  LET t == Sq!FoldLeft(VerifyHead, s, order)
         IN Fate(t, I, h, Range(order)) /\ Deep(t, I) /\ t.error = "none" /\ s.verified \subseteq t.verified
  <1>0. PICK f : VerifyRun(f, s, order)
    <2>1. order \in Seq(s.items)
      OBVIOUS
    <2> QED BY <2>1, VerifySteps
  <1>1. /\ f[0] = s /\ f[Len(order)] = Sq!FoldLeft(VerifyHead, s, order)
        /\ \A n \in 0 .. Len(order) : Sound(WishSets, f[n]) /\ SameShares(s, f[n])
        /\ \A n \in 1 .. Len(order) : f[n] = VerifyHead(f[n - 1], order[n])
    BY <1>0 DEF VerifyRun
  <1> DEFINE N == Len(order)
             P(n) == {order[i] : i \in 1 .. n}
             T == {n \in 0 .. N : /\ f[n].error = "none" /\ s.verified \subseteq f[n].verified
                                  /\ Fate(f[n], I, h, P(n)) /\ Deep(f[n], I)}
  <1>2. N \in Nat /\ P(N) = Range(order) /\ \A n \in 1 .. N : order[n] \in I /\ order[n] \in Heads(I)
    BY DEF Range
  <1>3. 0 \in T
    <2>1. DOMAIN s.bads = {} /\ P(0) = {}
      OBVIOUS
    <2> QED BY <1>1, <1>2, <2>1 DEF Fate, Deep
  <1>4. ASSUME NEW n \in 1 .. N, n - 1 \in T PROVE n \in T
    <2>1. n - 1 \in 0 .. N /\ n \in 0 .. N /\ f[n - 1].error = "none" /\ Fate(f[n - 1], I, h, P(n - 1))
          /\ Deep(f[n - 1], I) /\ s.verified \subseteq f[n - 1].verified
      BY <1>2, <1>4
    <2>2. PICK q : q = f[n - 1]
      OBVIOUS
    <2>3. PICK g : g = order[n] /\ g \in Heads(I) /\ g \in I
      BY <1>2
    <2>4. Sound(WishSets, q) /\ q.items = I /\ f[n] = VerifyHead(q, g)
      BY <1>1, <2>1, <2>2, <2>3 DEF SameShares
    <2>5. Judged(q, g, f[n])
      BY <2>1, <2>2, <2>3, <2>4, VerifyHeadKeeps
    <2>6. P(n) = P(n - 1) \cup {g}
      <3>1. \A i \in 1 .. n : i \in 1 .. n - 1 \/ i = n
        OBVIOUS
      <3>2. \A i \in 1 .. n - 1 : i \in 1 .. n
        OBVIOUS
      <3>3. n \in 1 .. n
        OBVIOUS
      <3> QED BY <2>3, <3>1, <3>2, <3>3
    <2> HIDE DEF P
    <2>7. Fate(q, I, h, P(n - 1)) /\ Deep(q, I)
      BY <2>1, <2>2
    <2>8. Fate(f[n], I, h, P(n - 1) \cup {g}) /\ Deep(f[n], I)
      <3>1. PICK r : r = f[n]
        OBVIOUS
      <3>2. PICK Q : Q = P(n - 1)
        OBVIOUS
      <3>3. Judged(q, g, r) /\ Fate(q, I, h, Q) /\ Sound(WishSets, q) /\ q.items = I
        BY <2>4, <2>5, <2>7, <3>1, <3>2
      <3>4. Fate(r, I, h, Q \cup {g}) /\ Deep(r, I)
        BY <2>3, <2>7, <3>3, JudgedFate
      <3> QED BY <3>1, <3>2, <3>4
    <2>9. f[n].error = "none" /\ s.verified \subseteq f[n].verified
      BY <2>1, <2>2, <2>5 DEF Judged
    <2> QED BY <2>1, <2>6, <2>8, <2>9
  <1> HIDE DEF T
  <1>5. N \in T
    <2>1. N \in Nat /\ \A n \in 1 .. N : n - 1 \in T => n \in T
      BY <1>2, <1>4
    <2> HIDE DEF N
    <2>2. \A n \in 0 .. N : n \in T
      BY <1>3, <2>1, UpTo
    <2> QED BY <2>1, <2>2
  <1> QED BY <1>1, <1>2, <1>5 DEF T

\* J tells how the shares B leave I in turn: each when it is at an end.
Purged(I, B, J) ==
  /\ J[0] = I
  /\ \A n \in 1 .. Len(B) :
       /\ B[n] \in J[n - 1]
       /\ J[n] = IF Removable(J[n - 1], B[n]) THEN J[n - 1] \ {B[n]} ELSE J[n - 1]

LEMMA PurgedShrinks ==
  ASSUME NEW I, NEW B \in Seq(Hash), NEW J, Purged(I, B, J)
  PROVE  \A n \in 0 .. Len(B) : J[n] \subseteq I /\ J[Len(B)] \subseteq J[n]
  <1> DEFINE L == Len(B)
             T == {n \in 0 .. L : J[n] \subseteq I}
             U == {n \in 0 .. L : J[L] \subseteq J[L - n]}
  <1>0. L \in Nat /\ J[0] = I /\ \A n \in 1 .. L : n - 1 \in 0 .. L /\ J[n] \subseteq J[n - 1]
    <2>1. L \in Nat /\ J[0] = I
      BY DEF Purged
    <2>2. ASSUME NEW n \in 1 .. L PROVE n - 1 \in 0 .. L /\ J[n] \subseteq J[n - 1]
      <3>1. J[n] = IF Removable(J[n - 1], B[n]) THEN J[n - 1] \ {B[n]} ELSE J[n - 1]
        BY DEF Purged
      <3>2. n - 1 \in 0 .. L
        BY <2>1
      <3> QED BY <3>1, <3>2
    <2> QED BY <2>1, <2>2
  <1> HIDE DEF L
  <1>1. 0 \in T /\ \A n \in 1 .. L : n - 1 \in T => n \in T
    BY <1>0
  <1>2. 0 \in U /\ \A n \in 1 .. L : n - 1 \in U => n \in U
    <2>1. 0 \in U
      BY <1>0
    <2>2. ASSUME NEW n \in 1 .. L, n - 1 \in U PROVE n \in U
      <3>1. L - (n - 1) \in 1 .. L /\ (L - (n - 1)) - 1 = L - n /\ n \in 0 .. L
        BY <1>0
      <3>2. J[L - (n - 1)] \subseteq J[L - n]
        BY <1>0, <3>1
      <3> QED BY <2>2, <3>1, <3>2
    <2> QED BY <2>1, <2>2
  <1> HIDE DEF T, U
  <1>3. \A n \in 0 .. L : n \in T
    BY <1>0, <1>1, UpTo
  <1>4. \A n \in 0 .. L : n \in U
    BY <1>0, <1>2, UpTo
  <1>5. ASSUME NEW n \in 0 .. L PROVE J[n] \subseteq I /\ J[L] \subseteq J[n]
    <2>1. L - n \in 0 .. L /\ L - (L - n) = n
      BY <1>0
    <2>2. J[L] \subseteq J[L - (L - n)]
      BY <1>4, <2>1 DEF U
    <2> QED BY <1>3, <2>1, <2>2 DEF T
  <1> QED BY <1>5 DEF L

\* Shares that go have no gaps between those that stay: if the lowest of D stay, what is left of D
\* is left over whatever is left under it.
LEMMA NoHole ==
  ASSUME Fixed, NEW I \in Sets, NEW B \in Seq(Hash), NEW J, Purged(I, B, J), NEW D \in SUBSET I,
         \A i \in DOMAIN B : B[i] \in D => B[i] \in J[Len(B)] \/ previous_hash[B[i]] \in D
  PROVE  \A n \in 0 .. Len(B) : \A y \in J[n] \cap D : previous_hash[y] \in D => previous_hash[y] \in J[n]
  <1> DEFINE L == Len(B)
             Whole(n) == \A y \in J[n] \cap D : previous_hash[y] \in D => previous_hash[y] \in J[n]
             T == {n \in 0 .. L : Whole(n)}
  <1>0. L \in Nat /\ DOMAIN B = 1 .. L
    OBVIOUS
  <1>1. 0 \in T
    BY <1>0 DEF Purged
  <1>2. ASSUME NEW n \in 1 .. L, n - 1 \in T PROVE n \in T
    <2>1. n - 1 \in 0 .. L /\ n \in 0 .. L /\ Whole(n - 1)
      BY <1>0, <1>2
    <2>2. PICK b, K : b = B[n] /\ K = J[n - 1]
      OBVIOUS
    <2>3. b \in K /\ J[n] = (IF Removable(K, b) THEN K \ {b} ELSE K) /\ J[L] \subseteq J[n]
      BY <2>1, <2>2, PurgedShrinks DEF Purged
    <2>4. CASE ~Removable(K, b)
      BY <2>1, <2>2, <2>3, <2>4
    <2>5. CASE Removable(K, b)
      <3> SUFFICES ASSUME NEW y \in J[n] \cap D, previous_hash[y] \in D PROVE previous_hash[y] \in J[n]
        BY <2>1
      <3>1. y \in K /\ y # b /\ J[n] = K \ {b}
        BY <2>3, <2>5
      <3>2. previous_hash[y] \in K
        BY <2>1, <2>2, <3>1
      <3>3. ASSUME previous_hash[y] = b PROVE FALSE
        <4>1. b \notin Heads(K)
          BY <3>1, <3>3 DEF Heads, HeadSet, Children
        <4>2. previous_hash[b] \notin K
          BY <2>5, <4>1 DEF Removable
        <4>3. b \in D /\ b \notin J[L]
          BY <2>3, <3>1, <3>3
        <4>4. previous_hash[b] \in D
          BY <1>0, <2>2, <4>3
        <4>5. previous_hash[b] \in K
          BY <2>1, <2>2, <2>3, <4>3, <4>4
        <4> QED BY <4>2, <4>5
      <3> QED BY <3>1, <3>2, <3>3
    <2> QED BY <2>4, <2>5
  <1> HIDE DEF T
  <1>3. \A n \in 0 .. L : n \in T
    BY <1>0, <1>1, <1>2, UpTo
  <1> QED BY <1>3 DEF T

\* Of the shares over one that has become a head, none is left.
LEMMA NoneUpon ==
  ASSUME Fixed, NEW I \in Sets, NEW B \in Seq(Hash), NEW J, Purged(I, B, J), NEW h \in Heads(J[Len(B)])
  PROVE  h \in I /\ J[Len(B)] \cap Upon(I, h) = {h}
  <1> DEFINE K == J[Len(B)]
             D == Upon(I, h)
             C(z) == Chain(I, previous_hash)[z]
  <1>0. /\ IsForest(I, previous_hash) /\ K \subseteq I /\ h \in K /\ Len(B) \in Nat /\ I \subseteq Hash
        /\ Len(B) \in 0 .. Len(B)
    <2>1. h \in K /\ Len(B) \in Nat
      BY DEF Heads, HeadSet
    <2>2. Len(B) \in 0 .. Len(B)
      BY <2>1
    <2> QED BY <2>1, <2>2, PurgedShrinks DEF Fixed, IsForest, Sets
  <1>1. \A z \in Node : \A u : u \in C(z) <=> (u = z \/ (z \in I /\ u \in C(previous_hash[z])))
    BY <1>0, ChainEq
  <1>2. h \in D /\ D \subseteq I /\ I \subseteq Node
    BY <1>0, <1>1 DEF Upon, Node
  <1>3. ASSUME NEW y \in D, y # h
        PROVE  previous_hash[y] \in D /\ previous_hash[y] \in Node /\ previous_hash[y] < y
    <2>1. y \in I /\ y \in Hash /\ y \in Node /\ h \in C(y)
      BY <1>0, <1>2, <1>3 DEF Upon
    <2>2. previous_hash[y] \in Node /\ previous_hash[y] < y /\ h \in C(previous_hash[y])
      BY <1>0, <1>1, <1>3, <2>1, PreviousIsEarlier DEF IsForest
    <2>3. previous_hash[y] \in I
      <3>1. previous_hash[y] \notin I => h = previous_hash[y]
        BY <1>1, <2>2
      <3> QED BY <1>0, <3>1
    <2> QED BY <2>2, <2>3 DEF Upon
  <1>4. \A n \in 0 .. Len(B) : \A y \in J[n] \cap D : previous_hash[y] \in D => previous_hash[y] \in J[n]
    <2>1. \A i \in DOMAIN B : B[i] \in D => B[i] \in K \/ previous_hash[B[i]] \in D
      BY <1>0, <1>3
    <2>2. D \in SUBSET I
      BY <1>2
    <2> HIDE DEF D
    <2> QED BY <2>1, <2>2, NoHole
  <1>5. \A y \in K \cap D : y # h => previous_hash[y] \in K
    BY <1>0, <1>3, <1>4
  <1>6. ASSUME NEW y \in K \cap D, y # h PROVE FALSE
    <2> DEFINE S == {z \in Node : z \notin (K \cap D) \ {h}}
    <2>1. ASSUME NEW z \in Node, \A u \in Node : u < z => u \in S PROVE z \in S
      <3> SUFFICES ASSUME z \in (K \cap D) \ {h} PROVE FALSE
        OBVIOUS
      <3> DEFINE u == previous_hash[z]
      <3>1. u \in D /\ u \in Node /\ u < z /\ u \in K
        BY <1>3, <1>5
      <3>2. u = h
        BY <2>1, <3>1
      <3> QED BY <3>2 DEF Heads, HeadSet, Children
    <2> HIDE DEF S
    <2>2. y \in S
      BY <1>2, <2>1, NodeInduction
    <2> QED BY <1>6, <2>2 DEF S
  <1> QED BY <1>0, <1>2, <1>6

\* Nor can it have been listed after all that were over it: then it would have left.
LEMMA ListedLastLeaves ==
  ASSUME Fixed, NEW I \in Sets, NEW B \in Seq(Hash), NEW J, Purged(I, B, J), NEW h \in Heads(J[Len(B)]),
         NEW i \in DOMAIN B, B[i] = h,
         \A j \in DOMAIN B : B[j] \in Upon(I, h) \ {h} => j < i
  PROVE  FALSE
  <1> DEFINE L == Len(B)
             D == Upon(I, h)
             K == J[i - 1]
  <1>0. L \in Nat /\ i \in 1 .. L /\ i - 1 \in 0 .. L /\ i \in 0 .. L /\ DOMAIN B = 1 .. L
    OBVIOUS
  <1>1. h \in J[L] /\ h \in I /\ J[L] \cap D = {h}
    BY NoneUpon DEF Heads, HeadSet
  <1>2. h \in K /\ J[i] = (IF Removable(K, h) THEN K \ {h} ELSE K) /\ J[L] \subseteq J[i] /\ K \subseteq I
    <2>1. J[i] = (IF Removable(K, B[i]) THEN K \ {B[i]} ELSE K) /\ B[i] \in K
      BY <1>0 DEF Purged
    <2>2. \A n \in 0 .. L : J[n] \subseteq I /\ J[L] \subseteq J[n]
      BY PurgedShrinks
    <2> QED BY <1>0, <2>1, <2>2
  <1>3. h \notin Heads(K)
    BY <1>1, <1>2 DEF Removable
  <1>4. PICK y \in K : previous_hash[y] = h
    BY <1>2, <1>3 DEF Heads, HeadSet, Children
  <1>5. y \in D \ {h}
    <2>1. IsForest(I, previous_hash) /\ y \in I /\ y \in Hash /\ y \in Node /\ h \in Node
      BY <1>1, <1>2, <1>4 DEF Fixed, IsForest, Sets, Node
    <2>2. h \in Chain(I, previous_hash)[h] /\ h \in Chain(I, previous_hash)[y]
      BY <1>4, <2>1, ChainEq
    <2>3. h < y /\ y # h
      BY <1>4, <2>1, PreviousIsEarlier DEF IsForest
    <2> QED BY <2>1, <2>2, <2>3 DEF Upon
  <1> DEFINE T == {n \in 0 .. L - (i - 1) : y \in J[(i - 1) + n]}
  <1>6. 0 \in T
    BY <1>0, <1>4
  <1>7. ASSUME NEW n \in 1 .. L - (i - 1), n - 1 \in T PROVE n \in T
    <2> DEFINE m == (i - 1) + n
    <2>1. m \in 1 .. L /\ m - 1 = (i - 1) + (n - 1) /\ m >= i /\ n \in 0 .. L - (i - 1) /\ m \in DOMAIN B
      BY <1>0
    <2>2. y \in J[m - 1]
      BY <1>7, <2>1
    <2> HIDE DEF m
    <2>3. J[m] = IF Removable(J[m - 1], B[m]) THEN J[m - 1] \ {B[m]} ELSE J[m - 1]
      BY <2>1 DEF Purged
    <2>4. B[m] # y
      BY <1>0, <1>5, <2>1
    <2>5. y \in J[m]
      BY <2>2, <2>3, <2>4
    <2> QED BY <2>1, <2>5 DEF m
  <1> HIDE DEF T
  <1>8. L - (i - 1) \in T
    <2>1. PICK N \in Nat : N = L - (i - 1)
      BY <1>0
    <2>2. \A n \in 1 .. N : n - 1 \in T => n \in T
      BY <1>7, <2>1
    <2>3. \A n \in 0 .. N : n \in T
      BY <1>6, <2>2, UpTo
    <2> QED BY <2>1, <2>3
  <1>9. y \in J[L]
    <2>1. (i - 1) + (L - (i - 1)) = L
      BY <1>0
    <2>2. y \in J[(i - 1) + (L - (i - 1))]
      BY <1>8 DEF T
    <2> QED BY <2>1, <2>2
  <1> QED BY <1>1, <1>5, <1>9

\* What is missing under the shares that stay is what was missing.
LEMMA SameMissing ==
  ASSUME Fixed, NEW I \in Sets, NEW B \in Seq(Hash), NEW J, Purged(I, B, J),
         \A i \in DOMAIN B : get_last(I, B[i]) # None => previous_hash[B[i]] \in I
  PROVE  \A y \in J[Len(B)] : get_last(I, y) # None => get_last(J[Len(B)], y) = get_last(I, y)
  <1> DEFINE K == J[Len(B)]
             D == {y \in I : get_last(I, y) # None}
  <1>0. /\ IsForest(I, previous_hash) /\ K \subseteq I /\ IsForest(K, previous_hash) /\ I \subseteq Node
        /\ \A n \in 0 .. Len(B) : J[n] \subseteq I
        /\ Len(B) \in 0 .. Len(B) /\ \A i \in DOMAIN B : B[i] \in I
    <2>1. Len(B) \in 0 .. Len(B) /\ DOMAIN B = 1 .. Len(B)
      OBVIOUS
    <2>2. \A n \in 0 .. Len(B) : J[n] \subseteq I
      BY PurgedShrinks
    <2>3. \A i \in 1 .. Len(B) : i - 1 \in 0 .. Len(B) /\ B[i] \in J[i - 1]
      <3>1. \A i \in 1 .. Len(B) : i - 1 \in 0 .. Len(B)
        BY <2>1
      <3>2. \A i \in 1 .. Len(B) : B[i] \in J[i - 1]
        BY DEF Purged
      <3> QED BY <3>1, <3>2
    <2>4. \A i \in DOMAIN B : B[i] \in I
      BY <2>1, <2>2, <2>3
    <2> QED BY <2>1, <2>2, <2>4 DEF Fixed, IsForest, Sets, Node
  <1>1. \A y \in I : /\ get_last(I, y) = get_last(I, previous_hash[y]) /\ previous_hash[y] \in Node
                     /\ previous_hash[y] < y /\ y \in Node
    BY <1>0, LastEq, PreviousIsEarlier DEF get_last, IsForest, Node
  <1>2. \A n \in 0 .. Len(B) : \A y \in J[n] \cap D : previous_hash[y] \in D => previous_hash[y] \in J[n]
    <2>1. ASSUME NEW i \in DOMAIN B, B[i] \in D PROVE previous_hash[B[i]] \in D
      BY <1>0, <1>1, <2>1
    <2>2. D \in SUBSET I
      OBVIOUS
    <2> HIDE DEF D
    <2> QED BY <2>1, <2>2, NoHole
  <1> DEFINE S == {z \in Node : z \in K /\ get_last(I, z) # None => get_last(K, z) = get_last(I, z)}
  <1>3. ASSUME NEW z \in Node, \A u \in Node : u < z => u \in S PROVE z \in S
    <2> SUFFICES ASSUME z \in K, get_last(I, z) # None PROVE get_last(K, z) = get_last(I, z)
      OBVIOUS
    <2> DEFINE u == previous_hash[z]
    <2>1. z \in I /\ u \in Node /\ u < z /\ get_last(I, u) = get_last(I, z)
      BY <1>0, <1>1
    <2>2. get_last(K, z) = get_last(K, u)
      BY <1>0, LastEq DEF get_last
    <2>3. CASE u \in I
      <3>1. u \in K
        BY <1>0, <1>2, <2>1, <2>3
      <3> HIDE DEF u
      <3> QED BY <1>3, <2>1, <2>2, <3>1
    <2>4. CASE u \notin I
      <3>1. u \notin K
        BY <1>0, <2>4
      <3>2. get_last(K, u) = u /\ get_last(I, u) = u
        <4> HIDE DEF u
        <4> QED BY <1>0, <2>1, <2>4, <3>1, LastEq DEF get_last
      <3> QED BY <2>1, <2>2, <3>2
    <2> QED BY <2>3, <2>4
  <1> HIDE DEF S
  <1>4. \A z \in Node : z \in S
    BY <1>3, NodeInduction
  <1> QED BY <1>0, <1>4 DEF S


LEMMA RemoveBadIs ==
  ASSUME Fixed, NEW s, Sound(WishSets, s), NEW b \in bad, RemoveBad(s, b).error = "none"
  PROVE  /\ s.error = "none" /\ b \in s.items
         /\ RemoveBad(s, b).items = IF Removable(s.items, b) THEN s.items \ {b} ELSE s.items
         /\ RemoveBad(s, b).verified = s.verified /\ RemoveBad(s, b).desired = s.desired
  <1>1. b \notin s.verified /\ s \in State(WishSets)
    BY DEF Sound
  <1>2. s.error = "none"
    BY DEF RemoveBad, Unless
  <1>3. b \in s.items
    <2>1. ASSUME b \notin s.items PROVE FALSE
      <3>1. RemoveBad(s, b) = Raise(s, "KeyError")
        BY <1>1, <1>2, <2>1 DEF RemoveBad, Unless
      <3>2. "KeyError" \in Raised
        BY DEF Raised
      <3> QED BY <3>1, <3>2, RaiseKeeps
    <2> QED BY <2>1
  <1>4. CASE Removable(s.items, b)
    <2>1. RemoveBad(s, b) = [s EXCEPT !.items = @ \ {b}, !.naughty[b] = 0]
      BY <1>1, <1>2, <1>3, <1>4 DEF RemoveBad, Unless
    <2> QED BY <1>1, <1>2, <1>3, <1>4, <2>1 DEF State
  <1>5. CASE ~Removable(s.items, b)
    <2>1. RemoveBad(s, b) = s
      BY <1>1, <1>2, <1>3, <1>5 DEF RemoveBad, Unless
    <2> QED BY <1>2, <1>3, <1>5, <2>1
  <1> QED BY <1>4, <1>5

\* The loop over what failed, when nothing was raised.
LEMMA PurgeIs ==
  ASSUME Fixed, NEW s, Sound(WishSets, s), Purge(s).error = "none"
  PROVE  /\ \E J : Purged(s.items, s.bads, J) /\ J[Len(s.bads)] = Purge(s).items
         /\ Purge(s).verified = s.verified /\ Purge(s).desired = s.desired
         /\ s.error = "none"
  <1>0. PICK f : PurgeRun(f, s)
    BY PurgeSteps
  <1>1. PICK L \in Nat : L = Len(s.bads)
    BY DEF Sound, State
  <1>2. /\ f[0] = s /\ f[L] = Purge(s)
        /\ \A n \in 0 .. L : Sound(WishSets, f[n])
        /\ \A n \in 1 .. L : f[n] = RemoveBad(f[n - 1], s.bads[n]) /\ s.bads[n] \in bad
    <2>1. \A n \in 1 .. L : s.bads[n] \in bad
      BY <1>1 DEF Sound, State
    <2> QED BY <1>0, <1>1, <2>1 DEF PurgeRun
  <1>3. ASSUME NEW n \in 1 .. L, f[n].error = "none"
        PROVE  /\ f[n - 1].error = "none" /\ s.bads[n] \in f[n - 1].items
               /\ f[n].items = IF Removable(f[n - 1].items, s.bads[n]) THEN f[n - 1].items \ {s.bads[n]}
                               ELSE f[n - 1].items
               /\ f[n].verified = f[n - 1].verified /\ f[n].desired = f[n - 1].desired
    <2>1. PICK q, b : q = f[n - 1] /\ b = s.bads[n]
      OBVIOUS
    <2>2. n - 1 \in 0 .. L
      OBVIOUS
    <2>3. Sound(WishSets, q) /\ b \in bad /\ f[n] = RemoveBad(q, b)
      BY <1>2, <2>1, <2>2
    <2>4. RemoveBad(q, b).error = "none"
      BY <1>3, <2>3
    <2> HIDE DEF Removable
    <2> QED BY <2>1, <2>3, <2>4, RemoveBadIs
  <1> DEFINE T == {k \in 0 .. L : f[L - k].error = "none"}
  <1>4. 0 \in T
    BY <1>2
  <1>5. ASSUME NEW k \in 1 .. L, k - 1 \in T PROVE k \in T
    <2>1. L - (k - 1) \in 1 .. L /\ (L - (k - 1)) - 1 = L - k /\ k \in 0 .. L
      OBVIOUS
    <2>2. f[L - (k - 1)].error = "none"
      BY <1>5
    <2>3. f[L - k].error = "none"
      BY <1>3, <2>1, <2>2
    <2> QED BY <2>1, <2>3
  <1> HIDE DEF T
  <1>6. \A k \in 0 .. L : k \in T
    BY <1>4, <1>5, UpTo
  <1>7. ASSUME NEW n \in 0 .. L PROVE f[n].error = "none"
    <2>1. L - n \in 0 .. L /\ L - (L - n) = n
      OBVIOUS
    <2>2. f[L - (L - n)].error = "none"
      BY <1>6, <2>1 DEF T
    <2> QED BY <2>1, <2>2
  <1> DEFINE S == {n \in 0 .. L : f[n].verified = s.verified /\ f[n].desired = s.desired}
  <1>8. 0 \in S
    BY <1>2
  <1>9. ASSUME NEW n \in 1 .. L, n - 1 \in S PROVE n \in S
    <2>1. n \in 0 .. L /\ f[n].error = "none"
      BY <1>7
    <2> QED BY <1>3, <1>9, <2>1
  <1> HIDE DEF S
  <1>10. \A n \in 0 .. L : n \in S
    BY <1>8, <1>9, UpTo
  <1>11. Purge(s).verified = s.verified /\ Purge(s).desired = s.desired
    <2>1. L \in S
      BY <1>10
    <2> QED BY <1>2, <2>1 DEF S
  <1> DEFINE J == [n \in 0 .. L |-> f[n].items]
  <1>12. Purged(s.items, s.bads, J) /\ J[L] = Purge(s).items
    <2>1. \A n \in 0 .. L : J[n] = f[n].items
      OBVIOUS
    <2> HIDE DEF J
    <2>2. J[0] = s.items /\ J[L] = Purge(s).items
      BY <1>2, <2>1
    <2>3. ASSUME NEW n \in 1 .. L
          PROVE  /\ s.bads[n] \in J[n - 1]
                 /\ J[n] = IF Removable(J[n - 1], s.bads[n]) THEN J[n - 1] \ {s.bads[n]} ELSE J[n - 1]
      <3>1. n - 1 \in 0 .. L /\ n \in 0 .. L /\ f[n].error = "none"
        BY <1>7
      <3>2. J[n] = f[n].items /\ J[n - 1] = f[n - 1].items
        BY <2>1, <3>1
      <3> HIDE DEF Removable
      <3> QED BY <1>3, <3>1, <3>2
    <2> HIDE DEF Removable
    <2> QED BY <1>1, <2>2, <2>3 DEF Purged
  <1>13. s.error = "none"
    BY <1>2, <1>7
  <1> QED BY <1>1, <1>11, <1>12, <1>13

\* What is missing under the heads that are not verified is desired, and dated no earlier than they.
Asked(s) ==
  \A h \in Heads(s.items) \ s.verified :
    \E w \in s.desired : w[1] = get_last(s.items, h) /\ w[2] \in Nat /\ newest(s.items, h) <= w[2]

LEMMA HeadsAsked ==
  ASSUME Fixed, Grown, NEW I \in Sets, NEW V, V \subseteq I, NEW t, Sound(WishSets, t), t.items = I,
         V \subseteq t.verified, Deep(t, I),
         \A h \in I : Fate(t, I, h, Heads(I) \ Heads(V)),
         NEW p, Sound(WishSets, p), p.verified = t.verified, p.desired = t.desired,
         NEW J, Purged(I, t.bads, J), J[Len(t.bads)] = p.items
  PROVE  Asked(p)
  <1> DEFINE K == p.items
  <1>0. /\ IsForest(I, previous_hash) /\ I \subseteq Node /\ IsForest(K, previous_hash)
        /\ p.verified \subseteq K /\ t.bads \in Seq(Hash)
    BY DEF Fixed, IsForest, Sets, Node, Sound, State
  <1> SUFFICES ASSUME NEW h \in Heads(K), h \notin p.verified
               PROVE  \E w \in p.desired : w[1] = get_last(K, h) /\ w[2] \in Nat /\ newest(K, h) <= w[2]
    BY DEF Asked
  <1>1. h \in K /\ h \in Heads(J[Len(t.bads)])
    BY DEF Heads, HeadSet
  <1>2. h \in I /\ K \cap Upon(I, h) = {h}
    BY <1>0, <1>1, NoneUpon
  <1>3. t.verified \cap Upon(I, h) = {}
    BY <1>0, <1>2
  <1>4. ~ \E i \in DOMAIN t.bads : /\ t.bads[i] = h
                                   /\ \A j \in DOMAIN t.bads : t.bads[j] \in Upon(I, h) \ {h} => j < i
    BY <1>0, <1>1, ListedLastLeaves
  <1>5. (Heads(I) \ Heads(V)) \cap Upon(I, h) # {}
    <2>1. PICK g \in Heads(I) : g \in Upon(I, h)
      BY <1>0, <1>2, HeadOver
    <2>2. g \notin Heads(V)
      BY <1>3, <2>1 DEF Heads, HeadSet
    <2> QED BY <2>1, <2>2
  <1>6. PICK g \in Heads(I) \cap Upon(I, h) :
          get_last(I, g) # None /\ <<get_last(I, g), newest(I, g)>> \in t.desired
    <2> HIDE DEF newest
    <2> QED BY <1>2, <1>3, <1>4, <1>5 DEF Fate
  <1>7. g \in I /\ h \in Chain(I, previous_hash)[g]
    BY <1>6 DEF Upon
  <1>8. get_last(I, h) = get_last(I, g)
    BY <1>0, <1>7, LastAlong DEF get_last
  <1>9. get_last(K, h) = get_last(I, h)
    <2>1. \A i \in DOMAIN t.bads : get_last(I, t.bads[i]) # None => previous_hash[t.bads[i]] \in I
      BY DEF Deep
    <2>2. \A y \in J[Len(t.bads)] : get_last(I, y) # None => get_last(J[Len(t.bads)], y) = get_last(I, y)
      BY <1>0, <2>1, SameMissing
    <2> QED BY <1>1, <1>6, <1>8, <2>2
  <1>10. newest(I, g) = Timestamp[g] /\ newest(K, h) = Timestamp[h]
    BY <1>0, <1>1, <1>7, NewestIs
  <1>11. Timestamp[h] <= Timestamp[g] /\ Timestamp[g] \in Nat
    BY <1>0, <1>2, <1>7, Older, ShareChainAssumption DEF Sets
  <1> DEFINE w == <<get_last(I, g), newest(I, g)>>
  <1>12. w \in p.desired /\ w[1] = get_last(K, h) /\ w[2] \in Nat /\ newest(K, h) <= w[2]
    BY <1>6, <1>8, <1>9, <1>10, <1>11
  <1> QED BY <1>12

\* A walk that stays among W for n shares goes on from the nth parent.
LEMMA Reach ==
  ASSUME NEW W, IsForest(W, previous_hash), NEW h \in Node, NEW n \in Nat,
         \A i \in 0 .. n - 1 : nth_parent(h, i) \in W
  PROVE  LET y == nth_parent(h, n)
         IN /\ y \in Node /\ get_height(W, y) \in Nat
            /\ get_height(W, h) = n + get_height(W, y)
            /\ get_last(W, h) = get_last(W, y)
  <1> DEFINE Is(k) == LET y == nth_parent(h, k)
                      IN /\ y \in Node /\ get_height(W, y) \in Nat
                         /\ get_height(W, h) = k + get_height(W, y)
                         /\ get_last(W, h) = get_last(W, y)
             T == {k \in 0 .. n : Is(k)}
  <1>1. 0 \in T
    <2>1. nth_parent(h, 0) = h /\ get_height(W, h) \in Nat
      BY NthParent, HeightEq
    <2> QED BY <2>1
  <1>2. ASSUME NEW k \in 1 .. n, k - 1 \in T PROVE k \in T
    <2>1. PICK y : y = nth_parent(h, k - 1)
      OBVIOUS
    <2>2. k - 1 \in 0 .. n - 1 /\ k - 1 \in Nat /\ (k - 1) + 1 = k /\ k \in 0 .. n
      OBVIOUS
    <2>3. /\ y \in W /\ y \in Node /\ get_height(W, h) = (k - 1) + get_height(W, y)
          /\ get_last(W, h) = get_last(W, y)
      BY <1>2, <2>1, <2>2
    <2>4. nth_parent(h, k) = previous_hash[y]
      BY <2>1, <2>2, NthParent
    <2>5. /\ previous_hash[y] \in Node /\ get_height(W, previous_hash[y]) \in Nat
          /\ get_height(W, y) = get_height(W, previous_hash[y]) + 1
          /\ get_last(W, y) = get_last(W, previous_hash[y])
      BY <2>3, HeightEq, LastEq DEF get_last
    <2>6. get_height(W, h) = k + get_height(W, previous_hash[y])
      BY <2>3, <2>5
    <2> QED BY <2>2, <2>3, <2>4, <2>5, <2>6
  <1> HIDE DEF T
  <1>3. n \in T
    BY <1>1, <1>2, UpTo
  <1> QED BY <1>3 DEF T

LEMMA HeightGrows ==
  ASSUME NEW V, NEW W, IsForest(V, previous_hash), IsForest(W, previous_hash), V \subseteq W, NEW x \in Node
  PROVE  get_height(V, x) <= get_height(W, x)
  <1> DEFINE A == Chain(V, previous_hash)[x] \cap V
             B == Chain(W, previous_hash)[x] \cap W
  <1>1. A \subseteq B
    BY ChainGrows
  <1>2. IsFiniteSet(W)
    BY FS_Subset, ShareChainAssumption DEF IsForest
  <1>3. IsFiniteSet(B)
    BY <1>2, FS_Subset
  <1>4. get_height(V, x) = Cardinality(A) /\ get_height(W, x) = Cardinality(B)
    BY DEF get_height, Height
  <1> HIDE DEF A, B
  <1> QED BY <1>1, <1>3, <1>4, FS_Subset

\* No share verified under a head becomes one.
LEMMA ExtendedHeads ==
  ASSUME Fixed, NEW s, Sound(WishSets, s), NEW head \in s.verified, NEW r, Extended(s, head, r),
         NEW h \in Heads(r.verified)
  PROVE  h \in Heads(s.verified)
  <1> DEFINE W == s.verified
             last == get_last(W, head)
  <1>0. IsForest(W, previous_hash) /\ head \in Node
    BY DEF Fixed, IsForest, Sets, Node, Sound, State
  <1>1. PICK q \in Nat : r.verified = W \cup {nth_parent(last, i - 1) : i \in 1 .. q}
    <2>1. PICK n \in 0 .. get_height(s.items, last) :
            \E q \in 0 .. n : r.verified = W \cup {nth_parent(last, i - 1) : i \in 1 .. q}
      BY DEF Extended
    <2>2. PICK q \in 0 .. n : r.verified = W \cup {nth_parent(last, i - 1) : i \in 1 .. q}
      BY <2>1
    <2>3. q \in Nat
      OBVIOUS
    <2> QED BY <2>2, <2>3
  <1>2. h \in r.verified /\ \A y \in r.verified : previous_hash[y] # h
    BY DEF Heads, HeadSet, Children
  <1>3. h \in W
    <2> SUFFICES ASSUME h \notin W PROVE FALSE
      OBVIOUS
    <2>1. PICK i \in 1 .. q : h = nth_parent(last, i - 1)
      BY <1>1, <1>2
    <2>2. CASE i = 1
      <3>1. h = last
        BY <2>1, <2>2, NthParent
      <3>2. last \in TailSet(W, previous_hash)
        BY <1>0, LastIsTail DEF get_last
      <3>3. PICK y \in W : previous_hash[y] = h
        BY <3>1, <3>2 DEF TailSet
      <3> QED BY <1>1, <1>2, <3>3
    <2>3. CASE i # 1
      <3>1. i - 1 \in 1 .. q /\ (i - 1) - 1 \in Nat /\ ((i - 1) - 1) + 1 = i - 1
        BY <2>3
      <3>2. PICK y : y = nth_parent(last, (i - 1) - 1)
        OBVIOUS
      <3>3. nth_parent(last, i - 1) = previous_hash[y]
        BY <3>1, <3>2, NthParent
      <3>4. y \in r.verified
        BY <1>1, <3>1, <3>2
      <3> QED BY <1>2, <2>1, <3>3, <3>4
    <2> QED BY <2>2, <2>3
  <1>4. \A y \in W : previous_hash[y] # h
    BY <1>1, <1>2
  <1> QED BY <1>3, <1>4 DEF Heads, HeadSet, Children

\* A verified chain shorter than CHAIN_LENGTH ends at the first share of all, at a share that fails,
\* or above ancestors that are desired.
Down(s, h) ==
  LET x == get_last(s.verified, h)
  IN \/ get_height(s.verified, h) >= CHAIN_LENGTH
     \/ x = None
     \/ x \in bad
     \/ \E w \in s.desired : w[1] = get_last(s.items, x) /\ w[2] \in Nat /\ newest(s.verified, h) <= w[2]

LEMMA ExtendedReach ==
  ASSUME Fixed, Grown, NEW s, Sound(WishSets, s), NEW h \in s.verified, NEW r, Extended(s, h, r),
         NEW t, Sound(WishSets, t), t.items = s.items, s.verified \subseteq r.verified,
         r.verified \subseteq t.verified, r.desired \subseteq t.desired
  PROVE  Down(t, h)
  <1> DEFINE I == s.items
             V == s.verified
             W == t.verified
             tall == get_height(V, h)
             last == get_last(V, h)
             below == get_height(I, last)
             end == get_last(I, last)
             up(n) == nth_parent(h, n)
  <1>0. /\ IsForest(I, previous_hash) /\ IsForest(V, previous_hash) /\ IsForest(W, previous_hash)
        /\ V \subseteq W /\ W \subseteq I \ bad /\ h \in W /\ h \in V /\ h \in Node
        /\ CHAIN_LENGTH \in Nat /\ None \notin Hash /\ None \in Node /\ I \subseteq Hash
    <2>1. I \in Sets /\ V \in Sets /\ W \in Sets /\ V \subseteq W /\ W \subseteq I \ bad /\ h \in W
      BY DEF Sound, State
    <2>2. CHAIN_LENGTH \in Nat /\ None \notin Hash /\ None \in Node
      BY ConstantTypes, HashAssumption DEF None, Node
    <2> QED BY <2>1, <2>2 DEF Fixed, IsForest, Sets, Node
  <1>1. /\ tall \in Nat /\ last \in Chain(V, previous_hash)[h] /\ last \in Node /\ last \notin V
        /\ below \in Nat /\ get_height(W, h) \in Nat /\ tall <= get_height(W, h)
    <2>1. tall \in Nat /\ last \in Chain(V, previous_hash)[h] /\ last \in Node /\ last \notin V
          /\ get_height(W, h) \in Nat
      BY <1>0, HeightEq, LastIsAbsent DEF get_last
    <2>2. tall <= get_height(W, h)
      BY <1>0, HeightGrows
    <2> HIDE DEF last, tall
    <2> QED BY <1>0, <2>1, <2>2, HeightEq
  <1> SUFFICES ASSUME ~(get_height(W, h) >= CHAIN_LENGTH) PROVE Down(t, h)
    BY DEF Down
  <1>2. tall < CHAIN_LENGTH
    BY <1>0, <1>1
  <1>3. last = up(tall) /\ \A i \in 0 .. tall - 1 : up(i) \in V
    <2>1. PICK n \in 0 .. tall : last = up(n)
      BY <1>0, <1>1, WalkMeets
    <2>2. \A i \in 0 .. tall : i < tall => up(i) \in V
      BY <1>0, <1>1, Ancestor
    <2>3. n = tall
      BY <1>1, <2>1, <2>2
    <2>4. \A i \in 0 .. tall - 1 : i \in 0 .. tall /\ i < tall
      BY <1>1
    <2> QED BY <2>1, <2>2, <2>3, <2>4
  <1>4. CASE end # None
    <2>1. <<end, newest(V, h)>> \in t.desired
      <3> HIDE DEF newest
      <3> QED BY <1>2, <1>4 DEF Extended
    <2>2. newest(V, h) = Timestamp[h] /\ newest(W, h) = Timestamp[h] /\ Timestamp[h] \in Nat
      BY <1>0, NewestIs, ShareChainAssumption
    <2>3. get_last(I, last) = get_last(I, h)
      <3>1. last \in Chain(I, previous_hash)[h]
        BY <1>0, <1>1, ChainGrows
      <3> HIDE DEF last
      <3> QED BY <1>0, <3>1, LastAlong DEF get_last
    <2>4. get_last(I, get_last(W, h)) = get_last(I, h)
      <3>1. PICK x : x = get_last(W, h)
        OBVIOUS
      <3>2. x \in Chain(W, previous_hash)[h]
        BY <1>0, <3>1, LastIsAbsent DEF get_last
      <3>3. x \in Chain(I, previous_hash)[h]
        BY <1>0, <3>2, ChainGrows
      <3> QED BY <1>0, <3>1, <3>3, LastAlong DEF get_last
    <2> DEFINE w == <<end, newest(V, h)>>
    <2>5. w \in t.desired /\ w[1] = get_last(I, get_last(W, h)) /\ w[2] \in Nat /\ newest(W, h) <= w[2]
      BY <2>1, <2>2, <2>3, <2>4
    <2> HIDE DEF w, newest
    <2> QED BY <2>5 DEF Down
  <1>5. CASE end = None
    <2>0. PICK n \in 0 .. below :
            \E q \in 0 .. n :
              /\ r.verified = V \cup {nth_parent(last, i - 1) : i \in 1 .. q}
              /\ q < n => nth_parent(last, q) \in bad
              /\ n = below \/ n = CHAIN_LENGTH - tall
      BY <1>2, <1>5 DEF Extended
    <2>1. PICK q \in 0 .. n :
            /\ r.verified = V \cup {nth_parent(last, i - 1) : i \in 1 .. q}
            /\ q < n => nth_parent(last, q) \in bad
            /\ n = below \/ n = CHAIN_LENGTH - tall
      BY <2>0
    <2>2. n \in Nat /\ q \in Nat /\ tall + q \in Nat
      BY <1>1, <2>1
    <2>3. \A i \in Nat : nth_parent(last, i) = up(tall + i)
      BY <1>1, <1>3, NthPlus
    <2>4. \A i \in 0 .. (tall + q) - 1 : up(i) \in W
      <3> SUFFICES ASSUME NEW i \in 0 .. (tall + q) - 1 PROVE up(i) \in W
        OBVIOUS
      <3>1. CASE i < tall
        <4>1. i \in 0 .. tall - 1
          BY <1>1, <3>1
        <4> QED BY <1>0, <1>3, <4>1
      <3>2. CASE ~(i < tall)
        <4>1. (i - tall) + 1 \in 1 .. q /\ ((i - tall) + 1) - 1 \in Nat /\ tall + (((i - tall) + 1) - 1) = i
          BY <1>1, <2>2, <3>2
        <4>2. nth_parent(last, ((i - tall) + 1) - 1) \in r.verified
          BY <2>1, <4>1
        <4> QED BY <2>3, <4>1, <4>2
      <3> QED BY <3>1, <3>2
    <2>5. PICK y : y = up(tall + q)
      OBVIOUS
    <2>6. /\ y \in Node /\ get_height(W, y) \in Nat /\ get_height(W, h) = (tall + q) + get_height(W, y)
          /\ get_last(W, h) = get_last(W, y) /\ nth_parent(last, q) = y
      BY <1>0, <2>2, <2>3, <2>4, <2>5, Reach
    <2>7. CASE q < n
      <3>1. y \in bad
        BY <2>1, <2>6, <2>7
      <3>2. get_last(W, y) = y
        BY <1>0, <2>6, <3>1, LastEq DEF get_last
      <3> HIDE DEF newest
      <3> QED BY <2>6, <3>1, <3>2 DEF Down
    <2>8. CASE q = n /\ n = below
      <3>1. get_height(I, y) = below - below /\ get_last(I, y) = end
        <4>1. get_height(I, nth_parent(last, below)) = below - below /\ get_last(I, nth_parent(last, below)) = end
          BY <1>0, <1>1, Ancestor
        <4> QED BY <2>6, <2>8, <4>1
      <3>2. y \notin I
        BY <1>0, <1>1, <2>6, <3>1, HeightEq
      <3>3. get_last(I, y) = y /\ get_last(W, y) = y
        BY <1>0, <2>6, <3>2, LastEq DEF get_last
      <3>4. get_last(W, h) = None
        BY <1>5, <2>6, <3>1, <3>3
      <3> HIDE DEF newest
      <3> QED BY <3>4 DEF Down
    <2>9. CASE q = n /\ n = CHAIN_LENGTH - tall
      BY <1>0, <1>1, <2>6, <2>9
    <2>10. q < n \/ q = n
      BY <2>1, <2>2
    <2> QED BY <2>1, <2>7, <2>8, <2>9, <2>10
  <1> QED BY <1>4, <1>5

\* The verified heads in turn.
LEMMA ExtendReaches ==
  ASSUME Fixed, Grown, NEW s, Sound(WishSets, s), s.error = "none", NEW order \in Seq(s.verified),
         Heads(s.verified) \subseteq Range(order)
  PROVE  LET t == Sq!FoldLeft(ExtendHead, s, order)
         IN /\ t.error = "none" /\ s.desired \subseteq t.desired /\ s.verified \subseteq t.verified
            /\ t.items = s.items
            /\ \A h \in Heads(t.verified) : Down(t, h)
  <1>0. PICK f : ExtendRun(f, s, order)
    BY ExtendSteps
  <1>1. PICK N \in Nat : N = Len(order) /\ DOMAIN order = 1 .. N
    OBVIOUS
  <1>2. /\ f[0] = s /\ f[N] = Sq!FoldLeft(ExtendHead, s, order)
        /\ \A n \in 0 .. N : Sound(WishSets, f[n]) /\ f[n].items = s.items /\ s.verified \subseteq f[n].verified
        /\ \A n \in 1 .. N : f[n] = ExtendHead(f[n - 1], order[n]) /\ order[n] \in s.verified
    <2>1. \A n \in 1 .. N : order[n] \in s.verified
      BY <1>1
    <2>2. f[0] = s /\ f[N] = Sq!FoldLeft(ExtendHead, s, order)
      BY <1>0, <1>1 DEF ExtendRun
    <2>3. \A n \in 0 .. N : Sound(WishSets, f[n]) /\ f[n].items = s.items /\ s.verified \subseteq f[n].verified
      BY <1>0, <1>1 DEF ExtendRun, SameShares
    <2>4. \A n \in 1 .. N : f[n] = ExtendHead(f[n - 1], order[n])
      BY <1>0, <1>1 DEF ExtendRun
    <2> QED BY <2>1, <2>2, <2>3, <2>4
  <1>3. ASSUME NEW n \in 1 .. N
        PROVE  /\ f[n - 1].verified \subseteq f[n].verified
               /\ f[n - 1].error = "none" => Extended(f[n - 1], order[n], f[n])
    <2>1. PICK q, g : q = f[n - 1] /\ g = order[n]
      OBVIOUS
    <2>2. n - 1 \in 0 .. N
      OBVIOUS
    <2>3. Sound(WishSets, q) /\ g \in q.verified /\ f[n] = ExtendHead(q, g)
      BY <1>2, <2>1, <2>2
    <2>4. /\ q.verified \subseteq ExtendHead(q, g).verified
          /\ q.error = "none" => Extended(q, g, ExtendHead(q, g))
      BY <2>3, ExtendHeadKeeps
    <2> QED BY <2>1, <2>3, <2>4
  <1> DEFINE S == {n \in 0 .. N : f[n].error = "none"}
  <1>4. \A n \in 0 .. N : f[n].error = "none"
    <2>1. 0 \in S
      BY <1>2
    <2>2. ASSUME NEW n \in 1 .. N, n - 1 \in S PROVE n \in S
      <3>1. f[n - 1].error = "none" /\ n \in 0 .. N
        BY <2>2
      <3>2. Extended(f[n - 1], order[n], f[n])
        BY <1>3, <3>1
      <3>3. f[n].error = "none"
        BY <3>2 DEF Extended
      <3> QED BY <3>1, <3>3
    <2> HIDE DEF S
    <2>3. \A n \in 0 .. N : n \in S
      BY <2>1, <2>2, UpTo
    <2> QED BY <2>3 DEF S
  <1>5. \A n \in 1 .. N : Extended(f[n - 1], order[n], f[n])
    <2>1. \A n \in 1 .. N : n - 1 \in 0 .. N
      OBVIOUS
    <2> QED BY <1>3, <1>4, <2>1
  <1>6. ASSUME NEW n \in 0 .. N PROVE f[n].verified \subseteq f[N].verified /\ f[n].desired \subseteq f[N].desired
    <2> DEFINE T == {k \in 0 .. N - n : f[n].verified \subseteq f[n + k].verified
                                        /\ f[n].desired \subseteq f[n + k].desired}
    <2>1. 0 \in T
      OBVIOUS
    <2>2. ASSUME NEW k \in 1 .. N - n, k - 1 \in T PROVE k \in T
      <3>1. n + k \in 1 .. N /\ (n + k) - 1 = n + (k - 1) /\ k \in 0 .. N - n
        OBVIOUS
      <3>2. f[n + (k - 1)].verified \subseteq f[n + k].verified /\ f[n + (k - 1)].desired \subseteq f[n + k].desired
        BY <1>3, <1>5, <3>1 DEF Extended
      <3> QED BY <2>2, <3>1, <3>2
    <2> HIDE DEF T
    <2>3. PICK M \in Nat : M = N - n
      OBVIOUS
    <2>4. M \in T
      <3>1. \A k \in 1 .. M : k - 1 \in T => k \in T
        BY <2>2, <2>3
      <3>2. \A k \in 0 .. M : k \in T
        BY <2>1, <3>1, UpTo
      <3> QED BY <3>2
    <2>5. n + M = N
      BY <2>3
    <2> QED BY <2>4, <2>5 DEF T
  <1>7. ASSUME NEW h \in Heads(f[N].verified) PROVE h \in Heads(s.verified)
    <2> DEFINE T == {k \in 0 .. N : h \in Heads(f[N - k].verified)}
    <2>1. 0 \in T
      BY <1>7
    <2>2. ASSUME NEW k \in 1 .. N, k - 1 \in T PROVE k \in T
      <3>1. PICK n \in 1 .. N : n = N - (k - 1) /\ n - 1 = N - k
        OBVIOUS
      <3>2. h \in Heads(f[n].verified) /\ n - 1 \in 0 .. N /\ k \in 0 .. N
        BY <2>2, <3>1
      <3>3. PICK q, g, r : q = f[n - 1] /\ g = order[n] /\ r = f[n]
        OBVIOUS
      <3>4. Sound(WishSets, q) /\ g \in q.verified /\ Extended(q, g, r) /\ h \in Heads(r.verified)
        BY <1>2, <1>5, <3>2, <3>3
      <3>5. h \in Heads(q.verified)
        BY <3>4, ExtendedHeads
      <3> QED BY <3>1, <3>2, <3>3, <3>5
    <2> HIDE DEF T
    <2>3. N \in T
      <3>1. \A k \in 0 .. N : k \in T
        BY ONLY N \in Nat, <2>1, <2>2, UpTo
      <3> QED BY ONLY N \in Nat, <3>1
    <2>4. N - N = 0
      OBVIOUS
    <2> QED BY <1>2, <2>3, <2>4 DEF T
  <1>8. ASSUME NEW h \in Heads(f[N].verified) PROVE Down(f[N], h)
    <2>1. PICK n \in 1 .. N : h = order[n]
      BY <1>1, <1>7, <1>8 DEF Range
    <2>2. n - 1 \in 0 .. N /\ n \in 0 .. N /\ N \in 0 .. N
      OBVIOUS
    <2>3. PICK q, r, t : q = f[n - 1] /\ r = f[n] /\ t = f[N]
      OBVIOUS
    <2>4. /\ Sound(WishSets, q) /\ h \in q.verified /\ Extended(q, h, r) /\ Sound(WishSets, t)
          /\ t.items = q.items /\ q.verified \subseteq r.verified
          /\ r.verified \subseteq t.verified /\ r.desired \subseteq t.desired
      BY <1>2, <1>3, <1>5, <1>6, <2>1, <2>2, <2>3
    <2>5. Down(t, h)
      BY <2>4, ExtendedReach
    <2> QED BY <2>3, <2>5
  <1>9. N \in 0 .. N /\ 0 \in 0 .. N
    OBVIOUS
  <1> QED BY <1>2, <1>4, <1>6, <1>8, <1>9

LEMMA ExtendRaised ==
  ASSUME Fixed, NEW s, Sound(WishSets, s), NEW order \in Seq(s.verified),
         Sq!FoldLeft(ExtendHead, s, order).error = "none"
  PROVE  s.error = "none"
  <1>0. PICK f : ExtendRun(f, s, order)
    BY ExtendSteps
  <1>1. PICK N \in Nat : N = Len(order)
    OBVIOUS
  <1>2. /\ f[0] = s /\ f[N].error = "none"
        /\ \A n \in 1 .. N : f[n] = ExtendHead(f[n - 1], order[n])
    BY <1>0, <1>1 DEF ExtendRun
  <1>3. ASSUME NEW n \in 1 .. N, f[n].error = "none" PROVE f[n - 1].error = "none"
    <2>1. f[n] = ExtendHead(f[n - 1], order[n])
      BY <1>2
    <2>2. ASSUME f[n - 1].error # "none" PROVE f[n] = f[n - 1]
      BY <2>1, <2>2 DEF ExtendHead, Unless
    <2> QED BY <1>3, <2>2
  <1> DEFINE T == {k \in 0 .. N : f[N - k].error = "none"}
  <1>4. 0 \in T
    BY <1>2
  <1>5. ASSUME NEW k \in 1 .. N, k - 1 \in T PROVE k \in T
    <2>1. PICK n \in 1 .. N : n = N - (k - 1) /\ n - 1 = N - k
      OBVIOUS
    <2>2. f[n].error = "none" /\ k \in 0 .. N
      BY <1>5, <2>1
    <2> QED BY <1>3, <2>1, <2>2
  <1> HIDE DEF T
  <1>6. N \in T
    BY <1>4, <1>5, UpTo
  <1>7. N - N = 0
    OBVIOUS
  <1> QED BY <1>2, <1>6, <1>7 DEF T

\* Each element has its place in an order.
LEMMA OrderCovers ==
  ASSUME NEW S, IsFiniteSet(S), NEW order \in Sq!SetToSeqs(S)
  PROVE  order \in Seq(S) /\ Range(order) = S
  <1>1. PICK n \in Nat : n = Cardinality(S)
    BY FS_CardinalityType
  <1>2. Sq!Cardinality(S) = n
    <2>1. Cardinality(S) = Sq!Cardinality(S)
      BY DEF Sq!Cardinality, Cardinality
    <2> QED BY <1>1, <2>1
  <1>3. order \in [1 .. n -> S] /\ \A i, j \in 1 .. n : i # j => order[i] # order[j]
    BY <1>2 DEF Sq!SetToSeqs
  <1>4. order \in Injection(1 .. n, S)
    BY <1>3 DEF Injection, IsInjective
  <1>5. Cardinality(1 .. n) = n
    <2>1. 1 \in Int /\ n \in Int
      OBVIOUS
    <2>2. Cardinality(1 .. n) = IF 1 > n THEN 0 ELSE n - 1 + 1
      BY <2>1, FS_Interval
    <2> QED BY <2>2
  <1>6. order \in Surjection(1 .. n, S)
    BY <1>1, <1>4, <1>5, FS_Injection
  <1>7. \A y \in S : \E i \in 1 .. n : order[i] = y
    BY <1>6 DEF Surjection
  <1>8. DOMAIN order = 1 .. n /\ order \in Seq(S)
    BY <1>3
  <1> QED BY <1>3, <1>7, <1>8 DEF Range

LEMMA JumpIs ==
  ASSUME NEW s, s.error = "none", s \in State(WishSets), NEW h, Jump(s, h).error = "none"
  PROVE  \E b : Jump(s, h) = [s EXCEPT !.best = b]
  <1> DEFINE line == get_chain(h, get_height(s.items, h))
             fair == {i \in DOMAIN line : Punish(s, line[i]) <= 0}
             a    == line[Min(fair)]
  <1>1. fair # {}
    <2>1. ASSUME fair = {} PROVE Jump(s, h) = [Raise(s, "KeyError") EXCEPT !.best = None]
      <3> HIDE DEF line
      <3> QED BY <2>1 DEF Jump, line
    <2>2. [Raise(s, "KeyError") EXCEPT !.best = None].error = "KeyError"
      BY DEF Raise, State
    <2> HIDE DEF fair
    <2> QED BY <2>1, <2>2
  <1>2. ASSUME 1 \in fair PROVE Jump(s, h) = [s EXCEPT !.best = h]
    <2> HIDE DEF line
    <2> QED BY <1>2 DEF Jump, line
  <1>3. ASSUME 1 \notin fair
        PROVE  Jump(s, h) = [s EXCEPT !.best = IF Punish(s, a) < 0 THEN a ELSE best_descendent(s, a)]
    <2> HIDE DEF line
    <2> QED BY <1>1, <1>3 DEF Jump, line
  <1> DEFINE b == IF Punish(s, a) < 0 THEN a ELSE best_descendent(s, a)
  <1> HIDE DEF fair
  <1>4. 1 \notin fair => Jump(s, h) = [s EXCEPT !.best = b]
    BY <1>3
  <1> HIDE DEF b
  <1> QED BY <1>2, <1>4

\* What think() leaves when nothing was raised.
LEMMA DecisionsAre ==
  ASSUME Fixed, NEW s, Sound(WishSets, s), NEW r \in Decisions(s), r.error = "none"
  PROVE  /\ s.error = "none" /\ r.items = s.items /\ r.verified = s.verified
         /\ r.desired = {w[1] : w \in {v \in s.desired : v[2] >= timestamp_cutoff(r.best)}}
  <1>0. s \in State(WishSets)
    BY DEF Sound
  <1>1. s.error = "none"
    BY DEF Decisions
  <1>2. ~Incomparable(s)
    <2>1. ASSUME Incomparable(s) PROVE FALSE
      <3>1. r = Raise(s, "TypeError")
        BY <1>1, <2>1 DEF Decisions
      <3>2. "TypeError" \in Raised
        BY DEF Raised
      <3> QED BY <3>1, <3>2, RaiseKeeps
    <2> QED BY <2>1
  <1>3. PICK q \in IF s.verified = {} THEN {s} ELSE {Jump(s, h) : h \in UNION TopHeads(s, 1)},
             K \in TopHeads(s, Few) :
          r = [(IF q.error = "none" THEN Recent(q) ELSE q) EXCEPT !.top = K]
    BY <1>1, <1>2 DEF Decisions
  <1>4. q \in State(WishSets)
    <2>1. CASE s.verified = {}
      BY <1>0, <1>3, <2>1
    <2>2. CASE s.verified # {}
      <3>1. PICK h \in UNION TopHeads(s, 1) : q = Jump(s, h)
        BY <1>3, <2>2
      <3>2. h \in s.items
        BY TopHeadsAreVerified DEF Sound
      <3>3. Sound(WishSets, q)
        BY <1>1, <3>1, <3>2, JumpEnds
      <3> QED BY <3>3 DEF Sound
    <2> QED BY <2>1, <2>2
  <1>5. q.error = "none"
    <2>1. ASSUME q.error # "none" PROVE r = [q EXCEPT !.top = K]
      BY <1>3, <2>1
    <2>2. [q EXCEPT !.top = K].error = q.error
      BY <1>4 DEF State
    <2> QED BY <2>1, <2>2
  <1>6. q.items = s.items /\ q.verified = s.verified /\ q.desired = s.desired
    <2>1. CASE s.verified = {}
      BY <1>3, <2>1
    <2>2. CASE s.verified # {}
      <3>1. PICK h \in UNION TopHeads(s, 1) : q = Jump(s, h)
        BY <1>3, <2>2
      <3>2. PICK b : q = [s EXCEPT !.best = b]
        BY <1>0, <1>1, <1>5, <3>1, JumpIs
      <3> QED BY <1>0, <3>2 DEF State
    <2> QED BY <2>1, <2>2
  <1> DEFINE d == {w[1] : w \in {v \in q.desired : v[2] >= timestamp_cutoff(q.best)}}
  <1>7. r = [Recent(q) EXCEPT !.top = K] /\ Recent(q) = [q EXCEPT !.desired = d]
    BY <1>3, <1>5 DEF Recent
  <1>8. r.items = q.items /\ r.verified = q.verified /\ r.desired = d /\ r.best = q.best
    <2> HIDE DEF d
    <2> QED BY <1>4, <1>7 DEF State
  <1> QED BY <1>1, <1>6, <1>8

LEMMA CutoffType ==
  ASSUME Hash # {}, NEW b \in Node
  PROVE  timestamp_cutoff(b) \in Int
  <1>1. Hour \in Int /\ Day \in Int /\ Timestamp \in [Hash -> Nat] /\ IsFiniteSet(Hash)
    BY ShareChainAssumption
  <1>2. CASE b = None
    <2> DEFINE S == Range(Timestamp)
    <2>1. S = {Timestamp[x] : x \in Hash}
      BY <1>1 DEF Range
    <2>2. S \in SUBSET Nat /\ S # {} /\ IsFiniteSet(S)
      BY <1>1, <2>1, FiniteImage
    <2>3. Max(S) \in Nat
      <3> HIDE DEF S
      <3>1. PICK x \in S : \A y \in S : x >= y
        BY <2>2, Greatest
      <3> QED BY <2>2, <3>1 DEF Max
    <2> HIDE DEF S
    <2>4. timestamp_cutoff(b) = Max(S) - Day
      BY <1>2 DEF timestamp_cutoff, S
    <2> QED BY <1>1, <2>3, <2>4
  <1>3. CASE b # None
    BY <1>1, <1>3 DEF timestamp_cutoff, Node
  <1> QED BY <1>2, <1>3

\* NoStall of a working state.
Answers(r) ==
  /\ \A h \in Heads(r.items) \ r.verified :
       newest(r.items, h) >= timestamp_cutoff(r.best) => get_last(r.items, h) \in r.desired
  /\ \A h \in Heads(r.verified) :
       get_height(r.verified, h) < CHAIN_LENGTH /\ newest(r.verified, h) >= timestamp_cutoff(r.best) =>
         LET t == get_last(r.verified, h)
         IN t = None \/ t \in bad \/ get_last(r.items, t) \in r.desired

LEMMA RecentAnswers ==
  ASSUME Fixed, Grown, NEW s, Sound(WishSets, s), Asked(s), \A h \in Heads(s.verified) : Down(s, h),
         NEW r, r.items = s.items, r.verified = s.verified, r.best \in Node,
         r.desired = {w[1] : w \in {v \in s.desired : v[2] >= timestamp_cutoff(r.best)}}
  PROVE  Answers(r)
  <1>0. /\ IsForest(s.items, previous_hash) /\ IsForest(s.verified, previous_hash)
        /\ s.items \subseteq Hash /\ s.verified \subseteq Hash
        /\ Timestamp \in [Hash -> Nat] /\ CHAIN_LENGTH \in Nat
    BY ShareChainAssumption DEF Fixed, IsForest, Sets, Sound, State
  <1>1. ASSUME NEW n \in Nat, NEW w \in s.desired, w[2] \in Nat, n <= w[2], n >= timestamp_cutoff(r.best),
               Hash # {}
        PROVE  w[1] \in r.desired
    <2>1. timestamp_cutoff(r.best) \in Int
      BY <1>1, CutoffType
    <2>2. w[2] >= timestamp_cutoff(r.best)
      BY <1>1, <2>1
    <2> QED BY <2>2
  <1>2. ASSUME NEW h \in Heads(r.items) \ r.verified, newest(r.items, h) >= timestamp_cutoff(r.best)
        PROVE  get_last(r.items, h) \in r.desired
    <2>1. h \in s.items /\ h \in Hash
      BY <1>0, <1>2 DEF Heads, HeadSet
    <2>2. newest(r.items, h) \in Nat
      <3>1. newest(s.items, h) = Timestamp[h]
        BY <1>0, <2>1, NewestIs
      <3> QED BY <1>0, <2>1, <3>1
    <2>3. PICK w \in s.desired : w[1] = get_last(r.items, h) /\ w[2] \in Nat /\ newest(r.items, h) <= w[2]
      <3> HIDE DEF newest
      <3> QED BY <1>2 DEF Asked
    <2> HIDE DEF newest
    <2> QED BY <1>1, <1>2, <2>1, <2>2, <2>3
  <1>3. ASSUME NEW h \in Heads(r.verified), get_height(r.verified, h) < CHAIN_LENGTH,
               newest(r.verified, h) >= timestamp_cutoff(r.best),
               get_last(r.verified, h) # None, get_last(r.verified, h) \notin bad
        PROVE  get_last(r.items, get_last(r.verified, h)) \in r.desired
    <2>1. h \in s.verified /\ h \in Hash /\ h \in Node
      BY <1>0, <1>3 DEF Heads, HeadSet, Node
    <2>2. newest(r.verified, h) \in Nat
      <3>1. newest(s.verified, h) = Timestamp[h]
        BY <1>0, <2>1, NewestIs
      <3> QED BY <1>0, <2>1, <3>1
    <2>3. ~(get_height(s.verified, h) >= CHAIN_LENGTH)
      <3>1. get_height(s.verified, h) \in Nat
        BY <1>0, <2>1, HeightEq
      <3> QED BY <1>0, <1>3, <3>1
    <2>4. PICK w \in s.desired : /\ w[1] = get_last(r.items, get_last(r.verified, h)) /\ w[2] \in Nat
                                 /\ newest(r.verified, h) <= w[2]
      <3> HIDE DEF newest
      <3>1. Down(s, h)
        BY <1>3
      <3> QED BY <1>3, <2>3, <3>1 DEF Down
    <2> HIDE DEF newest
    <2> QED BY <1>1, <1>3, <2>1, <2>2, <2>4
  <1> HIDE DEF newest
  <1> QED BY <1>2, <1>3 DEF Answers

\* Where it raises nothing, think() has what is missing asked for.
LEMMA ThinkAnswers ==
  ASSUME Fixed, Grown, NEW I \in Sets, NEW V, V \subseteq I \ bad, NEW N \in Marks,
         NEW r \in think(I, V, N), r.error = "none"
  PROVE  Answers(r)
  <1> DEFINE start == [items |-> I, verified |-> V, naughty |-> N, desired |-> {}, bads |-> <<>>,
                       best |-> None, top |-> {}, error |-> "none"]
             heads == Heads(I) \ Heads(V)
  <1>1. PICK s \in Verify(start, heads) :
          \E t \in Extend(Purge(s), Heads(Purge(s).verified)) : r \in Decisions(t)
    BY DEF think
  <1>2. /\ Sound(WishSets, start) /\ start.items = I /\ start.error = "none" /\ start.bads = <<>>
        /\ start.verified = V
    BY DEF Sound, State, Sets, WishSets, Raised, Node
  <1> HIDE DEF start
  <1>3. \A J \in Sets : IsFiniteSet(J)
    BY ShareChainAssumption, FS_Subset DEF Sets
  <1>4. heads \in Sets /\ heads \subseteq I /\ heads \subseteq Heads(I)
    BY DEF Heads, HeadSet, Sets
  <1>5. PICK order \in Sq!SetToSeqs(heads) : s = Sq!FoldLeft(VerifyHead, start, order)
    BY <1>1 DEF Verify
  <1>6. order \in Seq(I) /\ Range(order) = heads
    <2> HIDE DEF heads
    <2>1. order \in Seq(heads) /\ Range(order) = heads
      BY <1>3, <1>4, OrderCovers
    <2>2. order \in Seq(I)
      BY <1>4, <2>1
    <2> QED BY <2>1, <2>2
  <1>7. Sound(WishSets, s) /\ s.items = I
    BY <1>2, <1>5, <1>6, VerifyKeeps DEF SameShares
  <1>8. ASSUME NEW h \in I
        PROVE  Fate(s, I, h, heads) /\ Deep(s, I) /\ V \subseteq s.verified
    <2> HIDE DEF heads
    <2> QED BY <1>2, <1>4, <1>5, <1>6, VerifyFate
  <1> DEFINE p == Purge(s)
  <1>9. Sound(WishSets, p)
    BY <1>7, PurgeKeeps
  <1>10. PICK t \in Extend(p, Heads(p.verified)) : r \in Decisions(t)
    BY <1>1
  <1>11. PICK line \in Sq!SetToSeqs(Heads(p.verified)) : t = Sq!FoldLeft(ExtendHead, p, line)
    BY <1>10 DEF Extend
  <1>12. line \in Seq(p.verified) /\ Heads(p.verified) = Range(line)
    <2> HIDE DEF p
    <2>1. Heads(p.verified) \in Sets /\ Heads(p.verified) \subseteq p.verified
      BY <1>9 DEF Sound, State, Sets, Heads, HeadSet
    <2>2. line \in Seq(Heads(p.verified)) /\ Heads(p.verified) = Range(line)
      BY <1>3, <2>1, OrderCovers
    <2>3. line \in Seq(p.verified)
      BY <2>1, <2>2
    <2> QED BY <2>2, <2>3
  <1>13. Sound(WishSets, t) /\ t.best = p.best
    <2> HIDE DEF p
    <2> QED BY <1>9, <1>11, <1>12, ExtendKeeps DEF SameShares
  <1>14. /\ t.error = "none" /\ r.items = t.items /\ r.verified = t.verified
         /\ r.desired = {w[1] : w \in {v \in t.desired : v[2] >= timestamp_cutoff(r.best)}}
    BY <1>10, <1>13, DecisionsAre
  <1>15. p.error = "none"
    <2> HIDE DEF p
    <2> QED BY <1>9, <1>11, <1>12, <1>14, ExtendRaised
  <1>16. Asked(p)
    <2>1. CASE I = {}
      <3>1. PICK J : Purged(s.items, s.bads, J) /\ J[Len(s.bads)] = p.items
        BY <1>7, <1>15, PurgeIs
      <3>2. p.items \subseteq I
        <4>1. Len(s.bads) \in 0 .. Len(s.bads) /\ s.bads \in Seq(Hash)
          BY <1>7 DEF Sound, State, Fixed
        <4>2. \A n \in 0 .. Len(s.bads) : J[n] \subseteq I
          BY <1>7, <3>1, <4>1, PurgedShrinks
        <4>3. J[Len(s.bads)] \subseteq I
          BY <4>1, <4>2
        <4> QED BY <3>1, <4>3
      <3> HIDE DEF p
      <3> QED BY <2>1, <3>2 DEF Asked, Heads, HeadSet
    <2>2. CASE I # {}
      <3>1. PICK J : Purged(s.items, s.bads, J) /\ J[Len(s.bads)] = p.items
        BY <1>7, <1>15, PurgeIs
      <3>2. p.verified = s.verified /\ p.desired = s.desired
        BY <1>7, <1>15, PurgeIs
      <3>3. Deep(s, I) /\ V \subseteq s.verified /\ V \subseteq I /\ \A h \in I : Fate(s, I, h, Heads(I) \ Heads(V))
        BY <1>8, <2>2
      <3> HIDE DEF p, heads
      <3> QED BY <1>7, <1>9, <3>1, <3>2, <3>3, HeadsAsked
    <2> QED BY <2>1, <2>2
  <1> HIDE DEF p
  <1>17. /\ p.desired \subseteq t.desired /\ p.verified \subseteq t.verified /\ t.items = p.items
         /\ \A h \in Heads(t.verified) : Down(t, h)
    BY <1>9, <1>11, <1>12, <1>15, ExtendReaches
  <1>18. Asked(t)
    <2> HIDE DEF newest
    <2> QED BY <1>16, <1>17 DEF Asked
  <1>19. r.best \in Node
    <2>1. Ended(r)
      BY ThinkEnds
    <2> QED BY <2>1 DEF Ended, Sound, State
  <1> QED BY <1>13, <1>14, <1>17, <1>18, <1>19, RecentAnswers


\* The walks follow what never changes.
LEMMA SameWalks ==
  ASSUME previous_hash' = previous_hash, NEW x, NEW n
  PROVE  nth_parent(x, n)' = nth_parent(x, n)
  BY DEF nth_parent

LEMMA SameWalked ==
  ASSUME previous_hash' = previous_hash, NEW I, items' = I \/ verified' = I, NEW x
  PROVE  /\ items' = I => newest(items, x)' = newest(I, x)
         /\ verified' = I => newest(verified, x)' = newest(I, x)
  <1>1. \A n : get_chain(x, n)' = get_chain(x, n)
    BY SameWalks DEF get_chain
  <1>2. items' = I => get_height(items, x)' = get_height(I, x)
    BY DEF get_height
  <1>3. verified' = I => get_height(verified, x)' = get_height(I, x)
    BY DEF get_height
  <1>4. ASSUME items' = I PROVE newest(items, x)' = newest(I, x)
    BY <1>1, <1>2, <1>4 DEF newest
  <1>5. ASSUME verified' = I PROVE newest(verified, x)' = newest(I, x)
    BY <1>1, <1>3, <1>5 DEF newest
  <1> QED BY <1>4, <1>5

LEMMA BecomeAnswers ==
  ASSUME NEW r, Become(r), r.error = "none" => Answers(r)
  PROVE  NoStall'
  <1>1. /\ items' = r.items /\ verified' = r.verified /\ error' = r.error
        /\ previous_hash' = previous_hash /\ bad' = bad
    BY DEF Become, network
  <1> SUFFICES ASSUME error' = "none"
               PROVE  (/\ \A h \in Heads(items) \ verified :
                            newest(items, h) >= timestamp_cutoff(best) => get_last(items, h) \in desired
                       /\ \A h \in Heads(verified) :
                            get_height(verified, h) < CHAIN_LENGTH /\ newest(verified, h) >= timestamp_cutoff(best) =>
                              LET t == get_last(verified, h)
                              IN t = None \/ t \in bad \/ get_last(items, t) \in desired)'
    BY DEF NoStall
  <1>2. best' = r.best /\ desired' = r.desired /\ Answers(r)
    BY <1>1 DEF Become
  <1>3. \A h : newest(items, h)' = newest(r.items, h) /\ newest(verified, h)' = newest(r.verified, h)
    BY <1>1, SameWalked
  <1>4. ASSUME NEW h \in Heads(items)' \ verified', newest(items, h)' >= timestamp_cutoff(best')
        PROVE  get_last(items, h)' \in desired'
    <2>1. Heads(items)' = Heads(r.items)
      BY <1>1 DEF Heads
    <2>2. get_last(items, h)' = get_last(r.items, h)
      BY <1>1 DEF get_last
    <2> HIDE DEF newest
    <2> QED BY <1>1, <1>2, <1>3, <1>4, <2>1, <2>2 DEF Answers
  <1>5. ASSUME NEW h \in Heads(verified)', get_height(verified, h)' < CHAIN_LENGTH,
               newest(verified, h)' >= timestamp_cutoff(best')
        PROVE  (LET t == get_last(verified, h) IN t = None \/ t \in bad \/ get_last(items, t) \in desired)'
    <2>1. Heads(verified)' = Heads(r.verified)
      BY <1>1 DEF Heads
    <2>2. get_height(verified, h)' = get_height(r.verified, h)
      BY <1>1 DEF get_height
    <2>3. PICK t : t = get_last(r.verified, h)
      OBVIOUS
    <2>4. get_last(verified, h)' = t
      BY <1>1, <2>3 DEF get_last
    <2>5. get_last(items, t)' = get_last(r.items, t)
      BY <1>1 DEF get_last
    <2>6. t = None \/ t \in bad \/ get_last(r.items, t) \in r.desired
      <3> HIDE DEF newest
      <3> QED BY <1>1, <1>2, <1>3, <1>5, <2>1, <2>2, <2>3 DEF Answers
    <2>7. get_last(items, get_last(verified, h))' = get_last(r.items, t)
      BY <1>1, <2>3 DEF get_last
    <2> QED BY <1>1, <1>2, <2>4, <2>6, <2>7
  <1> QED BY <1>4, <1>5
-----------------------------------------------------------------------------
\* The inductive invariant.

\* The trackers, and the best share that goes with them.
Trackers ==
  /\ items \in Sets /\ verified \subseteq items \ bad /\ naughty \in Marks
  /\ error \in Raised
  /\ best \in Node /\ desired \subseteq Hash
  /\ error = "none" => /\ best \in items \cup {None}
                       /\ best \in Hash \ Solved => naughty[best] = 0

Network == previous_hash \in Forests /\ {bad, excess, heavy} \subseteq SUBSET Hash

Download == (asked = <<>> \/ asked[1] \subseteq Hash) /\ downloading \in BOOLEAN

ChainInv == Network /\ Trackers /\ Download

LEMMA NetworkIsFixed ==
  ASSUME Network
  PROVE  Fixed
  BY ShareChainAssumption DEF Network, Fixed

LEMMA BecomeKeeps ==
  ASSUME Network, Trackers, NEW r, Ended(r), Become(r)
  PROVE  Network' /\ Trackers'
  <1>1. Network' /\ bad' = bad
    BY DEF Network, Become, network
  <1>2. /\ items' \in Sets /\ verified' \subseteq items' \ bad' /\ naughty' \in Marks
        /\ error' \in Raised
    BY <1>1 DEF Become, Ended
  <1>3. CASE r.error = "none"
    <2>1. r.best \in Node /\ r.desired \in Sets /\ Chosen(r)
      BY <1>3 DEF Ended, Sound, State
    <2> QED BY <1>1, <1>2, <1>3, <2>1 DEF Become, Trackers, Chosen, Sets
  <1>4. CASE r.error # "none"
    BY <1>1, <1>2, <1>4 DEF Become, Trackers
  <1> QED BY <1>3, <1>4

LEMMA ThinkKeeps ==
  ASSUME Network, Trackers, NEW I \in Sets, NEW V, V \subseteq I \ bad, NEW N \in Marks,
         set_best_share(I, V, N)
  PROVE  Network' /\ Trackers'
  <1>1. PICK r \in think(I, V, N) : Become(r)
    BY DEF set_best_share
  <1>2. Ended(r)
    BY NetworkIsFixed, ThinkEnds
  <1> QED BY <1>1, <1>2, BecomeKeeps

LEMMA SharesKeep ==
  ASSUME Network, Trackers, NEW S \in SUBSET Hash, handle_shares(S)
  PROVE  Network' /\ Trackers'
  <1>1. CASE S \subseteq items
    BY <1>1 DEF handle_shares, Network, Trackers, network
  <1>2. CASE ~(S \subseteq items)
    <2>1. set_best_share(items \cup S, verified, naughty)
      BY <1>2 DEF handle_shares
    <2>2. items \cup S \in Sets /\ verified \subseteq (items \cup S) \ bad /\ naughty \in Marks
      BY DEF Trackers, Sets
    <2> QED BY <2>1, <2>2, ThinkKeeps
  <1> QED BY <1>1, <1>2

LEMMA CleanKeeps ==
  ASSUME Network, Trackers, NEW old, NEW quiet, clean_tracker(old, quiet)
  PROVE  Network' /\ Trackers'
  <1>1. PICK s \in think(items, verified, naughty) :
          LET r == IF s.error = "none" THEN DropTails(EatHeads(s, old, quiet)) ELSE s
          IN IF r.error # "none" THEN Become(r) ELSE set_best_share(r.items, r.verified, r.naughty)
    BY DEF clean_tracker
  <1>2. Ended(s)
    <2>1. items \in Sets /\ verified \subseteq items \ bad /\ naughty \in Marks
      BY DEF Trackers
    <2> QED BY <2>1, NetworkIsFixed, ThinkEnds
  <1> DEFINE r == IF s.error = "none" THEN DropTails(EatHeads(s, old, quiet)) ELSE s
  <1>3. (r.error = "none" => Clear(r)) /\ (r.error # "none" => Ended(r))
    BY <1>2, CleanEnds
  <1>4. IF r.error # "none" THEN Become(r) ELSE set_best_share(r.items, r.verified, r.naughty)
    BY <1>1
  <1> HIDE DEF r
  <1>5. CASE r.error # "none"
    BY <1>3, <1>4, <1>5, BecomeKeeps
  <1>6. CASE r.error = "none"
    <2>1. r.items \in Sets /\ r.verified \subseteq r.items \ bad /\ r.naughty \in Marks
      BY <1>3, <1>6 DEF Clear, Sound, State
    <2> QED BY <1>4, <1>6, <2>1, ThinkKeeps
  <1> QED BY <1>5, <1>6

-----------------------------------------------------------------------------
LEMMA ChainInvInit == Init => ChainInv
  <1> SUFFICES ASSUME Init PROVE ChainInv
    OBVIOUS
  <1>1. Network /\ Download
    BY ShareChainAssumption DEF Init, Network, Download
  <1>2. naughty \in Marks
    BY ConstantTypes DEF Init, Marks
  <1>3. None \notin Hash /\ None \in Node
    BY HashAssumption DEF None, Node
  <1>4. Trackers
    BY <1>2, <1>3 DEF Init, Trackers, Sets, Raised
  <1> QED BY <1>1, <1>4 DEF ChainInv

LEMMA ChainInvNext == ChainInv /\ [Next]_chainVars => ChainInv'
  <1> SUFFICES ASSUME ChainInv, [Next]_chainVars PROVE ChainInv'
    OBVIOUS
  <1>0. Network /\ Trackers /\ Download
    BY DEF ChainInv
  <1>1. CASE Hear
    <2>1. PICK S \in SUBSET (Hash \ items) : handle_shares(S)
      BY <1>1 DEF Hear
    <2>2. Network' /\ Trackers'
      BY <1>0, <2>1, SharesKeep
    <2>3. Download'
      BY <1>0, <1>1 DEF Hear, Download
    <2> QED BY <2>2, <2>3 DEF ChainInv
  <1>2. CASE Ask
    <2>1. PICK h \in desired, parents \in 0 .. Cardinality(Hash) : asked' = <<handle_get_shares(h, parents)>>
      BY <1>2 DEF Ask
    <2>2. h \in Hash /\ parents \in Nat
      BY <1>0, ConstantTypes DEF Trackers
    <2>3. handle_get_shares(h, parents) \subseteq Hash
      BY <1>0, <2>2, NetworkIsFixed, AnswerIsShares
    <2>4. Download'
      BY <1>0, <1>2, <2>1, <2>3 DEF Ask, Download
    <2>5. Network' /\ Trackers'
      BY <1>0, <1>2 DEF Ask, Network, Trackers, network
    <2> QED BY <2>4, <2>5 DEF ChainInv
  <1>3. CASE Answered
    <2>1. asked[1] \in SUBSET Hash /\ handle_shares(asked[1])
      BY <1>0, <1>3 DEF Answered, Download
    <2>2. Network' /\ Trackers'
      BY <1>0, <2>1, SharesKeep
    <2>3. Download'
      BY <1>3 DEF Answered, Download
    <2> QED BY <2>2, <2>3 DEF ChainInv
  <1>4. CASE Unanswered
    BY <1>0, <1>4 DEF Unanswered, ChainInv, Network, Trackers, Download, network
  <1>5. CASE NewWork
    <2>1. items \in Sets /\ verified \subseteq items \ bad /\ naughty \in Marks
      BY <1>0 DEF Trackers
    <2>2. Network' /\ Trackers'
      BY <1>0, <1>5, <2>1, ThinkKeeps DEF NewWork
    <2>3. Download'
      BY <1>0, <1>5 DEF NewWork, Download
    <2> QED BY <2>2, <2>3 DEF ChainInv
  <1>6. CASE Clean
    <2>1. PICK old, quiet : clean_tracker(old, quiet)
      BY <1>6 DEF Clean
    <2>2. Network' /\ Trackers'
      BY <1>0, <2>1, CleanKeeps
    <2>3. Download'
      BY <1>0, <1>6 DEF Clean, Download
    <2> QED BY <2>2, <2>3 DEF ChainInv
  <1>7. CASE UNCHANGED chainVars
    BY <1>0, <1>7 DEF ChainInv, Network, Trackers, Download, chainVars, network
  <1> QED BY <1>1, <1>2, <1>3, <1>4, <1>5, <1>6, <1>7 DEF Next

LEMMA ChainInvHolds == Spec => []ChainInv
  BY ChainInvInit, ChainInvNext, PTL DEF Spec

\* Whatever shares arrive and whichever are flawed, the trackers keep their types, and the
\* verified shares are among the others and none is one that check() refuses: think() and
\* clean_tracker() of node.py with attempt_verify of data.py.
THEOREM TrackersInOrder == Spec => []ChainTypeOK
  <1>1. ChainInv => ChainTypeOK
    BY DEF ChainInv, Network, Trackers, Download, ChainTypeOK, Raised, Sets, Marks
  <1> QED BY <1>1, ChainInvHolds, PTL

\* attempt_verify always has CHAIN_LENGTH ancestors to judge a share by, or all there are,
\* for every forest and however its shares come and go; and clean_tracker() takes no share
\* out of the middle of a chain of either tracker.
THEOREM AncestorsSuffice == Spec => []NoAssertion
  <1>1. ChainInv => NoAssertion
    BY DEF ChainInv, Trackers, NoAssertion, Raised
  <1> QED BY <1>1, ChainInvHolds, PTL

\* Whenever a handler has ended without exception, the share built on is in the tracker, or
\* there is none, by whatever branches think() left a head that is to be punished.
THEOREM BestIsPresent == Spec => []BestPresent
  <1>1. ChainInv => BestPresent
    BY DEF ChainInv, Trackers, BestPresent
  <1> QED BY <1>1, ChainInvHolds, PTL

\* Nor does it bear a mark of naughtiness, unless it solves a block. (This says nothing of
\* a share that is to be punished for its size alone.)
THEOREM BestIsNotNaughty == Spec => []NeverOnNaughty
  <1>1. ChainInv => NeverOnNaughty
    BY DEF ChainInv, Trackers, NeverOnNaughty
  <1> QED BY <1>1, ChainInvHolds, PTL
-----------------------------------------------------------------------------
LEMMA ThinkSettles ==
  ASSUME Network, Grown, NEW I \in Sets, NEW V, V \subseteq I \ bad, NEW N \in Marks,
         set_best_share(I, V, N)
  PROVE  NoStall'
  <1>1. PICK r \in think(I, V, N) : Become(r)
    BY DEF set_best_share
  <1>2. r.error = "none" => Answers(r)
    BY NetworkIsFixed, ThinkAnswers
  <1> QED BY <1>1, <1>2, BecomeAnswers

\* A step that leaves the trackers and what was chosen alone.
LEMMA SettledStays ==
  ASSUME NoStall, UNCHANGED <<network, items, verified, naughty, best, desired, error>>
  PROVE  NoStall'
  <1>1. PICK r : r = [items |-> items, verified |-> verified, naughty |-> naughty, best |-> best,
                      desired |-> desired, error |-> error]
    OBVIOUS
  <1>2. r.items = items /\ r.verified = verified /\ r.best = best /\ r.desired = desired /\ r.error = error
    BY <1>1
  <1>3. Become(r)
    BY <1>1 DEF Become, network
  <1>4. r.error = "none" => Answers(r)
    <2> HIDE DEF newest
    <2> QED BY <1>2 DEF NoStall, Answers
  <1> QED BY <1>3, <1>4, BecomeAnswers

LEMMA SharesSettle ==
  ASSUME Network, Trackers, Grown, NoStall, NEW S \in SUBSET Hash, handle_shares(S)
  PROVE  NoStall'
  <1>1. CASE S \subseteq items
    BY <1>1, SettledStays DEF handle_shares
  <1>2. CASE ~(S \subseteq items)
    <2>1. set_best_share(items \cup S, verified, naughty)
      BY <1>2 DEF handle_shares
    <2>2. items \cup S \in Sets /\ verified \subseteq (items \cup S) \ bad /\ naughty \in Marks
      BY DEF Trackers, Sets
    <2> QED BY <2>1, <2>2, ThinkSettles
  <1> QED BY <1>1, <1>2

LEMMA CleanSettles ==
  ASSUME Network, Trackers, Grown, NEW old, NEW quiet, clean_tracker(old, quiet)
  PROVE  NoStall'
  <1>1. PICK s \in think(items, verified, naughty) :
          LET r == IF s.error = "none" THEN DropTails(EatHeads(s, old, quiet)) ELSE s
          IN IF r.error # "none" THEN Become(r) ELSE set_best_share(r.items, r.verified, r.naughty)
    BY DEF clean_tracker
  <1>2. Ended(s)
    <2>1. items \in Sets /\ verified \subseteq items \ bad /\ naughty \in Marks
      BY DEF Trackers
    <2> QED BY <2>1, NetworkIsFixed, ThinkEnds
  <1> DEFINE r == IF s.error = "none" THEN DropTails(EatHeads(s, old, quiet)) ELSE s
  <1>3. r.error = "none" => Clear(r)
    BY <1>2, CleanEnds
  <1>4. IF r.error # "none" THEN Become(r) ELSE set_best_share(r.items, r.verified, r.naughty)
    BY <1>1
  <1> HIDE DEF r
  <1>5. CASE r.error # "none"
    BY <1>4, <1>5, BecomeAnswers
  <1>6. CASE r.error = "none"
    <2>1. r.items \in Sets /\ r.verified \subseteq r.items \ bad /\ r.naughty \in Marks
      BY <1>3, <1>6 DEF Clear, Sound, State
    <2> QED BY <1>4, <1>6, <2>1, ThinkSettles
  <1> QED BY <1>5, <1>6

LEMMA SettledNext ==
  ASSUME TimesGrow, ChainInv, NoStall, [Next]_chainVars
  PROVE  NoStall'
  <1>0. Network /\ Trackers /\ Download /\ Grown
    <2>1. Network /\ Trackers /\ Download
      BY DEF ChainInv
    <2> QED BY <2>1 DEF Network, TimesGrow, Grown
  <1>1. CASE Hear
    <2>1. PICK S \in SUBSET (Hash \ items) : handle_shares(S)
      BY <1>1 DEF Hear
    <2> QED BY <1>0, <2>1, SharesSettle
  <1>2. CASE Answered
    <2>1. asked[1] \in SUBSET Hash /\ handle_shares(asked[1])
      BY <1>0, <1>2 DEF Answered, Download
    <2> QED BY <1>0, <2>1, SharesSettle
  <1>3. CASE NewWork
    <2>1. items \in Sets /\ verified \subseteq items \ bad /\ naughty \in Marks
      BY <1>0 DEF Trackers
    <2> QED BY <1>0, <1>3, <2>1, ThinkSettles DEF NewWork
  <1>4. CASE Clean
    <2>1. PICK old, quiet : clean_tracker(old, quiet)
      BY <1>4 DEF Clean
    <2> QED BY <1>0, <2>1, CleanSettles
  <1>5. CASE Ask \/ Unanswered \/ UNCHANGED chainVars
    BY <1>5, SettledStays DEF Ask, Unanswered, chainVars
  <1> QED BY <1>1, <1>2, <1>3, <1>4, <1>5 DEF Next

\* Where no share is dated before the one it is built on, what a head of the tracker or a short
\* verified chain lacks is being asked for after every think() that raised nothing, however shares
\* come and go, whichever fail check(), and in whatever order its loops take the heads; unless the
\* head is left far behind.
THEOREM NoHeadStalls == TimesGrow => (Spec => []NoStall)
  <1> SUFFICES ASSUME TimesGrow PROVE Spec => []NoStall
    OBVIOUS
  <1>1. Init => NoStall
    <2> HIDE DEF newest
    <2> QED BY DEF Init, NoStall, Heads, HeadSet
  <1>2. ChainInv /\ NoStall /\ [Next]_chainVars => NoStall'
    BY SettledNext
  <1> QED BY <1>1, <1>2, ChainInvHolds, PTL DEF Spec
=============================================================================
