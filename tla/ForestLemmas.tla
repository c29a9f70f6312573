----------------------------- MODULE ForestLemmas -----------------------------
(***************************************************************************)
(* Facts about the walks of ForestShape, for every set of shares and every *)
(* previous_hash: what Chain, Last and the sets of heads and tails are, and *)
(* how Last changes when one share comes or goes.                          *)
(***************************************************************************)
EXTENDS ForestShape, FiniteSetTheorems, TLAPS

\* What the lemmas assume of a set of shares and their previous_hash.
IsForest(I, p) == I \in SUBSET Hash /\ p \in Previous

\* Nodes are numbers, and a previous_hash is an earlier node.
LEMMA NodeIsNat == Node \subseteq Nat
  BY HashAssumption DEF Node, None

LEMMA PreviousIsEarlier ==
  ASSUME NEW p \in Previous, NEW x \in Hash
  PROVE  /\ p[x] \in Node /\ x \in Node
         /\ p[x] < x /\ p[x] # x
         /\ x \in Nat /\ p[x] \in Nat
  <1>1. p[x] \in Node /\ x \in Node /\ p[x] < x
    BY DEF Previous, Node
  <1>2. x \in Nat /\ p[x] \in Nat
    BY <1>1, NodeIsNat
  <1> QED BY <1>1, <1>2

\* A non-empty set of numbers has a least one: the induction principle every walk
\* rests on.
LEMMA LeastNode ==
  ASSUME NEW T \in SUBSET Nat, T # {}
  PROVE  \E x \in T : \A y \in T : ~ (y < x)
  <1>1. \E x \in T : \A y \in T : <<y, x>> \notin OpToRel(<, Nat)
    BY NatLessThanWellFounded, WFMin
  <1>2. PICK x \in T : \A y \in T : <<y, x>> \notin OpToRel(<, Nat)
    BY <1>1
  <1>3. ASSUME NEW y \in T, y < x PROVE FALSE
    BY <1>2, <1>3 DEF OpToRel
  <1> QED BY <1>2, <1>3

\* A set of nodes that has a node whenever it has all smaller ones has every node.
LEMMA NodeInduction ==
  ASSUME NEW S, \A x \in Node : (\A y \in Node : y < x => y \in S) => x \in S
  PROVE  Node \subseteq S
  <1> DEFINE T == Node \ S
  <1>1. SUFFICES ASSUME T # {} PROVE FALSE
    OBVIOUS
  <1>2. T \in SUBSET Nat
    BY NodeIsNat
  <1>3. PICK x \in T : \A y \in T : ~ (y < x)
    BY <1>1, <1>2, LeastNode
  <1> QED BY <1>3

\* The walk is well defined: Chain satisfies its recursive equation.
LEMMA ChainEq ==
  ASSUME NEW I, NEW p, IsForest(I, p)
  PROVE  \A x \in Node : \A y :
           y \in Chain(I, p)[x] <=> (y = x \/ (x \in I /\ y \in Chain(I, p)[p[x]]))
  <1> DEFINE Closed(S) == \A z \in S : z \in I => p[z] \in S
             c == [x \in Node |-> {y \in Node : \A S \in SUBSET Node :
                                      x \in S /\ Closed(S) => y \in S}]
             F(f) == [x \in Node |-> IF x \in I THEN {x} \cup f[p[x]] ELSE {x}]
  <1>0. \A x \in I : x \in Node /\ p[x] \in Node
    BY PreviousIsEarlier DEF IsForest
  <1>1. ASSUME NEW x \in Node, x \notin I PROVE c[x] = {x}
    <2>1. Closed({x})
      BY <1>1
    <2>2. {x} \in SUBSET Node
      OBVIOUS
    <2>3. c[x] \subseteq {x}
      BY <2>1, <2>2
    <2> QED BY <2>3
  <1>2. ASSUME NEW x \in Node, x \in I PROVE c[x] = {x} \cup c[p[x]]
    <2> p[x] \in Node
      BY <1>0, <1>2
    <2>1. ASSUME NEW y \in c[x], y # x PROVE y \in c[p[x]]
      <3>1. SUFFICES ASSUME NEW S \in SUBSET Node, p[x] \in S, Closed(S)
                     PROVE  y \in S
        OBVIOUS
      <3>2. Closed(S \cup {x})
        BY <3>1
      <3>3. S \cup {x} \in SUBSET Node
        OBVIOUS
      <3>4. y \in S \cup {x}
        BY <2>1, <3>2, <3>3
      <3> QED BY <3>4, <2>1
    <2>2. ASSUME NEW y \in c[p[x]] PROVE y \in c[x]
      BY <1>2, <2>2
    <2>3. x \in c[x]
      OBVIOUS
    <2> QED BY <2>1, <2>2, <2>3
  <1>3. c = F(c)
    <2> HIDE DEF c
    <2> SUFFICES \A x \in Node : c[x] = F(c)[x]
      BY DEF c
    <2> QED BY <1>1, <1>2
  <1>4. Chain(I, p) = CHOOSE f : f = F(f)
    BY DEF Chain
  <1> HIDE DEF c
  <1>5. Chain(I, p) = F(Chain(I, p))
    <2> HIDE DEF F
    <2> QED BY <1>3, <1>4
  <1>6. \A x \in Node : F(Chain(I, p))[x] = IF x \in I THEN {x} \cup Chain(I, p)[p[x]] ELSE {x}
    OBVIOUS
  <1> HIDE DEF F
  <1>7. \A x \in Node : Chain(I, p)[x] = F(Chain(I, p))[x]
    BY <1>5
  <1> QED BY <1>6, <1>7

\* What a walk meets are nodes no later than where it starts.
LEMMA ChainBelow ==
  ASSUME NEW I, NEW p, IsForest(I, p)
  PROVE  \A x \in Node : \A y \in Chain(I, p)[x] : y \in Node /\ y <= x
  <1>0. \A z \in Node : \A y :
          y \in Chain(I, p)[z] <=> (y = z \/ (z \in I /\ y \in Chain(I, p)[p[z]]))
    BY ChainEq
  <1> DEFINE S == {x \in Node : \A y \in Chain(I, p)[x] : y \in Node /\ y <= x}
  <1>1. ASSUME NEW x \in Node, \A y \in Node : y < x => y \in S
        PROVE  x \in S
    <2>1. CASE x \in I
      <3>1. p[x] \in Node /\ p[x] < x /\ x \in Nat
        BY <2>1, PreviousIsEarlier DEF IsForest
      <3>2. p[x] \in S /\ p[x] \in Nat
        BY <1>1, <2>1, <3>1, PreviousIsEarlier DEF IsForest
      <3>3. ASSUME NEW y \in Chain(I, p)[x] PROVE y \in Node /\ y <= x
        <4>1. y = x \/ y \in Chain(I, p)[p[x]]
          BY <2>1, <1>0
        <4>2. CASE y = x
          BY <4>2, <3>1
        <4>3. CASE y \in Chain(I, p)[p[x]]
          <5>1. y \in Node /\ y <= p[x]
            BY <4>3, <3>2
          <5> QED BY <5>1, <3>1, <3>2, NodeIsNat
        <4> QED BY <4>1, <4>2, <4>3
      <3> QED BY <3>3
    <2>2. CASE x \notin I
      <3>1. x \in Nat
        BY NodeIsNat
      <3>2. \A y \in Chain(I, p)[x] : y = x
        BY <2>2, <1>0
      <3> QED BY <3>1, <3>2
    <2> QED BY <2>1, <2>2
  <1> QED BY <1>1, NodeInduction

\* A walk ends: it meets exactly one absent hash, which is Last.
LEMMA LastIsAbsent ==
  ASSUME NEW I, NEW p, IsForest(I, p), NEW x \in Node
  PROVE  /\ Last(I, p, x) \in Chain(I, p)[x] \ I
         /\ Last(I, p, x) \in Node
         /\ \A t \in Chain(I, p)[x] : t \notin I => t = Last(I, p, x)
  <1>0. \A z \in Node : \A y :
          y \in Chain(I, p)[z] <=> (y = z \/ (z \in I /\ y \in Chain(I, p)[p[z]]))
    BY ChainEq
  <1> DEFINE S == {z \in Node : \E t \in Chain(I, p)[z] \ I :
                                   \A u \in Chain(I, p)[z] : u \notin I => u = t}
  <1>1. ASSUME NEW z \in Node, \A y \in Node : y < z => y \in S
        PROVE  z \in S
    <2>1. CASE z \in I
      <3>1. p[z] \in Node /\ p[z] < z
        BY <2>1, PreviousIsEarlier DEF IsForest
      <3>2. PICK t \in Chain(I, p)[p[z]] \ I :
                   \A u \in Chain(I, p)[p[z]] : u \notin I => u = t
        BY <1>1, <3>1
      <3>3. Chain(I, p)[z] = {z} \cup Chain(I, p)[p[z]]
        BY <2>1, <1>0
      <3> QED BY <3>2, <3>3, <2>1
    <2>2. CASE z \notin I
      <3>1. Chain(I, p)[z] = {z}
        BY <2>2, <1>0
      <3> QED BY <3>1, <2>2
    <2> QED BY <2>1, <2>2
  <1>2. x \in S
    BY <1>1, NodeInduction
  <1>3. PICK t \in Chain(I, p)[x] \ I : \A u \in Chain(I, p)[x] : u \notin I => u = t
    BY <1>2
  <1>4. Last(I, p, x) = t
    BY <1>3 DEF Last
  <1> QED BY <1>3, <1>4, ChainBelow

\* The recursive equation of get_last, and that it goes backwards.
LEMMA LastEq ==
  ASSUME NEW I, NEW p, IsForest(I, p), NEW x \in Node
  PROVE  /\ x \in I => Last(I, p, x) = Last(I, p, p[x])
         /\ x \notin I => Last(I, p, x) = x
         /\ Last(I, p, x) <= x
  <1>0. \A z \in Node : \A y :
          y \in Chain(I, p)[z] <=> (y = z \/ (z \in I /\ y \in Chain(I, p)[p[z]]))
    BY ChainEq
  <1>1. CASE x \in I
    <2>1. p[x] \in Node
      BY <1>1, PreviousIsEarlier DEF IsForest
    <2>2. Chain(I, p)[x] = {x} \cup Chain(I, p)[p[x]]
      BY <1>1, <1>0
    <2> QED BY <1>1, <2>1, <2>2, LastIsAbsent, ChainBelow
  <1>2. CASE x \notin I
    <2>1. Chain(I, p)[x] = {x}
      BY <1>2, <1>0
    <2> QED BY <1>2, <2>1, LastIsAbsent, ChainBelow
  <1> QED BY <1>1, <1>2

\* The walk from a share ends at a tail.
LEMMA LastIsTail ==
  ASSUME NEW I, NEW p, IsForest(I, p), NEW x \in I
  PROVE  Last(I, p, x) \in TailSet(I, p)
  <1> DEFINE S == {z \in Node : z \in I => Last(I, p, z) \in TailSet(I, p)}
  <1>1. ASSUME NEW z \in Node, \A y \in Node : y < z => y \in S
        PROVE  z \in S
    <2>1. SUFFICES ASSUME z \in I PROVE Last(I, p, z) \in TailSet(I, p)
      OBVIOUS
    <2>2. p[z] \in Node /\ p[z] < z
      BY <2>1, PreviousIsEarlier DEF IsForest
    <2>3. Last(I, p, z) = Last(I, p, p[z])
      BY <2>1, LastEq
    <2>4. CASE p[z] \in I
      BY <1>1, <2>2, <2>3, <2>4
    <2>5. CASE p[z] \notin I
      <3>1. Last(I, p, p[z]) = p[z]
        BY <2>2, <2>5, LastEq
      <3> QED BY <3>1, <2>1, <2>3, <2>5 DEF TailSet
    <2> QED BY <2>4, <2>5
  <1>2. Node \subseteq S
    BY <1>1, NodeInduction
  <1>3. x \in Node
    BY DEF IsForest, Node
  <1> QED BY <1>2, <1>3

\* Adding a share extends the walks that ended at it, down to where its own walk ends.
LEMMA LastAfterAdd ==
  ASSUME NEW I, NEW p, IsForest(I, p), NEW h \in Hash \ I
  PROVE  /\ IsForest(I \cup {h}, p)
         /\ Last(I, p, p[h]) \in Node /\ Last(I, p, p[h]) # h
         /\ \A x \in Node : Last(I \cup {h}, p, x) =
              IF Last(I, p, x) = h THEN Last(I, p, p[h]) ELSE Last(I, p, x)
  <1> DEFINE J == I \cup {h}
             S == {x \in Node : Last(J, p, x) =
                     IF Last(I, p, x) = h THEN Last(I, p, p[h]) ELSE Last(I, p, x)}
  <1>1. IsForest(J, p)
    BY DEF IsForest
  <1>2. p[h] \in Node /\ p[h] < h /\ h \in Node /\ h \in Nat /\ p[h] \in Nat
    BY PreviousIsEarlier DEF IsForest
  <1>3. Last(I, p, p[h]) \in Node /\ Last(I, p, p[h]) <= p[h]
    BY <1>2, LastIsAbsent, LastEq
  <1>4. Last(I, p, p[h]) # h
    BY <1>2, <1>3, NodeIsNat
  <1>5. ASSUME NEW x \in Node, \A y \in Node : y < x => y \in S
        PROVE  x \in S
    <2>1. CASE x \in I
      <3>1. p[x] \in Node /\ p[x] < x
        BY <2>1, PreviousIsEarlier DEF IsForest
      <3>2. Last(I, p, x) = Last(I, p, p[x]) /\ Last(J, p, x) = Last(J, p, p[x])
        BY <1>1, <2>1, LastEq
      <3> QED BY <1>5, <3>1, <3>2
    <2>2. CASE x = h
      <3>1. Last(J, p, h) = Last(J, p, p[h]) /\ Last(I, p, h) = h
        BY <1>1, <1>2, LastEq
      <3> QED BY <1>2, <1>4, <1>5, <2>2, <3>1
    <2>3. CASE x \notin J
      <3>1. Last(J, p, x) = x /\ Last(I, p, x) = x
        BY <1>1, <2>3, LastEq
      <3> QED BY <2>3, <3>1
    <2> QED BY <2>1, <2>2, <2>3
  <1>6. Node \subseteq S
    BY <1>5, NodeInduction
  <1> QED BY <1>1, <1>3, <1>4, <1>6

\* Removing a share makes it the end of every walk that met it.
LEMMA LastAfterRemove ==
  ASSUME NEW I, NEW p, IsForest(I, p), NEW h \in I
  PROVE  /\ IsForest(I \ {h}, p)
         /\ \A x \in Node : Last(I \ {h}, p, x) =
              IF Descends(I, p, h, x) THEN h ELSE Last(I, p, x)
  <1> DEFINE J == I \ {h}
             S == {x \in Node : Last(J, p, x) =
                     IF Descends(I, p, h, x) THEN h ELSE Last(I, p, x)}
  <1>0. \A z \in Node : \A y :
          y \in Chain(I, p)[z] <=> (y = z \/ (z \in I /\ y \in Chain(I, p)[p[z]]))
    BY ChainEq
  <1>1. IsForest(J, p)
    BY DEF IsForest
  <1>2. ASSUME NEW x \in Node, \A y \in Node : y < x => y \in S
        PROVE  x \in S
    <2>1. CASE x \in J
      <3>1. p[x] \in Node /\ p[x] < x
        BY <2>1, PreviousIsEarlier DEF IsForest
      <3>2. Last(I, p, x) = Last(I, p, p[x]) /\ Last(J, p, x) = Last(J, p, p[x])
        BY <1>1, <2>1, LastEq
      <3>3. Descends(I, p, h, x) <=> Descends(I, p, h, p[x])
        BY <1>0, <2>1 DEF Descends
      <3> QED BY <1>2, <3>1, <3>2, <3>3
    <2>2. CASE x = h
      <3>1. Last(J, p, h) = h
        BY <1>1, <2>2, LastEq
      <3>2. Descends(I, p, h, h)
        BY <1>0, <2>2 DEF Descends
      <3> QED BY <2>2, <3>1, <3>2
    <2>3. CASE x \notin I
      <3>1. Last(J, p, x) = x /\ Last(I, p, x) = x
        BY <1>1, <2>3, LastEq
      <3>2. ~ Descends(I, p, h, x)
        BY <1>0, <2>3 DEF Descends
      <3> QED BY <3>1, <3>2
    <2> QED BY <2>1, <2>2, <2>3
  <1>3. Node \subseteq S
    BY <1>2, NodeInduction
  <1> QED BY <1>1, <1>3

\* Only a share with children has other shares built on it.
LEMMA HeadHasNoHeirs ==
  ASSUME NEW I, NEW p, IsForest(I, p), NEW h \in HeadSet(I, p), NEW x \in Node,
         Descends(I, p, h, x)
  PROVE  x = h
  <1> DEFINE S == {z \in Node : Descends(I, p, h, z) => z = h}
  <1>0. \A z \in Node : \A y :
          y \in Chain(I, p)[z] <=> (y = z \/ (z \in I /\ y \in Chain(I, p)[p[z]]))
    BY ChainEq
  <1>1. ASSUME NEW z \in Node, \A y \in Node : y < z => y \in S
        PROVE  z \in S
    <2>1. SUFFICES ASSUME Descends(I, p, h, z), z # h PROVE FALSE
      OBVIOUS
    <2>2. z \in I /\ Descends(I, p, h, p[z])
      BY <1>0, <2>1 DEF Descends
    <2>3. p[z] \in Node /\ p[z] < z
      BY <2>2, PreviousIsEarlier DEF IsForest
    <2>4. p[z] = h
      BY <1>1, <2>2, <2>3
    <2> QED BY <2>2, <2>4 DEF HeadSet, Children
  <1>2. Node \subseteq S
    BY <1>1, NodeInduction
  <1> QED BY <1>2

\* Every chain over a tail with one child goes through that child.
LEMMA OnlyChildIsUnderAll ==
  ASSUME NEW I, NEW p, IsForest(I, p), NEW h \in I, p[h] \notin I,
         Children(I, p, p[h]) = {h}, NEW x \in I, Last(I, p, x) = p[h]
  PROVE  Descends(I, p, h, x)
  <1> DEFINE S == {z \in Node : z \in I /\ Last(I, p, z) = p[h] => Descends(I, p, h, z)}
  <1>0. \A z \in Node : \A y :
          y \in Chain(I, p)[z] <=> (y = z \/ (z \in I /\ y \in Chain(I, p)[p[z]]))
    BY ChainEq
  <1>1. ASSUME NEW z \in Node, \A y \in Node : y < z => y \in S
        PROVE  z \in S
    <2>1. SUFFICES ASSUME z \in I, Last(I, p, z) = p[h] PROVE Descends(I, p, h, z)
      OBVIOUS
    <2>2. p[z] \in Node /\ p[z] < z
      BY <2>1, PreviousIsEarlier DEF IsForest
    <2>3. Last(I, p, p[z]) = p[h]
      BY <2>1, LastEq
    <2>4. CASE p[z] \in I
      BY <1>0, <1>1, <2>1, <2>2, <2>3, <2>4 DEF Descends
    <2>5. CASE p[z] \notin I
      <3>1. p[z] = p[h]
        BY <2>2, <2>3, <2>5, LastEq
      <3>2. z = h
        BY <2>1, <3>1 DEF Children
      <3> QED BY <1>0, <3>2 DEF Descends
    <2> QED BY <2>4, <2>5
  <1>2. Node \subseteq S
    BY <1>1, NodeInduction
  <1>3. x \in Node
    BY DEF IsForest, Node
  <1> QED BY <1>2, <1>3

\* Finitely many shares: every tail has a head above it.
LEMMA TailHasHead ==
  ASSUME NEW I, NEW p, IsForest(I, p), IsFiniteSet(I), NEW t \in TailSet(I, p)
  PROVE  \E h \in HeadSet(I, p) : Last(I, p, h) = t
  <1> DEFINE D == {i \in I : Last(I, p, i) = t}
             U(i) == {j \in I : i <= j}
             F == {U(i) : i \in D}
  <1>1. D # {}
    <2>1. PICK i \in I : p[i] = t /\ t \notin I
      BY DEF TailSet
    <2>2. i \in Node /\ t \in Node
      BY <2>1, PreviousIsEarlier DEF IsForest
    <2>3. Last(I, p, i) = t
      BY <2>1, <2>2, LastEq
    <2> QED BY <2>1, <2>3
  <1>2. F \subseteq FiniteSubsetsOf(I) /\ F # {}
    <2>1. \A i \in D : U(i) \in SUBSET I /\ IsFiniteSet(U(i))
      BY FS_Subset
    <2> QED BY <1>1, <2>1 DEF FiniteSubsetsOf
  <1>3. PICK T \in F : \A V \in F : <<V, T>> \notin StrictSubsetOrdering(I)
    <2> HIDE DEF F
    <2> QED BY <1>2, FS_StrictSubsetOrderingWellFounded, WFMin
  <1>4. PICK h \in D : T = U(h)
    BY <1>3
  <1>5. ASSUME NEW j \in I, p[j] = h PROVE FALSE
    <2>1. h \in Nat /\ j \in Nat /\ h < j /\ j \in Node /\ p[j] \in Node
      BY <1>5, PreviousIsEarlier DEF IsForest
    <2>2. j \in D
      BY <1>4, <1>5, <2>1, LastEq
    <2>3. \A k \in I : k \in Nat
      BY NodeIsNat DEF IsForest, Node
    <2>4. U(j) \subseteq U(h) /\ h \in U(h) /\ h \notin U(j)
      <3>1. ASSUME NEW k \in U(j) PROVE k \in U(h)
        BY <2>1, <2>3
      <3>2. h \in U(h)
        BY <1>4, <2>1
      <3>3. h \notin U(j)
        BY <2>1
      <3> QED BY <3>1, <3>2, <3>3
    <2>5. <<U(j), U(h)>> \in StrictSubsetOrdering(I)
      BY <2>4 DEF StrictSubsetOrdering
    <2> QED BY <1>3, <1>4, <2>2, <2>5
  <1> QED BY <1>4, <1>5 DEF HeadSet, Children

\* Every hash met on a walk has the walk's end.
LEMMA LastAlong ==
  ASSUME NEW I, NEW p, IsForest(I, p), NEW x \in Node, NEW t \in Chain(I, p)[x]
  PROVE  t \in Node /\ Last(I, p, t) = Last(I, p, x)
  <1> DEFINE S == {z \in Node : \A u \in Chain(I, p)[z] : Last(I, p, u) = Last(I, p, z)}
  <1>1. \A z \in Node : \A y :
          y \in Chain(I, p)[z] <=> (y = z \/ (z \in I /\ y \in Chain(I, p)[p[z]]))
    BY ChainEq
  <1>2. ASSUME NEW z \in Node, \A y \in Node : y < z => y \in S
        PROVE  z \in S
    <2>1. ASSUME NEW u \in Chain(I, p)[z], u # z PROVE Last(I, p, u) = Last(I, p, z)
      <3>1. z \in I /\ u \in Chain(I, p)[p[z]]
        BY <1>1, <2>1
      <3>2. p[z] \in Node /\ p[z] < z
        BY <3>1, PreviousIsEarlier DEF IsForest
      <3>3. Last(I, p, z) = Last(I, p, p[z])
        BY <3>1, LastEq
      <3> QED BY <1>2, <3>1, <3>2, <3>3
    <2> QED BY <2>1
  <1>3. Node \subseteq S
    BY <1>2, NodeInduction
  <1> QED BY <1>3, ChainBelow

\* A walk goes on from every hash it meets.
LEMMA ChainGoesOn ==
  ASSUME NEW I, NEW p, IsForest(I, p), NEW x \in Node, NEW t \in Chain(I, p)[x],
         NEW u \in Chain(I, p)[t]
  PROVE  u \in Chain(I, p)[x]
  <1> DEFINE S == {z \in Node : t \in Chain(I, p)[z] => u \in Chain(I, p)[z]}
  <1>1. \A z \in Node : \A y :
          y \in Chain(I, p)[z] <=> (y = z \/ (z \in I /\ y \in Chain(I, p)[p[z]]))
    BY ChainEq
  <1>2. ASSUME NEW z \in Node, \A y \in Node : y < z => y \in S
        PROVE  z \in S
    <2>1. SUFFICES ASSUME t \in Chain(I, p)[z], t # z PROVE u \in Chain(I, p)[z]
      OBVIOUS
    <2>2. z \in I /\ t \in Chain(I, p)[p[z]]
      BY <1>1, <2>1
    <2>3. p[z] \in Node /\ p[z] < z
      BY <2>2, PreviousIsEarlier DEF IsForest
    <2> QED BY <1>1, <1>2, <2>2, <2>3
  <1>3. Node \subseteq S
    BY <1>2, NodeInduction
  <1> QED BY <1>3

\* A walk in fewer shares is part of the walk in more.
LEMMA ChainGrows ==
  ASSUME NEW I, NEW J, NEW p, IsForest(I, p), IsForest(J, p), I \subseteq J,
         NEW x \in Node, NEW t \in Chain(I, p)[x]
  PROVE  t \in Chain(J, p)[x]
  <1> DEFINE S == {z \in Node : \A u \in Chain(I, p)[z] : u \in Chain(J, p)[z]}
  <1>1. \A z \in Node : \A y :
          y \in Chain(I, p)[z] <=> (y = z \/ (z \in I /\ y \in Chain(I, p)[p[z]]))
    BY ChainEq
  <1>2. \A z \in Node : \A y :
          y \in Chain(J, p)[z] <=> (y = z \/ (z \in J /\ y \in Chain(J, p)[p[z]]))
    BY ChainEq
  <1>3. ASSUME NEW z \in Node, \A y \in Node : y < z => y \in S
        PROVE  z \in S
    <2>1. ASSUME NEW u \in Chain(I, p)[z] PROVE u \in Chain(J, p)[z]
      <3>1. CASE u = z
        BY <3>1, <1>2
      <3>2. CASE u # z
        <4>1. z \in I /\ u \in Chain(I, p)[p[z]]
          BY <1>1, <2>1, <3>2
        <4>2. p[z] \in Node /\ p[z] < z
          BY <4>1, PreviousIsEarlier DEF IsForest
        <4> QED BY <1>2, <1>3, <4>1, <4>2
      <3> QED BY <3>1, <3>2
    <2> QED BY <2>1
  <1>4. Node \subseteq S
    BY <1>3, NodeInduction
  <1> QED BY <1>4

\* A share that goes takes from a walk only what was under it.
LEMMA ChainAfterRemove ==
  ASSUME NEW I, NEW p, IsForest(I, p), NEW h \in I, NEW x \in Node,
         NEW t \in Chain(I, p)[x], Descends(I, p, h, x) => h <= t
  PROVE  t \in Chain(I \ {h}, p)[x]
  <1> DEFINE J == I \ {h}
             S == {z \in Node : \A u \in Chain(I, p)[z] :
                     (Descends(I, p, h, z) => h <= u) => u \in Chain(J, p)[z]}
  <1>1. \A z \in Node : \A y :
          y \in Chain(I, p)[z] <=> (y = z \/ (z \in I /\ y \in Chain(I, p)[p[z]]))
    BY ChainEq
  <1>2. \A z \in Node : \A y :
          y \in Chain(J, p)[z] <=> (y = z \/ (z \in J /\ y \in Chain(J, p)[p[z]]))
    <2>1. IsForest(J, p)
      BY DEF IsForest
    <2> HIDE DEF J
    <2> QED BY <2>1, ChainEq
  <1>3. ASSUME NEW z \in Node, \A y \in Node : y < z => y \in S
        PROVE  z \in S
    <2>1. ASSUME NEW u \in Chain(I, p)[z], Descends(I, p, h, z) => h <= u
          PROVE  u \in Chain(J, p)[z]
      <3>1. CASE u = z
        BY <3>1, <1>2
      <3>2. CASE u # z
        <4>1. z \in I /\ u \in Chain(I, p)[p[z]]
          BY <1>1, <2>1, <3>2
        <4>2. p[z] \in Node /\ p[z] < z /\ z \in Nat /\ p[z] \in Nat
          BY <4>1, PreviousIsEarlier DEF IsForest
        <4>3. u <= p[z] /\ u \in Node /\ u \in Nat
          BY <4>1, <4>2, ChainBelow, NodeIsNat
        <4>4. z # h
          <5>1. SUFFICES ASSUME z = h PROVE FALSE
            OBVIOUS
          <5>2. Descends(I, p, h, z)
            BY <5>1, <1>1 DEF Descends
          <5> QED BY <5>1, <5>2, <2>1, <4>2, <4>3
        <4>5. Descends(I, p, h, p[z]) => h <= u
          BY <1>1, <2>1, <4>1 DEF Descends
        <4>6. u \in Chain(J, p)[p[z]]
          BY <1>3, <4>1, <4>2, <4>5
        <4> QED BY <1>2, <4>1, <4>4, <4>6
      <3> QED BY <3>1, <3>2
    <2> HIDE DEF J
    <2> QED BY <2>1
  <1>4. Node \subseteq S
    BY <1>3, NodeInduction
  <1> QED BY <1>4

\* A walk through a root meets nothing under it but the root's own previous_hash.
LEMMA UnderRoot ==
  ASSUME NEW I, NEW p, IsForest(I, p), NEW h \in I, p[h] \notin I, NEW x \in Node,
         Descends(I, p, h, x), NEW t \in Chain(I, p)[x]
  PROVE  h <= t \/ t = p[h]
  <1> DEFINE S == {z \in Node : Descends(I, p, h, z) =>
                     \A u \in Chain(I, p)[z] : h <= u \/ u = p[h]}
  <1>1. \A z \in Node : \A y :
          y \in Chain(I, p)[z] <=> (y = z \/ (z \in I /\ y \in Chain(I, p)[p[z]]))
    BY ChainEq
  <1>2. ASSUME NEW z \in Node, \A y \in Node : y < z => y \in S
        PROVE  z \in S
    <2>1. ASSUME Descends(I, p, h, z), NEW u \in Chain(I, p)[z] PROVE h <= u \/ u = p[h]
      <3>1. h <= z
        BY <2>1, ChainBelow DEF Descends
      <3>2. CASE u = z
        BY <3>1, <3>2
      <3>3. CASE u # z
        <4>1. z \in I /\ u \in Chain(I, p)[p[z]]
          BY <1>1, <2>1, <3>3
        <4>2. p[z] \in Node /\ p[z] < z
          BY <4>1, PreviousIsEarlier DEF IsForest
        <4>3. CASE z = h
          BY <1>1, <4>1, <4>2, <4>3
        <4>4. CASE z # h
          <5>1. Descends(I, p, h, p[z])
            BY <1>1, <2>1, <4>4 DEF Descends
          <5> QED BY <1>2, <4>1, <4>2, <5>1
        <4> QED BY <4>3, <4>4
      <3> QED BY <3>2, <3>3
    <2> QED BY <2>1
  <1>3. Node \subseteq S
    BY <1>2, NodeInduction
  <1> QED BY <1>3

\* A walk that ends under an ancestor of where it starts has met that ancestor.
LEMMA ThroughAncestor ==
  ASSUME NEW I, NEW p, IsForest(I, p), NEW h \in Hash, NEW x \in Node,
         Descends(Hash, p, h, x), Last(I, p, x) < h
  PROVE  Descends(I, p, h, x)
  <1> DEFINE S == {z \in Node : Descends(Hash, p, h, z) /\ Last(I, p, z) < h => Descends(I, p, h, z)}
  <1>1. \A z \in Node : \A y :
          y \in Chain(I, p)[z] <=> (y = z \/ (z \in I /\ y \in Chain(I, p)[p[z]]))
    BY ChainEq
  <1>2. IsForest(Hash, p)
    BY DEF IsForest
  <1>3. \A z \in Node : \A y :
          y \in Chain(Hash, p)[z] <=> (y = z \/ (z \in Hash /\ y \in Chain(Hash, p)[p[z]]))
    BY <1>2, ChainEq
  <1>4. ASSUME NEW z \in Node, \A y \in Node : y < z => y \in S
        PROVE  z \in S
    <2>1. ASSUME Descends(Hash, p, h, z), Last(I, p, z) < h PROVE Descends(I, p, h, z)
      <3>1. CASE z = h
        BY <3>1, <1>1 DEF Descends
      <3>2. CASE z # h
        <4>1. z \in Hash /\ h \in Chain(Hash, p)[p[z]]
          BY <1>3, <2>1, <3>2 DEF Descends
        <4>2. p[z] \in Node /\ p[z] < z
          BY <4>1, PreviousIsEarlier DEF IsForest
        <4>3. h <= z /\ h \in Nat /\ z \in Nat
          BY <1>2, <2>1, ChainBelow, NodeIsNat DEF Descends, Node
        <4>4. z \in I
          <5>1. SUFFICES ASSUME z \notin I PROVE FALSE
            OBVIOUS
          <5>2. Last(I, p, z) = z
            BY <5>1, LastEq
          <5> QED BY <5>2, <2>1, <4>3
        <4>5. Last(I, p, p[z]) = Last(I, p, z)
          BY <4>4, LastEq
        <4>6. Descends(I, p, h, p[z])
          BY <1>4, <2>1, <4>1, <4>2, <4>5 DEF Descends
        <4> QED BY <1>1, <4>4, <4>6 DEF Descends
      <3> QED BY <3>1, <3>2
    <2> QED BY <2>1
  <1>5. Node \subseteq S
    BY <1>4, NodeInduction
  <1> QED BY <1>5
=============================================================================
