---------------------------- MODULE GetWorkProofs ----------------------------
(***************************************************************************)
(* The work that miners are handed: proofs about GetWork.                  *)
(***************************************************************************)
EXTENDS GetWork, FoldLemmas, SequenceTheorems

Entry(K, V) == [key : K, value : V, left : Nat]
Dict(K, V)  == Seq(Entry(K, V))

\* A dictionary whose entries live for life and which has room for max: the keys are apart,
\* and the entries leave in the order in which they are kept.
Orderly(d, life, max) ==
  /\ Len(d) <= max
  /\ \A i, j \in DOMAIN d : d[i].key = d[j].key => i = j
  /\ \A i \in DOMAIN d : d[i].left \in 1 .. life
  /\ \A i, j \in DOMAIN d : i <= j => d[i].left <= d[j].left

\* The sequence r is d without its n-th entry.
Without(r, d, n) ==
  Len(r) = Len(d) - 1 /\ \A i \in 1 .. Len(d) - 1 : r[i] = d[IF i < n THEN i ELSE i + 1]

Apart(d, k) == \A e \in Range(d) : e.key # k

-----------------------------------------------------------------------------
(***************************************************************************)
(* Sequences of entries.                                                   *)
(***************************************************************************)

LEMMA Indices ==
  ASSUME NEW E, NEW d \in Seq(E)
  PROVE  /\ DOMAIN d = 1 .. Len(d) /\ Len(d) \in Nat
         /\ \A i \in DOMAIN d : d[i] \in E /\ d[i] \in Range(d)
         /\ Range(d) \in SUBSET E
  BY DEF Range

LEMMA Removed ==
  ASSUME NEW E, NEW d \in Seq(E), NEW n \in DOMAIN d
  PROVE  Sq!RemoveAt(d, n) \in Seq(E) /\ Without(Sq!RemoveAt(d, n), d, n)
  <1> DEFINE a == SubSeq(d, 1, n - 1)
             b == SubSeq(d, n + 1, Len(d))
  <1>1. n \in 1 .. Len(d) /\ Len(d) \in Nat
    BY Indices
  <1>2. /\ a \in Seq(E) /\ Len(a) = n - 1
        /\ \A i \in 1 .. n - 1 : a[i] = d[i]
    BY <1>1, SubSeqProperties
  <1>3. /\ b \in Seq(E) /\ Len(b) = Len(d) - n
        /\ \A i \in 1 .. Len(d) - n : b[i] = d[n + i]
    BY <1>1, SubSeqProperties
  <1>4. Sq!RemoveAt(d, n) = a \o b
    BY DEF Sq!RemoveAt
  <1> HIDE DEF a, b
  <1>5. a \o b \in Seq(E) /\ Len(a \o b) = Len(d) - 1
    BY <1>1, <1>2, <1>3
  <1>6. ASSUME NEW i \in 1 .. Len(d) - 1 PROVE (a \o b)[i] = d[IF i < n THEN i ELSE i + 1]
    <2>1. CASE i < n
      BY <1>1, <1>2, <1>3, <2>1
    <2>2. CASE ~ (i < n)
      <3>1. (a \o b)[i] = b[i - (n - 1)]
        BY <1>1, <1>2, <1>3, <2>2
      <3>2. i - (n - 1) \in 1 .. Len(d) - n /\ n + (i - (n - 1)) = i + 1
        BY <1>1, <2>2
      <3> QED BY <1>3, <2>2, <3>1, <3>2
    <2> QED BY <2>1, <2>2
  <1> QED BY <1>4, <1>5, <1>6 DEF Without

\* What an orderly sequence is without one of its entries.
LEMMA Less ==
  ASSUME NEW K, NEW V, NEW life \in Nat, NEW max \in Nat, NEW d \in Dict(K, V), Orderly(d, life, max),
         NEW n \in DOMAIN d, NEW r \in Dict(K, V), Without(r, d, n)
  PROVE  /\ Orderly(r, life, max)
         /\ Range(r) = {e \in Range(d) : e.key # d[n].key}
  <1> DEFINE up(i) == IF i < n THEN i ELSE i + 1
  <1>1. DOMAIN d = 1 .. Len(d) /\ Len(d) \in Nat /\ DOMAIN r = 1 .. Len(d) - 1 /\ n \in 1 .. Len(d)
    BY Indices DEF Dict, Without
  <1>2. ASSUME NEW i \in DOMAIN r PROVE up(i) \in DOMAIN d /\ r[i] = d[up(i)] /\ up(i) # n
    BY <1>1, <1>2 DEF Without
  <1>3. ASSUME NEW i \in DOMAIN r, NEW j \in DOMAIN r
        PROVE  (up(i) = up(j) => i = j) /\ (i <= j => up(i) <= up(j))
    BY <1>1, <1>3
  <1>4. ASSUME NEW i \in DOMAIN d, i # n PROVE \E j \in DOMAIN r : up(j) = i
    <2>1. CASE i < n
      BY <1>1, <2>1
    <2>2. CASE i > n
      <3>1. i - 1 \in DOMAIN r /\ up(i - 1) = i
        BY <1>1, <2>2
      <3> QED BY <3>1
    <2> QED BY <1>1, <1>4, <2>1, <2>2
  <1> HIDE DEF up
  <1>5. Orderly(r, life, max)
    <2>1. Len(r) = Len(d) - 1
      BY DEF Without
    <2> QED BY <1>1, <1>2, <1>3, <2>1 DEF Orderly
  <1>6. Range(r) = {e \in Range(d) : e.key # d[n].key}
    <2>1. ASSUME NEW i \in DOMAIN r PROVE r[i] \in Range(d) /\ r[i].key # d[n].key
      BY <1>2 DEF Range, Orderly
    <2>2. ASSUME NEW i \in DOMAIN d, d[i].key # d[n].key PROVE d[i] \in Range(r)
      <3>1. PICK j \in DOMAIN r : up(j) = i
        BY <1>4, <2>2
      <3> QED BY <1>2, <3>1 DEF Range
    <2> QED BY <2>1, <2>2 DEF Range
  <1> QED BY <1>5, <1>6

\* And with a new one at its end.
LEMMA More ==
  ASSUME NEW K, NEW V, NEW life \in Nat \ {0}, NEW max \in Nat, NEW d \in Dict(K, V), Orderly(d, life, max),
         Len(d) < max, NEW e \in Entry(K, V), e.left = life, Apart(d, e.key)
  PROVE  /\ Append(d, e) \in Dict(K, V) /\ Len(Append(d, e)) = Len(d) + 1
         /\ Orderly(Append(d, e), life, max)
         /\ Range(Append(d, e)) = Range(d) \cup {e}
  <1> DEFINE a == Append(d, e)
             n == Len(d) + 1
  <1>1. /\ a \in Dict(K, V) /\ Len(a) = n /\ DOMAIN a = 1 .. n /\ DOMAIN d = 1 .. Len(d) /\ Len(d) \in Nat
        /\ a[n] = e /\ \A i \in 1 .. Len(d) : a[i] = d[i]
    BY DEF Dict
  <1> HIDE DEF a
  <1>2. \A i \in DOMAIN a : i = n \/ (i \in DOMAIN d /\ a[i] = d[i])
    BY <1>1
  <1>3. \A i \in DOMAIN d : d[i].key # e.key /\ d[i].left \in 1 .. life
    BY DEF Range, Orderly, Apart
  <1>4. Orderly(a, life, max)
    <2>1. Len(a) <= max
      BY <1>1 DEF Orderly
    <2>2. ASSUME NEW i \in DOMAIN a, NEW j \in DOMAIN a, a[i].key = a[j].key PROVE i = j
      BY <1>1, <1>2, <1>3, <2>2 DEF Orderly
    <2>3. ASSUME NEW i \in DOMAIN a PROVE a[i].left \in 1 .. life
      BY <1>1, <1>2, <1>3, <2>3
    <2>4. ASSUME NEW i \in DOMAIN a, NEW j \in DOMAIN a, i <= j PROVE a[i].left <= a[j].left
      <3>1. CASE j = n
        BY <1>1, <2>3, <3>1
      <3>2. CASE j # n
        <4>1. i # n /\ j \in DOMAIN d /\ i \in DOMAIN d
          BY <1>1, <2>4, <3>2
        <4> QED BY <1>2, <2>4, <4>1 DEF Orderly
      <3> QED BY <3>1, <3>2
    <2> QED BY <2>1, <2>2, <2>3, <2>4 DEF Orderly
  <1>5. Range(a) = Range(d) \cup {e}
    <2>1. \A i \in DOMAIN a : a[i] \in Range(d) \cup {e}
      BY <1>1, <1>2 DEF Range
    <2>2. e \in Range(a) /\ \A i \in DOMAIN d : d[i] \in Range(a)
      BY <1>1 DEF Range
    <2> QED BY <2>1, <2>2 DEF Range
  <1> QED BY <1>1, <1>4, <1>5 DEF a

\* The entries of a dictionary, by their keys.
LEMMA ByKey ==
  ASSUME NEW K, NEW V, NEW d \in Dict(K, V), NEW life, NEW max, Orderly(d, life, max)
  PROVE  /\ Keys(d) = {e.key : e \in Range(d)}
         /\ \A e, f \in Range(d) : e.key = f.key => e = f
         /\ \A e \in Range(d) : e \in Entry(K, V) /\ e.key \in K /\ e.value \in V /\ e.left \in 1 .. life
         /\ \A e \in Range(d) : At(d, e.key) = e.value
         /\ \A e \in Range(d) : \A x : Get(d, e.key, x) = e.value
         /\ \A k, x : k \notin Keys(d) => Get(d, k, x) = x
  <1>1. /\ Keys(d) = {e.key : e \in Range(d)}
        /\ \A e, f \in Range(d) : e.key = f.key => e = f
    BY DEF Keys, Range, Orderly
  <1>2. ASSUME NEW e \in Range(d) PROVE e \in Entry(K, V) /\ e.key \in K /\ e.value \in V /\ e.left \in 1 .. life
    <2>1. PICK i \in DOMAIN d : d[i] = e
      BY DEF Range
    <2>2. e \in Entry(K, V)
      BY <2>1, Indices DEF Dict
    <2> QED BY <2>1, <2>2 DEF Orderly, Entry
  <1>3. ASSUME NEW e \in Range(d) PROVE e.key \in Keys(d) /\ At(d, e.key) = e.value
    <2>1. PICK i \in DOMAIN d : d[i] = e
      BY DEF Range
    <2>2. Node(d, e.key) \in DOMAIN d /\ d[Node(d, e.key)].key = e.key
      BY <2>1 DEF Node
    <2>3. d[Node(d, e.key)] = e
      BY <2>1, <2>2 DEF Orderly
    <2> QED BY <1>1, <2>3 DEF At
  <1> QED BY <1>1, <1>2, <1>3 DEF Get

\* What touch makes of d: the entries under other keys stay, unless the dictionary is full.
Touches(t, d, k, v, life, max) ==
  LET new == [key |-> k, value |-> v, left |-> life]
  IN /\ Orderly(t, life, max) /\ Len(t) >= Len(d)
     /\ Range(t) \subseteq {e \in Range(d) : e.key # k} \cup {new}
     /\ new \in Range(t)
     /\ k \in Keys(d) \/ Len(d) < max => Range(t) = {e \in Range(d) : e.key # k} \cup {new}
     /\ ~(k \in Keys(d) \/ Len(d) < max) => Len(t) = max

LEMMA Touched ==
  ASSUME NEW K, NEW V, NEW life \in Nat \ {0}, NEW max \in Nat \ {0}, NEW d \in Dict(K, V),
         Orderly(d, life, max), NEW k \in K, NEW v \in V
  PROVE  touch(d, k, v, life, max) \in Dict(K, V) /\ Touches(touch(d, k, v, life, max), d, k, v, life, max)
  <1> DEFINE new  == [key |-> k, value |-> v, left |-> life]
             full == k \notin Keys(d) /\ Len(d) >= max
             n    == IF full THEN 1 ELSE Node(d, k)
             rest == IF full THEN Tail(d) ELSE Delete(d, k)
  <1>0. /\ touch(d, k, v, life, max) = Append(rest, new) /\ new \in Entry(K, V) /\ new.left = life /\ new.key = k
        /\ DOMAIN d = 1 .. Len(d) /\ Len(d) \in Nat /\ Len(d) <= max
    BY Indices DEF touch, Entry, Dict, Orderly
  <1>a. life \in Nat /\ max \in Nat
    OBVIOUS
  <1>b. Len(d) \in Nat /\ Len(d) <= max /\ max \in Nat \ {0}
    BY <1>0
  <1>c. new \in Entry(K, V) /\ new.left = life /\ new.key = k
    BY <1>0
  <1>1. CASE full \/ k \in Keys(d)
    <2>1. n \in DOMAIN d /\ (k \in Keys(d) => d[n].key = k)
      <3>1. CASE full
        BY <1>0, <3>1
      <3>2. CASE k \in Keys(d)
        BY <3>2 DEF Keys, Node
      <3> QED BY <1>1, <3>1, <3>2
    <2>2. rest \in Dict(K, V) /\ Without(rest, d, n)
      <3>1. CASE full
        <4>1. d # <<>> /\ n = 1
          BY <1>0, <3>1
        <4>2. Tail(d) \in Dict(K, V) /\ Len(Tail(d)) = Len(d) - 1 /\ \A i \in 1 .. Len(Tail(d)) : Tail(d)[i] = d[i + 1]
          BY <4>1, HeadTailProperties DEF Dict
        <4> QED BY <3>1, <4>1, <4>2 DEF Without
      <3>2. CASE k \in Keys(d)
        <4>1. rest = Sq!RemoveAt(d, n) /\ n = Node(d, k)
          BY <3>2 DEF Delete
        <4> HIDE DEF rest, n
        <4> QED BY <2>1, <4>1, Removed DEF Dict
      <3> QED BY <1>1, <3>1, <3>2
    <2> HIDE DEF rest, n, new, full
    <2>3. Orderly(rest, life, max) /\ Range(rest) = {e \in Range(d) : e.key # d[n].key}
      BY ONLY <1>a, <2>1, <2>2, Less, d \in Dict(K, V), Orderly(d, life, max)
    <2>4. /\ Apart(rest, new.key)
          /\ Range(rest) \subseteq {e \in Range(d) : e.key # k}
          /\ k \in Keys(d) => Range(rest) = {e \in Range(d) : e.key # k}
      <3>1. k \notin Keys(d) => \A e \in Range(d) : e.key # k
        BY ByKey
      <3> QED BY <1>0, <2>1, <2>3, <3>1 DEF Apart
    <2>5. Len(rest) = Len(d) - 1 /\ Len(rest) < max
      BY <1>b, <2>2 DEF Without
    <2>6. /\ Append(rest, new) \in Dict(K, V) /\ Len(Append(rest, new)) = Len(rest) + 1
          /\ Orderly(Append(rest, new), life, max)
          /\ Range(Append(rest, new)) = Range(rest) \cup {new}
      BY <1>a, <1>c, <2>2, <2>3, <2>4, <2>5, More
    <2>7. Len(d) >= max => Len(Append(rest, new)) = max
      BY <1>b, <2>5, <2>6
    <2>8. Len(Append(rest, new)) >= Len(d)
      BY <1>b, <2>5, <2>6
    <2>9. k \in Keys(d) \/ Len(d) < max => Range(Append(rest, new)) = {e \in Range(d) : e.key # k} \cup {new}
      BY <1>0, <1>1, <2>4, <2>6 DEF full
    <2>10. ~(k \in Keys(d) \/ Len(d) < max) => Len(Append(rest, new)) = max
      BY <1>0, <2>7
    <2> QED BY <1>0, <2>4, <2>6, <2>8, <2>9, <2>10 DEF new, Touches
  <1>2. CASE ~ full /\ k \notin Keys(d)
    <2>0. k \notin Keys(d) /\ Len(d) < max
      BY <1>0, <1>2
    <2>1. rest = d /\ Len(d) < max
      BY <1>2, <2>0 DEF Delete
    <2>2. Apart(d, new.key)
      BY <1>0, <1>2, ByKey DEF Apart
    <2> HIDE DEF rest, new
    <2>3. /\ Append(d, new) \in Dict(K, V) /\ Len(Append(d, new)) = Len(d) + 1
          /\ Orderly(Append(d, new), life, max)
          /\ Range(Append(d, new)) = Range(d) \cup {new}
      BY <1>0, <2>1, <2>2, More
    <2>4. Range(d) = {e \in Range(d) : e.key # k}
      BY <1>0, <2>2 DEF Apart
    <2> QED BY <1>0, <2>1, <2>3, <2>4 DEF new, Touches
  <1> QED BY <1>1, <1>2

\* What a unit of time leaves: the entries that had more than one to go.
LEMMA Passed ==
  ASSUME NEW K, NEW V, NEW life \in Nat \ {0}, NEW max \in Nat, NEW d \in Dict(K, V), Orderly(d, life, max)
  PROVE  /\ Elapsed(d) \in Dict(K, V) /\ Orderly(Elapsed(d), life, max)
         /\ Range(Elapsed(d)) = {[e EXCEPT !.left = @ - 1] : e \in {x \in Range(d) : x.left > 1}}
  <1> DEFINE aged == [i \in DOMAIN d |-> [d[i] EXCEPT !.left = @ - 1]]
             N    == Len(d)
             Due(n) == /\ \A i \in 1 .. n : aged[i].left = 0
                       /\ n < Len(aged) => aged[n + 1].left > 0
             S    == {n \in 0 .. N : n < N => aged[n + 1].left > 0}
             due  == CHOOSE n \in 0 .. Len(aged) : Due(n)
  <1>1. DOMAIN d = 1 .. N /\ N \in Nat /\ N <= max
    BY Indices DEF Dict, Orderly
  <1>2. ASSUME NEW i \in 1 .. N
        PROVE  /\ d[i] \in Entry(K, V) /\ d[i].left \in 1 .. life /\ aged[i] = [d[i] EXCEPT !.left = @ - 1]
               /\ aged[i].left = d[i].left - 1 /\ aged[i].key = d[i].key /\ aged[i] \in Entry(K, V)
    <2>1. d[i] \in Entry(K, V) /\ d[i].left \in 1 .. life
      BY <1>1, Indices DEF Dict, Orderly
    <2> QED BY <1>1, <2>1 DEF Entry
  <1>3. aged \in Dict(K, V) /\ Len(aged) = N
    <2>1. aged \in [1 .. N -> Entry(K, V)]
      BY <1>1, <1>2
    <2> HIDE DEF aged
    <2> QED BY <1>1, <2>1 DEF Dict
  <1>4. Elapsed(d) = SubSeq(aged, due + 1, N)
    <2>1. Elapsed(d) = expire(aged)
      BY DEF Elapsed
    <2>2. expire(aged) = SubSeq(aged, due + 1, Len(aged))
      <3> HIDE DEF aged
      <3> QED BY DEF expire
    <2> HIDE DEF aged, due
    <2> QED BY <1>3, <2>1, <2>2
  <1> HIDE DEF aged
  <1>n. \A i \in 1 .. N : aged[i].left \in Nat /\ d[i].left \in Nat /\ aged[i].left = d[i].left - 1 /\ aged[i] \in Entry(K, V)
    <2>1. ASSUME NEW i \in 1 .. N PROVE aged[i].left \in Nat /\ d[i].left \in Nat /\ aged[i].left = d[i].left - 1
      <3>1. d[i].left \in 1 .. life /\ aged[i].left = d[i].left - 1
        BY <1>2
      <3> QED BY <3>1
    <2> QED BY <1>2, <2>1
  <1>5. due \in 0 .. N /\ Due(due)
    <2>1. S \in SUBSET Nat /\ N \in S
      BY <1>1
    <2>2. PICK n \in S : \A m \in S : n <= m
      <3>1. S \in SUBSET Nat /\ S # {}
        BY <2>1
      <3> HIDE DEF S
      <3> QED BY <3>1, LeastNumber
    <2>3. ASSUME NEW i \in 1 .. n PROVE aged[i].left = 0
      <3>1. i - 1 \in 0 .. N /\ i \in 1 .. N /\ i - 1 < N /\ (i - 1) + 1 = i /\ ~(n <= i - 1)
        BY <1>1, <2>2
      <3>2. i - 1 \notin S
        BY <2>2, <3>1
      <3>3. ~(aged[i].left > 0)
        BY <3>1, <3>2
      <3> QED BY <1>n, <3>1, <3>3
    <2>4. n \in 0 .. Len(aged) /\ Due(n)
      BY <1>3, <2>2, <2>3
    <2> HIDE DEF Due, S
    <2> QED BY <1>3, <2>4
  <1> HIDE DEF due
  <1> DEFINE r == SubSeq(aged, due + 1, N)
             M == N - due
  <1>6. r \in Dict(K, V) /\ Len(r) = M /\ M \in Nat /\ M <= N /\ \A i \in 1 .. M : r[i] = aged[due + i]
    <2>0. due \in Nat /\ due <= N
      BY <1>1, <1>5
    <2>1. \A i \in due + 1 .. N : aged[i] \in Entry(K, V)
      BY <1>n, <1>1, <2>0
    <2>2. /\ r \in Seq(Entry(K, V)) /\ Len(r) = IF due + 1 <= N THEN N - (due + 1) + 1 ELSE 0
          /\ \A i \in 1 .. N - (due + 1) + 1 : r[i] = aged[(due + 1) + i - 1]
      <3>1. due + 1 \in Int /\ N \in Int
        BY <1>1, <1>5
      <3> HIDE DEF r
      <3> QED BY <2>1, <3>1, SubSeqProperties DEF r
    <2> HIDE DEF r
    <2>3. Len(r) = M /\ M \in Nat /\ M <= N
      <3>1. N \in Nat
        BY <1>1
      <3>2. Len(r) = IF due + 1 <= N THEN N - (due + 1) + 1 ELSE 0
        BY <2>2
      <3> HIDE DEF N
      <3> QED BY <2>0, <3>1, <3>2
    <2>4. ASSUME NEW i \in 1 .. M PROVE r[i] = aged[due + i]
      <3>1. i \in 1 .. N - (due + 1) + 1 /\ (due + 1) + i - 1 = due + i
        BY <1>1, <2>0
      <3> QED BY <2>2, <3>1
    <2> QED BY <2>2, <2>3, <2>4 DEF Dict
  <1>7. ASSUME NEW i \in 1 .. N PROVE i > due <=> d[i].left > 1
    <2>1. CASE i <= due
      <3>1. aged[i].left = 0
        BY <1>1, <1>5, <2>1
      <3> QED BY <1>n, <1>1, <1>5, <2>1, <3>1
    <2>2. CASE i > due
      <3>1. due + 1 \in 1 .. N /\ due < N /\ due + 1 <= i
        BY <1>1, <1>5, <2>2
      <3>2. d[due + 1].left - 1 > 0 /\ d[due + 1].left \in Nat /\ d[i].left \in Nat
        BY <1>n, <1>3, <1>5, <3>1
      <3>3. d[due + 1].left <= d[i].left
        BY <1>1, <3>1 DEF Orderly
      <3> QED BY <2>2, <3>2, <3>3
    <2> QED BY <1>1, <1>5, <2>1, <2>2
  <1> HIDE DEF r, Due
  <1>8. ASSUME NEW i \in 1 .. M
        PROVE  /\ due + i \in 1 .. N /\ r[i] = [d[due + i] EXCEPT !.left = @ - 1]
               /\ d[due + i].left > 1 /\ r[i].left = d[due + i].left - 1 /\ r[i].key = d[due + i].key
    <2>1. due + i \in 1 .. N /\ due + i > due
      BY <1>1, <1>5
    <2> QED BY <1>2, <1>6, <1>7, <2>1
  <1> DEFINE left == {x \in Range(d) : x.left > 1}
  <1>9. Range(r) = {[e EXCEPT !.left = @ - 1] : e \in left}
    <2>1. DOMAIN r = 1 .. M
      BY <1>6, Indices DEF Dict
    <2>2. ASSUME NEW i \in 1 .. M PROVE \E e \in left : r[i] = [e EXCEPT !.left = @ - 1]
      BY <1>1, <1>8 DEF Range
    <2>3. ASSUME NEW e \in left PROVE \E i \in 1 .. M : r[i] = [e EXCEPT !.left = @ - 1]
      <3>1. PICK j \in 1 .. N : d[j] = e
        BY <1>1 DEF Range
      <3>2. j - due \in 1 .. M /\ due + (j - due) = j
        BY <1>1, <1>5, <1>7, <3>1
      <3> QED BY <1>8, <3>1, <3>2
    <2> HIDE DEF left
    <2> QED BY <2>1, <2>2, <2>3 DEF Range
  <1>10. Orderly(r, life, max)
    <2>1. DOMAIN r = 1 .. M
      BY <1>6, Indices DEF Dict
    <2>2. ASSUME NEW i \in 1 .. M, NEW j \in 1 .. M
          PROVE  (r[i].key = r[j].key => i = j) /\ (i <= j => r[i].left <= r[j].left) /\ r[i].left \in 1 .. life
      <3>1. /\ due + i \in 1 .. N /\ due + j \in 1 .. N
            /\ r[i].left = d[due + i].left - 1 /\ r[j].left = d[due + j].left - 1
            /\ r[i].key = d[due + i].key /\ r[j].key = d[due + j].key /\ d[due + i].left > 1
        BY <1>8
      <3>2. d[due + i].left \in 1 .. life /\ d[due + j].left \in 1 .. life
        BY <1>2, <3>1
      <3>3. r[i].key = r[j].key => due + i = due + j
        BY <1>1, <3>1 DEF Orderly
      <3>4. i <= j => d[due + i].left <= d[due + j].left
        <4>1. i <= j => due + i <= due + j
          BY <1>1, <1>5
        <4> QED BY <1>1, <3>1, <4>1 DEF Orderly
      <3> QED BY <1>1, <1>5, <3>1, <3>2, <3>3, <3>4
    <2>3. Len(r) <= max
      <3>1. max \in Nat
        OBVIOUS
      <3> QED BY <1>1, <1>6, <3>1
    <2> QED BY <2>1, <2>2, <2>3 DEF Orderly
  <1> QED BY <1>4, <1>6, <1>9, <1>10 DEF r

\* A dictionary has as many entries as keys.
LEMMA Sizes ==
  ASSUME NEW K, NEW V, NEW life, NEW max, NEW d \in Dict(K, V), Orderly(d, life, max)
  PROVE  IsFiniteSet(Range(d)) /\ Cardinality(Range(d)) = Len(d) /\ Len(d) \in Nat
  <1>1. DOMAIN d = 1 .. Len(d) /\ Len(d) \in Nat
    BY Indices DEF Dict
  <1>2. IsFiniteSet(1 .. Len(d)) /\ Cardinality(1 .. Len(d)) = Len(d)
    <2> DEFINE n == Len(d)
    <2>1. n \in Int /\ 1 \in Int /\ n \in Nat
      BY <1>1
    <2> HIDE DEF n
    <2>2. IsFiniteSet(1 .. n) /\ Cardinality(1 .. n) = IF 1 > n THEN 0 ELSE n - 1 + 1
      BY <2>1, FS_Interval
    <2>3. Cardinality(1 .. n) = n
      BY <2>1, <2>2
    <2> QED BY <2>2, <2>3 DEF n
  <1>3. d \in Bijection(1 .. Len(d), Range(d))
    <2>1. d \in [1 .. Len(d) -> Range(d)]
      <3>1. d = [i \in 1 .. Len(d) |-> d[i]]
        BY <1>1 DEF Dict
      <3> QED BY <1>1, <3>1 DEF Range
    <2>2. \A i, j \in DOMAIN d : d[i] = d[j] => i = j
      BY DEF Orderly
    <2>3. \A e \in Range(d) : \E i \in 1 .. Len(d) : d[i] = e
      BY <1>1 DEF Range
    <2> QED BY <1>1, <2>1, <2>2, <2>3 DEF Bijection, Injection, Surjection, IsInjective
  <1> QED BY <1>1, <1>2, <1>3, FS_Bijection DEF ExistsBijection

\* The keys of a dictionary may be of a larger set.
LEMMA Widened ==
  ASSUME NEW K, NEW J, K \subseteq J, NEW V, NEW d \in Dict(K, V)
  PROVE  d \in Dict(J, V)
  <1>1. DOMAIN d = 1 .. Len(d) /\ Len(d) \in Nat /\ \A i \in 1 .. Len(d) : d[i] \in Entry(K, V)
    BY Indices DEF Dict
  <1>2. Entry(K, V) \subseteq Entry(J, V)
    BY DEF Entry
  <1>3. d = [i \in 1 .. Len(d) |-> d[i]]
    BY <1>1 DEF Dict
  <1> QED BY <1>1, <1>2, <1>3 DEF Dict

\* An empty dictionary.
LEMMA Nothing ==
  ASSUME NEW K, NEW V, NEW life, NEW max \in Nat
  PROVE  <<>> \in Dict(K, V) /\ Orderly(<<>>, life, max) /\ Range(<<>>) = {} /\ Keys(<<>>) = {} /\ Len(<<>>) = 0
  BY DEF Dict, Orderly, Range, Keys

-----------------------------------------------------------------------------
(***************************************************************************)
(* What holds of the record that a request works on.                       *)
(***************************************************************************)
Roots    == Nat \X Nat
RootSets == SUBSET Roots
Wanted   == Client \X Param
Issue    == [root : Roots, next : Nat]
Gift     == [root : Roots, offset : Nat, times : Nat]
Cached   == [param : Param, work : Nat, nonce : Nat]
Sites    == {site[c] : c \in Client} \ {no_site}

Interface ==
  [merkle_root_to_handler       : Dict(Roots, Client),
   stale_merkle_root_to_handler : Dict(Roots, Client),
   getwork_roots_by_client      : Dict(Client, RootSets),
   getwork_roots_by_ipv6_prefix : Dict(Sites, RootSets),
   getwork_by_request           : Dict(Wanted, Issue),
   verified_getwork_clients     : Dict(Client, BOOLEAN),
   worker_views                 : Dict(Client, Nat),
   _getwork_generation          : Nat]

Bridge == [_cache : Seq(Cached), _times : Nat, works : Nat]
Record == [wi : Interface, bridge : Bridge, given : SUBSET Gift, again : BOOLEAN]

AllOrderly(w) ==
  /\ Orderly(w.merkle_root_to_handler, HandlerLife, MAX_CURRENT_GETWORK_HANDLERS)
  /\ Orderly(w.stale_merkle_root_to_handler, HandlerLife, MAX_STALE_GETWORK_HANDLERS)
  /\ Orderly(w.getwork_roots_by_client, HandlerLife, MaxActive)
  /\ Orderly(w.getwork_roots_by_ipv6_prefix, HandlerLife, MAX_CURRENT_GETWORK_HANDLERS)
  /\ Orderly(w.getwork_by_request, HandlerLife, MaxActive)
  /\ Orderly(w.verified_getwork_clients, VerifiedLife, MAX_VERIFIED_GETWORK_CLIENTS)
  /\ Orderly(w.worker_views, ViewLife, MAX_LONG_POLL_IDENTITIES)

\* The jobs given by the time t: one piece of work belongs to one time.
GivenBy(G, works, t) ==
  /\ \A g \in G : /\ g.root[1] \in 1 .. works /\ g.root[2] \in 0 .. Nonces - 1
                  /\ g.offset <= MaxOffset /\ g.times <= t
  /\ \A g, h \in G : g.root[1] = h.root[1] => g.times = h.times

\* No nonce that a cache of the time t has yet to hand out was given, and no work is in it twice.
Ahead(cache, works, G, t) ==
  /\ \A i, j \in DOMAIN cache :
       cache[i].param = cache[j].param \/ cache[i].work = cache[j].work => i = j
  /\ \A i \in DOMAIN cache : cache[i].work \in 1 .. works /\ cache[i].nonce \in 0 .. Nonces - 1
  /\ \A i \in DOMAIN cache : \A g \in G :
       g.root[1] = cache[i].work => g.root[2] < cache[i].nonce /\ g.times = t

CacheAhead(b, G, t) ==
  /\ b._times <= t /\ Len(b._cache) <= MAX_CACHED_WORK_ITEMS
  /\ Ahead(b._cache, b.works, G, b._times)

\* The timestamps a request has yet to be given come after those that were, and no two
\* requests share a root.
RequestsAhead(w, G) ==
  \A e \in Range(w.getwork_by_request) :
    /\ \E g \in G : g.root = e.value.root
    /\ \A g \in G : g.root = e.value.root =>
         g.times = w._getwork_generation /\ g.offset + Roll < e.value.next
    /\ \A f \in Range(w.getwork_by_request) : f.value.root = e.value.root => f = e

\* Every root the interface keeps was given.
RootsGiven(w, G) ==
  /\ Keys(w.merkle_root_to_handler) \cup Keys(w.stale_merkle_root_to_handler) \subseteq {g.root : g \in G}
  /\ \A r \in Range(w.getwork_roots_by_client) : r.value \subseteq {g.root : g \in G}
  /\ \A r \in Range(w.getwork_roots_by_ipv6_prefix) : r.value \subseteq {g.root : g \in G}

\* The quota dictionary q, by the owners of the clients: it lasts as long as the handlers h
\* of an owner, holds them, and none of another's.
Quota(h, q, own, K) ==
  /\ \A e \in Range(h) : own[e.value] \in K =>
       \E r \in Range(q) : r.key = own[e.value] /\ e.key \in r.value /\ e.left <= r.left
  /\ \A r \in Range(q) : \E e \in Range(h) : own[e.value] = r.key /\ e.left = r.left
  /\ \A r \in Range(q) : \A e \in Range(h) : e.key \in r.value => own[e.value] = r.key

HandlersOf(h, own, k) == {e.key : e \in {x \in Range(h) : own[x.value] = k}}
Within(h, own, K, limit) == \A k \in K : Cardinality(HandlersOf(h, own, k)) <= limit

itself == [c \in Client |-> c]
sited  == [c \in Client |-> site[c]]

QuotasKept(w) ==
  /\ Quota(w.merkle_root_to_handler, w.getwork_roots_by_client, itself, Client)
  /\ Quota(w.merkle_root_to_handler, w.getwork_roots_by_ipv6_prefix, sited, Sites)
  /\ Within(w.merkle_root_to_handler, itself, Client, MAX_GETWORK_HANDLERS_PER_CLIENT)
  /\ Within(w.merkle_root_to_handler, sited, Sites, MAX_GETWORK_HANDLERS_PER_IPV6_PREFIX)

Sound(s, t) ==
  /\ s \in Record /\ AllOrderly(s.wi) /\ s.wi._getwork_generation <= t
  /\ GivenBy(s.given, s.bridge.works, t) /\ CacheAhead(s.bridge, s.given, t)
  /\ RequestsAhead(s.wi, s.given) /\ RootsGiven(s.wi, s.given) /\ QuotasKept(s.wi)
  /\ ~ s.again

Poll == [client : Client, param : Param, left : Nat]

\* No client that waits is known to be behind.
Prompt(polls, views, t) ==
  \A q \in Range(polls) : \A v \in Range(views) : v.key = q.client => v.value = t

IInv ==
  /\ times \in 0 .. MaxTimes /\ waiting \in Seq(Poll)
  /\ _long_poll_waiters = Len(waiting) /\ Len(waiting) <= MAX_CONCURRENT_LONG_POLLS
  /\ Sound(Now, times) /\ bridge.works <= MaxWorks
  /\ Prompt(waiting, wi.worker_views, times)

-----------------------------------------------------------------------------
LEMMA Limits ==
  /\ HandlerLife \in Nat \ {0} /\ VerifiedLife \in Nat \ {0} /\ ViewLife \in Nat \ {0} /\ PollLife \in Nat \ {0}
  /\ MAX_STALE_GETWORK_HANDLERS \in Nat \ {0} /\ MAX_CURRENT_GETWORK_HANDLERS \in Nat \ {0}
  /\ MaxActive \in Nat \ {0} /\ MaxActive > MAX_CURRENT_GETWORK_HANDLERS
  /\ MAX_VERIFIED_GETWORK_CLIENTS \in Nat \ {0} /\ MAX_LONG_POLL_IDENTITIES \in Nat \ {0}
  /\ MAX_CACHED_WORK_ITEMS \in Nat \ {0} /\ MAX_CONCURRENT_LONG_POLLS \in Nat \ {0}
  /\ MAX_GETWORK_HANDLERS_PER_CLIENT \in Nat /\ MAX_GETWORK_HANDLERS_PER_IPV6_PREFIX \in Nat
  /\ MAX_UNVERIFIED_GETWORK_HANDLERS_PER_CLIENT \in Nat
  /\ MAX_UNVERIFIED_GETWORK_HANDLERS_PER_CLIENT <= MAX_GETWORK_HANDLERS_PER_CLIENT
  /\ Nonces \in Nat \ {0} /\ Roll \in Nat /\ MaxOffset \in Nat /\ MaxWorks \in Nat /\ MaxTimes \in Nat
  /\ HandlerLife \in Nat /\ MAX_CURRENT_GETWORK_HANDLERS \in Nat
  BY GetWorkAssumption DEF MaxActive

\* The handlers that are made stale are all kept, or as many as there is room for.
LEMMA MadeStaleKeeps ==
  ASSUME NEW K, NEW stale \in Dict(K, Client), Orderly(stale, HandlerLife, MAX_STALE_GETWORK_HANDLERS),
         NEW old \in Dict(K, Client)
  PROVE  /\ MadeStale(stale, old) \in Dict(K, Client)
         /\ Orderly(MadeStale(stale, old), HandlerLife, MAX_STALE_GETWORK_HANDLERS)
         /\ \A e \in Range(old) : \/ e.key \in Keys(MadeStale(stale, old))
                                  \/ Len(MadeStale(stale, old)) = MAX_STALE_GETWORK_HANDLERS
  <1> DEFINE E    == Entry(K, Client)
             max  == MAX_STALE_GETWORK_HANDLERS
             R    == {d \in Dict(K, Client) : Orderly(d, HandlerLife, max)}
             Put(d, e) == touch(d, e.key, e.value, HandlerLife, max)
             step == [p \in R \X E |-> Put(p[1], p[2])]
  <1>1. ASSUME NEW d \in R, NEW e \in E
        PROVE  /\ Put(d, e) \in R
               /\ Len(Put(d, e)) = max \/ (e.key \in Keys(Put(d, e)) /\ Keys(d) \subseteq Keys(Put(d, e)))
               /\ Len(d) = max => Len(Put(d, e)) = max
    <2> DEFINE t   == Put(d, e)
               new == [key |-> e.key, value |-> e.value, left |-> HandlerLife]
    <2>1. e.key \in K /\ e.value \in Client /\ max \in Nat \ {0} /\ HandlerLife \in Nat \ {0}
      BY Limits DEF Entry
    <2>2. /\ t \in Dict(K, Client) /\ Orderly(t, HandlerLife, max) /\ Len(t) >= Len(d)
          /\ e.key \in Keys(d) \/ Len(d) < max => Range(t) = {x \in Range(d) : x.key # e.key} \cup {new}
          /\ ~(e.key \in Keys(d) \/ Len(d) < max) => Len(t) = max
      <3>1. t \in Dict(K, Client) /\ Touches(t, d, e.key, e.value, HandlerLife, max)
        BY <2>1, Touched
      <3> HIDE DEF t
      <3> QED BY <3>1 DEF Touches
    <2> HIDE DEF t
    <2>3. Keys(t) = {x.key : x \in Range(t)} /\ Keys(d) = {x.key : x \in Range(d)}
      BY <2>2, ByKey
    <2>4. e.key \in Keys(d) \/ Len(d) < max => e.key \in Keys(t) /\ Keys(d) \subseteq Keys(t)
      BY <2>2, <2>3
    <2>5. Len(d) = max => Len(t) = max
      <3>1. Len(t) <= max /\ Len(t) \in Nat /\ Len(d) \in Nat
        BY <2>2, Indices DEF Orderly, Dict
      <3> QED BY <2>1, <2>2, <3>1
    <2> QED BY <2>2, <2>4, <2>5 DEF t
  <1>2. step \in [R \X E -> R]
    <2> HIDE DEF R, Put, E
    <2> QED BY <1>1
  <1>3. ASSUME NEW d \in R, NEW e \in E PROVE step[d, e] = Put(d, e)
    <2> HIDE DEF R, Put, E
    <2> QED OBVIOUS
  <1>4. old \in Seq(E) /\ DOMAIN old = 1 .. Len(old) /\ Len(old) \in Nat /\ \A i \in DOMAIN old : old[i] \in E
    BY DEF Dict
  <1>5. stale \in R
    OBVIOUS
  <1> HIDE DEF R, Put, E
  <1>6. ASSUME NEW u \in SUBSET DOMAIN old, u # {}
        PROVE  Sq!Max(u) = Top(u) /\ Top(u) \in DOMAIN old /\ u \ {Top(u)} \in SUBSET DOMAIN old
    <2>1. Sq!Max(u) = Top(u)
      BY DEF Sq!Max, Top
    <2> QED BY <1>4, <1>6, <2>1, TopOfIndices
  <1> DEFINE Is(g) == g = [u \in SUBSET DOMAIN old |->
                             IF u = {} THEN stale
                             ELSE Put(g[u \ {Sq!Max(u)}], old[Sq!Max(u)])]
             G == CHOOSE g : Is(g)
  <1>7. MadeStale(stale, old) = G[DOMAIN old]
    BY DEF MadeStale, Sq!FoldLeft, Sq!MapThenFoldSet, Put
  <1>8. Is(G)
    <2>1. PICK g \in [SUBSET DOMAIN old -> R] : Folds(g, step, stale, old)
      <3> HIDE DEF step
      <3> QED BY <1>2, <1>4, <1>5, FoldExists
    <2>2. ASSUME NEW u \in SUBSET DOMAIN old
          PROVE  g[u] = IF u = {} THEN stale ELSE Put(g[u \ {Sq!Max(u)}], old[Sq!Max(u)])
      <3>1. CASE u = {}
        BY <2>1, <3>1 DEF Folds
      <3>2. CASE u # {}
        <4>1. g[u] = step[g[u \ {Top(u)}], old[Top(u)]]
          BY <2>1, <3>2 DEF Folds
        <4> HIDE DEF step
        <4> QED BY <1>3, <1>4, <1>6, <3>2, <4>1
      <3> QED BY <3>1, <3>2
    <2>3. g = [u \in SUBSET DOMAIN old |-> g[u]]
      OBVIOUS
    <2>4. Is(g)
      BY <2>2, <2>3
    <2> HIDE DEF Is
    <2> QED BY <2>4
  <1>9. FoldsIn(R, G, step, stale, old)
    <2>1. ASSUME NEW u \in SUBSET DOMAIN old
          PROVE  G[u] = IF u = {} THEN stale ELSE Put(G[u \ {Sq!Max(u)}], old[Sq!Max(u)])
      <3> HIDE DEF G
      <3> QED BY <1>8
    <2> HIDE DEF G
    <2>2. G[{}] = stale
      BY <2>1
    <2>3. ASSUME NEW u \in SUBSET DOMAIN old, u # {}, G[u \ {Top(u)}] \in R
          PROVE  G[u] = step[G[u \ {Top(u)}], old[Top(u)]]
      <3>1. G[u] = Put(G[u \ {Top(u)}], old[Top(u)])
        BY <1>6, <2>1, <2>3
      <3> HIDE DEF step
      <3> QED BY <1>3, <1>4, <1>6, <2>3, <3>1
    <2> HIDE DEF step
    <2> QED BY <2>2, <2>3 DEF FoldsIn
  <1> HIDE DEF G, step, Is
  <1>10. PICK f : Along(f, R, G, step, stale, old)
    BY <1>2, <1>4, <1>5, <1>9, FoldSteps
  <1>11. MadeStale(stale, old) = f[Len(old)] /\ f[Len(old)] \in R
    BY <1>7, <1>10 DEF Along
  <1> DEFINE T == {n \in 0 .. Len(old) : \A i \in 1 .. n : old[i].key \in Keys(f[n]) \/ Len(f[n]) = max}
  <1>12. ASSUME NEW n \in 1 .. Len(old), n - 1 \in T PROVE n \in T
    <2>1. n \in 0 .. Len(old) /\ n - 1 \in 0 .. Len(old) /\ old[n] \in E
      BY <1>4
    <2>2. f[n - 1] \in R /\ f[n] = Put(f[n - 1], old[n])
      <3>1. f[n - 1] \in R /\ f[n] = step[f[n - 1], old[n]]
        BY <1>10, <2>1 DEF Along
      <3> QED BY <1>3, <2>1, <3>1
    <2>3. /\ Len(f[n]) = max \/ (old[n].key \in Keys(f[n]) /\ Keys(f[n - 1]) \subseteq Keys(f[n]))
          /\ Len(f[n - 1]) = max => Len(f[n]) = max
      BY <1>1, <2>1, <2>2
    <2>4. ASSUME NEW i \in 1 .. n PROVE old[i].key \in Keys(f[n]) \/ Len(f[n]) = max
      <3>1. i = n \/ i \in 1 .. n - 1
        BY <2>1
      <3> QED BY <1>12, <2>3, <3>1
    <2> QED BY <2>1, <2>4
  <1>13. Len(old) \in T
    <2>1. 0 \in T
      BY <1>4
    <2>2. \A n \in 1 .. Len(old) : n - 1 \in T => n \in T
      BY <1>12
    <2> HIDE DEF T
    <2>3. \A n \in 0 .. Len(old) : n \in T
      BY <1>4, <2>1, <2>2, UpTo
    <2> QED BY <1>4, <2>3
  <1>14. ASSUME NEW e \in Range(old) PROVE e.key \in Keys(f[Len(old)]) \/ Len(f[Len(old)]) = max
    <2>1. PICK i \in 1 .. Len(old) : old[i] = e
      BY <1>4 DEF Range
    <2> QED BY <1>13, <2>1
  <1> QED BY <1>11, <1>14 DEF R

\* Or of a smaller one, which holds them.
LEMMA Narrowed ==
  ASSUME NEW K, NEW J, NEW V, NEW d \in Dict(J, V), Keys(d) \subseteq K
  PROVE  d \in Dict(K, V)
  <1>1. DOMAIN d = 1 .. Len(d) /\ Len(d) \in Nat /\ \A i \in 1 .. Len(d) : d[i] \in Entry(J, V)
    BY Indices DEF Dict
  <1>2. \A i \in 1 .. Len(d) : d[i] \in Entry(K, V)
    BY <1>1 DEF Entry, Keys
  <1>3. d = [i \in 1 .. Len(d) |-> d[i]]
    BY <1>1 DEF Dict
  <1> QED BY <1>1, <1>2, <1>3 DEF Dict

-----------------------------------------------------------------------------
(***************************************************************************)
(* The record that a request works on, from one of its steps to the next.  *)
(***************************************************************************)

\* What becomes of the handlers between two records, whose later one is at the time t.
Kept(u, s, t) ==
  \/ /\ s.wi._getwork_generation = u.wi._getwork_generation
     /\ Keys(u.wi.merkle_root_to_handler) \subseteq Keys(s.wi.merkle_root_to_handler)
     /\ s.wi.stale_merkle_root_to_handler = u.wi.stale_merkle_root_to_handler
  \/ /\ s.wi._getwork_generation = t /\ u.wi._getwork_generation # t
     /\ \/ Keys(u.wi.merkle_root_to_handler) \subseteq Keys(s.wi.stale_merkle_root_to_handler)
        \/ Len(s.wi.stale_merkle_root_to_handler) = MAX_STALE_GETWORK_HANDLERS

LEMMA KeptOn ==
  ASSUME NEW u, NEW s, NEW r, NEW t, Kept(u, s, t), Kept(s, r, t)
  PROVE  Kept(u, r, t)
  BY DEF Kept

LEMMA SyncKeeps ==
  ASSUME NEW t \in Nat, NEW s, Sound(s, t)
  PROVE  LET r == _sync_getwork_generation(s, t)
         IN /\ Sound(r, t) /\ Kept(s, r, t) /\ r.wi._getwork_generation = t
            /\ r.bridge = s.bridge /\ r.given = s.given /\ r.wi.worker_views = s.wi.worker_views
  <1> DEFINE r == _sync_getwork_generation(s, t)
             m == MadeStale(s.wi.stale_merkle_root_to_handler, s.wi.merkle_root_to_handler)
             w == [s.wi EXCEPT !.stale_merkle_root_to_handler = m,
                               !.merkle_root_to_handler = <<>>,
                               !.getwork_roots_by_client = <<>>,
                               !.getwork_roots_by_ipv6_prefix = <<>>,
                               !.getwork_by_request = <<>>,
                               !._getwork_generation = t]
  <1>1. CASE s.wi._getwork_generation = t
    <2>1. r = s
      BY <1>1 DEF _sync_getwork_generation
    <2> QED BY <1>1, <2>1 DEF Kept
  <1>2. CASE s.wi._getwork_generation # t
    <2>1. r = [s EXCEPT !.wi = w]
      BY <1>2 DEF _sync_getwork_generation, Sound, Record, Interface
    <2>2. s \in Record /\ s.wi \in Interface /\ s.given \in SUBSET Gift
      BY DEF Sound, Record
    <2> DEFINE K == {g.root : g \in s.given}
    <2>3. /\ s.wi.merkle_root_to_handler \in Dict(K, Client)
          /\ s.wi.stale_merkle_root_to_handler \in Dict(K, Client)
          /\ K \subseteq Roots
      <3>1. K \subseteq Roots
        BY <2>2 DEF Gift
      <3>2. /\ s.wi.merkle_root_to_handler \in Dict(Roots, Client)
            /\ s.wi.stale_merkle_root_to_handler \in Dict(Roots, Client)
            /\ Keys(s.wi.merkle_root_to_handler) \subseteq K
            /\ Keys(s.wi.stale_merkle_root_to_handler) \subseteq K
        BY <2>2 DEF Interface, Sound, RootsGiven
      <3> HIDE DEF K
      <3> QED BY <3>1, <3>2, Narrowed
    <2>4. /\ m \in Dict(K, Client) /\ m \in Dict(Roots, Client)
          /\ Orderly(m, HandlerLife, MAX_STALE_GETWORK_HANDLERS)
          /\ \A e \in Range(s.wi.merkle_root_to_handler) :
               e.key \in Keys(m) \/ Len(m) = MAX_STALE_GETWORK_HANDLERS
          /\ Keys(m) \subseteq K
      <3>1. Orderly(s.wi.stale_merkle_root_to_handler, HandlerLife, MAX_STALE_GETWORK_HANDLERS)
        BY DEF Sound, AllOrderly
      <3> HIDE DEF K
      <3>2. /\ m \in Dict(K, Client)
            /\ Orderly(m, HandlerLife, MAX_STALE_GETWORK_HANDLERS)
            /\ \A e \in Range(s.wi.merkle_root_to_handler) :
                 e.key \in Keys(m) \/ Len(m) = MAX_STALE_GETWORK_HANDLERS
        BY <2>3, <3>1, MadeStaleKeeps
      <3> HIDE DEF m
      <3>3. m \in Dict(Roots, Client)
        BY <2>3, <3>2, Widened
      <3>4. Keys(m) \subseteq K
        BY <3>2, ByKey
      <3> QED BY <3>2, <3>3, <3>4
    <2> HIDE DEF m
    <2>5. /\ <<>> \in Dict(Roots, Client) /\ <<>> \in Dict(Client, RootSets) /\ <<>> \in Dict(Sites, RootSets)
          /\ <<>> \in Dict(Wanted, Issue)
          /\ \A life, max : max \in Nat => Orderly(<<>>, life, max)
          /\ Range(<<>>) = {} /\ Keys(<<>>) = {}
      BY Nothing, Limits
    <2> DEFINE x == <<>>
    <2>6. /\ w.merkle_root_to_handler = x /\ w.stale_merkle_root_to_handler = m
          /\ w.getwork_roots_by_client = x /\ w.getwork_roots_by_ipv6_prefix = x /\ w.getwork_by_request = x
          /\ w.verified_getwork_clients = s.wi.verified_getwork_clients
          /\ w.worker_views = s.wi.worker_views /\ w._getwork_generation = t
          /\ w \in Interface
      BY <2>2, <2>4, <2>5 DEF Interface
    <2>7. /\ x \in Dict(Roots, Client) /\ Range(x) = {} /\ Keys(x) = {}
          /\ \A life, max : max \in Nat => Orderly(x, life, max)
      BY <2>5
    <2> HIDE DEF w, x
    <2>8. /\ r \in Record /\ r.wi = w /\ r.bridge = s.bridge /\ r.given = s.given /\ r.again = s.again
      BY <2>1, <2>2, <2>6 DEF Record
    <2> HIDE DEF r
    <2>9. AllOrderly(w)
      BY <2>4, <2>6, <2>7, Limits DEF Sound, AllOrderly
    <2>10. RequestsAhead(w, s.given)
      BY <2>6, <2>7 DEF RequestsAhead
    <2>11. RootsGiven(w, s.given)
      BY <2>4, <2>6, <2>7 DEF RootsGiven
    <2>12. QuotasKept(w)
      <3>1. ASSUME NEW own, NEW k PROVE Cardinality(HandlersOf(x, own, k)) = 0
        <4>1. HandlersOf(x, own, k) = {}
          BY <2>7 DEF HandlersOf
        <4> QED BY <4>1, FS_EmptySet
      <3> QED BY <2>6, <2>7, <3>1, Limits DEF QuotasKept, Quota, Within
    <2>13. Sound(r, t)
      BY <2>6, <2>8, <2>9, <2>10, <2>11, <2>12 DEF Sound
    <2>14. Kept(s, r, t)
      <3>1. Keys(s.wi.merkle_root_to_handler) = {e.key : e \in Range(s.wi.merkle_root_to_handler)}
        BY DEF Keys, Range
      <3> QED BY <1>2, <2>4, <2>6, <2>8, <3>1 DEF Kept
    <2> QED BY <2>6, <2>8, <2>13, <2>14 DEF r
  <1> QED BY <1>1, <1>2

-----------------------------------------------------------------------------
(***************************************************************************)
(* The bridge: every nonce of every piece of work is handed out once.      *)
(***************************************************************************)
LEMMA AheadLess ==
  ASSUME NEW works, NEW G, NEW t, NEW c \in Seq(Cached), Ahead(c, works, G, t),
         NEW n \in DOMAIN c, NEW r \in Seq(Cached), Without(r, c, n)
  PROVE  /\ Ahead(r, works, G, t)
         /\ \A i \in DOMAIN r : r[i].param # c[n].param /\ r[i].work # c[n].work
  <1> DEFINE up(i) == IF i < n THEN i ELSE i + 1
  <1>1. DOMAIN c = 1 .. Len(c) /\ Len(c) \in Nat /\ DOMAIN r = 1 .. Len(c) - 1 /\ n \in 1 .. Len(c)
    BY Indices DEF Without
  <1>2. ASSUME NEW i \in DOMAIN r PROVE up(i) \in DOMAIN c /\ r[i] = c[up(i)] /\ up(i) # n
    BY <1>1, <1>2 DEF Without
  <1>3. ASSUME NEW i \in DOMAIN r, NEW j \in DOMAIN r, up(i) = up(j) PROVE i = j
    BY <1>1, <1>3
  <1> HIDE DEF up
  <1>4. ASSUME NEW i \in DOMAIN r, NEW j \in DOMAIN r, r[i].param = r[j].param \/ r[i].work = r[j].work
        PROVE  i = j
    <2>1. up(i) = up(j)
      BY <1>2, <1>4 DEF Ahead
    <2> QED BY <1>3, <2>1
  <1>5. ASSUME NEW i \in DOMAIN r
        PROVE  /\ r[i].work \in 1 .. works /\ r[i].nonce \in 0 .. Nonces - 1
               /\ \A g \in G : g.root[1] = r[i].work => g.root[2] < r[i].nonce /\ g.times = t
               /\ r[i].param # c[n].param /\ r[i].work # c[n].work
    BY <1>2 DEF Ahead
  <1> QED BY <1>4, <1>5 DEF Ahead

LEMMA AheadMore ==
  ASSUME NEW works, NEW G, NEW t, NEW c \in Seq(Cached), Ahead(c, works, G, t), NEW e \in Cached,
         \A i \in DOMAIN c : c[i].param # e.param /\ c[i].work # e.work,
         e.work \in 1 .. works, e.nonce \in 0 .. Nonces - 1,
         \A g \in G : g.root[1] = e.work => g.root[2] < e.nonce /\ g.times = t
  PROVE  Append(c, e) \in Seq(Cached) /\ Len(Append(c, e)) = Len(c) + 1 /\ Ahead(Append(c, e), works, G, t)
  <1> DEFINE a == Append(c, e)
             n == Len(c) + 1
  <1>1. /\ a \in Seq(Cached) /\ Len(a) = n /\ DOMAIN a = 1 .. n /\ DOMAIN c = 1 .. Len(c) /\ Len(c) \in Nat
        /\ a[n] = e /\ \A i \in 1 .. Len(c) : a[i] = c[i]
    OBVIOUS
  <1> HIDE DEF a
  <1>2. \A i \in DOMAIN a : (i = n /\ a[i] = e) \/ (i \in DOMAIN c /\ a[i] = c[i])
    BY <1>1
  <1>3. ASSUME NEW i \in DOMAIN a, NEW j \in DOMAIN a, a[i].param = a[j].param \/ a[i].work = a[j].work
        PROVE  i = j
    BY <1>2, <1>3 DEF Ahead
  <1>4. ASSUME NEW i \in DOMAIN a
        PROVE  /\ a[i].work \in 1 .. works /\ a[i].nonce \in 0 .. Nonces - 1
               /\ \A g \in G : g.root[1] = a[i].work => g.root[2] < a[i].nonce /\ g.times = t
    BY <1>2 DEF Ahead
  <1>5. Ahead(a, works, G, t)
    BY <1>3, <1>4 DEF Ahead
  <1> QED BY <1>1, <1>5 DEF a

\* The entry for p that is next, when rest stays in the cache and works were made.
Fresh(entry, rest, works, b, G, t, p) ==
  /\ entry \in Cached /\ entry.param = p /\ entry.work \in 1 .. works /\ entry.nonce \in 0 .. Nonces - 1
  /\ works \in Nat /\ works >= b.works
  /\ rest \in Seq(Cached) /\ Len(rest) <= MAX_CACHED_WORK_ITEMS /\ Ahead(rest, works, G, t)
  /\ \A i \in DOMAIN rest : rest[i].param # p /\ rest[i].work # entry.work
  /\ \A g \in G : g.root[1] = entry.work => g.root[2] < entry.nonce /\ g.times = t

\* How many works there are when w is taken.
LEMMA LaterWork ==
  ASSUME NEW n \in Nat
  PROVE  Max({n, n + 1}) = n + 1 /\ \A w \in 1 .. n : Max({n, w}) = n
  <1>1. ASSUME NEW w \in 1 .. n PROVE Max({n, w}) = n
    <2>1. \A x : x = Max({n, w}) => x = n
      BY DEF Max
    <2> QED BY <2>1
  <1>2. \A x : x = Max({n, n + 1}) => x = n + 1
    BY DEF Max
  <1> QED BY <1>1, <1>2

\* What get_work takes from the cache of the time t: its entry for p, or new work.
LEMMA NextWorkFresh ==
  ASSUME NEW t \in Nat, NEW b \in Bridge, NEW G \in SUBSET Gift, GivenBy(G, b.works, t), CacheAhead(b, G, t),
         NEW p \in Param
  PROVE  LET entry == NextWork(b, t, p)
             c     == CurrentCache(b, t)
             at    == CachedFor(c, p)
             rest  == IF at = {} THEN c ELSE Sq!RemoveAt(c, Max(at))
             works == Max({b.works, entry.work})
         IN Fresh(entry, rest, works, b, G, t, p)
  <1> DEFINE entry == NextWork(b, t, p)
             c     == CurrentCache(b, t)
             at    == CachedFor(c, p)
             n     == Max(at)
             rest  == IF at = {} THEN c ELSE Sq!RemoveAt(c, n)
             works == Max({b.works, entry.work})
  <1>1. /\ c \in Seq(Cached) /\ Len(c) <= MAX_CACHED_WORK_ITEMS /\ Ahead(c, b.works, G, t) /\ b.works \in Nat
        /\ DOMAIN c = 1 .. Len(c) /\ Len(c) \in Nat
    <2>1. b._cache \in Seq(Cached) /\ b.works \in Nat
      BY DEF Bridge
    <2>2. CASE b._times = t
      BY <2>1, <2>2 DEF CurrentCache, CacheAhead
    <2>3. CASE b._times # t
      <3>1. c = <<>>
        BY <2>3 DEF CurrentCache
      <3>2. Ahead(<<>>, b.works, G, t)
        BY DEF Ahead
      <3> QED BY <2>1, <3>1, <3>2, Limits
    <2> QED BY <2>2, <2>3
  <1>2. entry = IF at = {} THEN [param |-> p, work |-> b.works + 1, nonce |-> 0] ELSE c[n]
    BY DEF NextWork, WorkAt
  <1> HIDE DEF c, entry
  <1>3. CASE at = {}
    <2>1. entry = [param |-> p, work |-> b.works + 1, nonce |-> 0] /\ rest = c
      BY <1>2, <1>3
    <2>2. entry \in Cached /\ entry.param = p /\ entry.work = b.works + 1 /\ entry.nonce = 0
      BY <1>1, <2>1 DEF Cached
    <2>3. works = b.works + 1
      <3>1. Max({b.works, b.works + 1}) = b.works + 1
        BY <1>1, LaterWork
      <3> QED BY <2>2, <3>1
    <2>4. \A i \in DOMAIN c : c[i].param # p /\ c[i].work # b.works + 1 /\ c[i].work \in 1 .. b.works
      BY <1>1, <1>3 DEF CachedFor, Ahead
    <2>5. \A g \in G : g.root[1] # b.works + 1
      BY <1>1 DEF GivenBy
    <2>6. Ahead(c, b.works + 1, G, t)
      <3>1. 1 .. b.works \subseteq 1 .. b.works + 1
        BY <1>1
      <3> QED BY <1>1, <3>1 DEF Ahead
    <2>7. 0 \in 0 .. Nonces - 1 /\ b.works + 1 \in 1 .. b.works + 1 /\ b.works + 1 \in Nat /\ b.works + 1 >= b.works
      BY <1>1, Limits
    <2> HIDE DEF works, rest
    <2>8. \A i \in DOMAIN rest : rest[i].param # p /\ rest[i].work # entry.work
      BY <2>1, <2>2, <2>4
    <2>9. \A g \in G : g.root[1] = entry.work => g.root[2] < entry.nonce /\ g.times = t
      BY <2>2, <2>5
    <2>10. rest \in Seq(Cached) /\ Len(rest) <= MAX_CACHED_WORK_ITEMS /\ Ahead(rest, works, G, t)
      BY <1>1, <2>1, <2>3, <2>6
    <2>11. Fresh(entry, rest, works, b, G, t, p)
      BY <2>2, <2>3, <2>7, <2>8, <2>9, <2>10 DEF Fresh
    <2> QED BY <2>11 DEF works, rest, entry, c
  <1>4. CASE at # {}
    <2>1. n \in DOMAIN c /\ c[n].param = p
      <3>1. at \in SUBSET (1 .. Len(c)) /\ \A i \in at : i \in DOMAIN c /\ c[i].param = p
        BY <1>1 DEF CachedFor
      <3>2. n = Top(at)
        BY DEF Max, Top
      <3> HIDE DEF at, n
      <3>3. n \in at
        BY <1>1, <1>4, <3>1, <3>2, TopOfIndices
      <3> QED BY <3>1, <3>3
    <2>2. entry = c[n] /\ rest = Sq!RemoveAt(c, n)
      BY <1>2, <1>4
    <2> HIDE DEF at, n
    <2>3. entry \in Cached /\ entry.param = p /\ entry.work \in 1 .. b.works /\ entry.nonce \in 0 .. Nonces - 1
          /\ \A g \in G : g.root[1] = entry.work => g.root[2] < entry.nonce /\ g.times = t
      <3>1. c[n] \in Cached
        BY <1>1, <2>1
      <3> QED BY <1>1, <2>1, <2>2, <3>1 DEF Ahead
    <2>4. works = b.works
      <3>1. \A w \in 1 .. b.works : Max({b.works, w}) = b.works
        BY <1>1, LaterWork
      <3> QED BY <2>3, <3>1
    <2> HIDE DEF rest, works
    <2>5. rest \in Seq(Cached) /\ Without(rest, c, n)
      BY <1>1, <2>1, <2>2, Removed
    <2>6. Ahead(rest, b.works, G, t) /\ \A i \in DOMAIN rest : rest[i].param # c[n].param /\ rest[i].work # c[n].work
      BY <1>1, <2>1, <2>5, AheadLess
    <2>7. Len(rest) <= MAX_CACHED_WORK_ITEMS
      <3>1. Len(rest) = Len(c) - 1
        BY <2>5 DEF Without
      <3> QED BY <1>1, <3>1, Limits
    <2>8. \A i \in DOMAIN rest : rest[i].param # p /\ rest[i].work # entry.work
      BY <2>1, <2>2, <2>6
    <2>9. Fresh(entry, rest, works, b, G, t, p)
      BY <1>1, <2>3, <2>4, <2>5, <2>6, <2>7, <2>8 DEF Fresh
    <2> QED BY <2>9 DEF works, rest, entry, c, at, n
  <1> QED BY <1>3, <1>4

\* The bridge r after it handed out g, when G was given before.
Took(r, g, G, t) ==
  /\ r \in Bridge /\ g \in Gift /\ g.root[1] # 0 /\ g.times = t /\ g.offset = 0
  /\ GivenBy(G \cup {g}, r.works, t) /\ CacheAhead(r, G \cup {g}, t)
  /\ \A h \in G : h.root # g.root

\* What get_work hands out is new, and its cache stays ahead of what was given.
LEMMA BridgeKeeps ==
  ASSUME NEW t \in Nat, NEW b \in Bridge, NEW G \in SUBSET Gift, GivenBy(G, b.works, t), CacheAhead(b, G, t),
         NEW p \in Param
  PROVE  Took(get_work(b, t, p), [root |-> Root(NextWork(b, t, p)), offset |-> 0, times |-> t], G, t)
  <1> DEFINE entry == NextWork(b, t, p)
             c     == CurrentCache(b, t)
             at    == CachedFor(c, p)
             rest  == IF at = {} THEN c ELSE Sq!RemoveAt(c, Max(at))
             works == Max({b.works, entry.work})
             new   == [entry EXCEPT !.nonce = @ + 1]
             a     == Append(rest, new)
             g     == [root |-> Root(entry), offset |-> 0, times |-> t]
             H     == G \cup {g}
             cache == CachedAfter(rest, entry)
             r     == get_work(b, t, p)
  <1>a. Fresh(entry, rest, works, b, G, t, p)
    BY NextWorkFresh
  <1>2. r = [_cache |-> cache, _times |-> t, works |-> works]
    BY DEF get_work
  <1> HIDE DEF entry, works, rest
  <1>1. /\ entry \in Cached /\ entry.param = p /\ entry.work \in 1 .. works /\ entry.nonce \in 0 .. Nonces - 1
        /\ works \in Nat /\ works >= b.works
        /\ rest \in Seq(Cached) /\ Len(rest) <= MAX_CACHED_WORK_ITEMS /\ Ahead(rest, works, G, t)
        /\ \A i \in DOMAIN rest : rest[i].param # p /\ rest[i].work # entry.work
        /\ \A h \in G : h.root[1] = entry.work => h.root[2] < entry.nonce /\ h.times = t
    BY <1>a DEF Fresh
  <1>3. /\ g \in Gift /\ g.root = <<entry.work, entry.nonce>> /\ g.root \in Roots /\ g.root[1] = entry.work
        /\ g.root[2] = entry.nonce /\ g.offset = 0 /\ g.times = t /\ g.root = Root(entry) /\ g.root[1] # 0
    BY <1>1 DEF Root, Gift, Roots, Cached
  <1> HIDE DEF g
  <1>4. ASSUME NEW h \in G PROVE h.root # g.root
    <2>1. h.root[1] = entry.work => h.root[2] < entry.nonce
      BY <1>1
    <2>2. entry.nonce \in Nat
      BY <1>1, Limits
    <2> QED BY <1>3, <2>1, <2>2
  <1>5. GivenBy(H, works, t)
    <2>1. ASSUME NEW h \in G PROVE h.root[1] \in 1 .. works
      BY <1>1, <2>1 DEF GivenBy, Bridge
    <2>2. ASSUME NEW h \in H PROVE /\ h.root[1] \in 1 .. works /\ h.root[2] \in 0 .. Nonces - 1
                                   /\ h.offset <= MaxOffset /\ h.times <= t
      <3>1. CASE h = g
        BY <1>1, <1>3, <3>1, Limits
      <3>2. CASE h \in G
        BY <2>1, <3>2 DEF GivenBy
      <3> QED BY <3>1, <3>2
    <2>3. ASSUME NEW h \in H, NEW k \in H, h.root[1] = k.root[1] PROVE h.times = k.times
      <3>1. CASE h = g
        BY <1>1, <1>3, <2>3, <3>1
      <3>2. CASE k = g
        BY <1>1, <1>3, <2>3, <3>2
      <3>3. CASE h \in G /\ k \in G
        BY <2>3, <3>3 DEF GivenBy
      <3> QED BY <3>1, <3>2, <3>3
    <2> HIDE DEF H
    <2> QED BY <2>2, <2>3 DEF GivenBy
  <1>6. Ahead(rest, works, H, t)
    <2>1. \A i \in DOMAIN rest : \A h \in H : h.root[1] = rest[i].work => h.root[2] < rest[i].nonce /\ h.times = t
      BY <1>1, <1>3 DEF Ahead
    <2> HIDE DEF H
    <2> QED BY <1>1, <2>1 DEF Ahead
  <1>7. Len(rest) \in Nat
    BY <1>1
  <1>8. cache \in Seq(Cached) /\ Len(cache) <= MAX_CACHED_WORK_ITEMS /\ Ahead(cache, works, H, t)
    <2>1. CASE entry.nonce + 1 = Nonces
      <3>1. cache = rest
        BY <2>1 DEF CachedAfter
      <3> QED BY <1>1, <1>6, <3>1
    <2>2. CASE entry.nonce + 1 # Nonces
      <3> DEFINE from == IF Len(rest) >= MAX_CACHED_WORK_ITEMS THEN 2 ELSE 1
      <3>1. cache = SubSeq(a, from, Len(rest) + 1)
        BY <2>2 DEF CachedAfter
      <3>2. new \in Cached /\ new.param = p /\ new.work = entry.work /\ new.nonce = entry.nonce + 1
        BY <1>1 DEF Cached
      <3> HIDE DEF new, H
      <3>3. \A h \in H : h.root[1] = new.work => h.root[2] < new.nonce /\ h.times = t
        <4>1. ASSUME NEW h \in G, h.root[1] = new.work PROVE h.root[2] < new.nonce /\ h.times = t
          <5>1. h.root[2] < entry.nonce /\ h.times = t /\ h.root[2] \in 0 .. Nonces - 1 /\ entry.nonce \in 0 .. Nonces - 1
            BY <1>1, <3>2, <4>1 DEF GivenBy
          <5> QED BY <3>2, <5>1, Limits
        <4>2. g.root[2] < new.nonce /\ g.times = t
          BY <1>1, <1>3, <3>2, Limits
        <4> QED BY <4>1, <4>2 DEF H
      <3>4. new.nonce \in 0 .. Nonces - 1
        BY <1>1, <2>2, <3>2, Limits
      <3>5. a \in Seq(Cached) /\ Len(a) = Len(rest) + 1 /\ Ahead(a, works, H, t)
        BY <1>1, <1>6, <3>2, <3>3, <3>4, AheadMore
      <3> HIDE DEF a, cache
      <3>6. CASE Len(rest) >= MAX_CACHED_WORK_ITEMS
        <4>1. cache = SubSeq(a, 2, Len(a)) /\ Len(a) \in Nat /\ Len(a) >= 2
          BY <1>7, <3>1, <3>5, <3>6, Limits
        <4>2. /\ \A i \in 2 .. Len(a) : a[i] \in Cached
              /\ 2 \in Int /\ Len(a) \in Int
          BY <3>5, <4>1
        <4>3. /\ SubSeq(a, 2, Len(a)) \in Seq(Cached)
              /\ Len(SubSeq(a, 2, Len(a))) = IF 2 <= Len(a) THEN Len(a) - 2 + 1 ELSE 0
              /\ \A i \in 1 .. Len(a) - 2 + 1 : SubSeq(a, 2, Len(a))[i] = a[2 + i - 1]
          BY <4>2, SubSeqProperties
        <4>4. cache \in Seq(Cached) /\ Len(cache) = Len(a) - 1
          BY <4>1, <4>3
        <4>5. \A i \in 1 .. Len(a) - 1 : cache[i] = a[i + 1]
          <5> SUFFICES ASSUME NEW i \in 1 .. Len(a) - 1 PROVE cache[i] = a[i + 1]
            OBVIOUS
          <5>1. i \in 1 .. Len(a) - 2 + 1 /\ 2 + i - 1 = i + 1
            BY <4>1
          <5> QED BY <4>1, <4>3, <5>1
        <4>6. Without(cache, a, 1) /\ 1 \in DOMAIN a
          <5>1. \A i \in 1 .. Len(a) - 1 : ~ (i < 1)
            OBVIOUS
          <5>2. 1 \in DOMAIN a
            BY <3>5, <4>1
          <5> QED BY <4>4, <4>5, <5>1, <5>2 DEF Without
        <4>7. Ahead(cache, works, H, t)
          BY <3>5, <4>4, <4>6, AheadLess
        <4>8. Len(cache) <= MAX_CACHED_WORK_ITEMS
          BY <1>1, <1>7, <3>5, <4>4
        <4> QED BY <4>4, <4>7, <4>8
      <3>7. CASE ~(Len(rest) >= MAX_CACHED_WORK_ITEMS)
        <4>1. cache = SubSeq(a, 1, Len(a)) /\ Len(a) <= MAX_CACHED_WORK_ITEMS
          BY <1>7, <3>1, <3>5, <3>7, Limits
        <4>2. cache = a
          BY <3>5, <4>1, SubSeqFull
        <4> QED BY <3>5, <4>1, <4>2
      <3> QED BY <3>6, <3>7
    <2> QED BY <2>1, <2>2
  <1> HIDE DEF cache, H
  <1>9. r \in Bridge /\ r.works = works /\ CacheAhead(r, H, t)
    BY <1>1, <1>2, <1>8 DEF Bridge, CacheAhead
  <1> HIDE DEF r
  <1>10. Took(r, g, G, t)
    BY <1>3, <1>4, <1>5, <1>9 DEF Took, H
  <1> QED BY <1>10 DEF r, g, entry

-----------------------------------------------------------------------------
(***************************************************************************)
(* The quotas.                                                             *)
(***************************************************************************)

\* A quota counts the handlers of its owner.
LEMMA QuotaCounts ==
  ASSUME NEW h \in Dict(Roots, Client), Orderly(h, HandlerLife, MAX_CURRENT_GETWORK_HANDLERS),
         NEW L, NEW max, NEW q \in Dict(L, RootSets), Orderly(q, HandlerLife, max),
         NEW own, NEW K, Quota(h, q, own, K), NEW k \in K
  PROVE  Get(q, k, {}) \cap Keys(h) = HandlersOf(h, own, k)
  <1>1. /\ Keys(h) = {e.key : e \in Range(h)} /\ Keys(q) = {r.key : r \in Range(q)}
        /\ \A r \in Range(q) : Get(q, r.key, {}) = r.value
        /\ k \notin Keys(q) => Get(q, k, {}) = {}
    BY ByKey
  <1>2. ASSUME NEW x \in Get(q, k, {}), x \in Keys(h) PROVE x \in HandlersOf(h, own, k)
    <2>1. PICK r \in Range(q) : r.key = k
      BY <1>1, <1>2
    <2>2. PICK e \in Range(h) : e.key = x
      BY <1>1, <1>2
    <2>3. own[e.value] = k
      BY <1>1, <1>2, <2>1, <2>2 DEF Quota
    <2> QED BY <2>2, <2>3 DEF HandlersOf
  <1>3. ASSUME NEW x \in HandlersOf(h, own, k) PROVE x \in Get(q, k, {}) /\ x \in Keys(h)
    <2>1. PICK e \in Range(h) : own[e.value] = k /\ e.key = x
      BY DEF HandlersOf
    <2>2. PICK r \in Range(q) : r.key = k /\ x \in r.value
      BY <2>1 DEF Quota
    <2> QED BY <1>1, <2>1, <2>2
  <1> QED BY <1>2, <1>3

\* There are no more owners than handlers.
LEMMA QuotaRoom ==
  ASSUME NEW h \in Dict(Roots, Client), Orderly(h, HandlerLife, MAX_CURRENT_GETWORK_HANDLERS),
         NEW L, NEW max, NEW q \in Dict(L, RootSets), Orderly(q, HandlerLife, max),
         NEW own, NEW K, Quota(h, q, own, K)
  PROVE  Len(q) <= Len(h) /\ Len(q) \in Nat /\ Len(h) \in Nat
  <1> DEFINE Q == Range(q)
             H == Range(h)
  <1>1. IsFiniteSet(H) /\ Cardinality(H) = Len(h) /\ Len(h) \in Nat /\ Cardinality(Q) = Len(q) /\ Len(q) \in Nat
    BY Sizes
  <1>2. /\ \A r \in Q : \E e \in H : own[e.value] = r.key
        /\ \A r, s \in Q : r.key = s.key => r = s
    <2>1. \A r, s \in Q : r.key = s.key => r = s
      BY ByKey
    <2> QED BY <2>1 DEF Quota
  <1> HIDE DEF Q, H
  <1> DEFINE f == [r \in Q |-> CHOOSE e \in H : own[e.value] = r.key]
  <1>3. f \in [Q -> H] /\ \A r \in Q : own[f[r].value] = r.key
    BY <1>2
  <1> HIDE DEF f
  <1>4. f \in Injection(Q, H)
    BY <1>2, <1>3 DEF Injection, IsInjective
  <1>5. Cardinality(Q) <= Cardinality(H)
    BY <1>1, <1>4, FS_Injection
  <1> QED BY <1>1, <1>5

\* The handlers of an owner are finitely many, and one more when one more is made.
LEMMA HandlersCounted ==
  ASSUME NEW h \in Dict(Roots, Client), Orderly(h, HandlerLife, MAX_CURRENT_GETWORK_HANDLERS), NEW own, NEW k
  PROVE  IsFiniteSet(HandlersOf(h, own, k)) /\ Cardinality(HandlersOf(h, own, k)) \in Nat
  <1>1. IsFiniteSet(Range(h))
    BY Sizes
  <1> DEFINE S == {x \in Range(h) : own[x.value] = k}
  <1>2. IsFiniteSet(S)
    BY <1>1, FS_Subset
  <1>3. HandlersOf(h, own, k) = {e.key : e \in S}
    BY DEF HandlersOf
  <1> HIDE DEF S
  <1> DEFINE f == [e \in S |-> e.key]
             I == {e.key : e \in S}
  <1>4. f \in [S -> I] /\ \A i \in I : \E e \in S : f[e] = i
    OBVIOUS
  <1> HIDE DEF f
  <1>5. f \in Surjection(S, I)
    BY <1>4 DEF Surjection
  <1>6. IsFiniteSet(I)
    BY <1>2, <1>5, FS_Surjection
  <1> QED BY <1>3, <1>6, FS_CardinalityType

\* The new handler n has an owner that is not counted.
LEMMA QuotaAside ==
  ASSUME NEW h, NEW g, NEW n, Range(g) = Range(h) \cup {n}, NEW q, NEW own, NEW K, Quota(h, q, own, K),
         own[n.value] \notin K, \A r \in Range(q) : n.key \notin r.value,
         NEW limit, Within(h, own, K, limit)
  PROVE  Quota(g, q, own, K) /\ Within(g, own, K, limit)
  <1>1. Quota(g, q, own, K)
    BY DEF Quota
  <1>2. ASSUME NEW k \in K PROVE HandlersOf(g, own, k) = HandlersOf(h, own, k)
    BY DEF HandlersOf
  <1> QED BY <1>1, <1>2 DEF Within

\* What z is to the handlers g, when q is to the handlers before the one of root.
Grown(z, q, L, max, h, root, g, own, K, limit) ==
  /\ z \in Dict(L, RootSets) /\ Orderly(z, HandlerLife, max)
  /\ \A r \in Range(z) : r.value \subseteq Keys(h) \cup {root} \/ r \in Range(q)
  /\ Quota(g, z, own, K) /\ Within(g, own, K, limit)

\* The new handler n, of the owner k, is put in its quota.
LEMMA QuotaGrows ==
  ASSUME NEW h \in Dict(Roots, Client), Orderly(h, HandlerLife, MAX_CURRENT_GETWORK_HANDLERS),
         NEW L, NEW max \in Nat \ {0}, NEW q \in Dict(L, RootSets), Orderly(q, HandlerLife, max),
         NEW own, NEW K, Quota(h, q, own, K), NEW k \in K, k \in L, Len(h) < max,
         NEW g, NEW n \in Entry(Roots, Client), Range(g) = Range(h) \cup {n},
         own[n.value] = k, n.left = HandlerLife, n.key \notin Keys(h), \A r \in Range(q) : n.key \notin r.value,
         NEW limit \in Nat, Within(h, own, K, limit), Cardinality(Get(q, k, {}) \cap Keys(h)) < limit
  PROVE  Grown(touch(q, k, (Get(q, k, {}) \cap Keys(h)) \cup {n.key}, HandlerLife, max),
               q, L, max, h, n.key, g, own, K, limit)
  <1> DEFINE v == (Get(q, k, {}) \cap Keys(h)) \cup {n.key}
             z == touch(q, k, v, HandlerLife, max)
             new == [key |-> k, value |-> v, left |-> HandlerLife]
  <1>1. /\ Keys(h) = {e.key : e \in Range(h)} /\ Keys(q) = {r.key : r \in Range(q)}
        /\ \A r \in Range(q) : Get(q, r.key, {}) = r.value
        /\ k \notin Keys(q) => Get(q, k, {}) = {}
        /\ \A e \in Range(h) : e.key \in Roots /\ e.left \in 1 .. HandlerLife
    BY ONLY ByKey, h \in Dict(Roots, Client), Orderly(h, HandlerLife, MAX_CURRENT_GETWORK_HANDLERS), q \in Dict(L, RootSets), Orderly(q, HandlerLife, max)
  <1>2. v \in RootSets
    BY <1>1 DEF Entry, RootSets
  <1>3. Len(q) < max
    <2>1. Len(q) <= Len(h) /\ Len(q) \in Nat /\ Len(h) \in Nat
      BY ONLY QuotaRoom, h \in Dict(Roots, Client), Orderly(h, HandlerLife, MAX_CURRENT_GETWORK_HANDLERS),
              q \in Dict(L, RootSets), Orderly(q, HandlerLife, max), Quota(h, q, own, K)
    <2> QED BY <2>1
  <1> HIDE DEF v
  <1>4. /\ z \in Dict(L, RootSets) /\ Orderly(z, HandlerLife, max)
        /\ Range(z) = {r \in Range(q) : r.key # k} \cup {new}
    <2>1. HandlerLife \in Nat \ {0}
      BY Limits
    <2>2. z \in Dict(L, RootSets) /\ Touches(z, q, k, v, HandlerLife, max)
      BY ONLY <1>2, <2>1, Touched, k \in L, max \in Nat \ {0}, q \in Dict(L, RootSets), Orderly(q, HandlerLife, max)
    <2> HIDE DEF z
    <2> QED BY <1>3, <2>2 DEF Touches
  <1>5. new.key = k /\ new.value = v /\ new.left = HandlerLife
    OBVIOUS
  <1> HIDE DEF z, new
  <1>6. Quota(g, z, own, K)
    <2>1. ASSUME NEW e \in Range(g), own[e.value] \in K
          PROVE  \E r \in Range(z) : r.key = own[e.value] /\ e.key \in r.value /\ e.left <= r.left
      <3>1. CASE e = n
        <4>1. new.key = own[e.value] /\ e.key \in new.value /\ e.left <= new.left
          BY <1>5, <3>1, Limits DEF v
        <4> QED BY <1>4, <4>1
      <3>2. CASE e \in Range(h)
        <4>1. PICK r \in Range(q) : r.key = own[e.value] /\ e.key \in r.value /\ e.left <= r.left
          BY <2>1, <3>2 DEF Quota
        <4>2. CASE r.key # k
          BY <1>4, <4>1, <4>2
        <4>3. CASE r.key = k
          <5>1. e.key \in v
            BY <1>1, <3>2, <4>1, <4>3 DEF v
          <5>2. e.left <= new.left
            BY <1>1, <1>5, <3>2, Limits
          <5> QED BY <1>4, <1>5, <4>1, <4>3, <5>1, <5>2
        <4> QED BY <4>2, <4>3
      <3> QED BY <2>1, <3>1, <3>2
    <2>2. ASSUME NEW r \in Range(z) PROVE \E e \in Range(g) : own[e.value] = r.key /\ e.left = r.left
      <3>1. CASE r = new
        BY <1>5, <3>1
      <3>2. CASE r \in Range(q)
        BY <3>2 DEF Quota
      <3> QED BY <1>4, <3>1, <3>2
    <2>3. ASSUME NEW r \in Range(z), NEW e \in Range(g), e.key \in r.value PROVE own[e.value] = r.key
      <3>1. CASE e = n
        BY <1>4, <1>5, <2>3, <3>1
      <3>2. CASE e \in Range(h) /\ r = new
        <4>1. e.key # n.key
          BY <1>1, <3>2
        <4>2. e.key \in Get(q, k, {})
          BY <1>5, <2>3, <3>2, <4>1 DEF v
        <4>3. PICK o \in Range(q) : o.key = k /\ e.key \in o.value
          BY <1>1, <4>2
        <4> QED BY <1>5, <3>2, <4>3 DEF Quota
      <3>3. CASE e \in Range(h) /\ r \in Range(q)
        BY <2>3, <3>3 DEF Quota
      <3> QED BY <1>4, <2>3, <3>1, <3>2, <3>3
    <2> QED BY <2>1, <2>2, <2>3 DEF Quota
  <1>7. Within(g, own, K, limit)
    <2>1. ASSUME NEW j \in K, j # k PROVE HandlersOf(g, own, j) = HandlersOf(h, own, j)
      BY <2>1 DEF HandlersOf
    <2>2. HandlersOf(g, own, k) = HandlersOf(h, own, k) \cup {n.key}
      BY DEF HandlersOf
    <2>3. n.key \notin HandlersOf(h, own, k)
      BY <1>1 DEF HandlersOf
    <2>4. Cardinality(HandlersOf(h, own, k)) < limit
      <3>1. Get(q, k, {}) \cap Keys(h) = HandlersOf(h, own, k)
        BY ONLY QuotaCounts, h \in Dict(Roots, Client), Orderly(h, HandlerLife, MAX_CURRENT_GETWORK_HANDLERS),
                q \in Dict(L, RootSets), Orderly(q, HandlerLife, max), Quota(h, q, own, K), k \in K
      <3> QED BY <3>1
    <2>5. Cardinality(HandlersOf(g, own, k)) = Cardinality(HandlersOf(h, own, k)) + 1
      <3>1. IsFiniteSet(HandlersOf(h, own, k))
        BY HandlersCounted
      <3> QED BY <2>2, <2>3, <3>1, FS_AddElement
    <2>6. Cardinality(HandlersOf(g, own, k)) <= limit
      BY <2>4, <2>5, HandlersCounted
    <2> QED BY <2>1, <2>6 DEF Within
  <1>8. \A r \in Range(z) : r.value \subseteq Keys(h) \cup {n.key} \/ r \in Range(q)
    BY <1>4, <1>5 DEF v
  <1>9. Grown(z, q, L, max, h, n.key, g, own, K, limit)
    BY <1>4, <1>6, <1>7, <1>8 DEF Grown
  <1> QED BY <1>9 DEF z, v

-----------------------------------------------------------------------------
(***************************************************************************)
(* What is given, and what is remembered of it.                            *)
(***************************************************************************)

\* The record r is s once g is given.
Gives(r, s, g) ==
  /\ r \in Record /\ r.wi = s.wi /\ r.bridge = s.bridge /\ r.given = s.given \cup {g} /\ r.again = s.again

\* Timestamps beyond those of the same root are not given again.
LEMMA GiveAdds ==
  ASSUME NEW s \in Record, NEW t \in Nat, NEW root \in Roots, NEW offset \in Nat,
         \A h \in s.given : h.root = root => h.offset + Roll < offset
  PROVE  Gives(Give(s, t, root, offset), s, [root |-> root, offset |-> offset, times |-> t])
  <1> DEFINE g == [root |-> root, offset |-> offset, times |-> t]
             used == {h \in s.given : h.root = root /\ h.offset - Roll <= offset /\ offset <= h.offset + Roll}
             r == Give(s, t, root, offset)
  <1>1. g \in Gift
    BY DEF Gift
  <1>2. used = {}
    <2>1. ASSUME NEW h \in used PROVE FALSE
      <3>1. h \in s.given /\ h.root = root /\ offset <= h.offset + Roll
        OBVIOUS
      <3>2. h.offset \in Nat /\ h.offset + Roll < offset
        BY <3>1 DEF Record, Gift
      <3> QED BY <3>1, <3>2, Limits
    <2> QED BY <2>1
  <1>3. r = [s EXCEPT !.given = @ \cup {g}, !.again = @ \/ used # {}]
    BY DEF Give
  <1> HIDE DEF used, g, r
  <1>4. /\ s.wi \in Interface /\ s.bridge \in Bridge /\ s.given \in SUBSET Gift /\ s.again \in BOOLEAN
        /\ s = [wi |-> s.wi, bridge |-> s.bridge, given |-> s.given, again |-> s.again]
    BY DEF Record
  <1>5. (s.again \/ used # {}) = s.again
    BY <1>2, <1>4
  <1>6. r = [wi |-> s.wi, bridge |-> s.bridge, given |-> s.given \cup {g}, again |-> s.again]
    BY <1>3, <1>4, <1>5
  <1>7. r \in Record /\ r.wi = s.wi /\ r.bridge = s.bridge /\ r.given = s.given \cup {g} /\ r.again = s.again
    BY <1>1, <1>4, <1>6 DEF Record
  <1> QED BY <1>7 DEF Gives, r, g

\* What is given under a new root changes nothing for the roots before.
LEMMA GivenApart ==
  ASSUME NEW w, NEW G, NEW g, \A h \in G : h.root # g.root, RequestsAhead(w, G), RootsGiven(w, G)
  PROVE  RequestsAhead(w, G \cup {g}) /\ RootsGiven(w, G \cup {g})
  <1>1. RootsGiven(w, G \cup {g})
    <2>1. {h.root : h \in G} \subseteq {h.root : h \in G \cup {g}}
      OBVIOUS
    <2> QED BY <2>1 DEF RootsGiven
  <1>2. RequestsAhead(w, G \cup {g})
    <2>1. ASSUME NEW e \in Range(w.getwork_by_request), NEW h \in G \cup {g}, h.root = e.value.root PROVE h \in G
      <3>1. PICK k \in G : k.root = e.value.root
        BY DEF RequestsAhead
      <3> QED BY <2>1, <3>1
    <2> QED BY <2>1 DEF RequestsAhead
  <1> QED BY <1>1, <1>2

\* The Stratum server takes work: the interface does not notice.
LEMMA StratumKeeps ==
  ASSUME NEW t \in Nat, NEW s, Sound(s, t), NEW p \in Param
  PROVE  LET r == Give([s EXCEPT !.bridge = get_work(@, t, p)], t, Root(NextWork(s.bridge, t, p)), 0)
         IN Sound(r, t) /\ r.wi = s.wi
  <1> DEFINE b == get_work(s.bridge, t, p)
             root == Root(NextWork(s.bridge, t, p))
             g == [root |-> root, offset |-> 0, times |-> t]
             u == [s EXCEPT !.bridge = b]
             r == Give(u, t, root, 0)
  <1>1. s \in Record /\ s.bridge \in Bridge /\ s.given \in SUBSET Gift
    BY DEF Sound, Record
  <1>2. Took(b, g, s.given, t)
    BY <1>1, BridgeKeeps DEF Sound
  <1> HIDE DEF b, root
  <1>3. b \in Bridge /\ \A h \in s.given : h.root # root
    BY <1>2 DEF Took
  <1>4. u \in Record /\ u.wi = s.wi /\ u.bridge = b /\ u.given = s.given /\ u.again = s.again
    BY <1>1, <1>3 DEF Record
  <1>5. root \in Roots /\ 0 \in Nat
    <2>1. g \in Gift /\ g.root = root
      BY <1>2 DEF Took
    <2> QED BY <2>1 DEF Gift
  <1> HIDE DEF u
  <1>6. Gives(r, u, g)
    BY <1>3, <1>4, <1>5, GiveAdds
  <1> HIDE DEF r
  <1>7. r \in Record /\ r.wi = s.wi /\ r.bridge = b /\ r.given = s.given \cup {g} /\ r.again = s.again
    BY <1>4, <1>6 DEF Gives
  <1>8. GivenBy(s.given \cup {g}, b.works, t) /\ CacheAhead(b, s.given \cup {g}, t)
    BY <1>2 DEF Took
  <1>9. RequestsAhead(s.wi, s.given \cup {g}) /\ RootsGiven(s.wi, s.given \cup {g})
    <2>1. \A h \in s.given : h.root # g.root
      BY <1>3
    <2> HIDE DEF g
    <2> QED BY <2>1, GivenApart DEF Sound
  <1> HIDE DEF g
  <1>10. Sound(r, t)
    BY <1>7, <1>8, <1>9 DEF Sound
  <1> QED BY <1>7, <1>10 DEF r, u, b, root

\* The interface v is w but for what the clients have been given last.
Alike(v, w) ==
  /\ v.merkle_root_to_handler = w.merkle_root_to_handler
  /\ v.stale_merkle_root_to_handler = w.stale_merkle_root_to_handler
  /\ v.getwork_roots_by_client = w.getwork_roots_by_client
  /\ v.getwork_roots_by_ipv6_prefix = w.getwork_roots_by_ipv6_prefix
  /\ v.verified_getwork_clients = w.verified_getwork_clients
  /\ v.worker_views = w.worker_views /\ v._getwork_generation = w._getwork_generation

LEMMA AlikeKeeps ==
  ASSUME NEW w \in Interface, NEW d \in Dict(Wanted, Issue), Orderly(d, HandlerLife, MaxActive)
  PROVE  LET v == [w EXCEPT !.getwork_by_request = d]
         IN /\ v \in Interface /\ v.getwork_by_request = d /\ Alike(v, w)
            /\ AllOrderly(w) => AllOrderly(v)
            /\ QuotasKept(w) => QuotasKept(v)
            /\ \A G : RootsGiven(w, G) => RootsGiven(v, G)
  <1> DEFINE v == [w EXCEPT !.getwork_by_request = d]
  <1>1. v \in Interface /\ v.getwork_by_request = d /\ Alike(v, w)
    BY DEF Interface, Alike
  <1> HIDE DEF v
  <1>2. AllOrderly(w) => AllOrderly(v)
    BY <1>1 DEF AllOrderly, Alike
  <1>3. QuotasKept(w) => QuotasKept(v)
    BY <1>1 DEF QuotasKept, Alike
  <1>4. \A G : RootsGiven(w, G) => RootsGiven(v, G)
    BY <1>1 DEF RootsGiven, Alike
  <1> QED BY <1>1, <1>2, <1>3, <1>4 DEF v

\* What is deleted is gone, and all else stays.
LEMMA Deleted ==
  ASSUME NEW K, NEW V, NEW life \in Nat, NEW max \in Nat, NEW d \in Dict(K, V), Orderly(d, life, max), NEW k
  PROVE  /\ Delete(d, k) \in Dict(K, V) /\ Orderly(Delete(d, k), life, max)
         /\ Range(Delete(d, k)) = {e \in Range(d) : e.key # k}
  <1> DEFINE r == Delete(d, k)
             n == Node(d, k)
  <1>1. CASE k \in Keys(d)
    <2>1. n \in DOMAIN d /\ d[n].key = k
      BY <1>1 DEF Keys, Node
    <2>2. r = Sq!RemoveAt(d, n)
      BY <1>1 DEF Delete
    <2> HIDE DEF n, r
    <2>3. r \in Dict(K, V) /\ Without(r, d, n)
      BY <2>1, <2>2, Removed DEF Dict
    <2>4. Orderly(r, life, max) /\ Range(r) = {e \in Range(d) : e.key # d[n].key}
      BY <2>1, <2>3, Less
    <2> QED BY <2>1, <2>3, <2>4 DEF r
  <1>2. CASE k \notin Keys(d)
    <2>1. r = d
      BY <1>2 DEF Delete
    <2>2. \A e \in Range(d) : e.key # k
      BY <1>2, ByKey
    <2> HIDE DEF r
    <2> QED BY <2>1, <2>2 DEF r
  <1> QED BY <1>1, <1>2

\* A request forgotten.
LEMMA ForgotKeeps ==
  ASSUME NEW t \in Nat, NEW s, Sound(s, t), NEW k \in Wanted
  PROVE  LET r == [s EXCEPT !.wi.getwork_by_request = Delete(@, k)]
         IN Sound(r, t) /\ Alike(r.wi, s.wi) /\ r.bridge = s.bridge /\ r.given = s.given
  <1> DEFINE d == Delete(s.wi.getwork_by_request, k)
             v == [s.wi EXCEPT !.getwork_by_request = d]
             r == [s EXCEPT !.wi.getwork_by_request = Delete(@, k)]
  <1>1. s \in Record /\ s.wi \in Interface /\ AllOrderly(s.wi)
    BY DEF Sound, Record
  <1>2. s.wi.getwork_by_request \in Dict(Wanted, Issue) /\ Orderly(s.wi.getwork_by_request, HandlerLife, MaxActive)
    BY <1>1 DEF Interface, AllOrderly
  <1>3. /\ d \in Dict(Wanted, Issue) /\ Orderly(d, HandlerLife, MaxActive)
        /\ Range(d) = {e \in Range(s.wi.getwork_by_request) : e.key # k}
    BY <1>2, Limits, Deleted
  <1>4. r = [s EXCEPT !.wi = v]
    BY <1>1 DEF Record, Interface
  <1> HIDE DEF d
  <1>5. /\ v \in Interface /\ v.getwork_by_request = d /\ Alike(v, s.wi)
        /\ AllOrderly(v) /\ (QuotasKept(s.wi) => QuotasKept(v)) /\ \A G : RootsGiven(s.wi, G) => RootsGiven(v, G)
    BY <1>1, <1>3, AlikeKeeps
  <1> HIDE DEF v, r
  <1>6. r \in Record /\ r.wi = v /\ r.bridge = s.bridge /\ r.given = s.given /\ r.again = s.again
    BY <1>1, <1>4, <1>5 DEF Record
  <1>7. RequestsAhead(v, s.given)
    <2>1. RequestsAhead(s.wi, s.given) /\ v._getwork_generation = s.wi._getwork_generation
      BY <1>5 DEF Sound, Alike
    <2> QED BY <1>3, <1>5, <2>1 DEF RequestsAhead
  <1>8. v._getwork_generation = s.wi._getwork_generation
    BY <1>5 DEF Alike
  <1>9. Sound(r, t)
    BY <1>5, <1>6, <1>7, <1>8 DEF Sound
  <1> QED BY <1>5, <1>6, <1>9 DEF r

\* What w is once k was given root, with the timestamps from next still to give.
Remembered(w, k, root, next) ==
  [w EXCEPT !.getwork_by_request = touch(@, k, [root |-> root, next |-> next], HandlerLife, MaxActive)]

\* A request that was given g: no other has its root.
LEMMA RequestNew ==
  ASSUME NEW w \in Interface, AllOrderly(w), NEW k \in Wanted, NEW root \in Roots, NEW next \in Nat,
         NEW G, RequestsAhead(w, G), NEW g, g.root = root,
         g.times = w._getwork_generation, g.offset + Roll < next,
         \A h \in G : h.root = root => h.times = w._getwork_generation /\ h.offset + Roll < next,
         \A f \in Range(w.getwork_by_request) : f.value.root = root => f.key = k
  PROVE  LET v == Remembered(w, k, root, next)
         IN /\ v \in Interface /\ Alike(v, w) /\ AllOrderly(v)
            /\ QuotasKept(w) => QuotasKept(v)
            /\ \A D : RootsGiven(w, D) => RootsGiven(v, D)
            /\ RequestsAhead(v, G \cup {g})
  <1> DEFINE x == [root |-> root, next |-> next]
             new == [key |-> k, value |-> x, left |-> HandlerLife]
             d == w.getwork_by_request
             z == touch(d, k, x, HandlerLife, MaxActive)
             v == [w EXCEPT !.getwork_by_request = z]
  <1>1. Remembered(w, k, root, next) = v
    BY DEF Remembered
  <1>2. d \in Dict(Wanted, Issue) /\ Orderly(d, HandlerLife, MaxActive) /\ x \in Issue
    BY DEF Interface, AllOrderly, Issue
  <1>3. x.root = root /\ x.next = next /\ new.key = k /\ new.value = x
    OBVIOUS
  <1> HIDE DEF x, d
  <1>4. z \in Dict(Wanted, Issue) /\ Touches(z, d, k, x, HandlerLife, MaxActive)
    BY ONLY <1>2, Touched, Limits, k \in Wanted
  <1> HIDE DEF z
  <1>5. Orderly(z, HandlerLife, MaxActive) /\ Range(z) \subseteq {e \in Range(d) : e.key # k} \cup {new}
    BY <1>4 DEF Touches
  <1>6. /\ v \in Interface /\ v.getwork_by_request = z /\ Alike(v, w)
        /\ (AllOrderly(w) => AllOrderly(v)) /\ (QuotasKept(w) => QuotasKept(v))
        /\ \A D : RootsGiven(w, D) => RootsGiven(v, D)
    BY <1>4, <1>5, AlikeKeeps
  <1> HIDE DEF v, new
  <1>7. RequestsAhead(v, G \cup {g})
    <2> DEFINE gen == w._getwork_generation
               H == G \cup {g}
    <2>1. v._getwork_generation = gen
      BY <1>6 DEF Alike
    <2>2. ASSUME NEW e \in Range(z), e # new
          PROVE  e \in Range(d) /\ e.key # k /\ e.value.root # root
      BY <1>5, <2>2 DEF d
    <2> HIDE DEF gen
    <2>3. ASSUME NEW e \in Range(z)
          PROVE  /\ \E h \in H : h.root = e.value.root
                 /\ \A h \in H : h.root = e.value.root => h.times = gen /\ h.offset + Roll < e.value.next
      <3>1. CASE e = new
        BY <1>3, <3>1 DEF gen
      <3>2. CASE e # new
        BY <2>2, <3>2 DEF RequestsAhead, gen, d
      <3> QED BY <3>1, <3>2
    <2>4. ASSUME NEW e \in Range(z), NEW f \in Range(z), f.value.root = e.value.root PROVE f = e
      <3>1. CASE e = new \/ f = new
        BY <1>3, <2>2, <2>4, <3>1
      <3>2. CASE e # new /\ f # new
        BY <2>2, <2>4, <3>2 DEF RequestsAhead, d
      <3> QED BY <3>1, <3>2
    <2> HIDE DEF H
    <2> QED BY <1>6, <2>1, <2>3, <2>4 DEF RequestsAhead, H
  <1> QED BY <1>1, <1>6, <1>7

\* Work that a client is given for the second time and more: the timestamps after those.
LEMMA RolledKeeps ==
  ASSUME NEW t \in Nat, NEW s, Sound(s, t), s.wi._getwork_generation = t, NEW c \in Client, NEW p \in Param,
         NEW at \in CachedWork(s.wi, c, p)
  PROVE  LET r == Give([s EXCEPT !.wi = Remembered(@, <<c, p>>, at.root, at.next + Stride)], t, at.root, at.next)
         IN Sound(r, t) /\ Alike(r.wi, s.wi)
  <1> DEFINE w == s.wi
             k == <<c, p>>
             d == w.getwork_by_request
             G == s.given
             g == [root |-> at.root, offset |-> at.next, times |-> t]
             v == Remembered(w, k, at.root, at.next + Stride)
             u == [s EXCEPT !.wi = v]
             r == Give(u, t, at.root, at.next)
  <1>1. s \in Record /\ w \in Interface /\ G \in SUBSET Gift /\ AllOrderly(w) /\ RequestsAhead(w, G) /\ RootsGiven(w, G)
        /\ GivenBy(G, s.bridge.works, t) /\ CacheAhead(s.bridge, G, t) /\ s.bridge \in Bridge
    BY DEF Sound, Record
  <1>2. d \in Dict(Wanted, Issue) /\ Orderly(d, HandlerLife, MaxActive) /\ k \in Wanted
    BY <1>1 DEF Interface, AllOrderly, Wanted
  <1>3. /\ at = Get(d, k, [root |-> <<0, 0>>, next |-> 0])
        /\ at.root \in Keys(w.merkle_root_to_handler) /\ at.next <= MaxOffset
    BY DEF CachedWork
  <1>4. PICK e \in Range(d) : e.key = k /\ e.value = at
    <2>1. CASE k \in Keys(d)
      <3>1. PICK e \in Range(d) : e.key = k
        BY <1>2, <2>1, ByKey
      <3>2. \A x : Get(d, e.key, x) = e.value
        <4> HIDE DEF d
        <4> QED BY ONLY <1>2, ByKey, e \in Range(d)
      <3> QED BY <1>3, <3>1, <3>2
    <2>2. CASE k \notin Keys(d)
      <3>1. at = [root |-> <<0, 0>>, next |-> 0]
        BY <1>2, <1>3, <2>2 DEF Get
      <3>2. PICK h \in G : h.root = <<0, 0>>
        BY <1>1, <1>3, <3>1 DEF RootsGiven
      <3>3. h.root[1] \in 1 .. s.bridge.works
        BY <1>1 DEF GivenBy
      <3> QED BY <3>2, <3>3
    <2> QED BY <2>1, <2>2
  <1>5. at \in Issue /\ at.root \in Roots /\ at.next \in Nat
    <2>1. e.value \in Issue
      BY <1>2, ByKey
    <2> QED BY <1>4, <2>1 DEF Issue
  <1>6. /\ \E h \in G : h.root = at.root
        /\ \A h \in G : h.root = at.root => h.times = t /\ h.offset + Roll < at.next
        /\ \A f \in Range(d) : f.value.root = at.root => f = e
    BY <1>1, <1>4 DEF RequestsAhead
  <1>7. Stride \in Nat /\ at.next + Stride \in Nat /\ at.next + Roll < at.next + Stride
    BY <1>5, Limits DEF Stride
  <1>8. \A h \in G : h.root = at.root => h.times = t /\ h.offset + Roll < at.next + Stride
    <2> SUFFICES ASSUME NEW h \in G, h.root = at.root PROVE h.times = t /\ h.offset + Roll < at.next + Stride
      OBVIOUS
    <2>1. h.offset \in Nat /\ h.times = t /\ h.offset + Roll < at.next
      BY <1>1, <1>6 DEF Gift
    <2> QED BY <1>5, <1>7, <2>1, Limits
  <1>9. g.root = at.root /\ g.offset = at.next /\ g.times = t
    OBVIOUS
  <1> HIDE DEF g
  <1>10. /\ v \in Interface /\ Alike(v, w) /\ AllOrderly(v)
         /\ QuotasKept(w) => QuotasKept(v)
         /\ \A D : RootsGiven(w, D) => RootsGiven(v, D)
         /\ RequestsAhead(v, G \cup {g})
    <2>1. \A f \in Range(d) : f.value.root = at.root => f.key = k
      BY <1>4, <1>6
    <2>2. g.times = w._getwork_generation /\ \A h \in G : h.root = at.root => h.times = w._getwork_generation /\ h.offset + Roll < at.next + Stride
      BY <1>8, <1>9
    <2> HIDE DEF v, w, k, G
    <2> QED BY <1>1, <1>2, <1>5, <1>7, <1>9, <2>1, <2>2, RequestNew DEF v, d
  <1> HIDE DEF v
  <1>11. u \in Record /\ u.wi = v /\ u.bridge = s.bridge /\ u.given = G /\ u.again = s.again
    BY <1>1, <1>10 DEF Record
  <1> HIDE DEF u
  <1>12. Gives(r, u, g)
    BY <1>5, <1>6, <1>11, GiveAdds DEF g
  <1> HIDE DEF r
  <1>13. r \in Record /\ r.wi = v /\ r.bridge = s.bridge /\ r.given = G \cup {g} /\ r.again = s.again
    BY <1>11, <1>12 DEF Gives
  <1>14. PICK o \in G : o.root = g.root /\ o.times = g.times
    BY <1>6, <1>9
  <1>15. GivenBy(G \cup {g}, s.bridge.works, t)
    <2>1. \A h \in G \cup {g} : /\ h.root[1] \in 1 .. s.bridge.works /\ h.root[2] \in 0 .. Nonces - 1
                                /\ h.offset <= MaxOffset /\ h.times <= t
      BY <1>1, <1>3, <1>9, <1>14 DEF GivenBy
    <2>2. \A h, j \in G \cup {g} : h.root[1] = j.root[1] => h.times = j.times
      BY <1>1, <1>14 DEF GivenBy
    <2> QED BY <2>1, <2>2 DEF GivenBy
  <1>16. CacheAhead(s.bridge, G \cup {g}, t)
    <2>1. \A i \in DOMAIN s.bridge._cache : \A h \in G \cup {g} :
            h.root[1] = s.bridge._cache[i].work =>
              h.root[2] < s.bridge._cache[i].nonce /\ h.times = s.bridge._times
      BY <1>1, <1>14 DEF CacheAhead, Ahead
    <2> QED BY <1>1, <2>1 DEF CacheAhead, Ahead
  <1>17. RootsGiven(v, G \cup {g})
    <2>1. {h.root : h \in G} \subseteq {h.root : h \in G \cup {g}}
      OBVIOUS
    <2> QED BY <1>1, <1>10, <2>1 DEF RootsGiven
  <1>18. Sound(r, t)
    <2>1. v._getwork_generation = t /\ QuotasKept(w) /\ ~ s.again
      BY <1>10 DEF Alike, Sound
    <2> QED BY <1>10, <1>13, <1>15, <1>16, <1>17, <2>1 DEF Sound
  <1> QED BY <1>10, <1>13, <1>18 DEF r, u, v

\* A new handler: it is counted once, and drops none before it.
LEMMA RememberKeeps ==
  ASSUME NEW w \in Interface, AllOrderly(w), QuotasKept(w), NEW G, RootsGiven(w, G), NEW g, NEW root \in Roots,
         g.root = root, \A o \in G : o.root # root, NEW c \in Client, _can_issue_getwork(w, c)
  PROVE  LET x == _remember_getwork_handler(w, root, c)
         IN /\ x \in Interface /\ AllOrderly(x) /\ QuotasKept(x) /\ RootsGiven(x, G \cup {g})
            /\ x.getwork_by_request = w.getwork_by_request
            /\ x._getwork_generation = w._getwork_generation /\ x.worker_views = w.worker_views
            /\ x.stale_merkle_root_to_handler = w.stale_merkle_root_to_handler
            /\ Keys(w.merkle_root_to_handler) \subseteq Keys(x.merkle_root_to_handler)
  <1> DEFINE h  == w.merkle_root_to_handler
             q  == w.getwork_roots_by_client
             v  == w.getwork_roots_by_ipv6_prefix
             n  == [key |-> root, value |-> c, left |-> HandlerLife]
             h1 == touch(h, root, c, HandlerLife, MAX_CURRENT_GETWORK_HANDLERS)
             q1 == touch(q, c, (Get(q, c, {}) \cap Keys(h)) \cup {root}, HandlerLife, MaxActive)
             v1 == IF site[c] = no_site THEN v
                   ELSE touch(v, site[c], (Get(v, site[c], {}) \cap Keys(h)) \cup {root}, HandlerLife,
                              MAX_CURRENT_GETWORK_HANDLERS)
             x  == [w EXCEPT !.merkle_root_to_handler = h1, !.getwork_roots_by_client = q1,
                             !.getwork_roots_by_ipv6_prefix = v1]
             Given == {o.root : o \in G}
  <1>1. _remember_getwork_handler(w, root, c) = x
    BY DEF _remember_getwork_handler, _getwork_client_roots, _getwork_ipv6_prefix_roots
  <1>2. /\ h \in Dict(Roots, Client) /\ Orderly(h, HandlerLife, MAX_CURRENT_GETWORK_HANDLERS)
        /\ q \in Dict(Client, RootSets) /\ Orderly(q, HandlerLife, MaxActive)
        /\ v \in Dict(Sites, RootSets) /\ Orderly(v, HandlerLife, MAX_CURRENT_GETWORK_HANDLERS)
        /\ Keys(h) \subseteq Given /\ Keys(w.stale_merkle_root_to_handler) \subseteq Given
        /\ (\A r \in Range(q) : r.value \subseteq Given) /\ (\A r \in Range(v) : r.value \subseteq Given)
        /\ Quota(h, q, itself, Client) /\ Quota(h, v, sited, Sites)
        /\ Within(h, itself, Client, MAX_GETWORK_HANDLERS_PER_CLIENT)
        /\ Within(h, sited, Sites, MAX_GETWORK_HANDLERS_PER_IPV6_PREFIX)
    BY DEF Interface, AllOrderly, RootsGiven, QuotasKept
  <1>3. root \notin Given
    OBVIOUS
  <1>4. /\ Len(h) < MAX_CURRENT_GETWORK_HANDLERS
        /\ Cardinality(Get(q, c, {}) \cap Keys(h)) < MAX_GETWORK_HANDLERS_PER_CLIENT
        /\ site[c] = no_site \/ Cardinality(Get(v, site[c], {}) \cap Keys(h)) < MAX_GETWORK_HANDLERS_PER_IPV6_PREFIX
    <2> DEFINE N == Cardinality(Get(q, c, {}) \cap Keys(h))
               limit == IF c \in Keys(w.verified_getwork_clients) THEN MAX_GETWORK_HANDLERS_PER_CLIENT
                        ELSE MAX_UNVERIFIED_GETWORK_HANDLERS_PER_CLIENT
    <2>1. /\ N < limit /\ Len(h) < MAX_CURRENT_GETWORK_HANDLERS
          /\ site[c] = no_site \/ Cardinality(Get(v, site[c], {}) \cap Keys(h)) < MAX_GETWORK_HANDLERS_PER_IPV6_PREFIX
      BY DEF _can_issue_getwork, _getwork_client_roots, _getwork_ipv6_prefix_roots
    <2>2. N \in Nat
      <3>1. Get(q, c, {}) \cap Keys(h) = HandlersOf(h, itself, c)
        <4> HIDE DEF h, q
        <4> QED BY ONLY <1>2, QuotaCounts, c \in Client
      <3>2. Cardinality(HandlersOf(h, itself, c)) \in Nat
        <4> HIDE DEF h
        <4> QED BY ONLY <1>2, HandlersCounted
      <3> QED BY <3>1, <3>2
    <2>3. limit \in Nat /\ limit <= MAX_GETWORK_HANDLERS_PER_CLIENT /\ MAX_GETWORK_HANDLERS_PER_CLIENT \in Nat
      BY Limits
    <2> HIDE DEF N, limit
    <2>4. N < MAX_GETWORK_HANDLERS_PER_CLIENT
      BY <2>1, <2>2, <2>3
    <2> QED BY <2>1, <2>4 DEF N
  <1>5. n \in Entry(Roots, Client) /\ n.key = root /\ n.value = c /\ n.left = HandlerLife
    BY Limits DEF Entry
  <1>6. root \notin Keys(h) /\ (\A r \in Range(q) : root \notin r.value) /\ (\A r \in Range(v) : root \notin r.value)
    BY <1>2, <1>3
  <1> HIDE DEF h, q, v, Given
  <1>7. /\ h1 \in Dict(Roots, Client) /\ Orderly(h1, HandlerLife, MAX_CURRENT_GETWORK_HANDLERS)
        /\ Range(h1) = Range(h) \cup {n}
    <2>1. h1 \in Dict(Roots, Client) /\ Touches(h1, h, root, c, HandlerLife, MAX_CURRENT_GETWORK_HANDLERS)
      BY ONLY <1>2, Limits, Touched, root \in Roots, c \in Client
    <2>2. \A e \in Range(h) : e.key # root
      BY <1>2, <1>6, ByKey
    <2> HIDE DEF h1
    <2> QED BY <1>4, <2>1, <2>2 DEF Touches
  <1>8. Keys(h1) = Keys(h) \cup {root}
    <2>1. Keys(h) = {e.key : e \in Range(h)} /\ Keys(h1) = {e.key : e \in Range(h1)}
      BY <1>2, <1>7, ByKey
    <2> QED BY <1>5, <1>7, <2>1
  <1> HIDE DEF h1, n
  <1>9. /\ q1 \in Dict(Client, RootSets) /\ Orderly(q1, HandlerLife, MaxActive)
        /\ \A r \in Range(q1) : r.value \subseteq Keys(h) \cup {root} \/ r \in Range(q)
        /\ Quota(h1, q1, itself, Client) /\ Within(h1, itself, Client, MAX_GETWORK_HANDLERS_PER_CLIENT)
    <2>1. itself[n.value] = c
      BY <1>5 DEF itself
    <2>2. Len(h) < MaxActive /\ MaxActive \in Nat \ {0} /\ MAX_GETWORK_HANDLERS_PER_CLIENT \in Nat
      <3>1. Len(h) \in Nat /\ MAX_CURRENT_GETWORK_HANDLERS \in Nat /\ MaxActive \in Nat \ {0}
            /\ MaxActive > MAX_CURRENT_GETWORK_HANDLERS /\ MAX_GETWORK_HANDLERS_PER_CLIENT \in Nat
        BY <1>2, Limits, Sizes
      <3> QED BY <1>4, <3>1
    <2>3. n.left = HandlerLife /\ n.key \notin Keys(h) /\ (\A r \in Range(q) : n.key \notin r.value)
      BY <1>5, <1>6
    <2>4. q1 = touch(q, c, (Get(q, c, {}) \cap Keys(h)) \cup {n.key}, HandlerLife, MaxActive)
      BY <1>5
    <2> HIDE DEF q1
    <2>5. Grown(q1, q, Client, MaxActive, h, n.key, h1, itself, Client, MAX_GETWORK_HANDLERS_PER_CLIENT)
      BY ONLY <1>2, <1>4, <1>5, <1>7, <2>1, <2>2, <2>3, <2>4, QuotaGrows, c \in Client
    <2> QED BY <1>5, <2>5 DEF Grown
  <1>10. /\ v1 \in Dict(Sites, RootSets) /\ Orderly(v1, HandlerLife, MAX_CURRENT_GETWORK_HANDLERS)
         /\ \A r \in Range(v1) : r.value \subseteq Keys(h) \cup {root} \/ r \in Range(v)
         /\ Quota(h1, v1, sited, Sites) /\ Within(h1, sited, Sites, MAX_GETWORK_HANDLERS_PER_IPV6_PREFIX)
    <2>1. sited[n.value] = site[c]
      BY <1>5 DEF sited
    <2>2. CASE site[c] = no_site
      <3>1. v1 = v /\ sited[n.value] \notin Sites
        BY <2>1, <2>2 DEF Sites
      <3>2. \A r \in Range(v) : n.key \notin r.value
        BY <1>5, <1>6
      <3> HIDE DEF v1
      <3>3. Quota(h1, v, sited, Sites) /\ Within(h1, sited, Sites, MAX_GETWORK_HANDLERS_PER_IPV6_PREFIX)
        BY ONLY <1>2, <1>7, <3>1, <3>2, QuotaAside
      <3> QED BY <1>2, <3>1, <3>3
    <2>3. CASE site[c] # no_site
      <3> DEFINE k == site[c]
      <3>1. k \in Sites
        BY <2>3 DEF Sites
      <3>2. MAX_CURRENT_GETWORK_HANDLERS \in Nat \ {0} /\ MAX_GETWORK_HANDLERS_PER_IPV6_PREFIX \in Nat
        BY Limits
      <3>3. n.left = HandlerLife /\ n.key \notin Keys(h) /\ (\A r \in Range(v) : n.key \notin r.value)
        BY <1>5, <1>6
      <3>4. /\ v1 = touch(v, k, (Get(v, k, {}) \cap Keys(h)) \cup {n.key}, HandlerLife, MAX_CURRENT_GETWORK_HANDLERS)
            /\ sited[n.value] = k
            /\ Cardinality(Get(v, k, {}) \cap Keys(h)) < MAX_GETWORK_HANDLERS_PER_IPV6_PREFIX
        BY <1>4, <1>5, <2>1, <2>3
      <3> HIDE DEF v1, k
      <3>5. Grown(v1, v, Sites, MAX_CURRENT_GETWORK_HANDLERS, h, n.key, h1, sited, Sites,
                  MAX_GETWORK_HANDLERS_PER_IPV6_PREFIX)
        BY ONLY <1>2, <1>4, <1>5, <1>7, <3>1, <3>2, <3>3, <3>4, QuotaGrows
      <3> QED BY <1>5, <3>5 DEF Grown
    <2> QED BY <2>2, <2>3
  <1> HIDE DEF q1, v1
  <1>11. /\ x \in Interface
         /\ x.merkle_root_to_handler = h1 /\ x.getwork_roots_by_client = q1 /\ x.getwork_roots_by_ipv6_prefix = v1
         /\ x.stale_merkle_root_to_handler = w.stale_merkle_root_to_handler
         /\ x.getwork_by_request = w.getwork_by_request
         /\ x.verified_getwork_clients = w.verified_getwork_clients
         /\ x.worker_views = w.worker_views /\ x._getwork_generation = w._getwork_generation
    BY <1>7, <1>9, <1>10 DEF Interface
  <1> HIDE DEF x
  <1>12. AllOrderly(x)
    BY <1>7, <1>9, <1>10, <1>11 DEF AllOrderly
  <1>13. QuotasKept(x)
    BY <1>9, <1>10, <1>11 DEF QuotasKept
  <1>14. RootsGiven(x, G \cup {g})
    <2> DEFINE More1 == {o.root : o \in G \cup {g}}
    <2>1. Given \subseteq More1 /\ root \in More1
      BY DEF Given
    <2> HIDE DEF More1
    <2>2. /\ Keys(h1) \subseteq More1 /\ Keys(w.stale_merkle_root_to_handler) \subseteq More1
          /\ (\A r \in Range(q1) : r.value \subseteq More1) /\ (\A r \in Range(v1) : r.value \subseteq More1)
      BY <1>2, <1>8, <1>9, <1>10, <2>1
    <2> QED BY <1>11, <2>2 DEF RootsGiven, More1
  <1>15. Keys(w.merkle_root_to_handler) \subseteq Keys(x.merkle_root_to_handler)
    BY <1>8, <1>11 DEF h
  <1> QED BY <1>1, <1>11, <1>12, <1>13, <1>14, <1>15

\* What s is once c was given the new root, and a handler for it was made.
Made(s, t, c, p, root) ==
  Give([s EXCEPT !.wi = Remembered(_remember_getwork_handler(@, root, c), <<c, p>>, root, Stride),
                 !.bridge = get_work(@, t, p)], t, root, 0)

\* New work, for which a handler is made.
LEMMA MadeKeeps ==
  ASSUME NEW t \in Nat, NEW s, Sound(s, t), s.wi._getwork_generation = t, NEW c \in Client, NEW p \in Param,
         _can_issue_getwork(s.wi, c)
  PROVE  LET root == Root(NextWork(s.bridge, t, p))
             r    == Made(s, t, c, p, root)
         IN Sound(r, t) /\ Kept(s, r, t) /\ r.wi.worker_views = s.wi.worker_views /\ r.wi._getwork_generation = t
  <1> DEFINE w == s.wi
             k == <<c, p>>
             G == s.given
             b == get_work(s.bridge, t, p)
             root == Root(NextWork(s.bridge, t, p))
             g == [root |-> root, offset |-> 0, times |-> t]
             x == _remember_getwork_handler(w, root, c)
             v == Remembered(x, k, root, Stride)
             u == [s EXCEPT !.wi = v, !.bridge = b]
             r == Give(u, t, root, 0)
  <1>1. s \in Record /\ w \in Interface /\ G \in SUBSET Gift /\ AllOrderly(w) /\ RequestsAhead(w, G) /\ RootsGiven(w, G)
        /\ QuotasKept(w) /\ s.bridge \in Bridge /\ ~ s.again
    BY DEF Sound, Record
  <1>2. Took(b, g, G, t)
    BY <1>1, BridgeKeeps DEF Sound
  <1>3. g.root = root /\ g.offset = 0 /\ g.times = t /\ k \in Wanted
    BY DEF Wanted
  <1> HIDE DEF b, root
  <1>4. /\ b \in Bridge /\ (\A h \in G : h.root # root) /\ root \in Roots
        /\ GivenBy(G \cup {g}, b.works, t) /\ CacheAhead(b, G \cup {g}, t)
    BY <1>2, <1>3 DEF Took, Gift
  <1> HIDE DEF x, w, G, g, k
  <1>5. /\ x \in Interface /\ AllOrderly(x) /\ QuotasKept(x) /\ RootsGiven(x, G \cup {g})
        /\ x.getwork_by_request = w.getwork_by_request
        /\ x._getwork_generation = w._getwork_generation /\ x.worker_views = w.worker_views
        /\ x.stale_merkle_root_to_handler = w.stale_merkle_root_to_handler
        /\ Keys(w.merkle_root_to_handler) \subseteq Keys(x.merkle_root_to_handler)
    <2>1. _can_issue_getwork(w, c)
      BY DEF w
    <2> QED BY ONLY <1>1, <1>3, <1>4, <2>1, RememberKeeps, c \in Client DEF x
  <1>6. RequestsAhead(x, G) /\ \A f \in Range(x.getwork_by_request) : f.value.root # root
    BY <1>1, <1>4, <1>5 DEF RequestsAhead
  <1>7. /\ v \in Interface /\ Alike(v, x) /\ AllOrderly(v)
        /\ QuotasKept(x) => QuotasKept(v)
        /\ \A D : RootsGiven(x, D) => RootsGiven(v, D)
        /\ RequestsAhead(v, G \cup {g})
    <2>1. Stride \in Nat /\ g.offset + Roll < Stride
      BY <1>3, Limits DEF Stride
    <2>2. g.times = x._getwork_generation
      BY <1>3, <1>5 DEF w
    <2>3. \A h \in G : h.root = root => h.times = x._getwork_generation /\ h.offset + Roll < Stride
      BY <1>4
    <2>4. \A f \in Range(x.getwork_by_request) : f.value.root = root => f.key = k
      BY <1>6
    <2> HIDE DEF v
    <2> QED BY ONLY <1>3, <1>4, <1>5, <1>6, <2>1, <2>2, <2>3, <2>4, RequestNew DEF v
  <1> HIDE DEF v
  <1>8. u \in Record /\ u.wi = v /\ u.bridge = b /\ u.given = G /\ u.again = s.again
    BY <1>1, <1>4, <1>7 DEF Record, G
  <1> HIDE DEF u
  <1>9. Gives(r, u, g)
    <2>1. 0 \in Nat /\ \A h \in u.given : h.root = root => h.offset + Roll < 0
      BY <1>4, <1>8
    <2> QED BY <1>4, <1>8, <2>1, GiveAdds DEF g
  <1> HIDE DEF r
  <1>10. r \in Record /\ r.wi = v /\ r.bridge = b /\ r.given = G \cup {g} /\ r.again = s.again
    BY <1>8, <1>9 DEF Gives
  <1>11. v._getwork_generation = t /\ v.worker_views = w.worker_views
         /\ v.stale_merkle_root_to_handler = w.stale_merkle_root_to_handler
         /\ Keys(w.merkle_root_to_handler) \subseteq Keys(v.merkle_root_to_handler)
    <2>1. w._getwork_generation = t
      BY DEF w
    <2> QED BY <1>5, <1>7, <2>1 DEF Alike
  <1>12. Sound(r, t)
    BY <1>1, <1>4, <1>5, <1>7, <1>10, <1>11 DEF Sound
  <1>13. Kept(s, r, t)
    BY <1>10, <1>11 DEF Kept, w
  <1>14. r = Made(s, t, c, p, root)
    BY DEF Made, r, u, v, x, w, k, b
  <1> QED BY <1>10, <1>11, <1>12, <1>13, <1>14 DEF w, root

\* A request for work, whatever comes of it.
LEMMA GetworkKeeps ==
  ASSUME NEW t \in Nat, NEW s0, Sound(s0, t), NEW c \in Client, NEW p \in Param
  PROVE  LET r == _getwork(s0, t, c, p)
         IN Sound(r, t) /\ Kept(s0, r, t) /\ r.wi.worker_views = s0.wi.worker_views
  <1> DEFINE s      == _sync_getwork_generation(s0, t)
             cached == CachedWork(s.wi, c, p)
             at     == CHOOSE x \in cached : TRUE
             root   == Root(NextWork(s.bridge, t, p))
             forgot == [s EXCEPT !.wi.getwork_by_request = Delete(@, <<c, p>>)]
             rolled == Give([s EXCEPT !.wi = Remembered(@, <<c, p>>, at.root, at.next + Stride)], t, at.root, at.next)
             made   == Made(forgot, t, c, p, root)
             r      == _getwork(s0, t, c, p)
  <1>1. r = IF cached # {} THEN rolled ELSE IF ~_can_issue_getwork(s.wi, c) THEN forgot ELSE made
    BY DEF _getwork, Remembered, Made
  <1>2. /\ Sound(s, t) /\ Kept(s0, s, t) /\ s.wi._getwork_generation = t
        /\ s.wi.worker_views = s0.wi.worker_views
    BY SyncKeeps
  <1> HIDE DEF s, r
  <1>3. ASSUME NEW x, Sound(x, t), Alike(x.wi, s.wi) PROVE Kept(s0, x, t) /\ x.wi.worker_views = s0.wi.worker_views
    <2>1. Kept(s, x, t) /\ x.wi.worker_views = s.wi.worker_views
      BY <1>3 DEF Kept, Alike
    <2> QED BY <1>2, <2>1, KeptOn
  <1>4. CASE cached # {}
    <2>1. at \in cached
      BY <1>4
    <2> HIDE DEF at
    <2>2. Sound(rolled, t) /\ Alike(rolled.wi, s.wi)
      <3> HIDE DEF rolled, cached
      <3> QED BY <1>2, <2>1, RolledKeeps DEF rolled, cached
    <2> HIDE DEF rolled
    <2> QED BY <1>1, <1>3, <1>4, <2>2 DEF r
  <1>5. CASE cached = {}
    <2>1. <<c, p>> \in Wanted
      BY DEF Wanted
    <2>2. Sound(forgot, t) /\ Alike(forgot.wi, s.wi) /\ forgot.bridge = s.bridge /\ forgot.given = s.given
      BY <1>2, <2>1, ForgotKeeps
    <2> HIDE DEF forgot
    <2>3. CASE ~ _can_issue_getwork(s.wi, c)
      BY <1>1, <1>3, <1>5, <2>2, <2>3 DEF r
    <2>4. CASE _can_issue_getwork(s.wi, c)
      <3>1. forgot.wi._getwork_generation = t /\ _can_issue_getwork(forgot.wi, c)
            /\ forgot.wi.worker_views = s.wi.worker_views
        BY <1>2, <2>2, <2>4
          DEF Alike, _can_issue_getwork, _getwork_client_roots, _getwork_ipv6_prefix_roots
      <3>2. root = Root(NextWork(forgot.bridge, t, p))
        BY <2>2
      <3> HIDE DEF root, cached
      <3>3. Sound(made, t) /\ Kept(forgot, made, t) /\ made.wi.worker_views = forgot.wi.worker_views
        BY <2>2, <3>1, <3>2, MadeKeeps
      <3> HIDE DEF made
      <3>4. Kept(s0, forgot, t)
        BY <1>3, <2>2
      <3>5. Kept(s0, made, t)
        BY <3>3, <3>4, KeptOn
      <3> QED BY <1>1, <1>2, <1>5, <2>4, <3>1, <3>3, <3>5 DEF r
    <2> QED BY <2>3, <2>4
  <1> QED BY <1>4, <1>5

\* What a client knows is what it knew, or that it is up to date.
Told(views, old, t) == \A v \in Range(views) : v \in Range(old) \/ v.value = t

LEMMA ViewKeeps ==
  ASSUME NEW t \in Nat, NEW s, Sound(s, t), NEW c \in Client
  PROVE  LET r == [s EXCEPT !.wi.worker_views = touch(@, c, t, ViewLife, MAX_LONG_POLL_IDENTITIES)]
         IN Sound(r, t) /\ Kept(s, r, t) /\ Told(r.wi.worker_views, s.wi.worker_views, t)
  <1> DEFINE w == s.wi
             d == w.worker_views
             z == touch(d, c, t, ViewLife, MAX_LONG_POLL_IDENTITIES)
             v == [w EXCEPT !.worker_views = z]
             r == [s EXCEPT !.wi.worker_views = touch(@, c, t, ViewLife, MAX_LONG_POLL_IDENTITIES)]
  <1>1. s \in Record /\ w \in Interface /\ AllOrderly(w)
    BY DEF Sound, Record
  <1>2. d \in Dict(Client, Nat) /\ Orderly(d, ViewLife, MAX_LONG_POLL_IDENTITIES)
    BY <1>1 DEF Interface, AllOrderly
  <1>3. r = [s EXCEPT !.wi = v]
    BY <1>1 DEF Record, Interface
  <1> HIDE DEF d, r
  <1>4. z \in Dict(Client, Nat) /\ Touches(z, d, c, t, ViewLife, MAX_LONG_POLL_IDENTITIES)
    BY ONLY <1>2, Limits, Touched, c \in Client, t \in Nat
  <1> HIDE DEF z
  <1>5. Orderly(z, ViewLife, MAX_LONG_POLL_IDENTITIES) /\ Told(z, d, t)
    BY <1>4 DEF Touches, Told
  <1>6. /\ v \in Interface /\ v.worker_views = z
        /\ v.merkle_root_to_handler = w.merkle_root_to_handler
        /\ v.stale_merkle_root_to_handler = w.stale_merkle_root_to_handler
        /\ v.getwork_roots_by_client = w.getwork_roots_by_client
        /\ v.getwork_roots_by_ipv6_prefix = w.getwork_roots_by_ipv6_prefix
        /\ v.getwork_by_request = w.getwork_by_request
        /\ v.verified_getwork_clients = w.verified_getwork_clients
        /\ v._getwork_generation = w._getwork_generation
    BY <1>1, <1>4 DEF Interface
  <1> HIDE DEF v
  <1>7. r \in Record /\ r.wi = v /\ r.bridge = s.bridge /\ r.given = s.given /\ r.again = s.again
    BY <1>1, <1>3, <1>6 DEF Record
  <1>8. AllOrderly(v) /\ RequestsAhead(v, s.given) /\ RootsGiven(v, s.given) /\ QuotasKept(v)
    <2>1. AllOrderly(v)
      BY <1>1, <1>5, <1>6 DEF AllOrderly
    <2>2. RequestsAhead(v, s.given)
      BY <1>6 DEF Sound, RequestsAhead
    <2>3. RootsGiven(v, s.given)
      BY <1>6 DEF Sound, RootsGiven
    <2>4. QuotasKept(v)
      BY <1>6 DEF Sound, QuotasKept
    <2> QED BY <2>1, <2>2, <2>3, <2>4
  <1>9. Sound(r, t)
    BY <1>6, <1>7, <1>8 DEF Sound
  <1>10. Kept(s, r, t) /\ Told(r.wi.worker_views, s.wi.worker_views, t)
    BY <1>5, <1>6, <1>7 DEF Kept, d
  <1> QED BY <1>9, <1>10 DEF r

\* A poll answered.
LEMMA PushKeeps ==
  ASSUME NEW t \in Nat, NEW s, Sound(s, t), NEW c \in Client, NEW p \in Param
  PROVE  LET r == Push(s, t, c, p)
         IN Sound(r, t) /\ Kept(s, r, t) /\ Told(r.wi.worker_views, s.wi.worker_views, t)
  <1> DEFINE u == [s EXCEPT !.wi.worker_views = touch(@, c, t, ViewLife, MAX_LONG_POLL_IDENTITIES)]
             r == _getwork(u, t, c, p)
  <1>1. Push(s, t, c, p) = r
    BY DEF Push
  <1>2. Sound(u, t) /\ Kept(s, u, t) /\ Told(u.wi.worker_views, s.wi.worker_views, t)
    BY ViewKeeps
  <1> HIDE DEF u
  <1>3. Sound(r, t) /\ Kept(u, r, t) /\ r.wi.worker_views = u.wi.worker_views
    BY <1>2, GetworkKeeps
  <1> HIDE DEF r
  <1>4. Kept(s, r, t)
    BY <1>2, <1>3, KeptOn
  <1> QED BY <1>1, <1>2, <1>3, <1>4

\* All of them, in their turn.
LEMMA AnsweredKeeps ==
  ASSUME NEW t \in Nat, NEW s, Sound(s, t), NEW polls \in Seq(Poll)
  PROVE  Sound(Answered(s, t, polls), t) /\ Kept(s, Answered(s, t, polls), t)
  <1> DEFINE R    == {r \in Record : Sound(r, t) /\ Kept(s, r, t)}
             To(r, q) == Push(r, t, q.client, q.param)
             step == [x \in R \X Poll |-> To(x[1], x[2])]
  <1>1. ASSUME NEW r \in R, NEW q \in Poll PROVE To(r, q) \in R
    <2>1. q.client \in Client /\ q.param \in Param
      BY DEF Poll
    <2>2. Sound(r, t) /\ Kept(s, r, t)
      OBVIOUS
    <2>3. Sound(To(r, q), t) /\ Kept(r, To(r, q), t)
      BY <2>1, <2>2, PushKeeps
    <2> HIDE DEF To
    <2>4. To(r, q) \in Record
      BY <2>3 DEF Sound
    <2> QED BY <2>2, <2>3, <2>4, KeptOn
  <1>2. step \in [R \X Poll -> R]
    <2> HIDE DEF R, To
    <2> QED BY <1>1
  <1>3. ASSUME NEW r \in R, NEW q \in Poll PROVE step[r, q] = To(r, q)
    <2> HIDE DEF R, To
    <2> QED OBVIOUS
  <1>4. DOMAIN polls = 1 .. Len(polls) /\ Len(polls) \in Nat /\ \A i \in DOMAIN polls : polls[i] \in Poll
    OBVIOUS
  <1>5. s \in R
    <2>1. s \in Record /\ Kept(s, s, t)
      BY DEF Sound, Kept
    <2> QED BY <2>1
  <1> HIDE DEF R, To
  <1>6. ASSUME NEW u \in SUBSET DOMAIN polls, u # {}
        PROVE  Sq!Max(u) = Top(u) /\ Top(u) \in DOMAIN polls /\ u \ {Top(u)} \in SUBSET DOMAIN polls
    <2>1. Sq!Max(u) = Top(u)
      BY DEF Sq!Max, Top
    <2> QED BY <1>4, <1>6, <2>1, TopOfIndices
  <1> DEFINE Is(g) == g = [u \in SUBSET DOMAIN polls |->
                             IF u = {} THEN s
                             ELSE To(g[u \ {Sq!Max(u)}], polls[Sq!Max(u)])]
             G == CHOOSE g : Is(g)
  <1>7. Answered(s, t, polls) = G[DOMAIN polls]
    BY DEF Answered, Sq!FoldLeft, Sq!MapThenFoldSet, To
  <1>8. Is(G)
    <2>1. PICK g \in [SUBSET DOMAIN polls -> R] : Folds(g, step, s, polls)
      <3> HIDE DEF step
      <3> QED BY <1>2, <1>4, <1>5, FoldExists
    <2>2. ASSUME NEW u \in SUBSET DOMAIN polls
          PROVE  g[u] = IF u = {} THEN s ELSE To(g[u \ {Sq!Max(u)}], polls[Sq!Max(u)])
      <3>1. CASE u = {}
        BY <2>1, <3>1 DEF Folds
      <3>2. CASE u # {}
        <4>1. g[u] = step[g[u \ {Top(u)}], polls[Top(u)]]
          BY <2>1, <3>2 DEF Folds
        <4> HIDE DEF step
        <4> QED BY <1>3, <1>4, <1>6, <3>2, <4>1
      <3> QED BY <3>1, <3>2
    <2>3. g = [u \in SUBSET DOMAIN polls |-> g[u]]
      OBVIOUS
    <2>4. Is(g)
      BY <2>2, <2>3
    <2> HIDE DEF Is
    <2> QED BY <2>4
  <1>9. FoldsIn(R, G, step, s, polls)
    <2>1. ASSUME NEW u \in SUBSET DOMAIN polls
          PROVE  G[u] = IF u = {} THEN s ELSE To(G[u \ {Sq!Max(u)}], polls[Sq!Max(u)])
      <3> HIDE DEF G
      <3> QED BY <1>8
    <2> HIDE DEF G
    <2>2. G[{}] = s
      BY <2>1
    <2>3. ASSUME NEW u \in SUBSET DOMAIN polls, u # {}, G[u \ {Top(u)}] \in R
          PROVE  G[u] = step[G[u \ {Top(u)}], polls[Top(u)]]
      <3>1. G[u] = To(G[u \ {Top(u)}], polls[Top(u)])
        BY <1>6, <2>1, <2>3
      <3> HIDE DEF step
      <3> QED BY <1>3, <1>4, <1>6, <2>3, <3>1
    <2> HIDE DEF step
    <2> QED BY <2>2, <2>3 DEF FoldsIn
  <1> HIDE DEF G, step, Is
  <1>10. PICK f : Along(f, R, G, step, s, polls)
    BY <1>2, <1>4, <1>5, <1>9, FoldSteps
  <1>11. Answered(s, t, polls) = f[Len(polls)] /\ f[Len(polls)] \in R
    BY <1>7, <1>10 DEF Along
  <1> QED BY <1>11 DEF R

\* A miner's header met the share target.
LEMMA VerifiedKeeps ==
  ASSUME NEW t \in Nat, NEW s, Sound(s, t), NEW c \in Client
  PROVE  LET r == [s EXCEPT !.wi.verified_getwork_clients =
                              touch(@, c, TRUE, VerifiedLife, MAX_VERIFIED_GETWORK_CLIENTS)]
         IN Sound(r, t) /\ Kept(s, r, t) /\ r.wi.worker_views = s.wi.worker_views
  <1> DEFINE w == s.wi
             d == w.verified_getwork_clients
             z == touch(d, c, TRUE, VerifiedLife, MAX_VERIFIED_GETWORK_CLIENTS)
             v == [w EXCEPT !.verified_getwork_clients = z]
             r == [s EXCEPT !.wi.verified_getwork_clients =
                              touch(@, c, TRUE, VerifiedLife, MAX_VERIFIED_GETWORK_CLIENTS)]
  <1>1. s \in Record /\ w \in Interface /\ AllOrderly(w)
    BY DEF Sound, Record
  <1>2. d \in Dict(Client, BOOLEAN) /\ Orderly(d, VerifiedLife, MAX_VERIFIED_GETWORK_CLIENTS)
    BY <1>1 DEF Interface, AllOrderly
  <1>3. r = [s EXCEPT !.wi = v]
    BY <1>1 DEF Record, Interface
  <1> HIDE DEF d, r
  <1> DEFINE yes == TRUE
             Truth == BOOLEAN
  <1>4. z \in Dict(Client, BOOLEAN) /\ Orderly(z, VerifiedLife, MAX_VERIFIED_GETWORK_CLIENTS)
    <2>1. yes \in Truth /\ d \in Dict(Client, Truth) /\ z = touch(d, c, yes, VerifiedLife, MAX_VERIFIED_GETWORK_CLIENTS)
      BY <1>2
    <2> HIDE DEF z, yes, Truth
    <2>2. z \in Dict(Client, Truth) /\ Touches(z, d, c, yes, VerifiedLife, MAX_VERIFIED_GETWORK_CLIENTS)
      BY ONLY <1>2, <2>1, Limits, Touched, c \in Client
    <2> QED BY <2>2 DEF Touches, Truth
  <1> HIDE DEF z
  <1>6. /\ v \in Interface /\ v.verified_getwork_clients = z
        /\ v.merkle_root_to_handler = w.merkle_root_to_handler
        /\ v.stale_merkle_root_to_handler = w.stale_merkle_root_to_handler
        /\ v.getwork_roots_by_client = w.getwork_roots_by_client
        /\ v.getwork_roots_by_ipv6_prefix = w.getwork_roots_by_ipv6_prefix
        /\ v.getwork_by_request = w.getwork_by_request
        /\ v.worker_views = w.worker_views
        /\ v._getwork_generation = w._getwork_generation
    BY <1>1, <1>4 DEF Interface
  <1> HIDE DEF v
  <1>7. r \in Record /\ r.wi = v /\ r.bridge = s.bridge /\ r.given = s.given /\ r.again = s.again
    BY <1>1, <1>3, <1>6 DEF Record
  <1>8. AllOrderly(v) /\ RequestsAhead(v, s.given) /\ RootsGiven(v, s.given) /\ QuotasKept(v)
    <2>1. AllOrderly(v)
      BY <1>1, <1>4, <1>6 DEF AllOrderly
    <2>2. RequestsAhead(v, s.given)
      BY <1>6 DEF Sound, RequestsAhead
    <2>3. RootsGiven(v, s.given)
      BY <1>6 DEF Sound, RootsGiven
    <2>4. QuotasKept(v)
      BY <1>6 DEF Sound, QuotasKept
    <2> QED BY <2>1, <2>2, <2>3, <2>4
  <1>9. Sound(r, t)
    BY <1>6, <1>7, <1>8 DEF Sound
  <1>10. Kept(s, r, t)
    BY <1>6, <1>7 DEF Kept
  <1> QED BY <1>6, <1>7, <1>9, <1>10 DEF r

\* The owner of a handler is a client.
LEMMA OwnerKnown ==
  ASSUME NEW s, NEW t, Sound(s, t), NEW root, Linked(s.wi, root)
  PROVE  (IF root \in Keys(s.wi.merkle_root_to_handler) THEN At(s.wi.merkle_root_to_handler, root)
          ELSE At(s.wi.stale_merkle_root_to_handler, root)) \in Client
  <1>1. s.wi \in Interface /\ AllOrderly(s.wi)
    BY DEF Sound, Record
  <1>2. ASSUME NEW d \in Dict(Roots, Client), NEW max, Orderly(d, HandlerLife, max), root \in Keys(d)
        PROVE  At(d, root) \in Client
    <2>1. PICK e \in Range(d) : e.key = root
      BY <1>2, ByKey
    <2>2. At(d, e.key) = e.value /\ e.value \in Client
      BY <1>2, ByKey
    <2> QED BY <2>1, <2>2
  <1> DEFINE h == s.wi.merkle_root_to_handler
             o == s.wi.stale_merkle_root_to_handler
  <1>3. /\ h \in Dict(Roots, Client) /\ Orderly(h, HandlerLife, MAX_CURRENT_GETWORK_HANDLERS)
        /\ o \in Dict(Roots, Client) /\ Orderly(o, HandlerLife, MAX_STALE_GETWORK_HANDLERS)
        /\ (root \in Keys(h) \/ root \in Keys(o))
    BY <1>1 DEF Interface, AllOrderly, Linked
  <1> HIDE DEF h, o
  <1>4. (root \in Keys(h) => At(h, root) \in Client) /\ (root \in Keys(o) => At(o, root) \in Client)
    BY <1>2, <1>3
  <1> QED BY <1>3, <1>4 DEF h, o

\* What holds at a time holds at the next.
LEMMA Later ==
  ASSUME NEW t \in Nat, NEW s, Sound(s, t)
  PROVE  Sound(s, t + 1)
  <1>1. s \in Record /\ s.wi._getwork_generation \in Nat /\ s.bridge._times \in Nat /\ s.given \in SUBSET Gift
    BY DEF Sound, Record, Interface, Bridge
  <1>2. s.wi._getwork_generation <= t + 1
    BY <1>1 DEF Sound
  <1>3. GivenBy(s.given, s.bridge.works, t + 1)
    <2>1. ASSUME NEW g \in s.given PROVE g.times <= t + 1
      <3>1. g.times \in Nat /\ g.times <= t
        BY <1>1 DEF Sound, GivenBy, Gift
      <3> QED BY <3>1
    <2> QED BY <2>1 DEF Sound, GivenBy
  <1>4. CacheAhead(s.bridge, s.given, t + 1)
    <2>1. s.bridge._times <= t + 1
      BY <1>1 DEF Sound, CacheAhead
    <2> QED BY <2>1 DEF Sound, CacheAhead
  <1> QED BY <1>2, <1>3, <1>4 DEF Sound

-----------------------------------------------------------------------------
(***************************************************************************)
(* Time.                                                                   *)
(***************************************************************************)

\* The entries of z are those of d that had more than one unit to go.
Ages(z, d) ==
  /\ \A f \in Range(z) : \E e \in Range(d) : e.left > 1 /\ f.key = e.key /\ f.value = e.value /\ f.left = e.left - 1
  /\ \A e \in Range(d) : e.left > 1 =>
       \E f \in Range(z) : f.key = e.key /\ f.value = e.value /\ f.left = e.left - 1

LEMMA Aged ==
  ASSUME NEW K, NEW V, NEW life \in Nat \ {0}, NEW max \in Nat, NEW d \in Dict(K, V), Orderly(d, life, max)
  PROVE  Elapsed(d) \in Dict(K, V) /\ Orderly(Elapsed(d), life, max) /\ Ages(Elapsed(d), d)
  <1> DEFINE z == Elapsed(d)
  <1>1. /\ z \in Dict(K, V) /\ Orderly(z, life, max)
        /\ Range(z) = {[e EXCEPT !.left = @ - 1] : e \in {x \in Range(d) : x.left > 1}}
    BY Passed
  <1>2. ASSUME NEW e \in Range(d)
        PROVE  LET f == [e EXCEPT !.left = @ - 1]
               IN f.key = e.key /\ f.value = e.value /\ f.left = e.left - 1
    <2>1. e \in Entry(K, V)
      BY ByKey
    <2> QED BY <2>1 DEF Entry
  <1> HIDE DEF z
  <1>3. Ages(z, d)
    BY <1>1, <1>2 DEF Ages
  <1> QED BY <1>1, <1>3 DEF z

\* A quota runs out with the handlers it counts.
LEMMA QuotaAges ==
  ASSUME NEW h, NEW g, Ages(g, h), NEW q, NEW z, Ages(z, q), NEW own, NEW K, Quota(h, q, own, K),
         \A e \in Range(h) : e.left \in Nat, \A r \in Range(q) : r.left \in Nat
  PROVE  Quota(g, z, own, K)
  <1>1. ASSUME NEW f \in Range(g), own[f.value] \in K
        PROVE  \E y \in Range(z) : y.key = own[f.value] /\ f.key \in y.value /\ f.left <= y.left
    <2>1. PICK e \in Range(h) : e.left > 1 /\ f.key = e.key /\ f.value = e.value /\ f.left = e.left - 1
      BY DEF Ages
    <2>2. PICK r \in Range(q) : r.key = own[e.value] /\ e.key \in r.value /\ e.left <= r.left
      BY <1>1, <2>1 DEF Quota
    <2>3. r.left > 1 /\ r.left \in Nat /\ e.left \in Nat
      BY <2>1, <2>2
    <2>4. PICK y \in Range(z) : y.key = r.key /\ y.value = r.value /\ y.left = r.left - 1
      BY <2>3 DEF Ages
    <2>5. f.left <= y.left
      BY <2>1, <2>2, <2>3, <2>4
    <2> QED BY <2>1, <2>2, <2>4, <2>5
  <1>2. ASSUME NEW y \in Range(z) PROVE \E f \in Range(g) : own[f.value] = y.key /\ f.left = y.left
    <2>1. PICK r \in Range(q) : r.left > 1 /\ y.key = r.key /\ y.value = r.value /\ y.left = r.left - 1
      BY DEF Ages
    <2>2. PICK e \in Range(h) : own[e.value] = r.key /\ e.left = r.left
      BY DEF Quota
    <2>3. PICK f \in Range(g) : f.key = e.key /\ f.value = e.value /\ f.left = e.left - 1
      BY <2>1, <2>2 DEF Ages
    <2> QED BY <2>1, <2>2, <2>3
  <1>3. ASSUME NEW y \in Range(z), NEW f \in Range(g), f.key \in y.value PROVE own[f.value] = y.key
    <2>1. PICK r \in Range(q) : y.key = r.key /\ y.value = r.value
      BY DEF Ages
    <2>2. PICK e \in Range(h) : f.key = e.key /\ f.value = e.value
      BY DEF Ages
    <2> QED BY <1>3, <2>1, <2>2 DEF Quota
  <1> QED BY <1>1, <1>2, <1>3 DEF Quota

LEMMA WithinAges ==
  ASSUME NEW h \in Dict(Roots, Client), Orderly(h, HandlerLife, MAX_CURRENT_GETWORK_HANDLERS),
         NEW g \in Dict(Roots, Client), Orderly(g, HandlerLife, MAX_CURRENT_GETWORK_HANDLERS), Ages(g, h),
         NEW own, NEW K, NEW limit \in Nat, Within(h, own, K, limit)
  PROVE  Within(g, own, K, limit)
  <1> SUFFICES ASSUME NEW k \in K PROVE Cardinality(HandlersOf(g, own, k)) <= limit
    BY DEF Within
  <1> DEFINE A == HandlersOf(h, own, k)
             B == HandlersOf(g, own, k)
  <1>1. B \subseteq A
    BY DEF Ages, HandlersOf
  <1>2. IsFiniteSet(A) /\ Cardinality(A) \in Nat /\ Cardinality(B) \in Nat
    BY HandlersCounted
  <1>3. Cardinality(A) <= limit
    BY DEF Within
  <1> HIDE DEF A, B
  <1>4. Cardinality(B) <= Cardinality(A)
    BY <1>1, <1>2, FS_Subset
  <1>5. Cardinality(B) <= limit
    BY <1>2, <1>3, <1>4
  <1> QED BY <1>5 DEF B

\* The interface, a unit of time later.
Passing(w) ==
  [w EXCEPT !.merkle_root_to_handler = Elapsed(@),
            !.stale_merkle_root_to_handler = Elapsed(@),
            !.getwork_roots_by_client = Elapsed(@),
            !.getwork_roots_by_ipv6_prefix = Elapsed(@),
            !.getwork_by_request = Elapsed(@),
            !.verified_getwork_clients = Elapsed(@),
            !.worker_views = Elapsed(@)]

LEMMA PassingKeeps ==
  ASSUME NEW w \in Interface, AllOrderly(w), QuotasKept(w), NEW G, RequestsAhead(w, G), RootsGiven(w, G)
  PROVE  LET v == Passing(w)
         IN /\ v \in Interface /\ AllOrderly(v) /\ QuotasKept(v) /\ RequestsAhead(v, G) /\ RootsGiven(v, G)
            /\ v._getwork_generation = w._getwork_generation
            /\ Ages(v.merkle_root_to_handler, w.merkle_root_to_handler)
            /\ Ages(v.worker_views, w.worker_views)
  <1> DEFINE h == w.merkle_root_to_handler          h1 == Elapsed(h)
             o == w.stale_merkle_root_to_handler    o1 == Elapsed(o)
             q == w.getwork_roots_by_client         q1 == Elapsed(q)
             x == w.getwork_roots_by_ipv6_prefix    x1 == Elapsed(x)
             d == w.getwork_by_request              d1 == Elapsed(d)
             y == w.verified_getwork_clients        y1 == Elapsed(y)
             z == w.worker_views                    z1 == Elapsed(z)
             v == Passing(w)
             Given == {g.root : g \in G}
             Truth == BOOLEAN
  <1>1. /\ h \in Dict(Roots, Client) /\ Orderly(h, HandlerLife, MAX_CURRENT_GETWORK_HANDLERS)
        /\ o \in Dict(Roots, Client) /\ Orderly(o, HandlerLife, MAX_STALE_GETWORK_HANDLERS)
        /\ q \in Dict(Client, RootSets) /\ Orderly(q, HandlerLife, MaxActive)
        /\ x \in Dict(Sites, RootSets) /\ Orderly(x, HandlerLife, MAX_CURRENT_GETWORK_HANDLERS)
        /\ d \in Dict(Wanted, Issue) /\ Orderly(d, HandlerLife, MaxActive)
        /\ y \in Dict(Client, Truth) /\ Orderly(y, VerifiedLife, MAX_VERIFIED_GETWORK_CLIENTS)
        /\ z \in Dict(Client, Nat) /\ Orderly(z, ViewLife, MAX_LONG_POLL_IDENTITIES)
    BY DEF Interface, AllOrderly
  <1>2. /\ v = [w EXCEPT !.merkle_root_to_handler = h1, !.stale_merkle_root_to_handler = o1,
                         !.getwork_roots_by_client = q1, !.getwork_roots_by_ipv6_prefix = x1,
                         !.getwork_by_request = d1, !.verified_getwork_clients = y1, !.worker_views = z1]
    BY DEF Passing
  <1>3. /\ (Keys(h) \cup Keys(o)) \subseteq Given
        /\ (\A r \in Range(q) : r.value \subseteq Given) /\ (\A r \in Range(x) : r.value \subseteq Given)
    BY DEF RootsGiven
  <1> HIDE DEF h, o, q, x, d, y, z, Truth, Given, v
  <1>4. h1 \in Dict(Roots, Client) /\ Orderly(h1, HandlerLife, MAX_CURRENT_GETWORK_HANDLERS) /\ Ages(h1, h)
    BY ONLY <1>1, Limits, Aged
  <1>5. o1 \in Dict(Roots, Client) /\ Orderly(o1, HandlerLife, MAX_STALE_GETWORK_HANDLERS) /\ Ages(o1, o)
    BY ONLY <1>1, Limits, Aged
  <1>6. q1 \in Dict(Client, RootSets) /\ Orderly(q1, HandlerLife, MaxActive) /\ Ages(q1, q)
    BY ONLY <1>1, Limits, Aged
  <1>7. x1 \in Dict(Sites, RootSets) /\ Orderly(x1, HandlerLife, MAX_CURRENT_GETWORK_HANDLERS) /\ Ages(x1, x)
    BY ONLY <1>1, Limits, Aged
  <1>8. d1 \in Dict(Wanted, Issue) /\ Orderly(d1, HandlerLife, MaxActive) /\ Ages(d1, d)
    BY ONLY <1>1, Limits, Aged
  <1>9. y1 \in Dict(Client, Truth) /\ Orderly(y1, VerifiedLife, MAX_VERIFIED_GETWORK_CLIENTS)
    BY ONLY <1>1, Limits, Aged
  <1>10. z1 \in Dict(Client, Nat) /\ Orderly(z1, ViewLife, MAX_LONG_POLL_IDENTITIES) /\ Ages(z1, z)
    BY ONLY <1>1, Limits, Aged
  <1> HIDE DEF h1, o1, q1, x1, d1, y1, z1
  <1>11. /\ v \in Interface
         /\ v.merkle_root_to_handler = h1 /\ v.stale_merkle_root_to_handler = o1
         /\ v.getwork_roots_by_client = q1 /\ v.getwork_roots_by_ipv6_prefix = x1
         /\ v.getwork_by_request = d1 /\ v.verified_getwork_clients = y1 /\ v.worker_views = z1
         /\ v._getwork_generation = w._getwork_generation
    BY <1>2, <1>4, <1>5, <1>6, <1>7, <1>8, <1>9, <1>10 DEF Interface, Truth
  <1>12. AllOrderly(v)
    BY <1>4, <1>5, <1>6, <1>7, <1>8, <1>9, <1>10, <1>11 DEF AllOrderly
  <1>13. QuotasKept(v)
    <2>1. /\ Quota(h, q, itself, Client) /\ Quota(h, x, sited, Sites)
          /\ Within(h, itself, Client, MAX_GETWORK_HANDLERS_PER_CLIENT)
          /\ Within(h, sited, Sites, MAX_GETWORK_HANDLERS_PER_IPV6_PREFIX)
      BY DEF QuotasKept, h, q, x
    <2>2. /\ \A e \in Range(h) : e.left \in Nat
          /\ \A r \in Range(q) : r.left \in Nat
          /\ \A r \in Range(x) : r.left \in Nat
      BY ONLY <1>1, ByKey, Limits DEF Entry
    <2>3. Quota(h1, q1, itself, Client)
      BY ONLY <1>4, <1>6, <2>1, <2>2, QuotaAges
    <2>4. Quota(h1, x1, sited, Sites)
      BY ONLY <1>4, <1>7, <2>1, <2>2, QuotaAges
    <2>5. /\ Within(h1, itself, Client, MAX_GETWORK_HANDLERS_PER_CLIENT)
          /\ Within(h1, sited, Sites, MAX_GETWORK_HANDLERS_PER_IPV6_PREFIX)
      BY ONLY <1>1, <1>4, <2>1, Limits, WithinAges
    <2> QED BY <1>11, <2>3, <2>4, <2>5 DEF QuotasKept
  <1>14. RequestsAhead(v, G)
    <2>1. ASSUME NEW f \in Range(d1)
          PROVE  /\ \E g \in G : g.root = f.value.root
                 /\ \A g \in G : g.root = f.value.root =>
                      g.times = w._getwork_generation /\ g.offset + Roll < f.value.next
      <3>1. PICK e \in Range(d) : f.value = e.value
        BY <1>8 DEF Ages
      <3> QED BY <3>1 DEF RequestsAhead, d
    <2>2. ASSUME NEW f \in Range(d1), NEW j \in Range(d1), j.value.root = f.value.root PROVE j = f
      <3>1. PICK e \in Range(d) : f.value = e.value /\ f.key = e.key
        BY <1>8 DEF Ages
      <3>2. PICK k \in Range(d) : j.value = k.value /\ j.key = k.key
        BY <1>8 DEF Ages
      <3>3. k = e
        BY <2>2, <3>1, <3>2 DEF RequestsAhead, d
      <3>4. \A a, b \in Range(d1) : a.key = b.key => a = b
        BY ONLY <1>8, ByKey
      <3> QED BY <3>1, <3>2, <3>3, <3>4
    <2> QED BY <1>11, <2>1, <2>2 DEF RequestsAhead
  <1>15. RootsGiven(v, G)
    <2>1. (Keys(h1) \cup Keys(o1)) \subseteq Given
      <3>1. /\ Keys(h) = {e.key : e \in Range(h)} /\ Keys(h1) = {e.key : e \in Range(h1)}
            /\ Keys(o) = {e.key : e \in Range(o)} /\ Keys(o1) = {e.key : e \in Range(o1)}
        BY DEF Keys, Range
      <3> QED BY <1>3, <1>4, <1>5, <3>1 DEF Ages
    <2>2. (\A r \in Range(q1) : r.value \subseteq Given) /\ (\A r \in Range(x1) : r.value \subseteq Given)
      BY <1>3, <1>6, <1>7 DEF Ages
    <2> QED BY <1>11, <2>1, <2>2 DEF RootsGiven, Given
  <1>16. Ages(v.merkle_root_to_handler, w.merkle_root_to_handler) /\ Ages(v.worker_views, w.worker_views)
    BY <1>4, <1>10, <1>11 DEF h, z
  <1> QED BY <1>11, <1>12, <1>13, <1>14, <1>15, <1>16 DEF v

-----------------------------------------------------------------------------
(***************************************************************************)
(* The steps.                                                              *)
(***************************************************************************)

LEMMA PromptTold ==
  ASSUME NEW polls, NEW old, NEW t, Prompt(polls, old, t), NEW views, Told(views, old, t)
  PROVE  Prompt(polls, views, t)
  BY DEF Prompt, Told

\* A step to the record s.
LEMMA Advance ==
  ASSUME NEW s, Sound(s, times'), Become(s), Kept(Now, s, times'), times' \in 0 .. MaxTimes,
         waiting' \in Seq(Poll), _long_poll_waiters' = Len(waiting'), Len(waiting') <= MAX_CONCURRENT_LONG_POLLS,
         Prompt(waiting', s.wi.worker_views, times')
  PROVE  IInv' /\ Kept(Now, Now', times')
  <1>1. s \in Record
    BY DEF Sound
  <1>2. s.bridge.works <= MaxWorks /\ wi' = s.wi /\ bridge' = s.bridge /\ given' = s.given /\ again' = s.again
    BY DEF Become
  <1>3. Now' = s
    BY <1>1, <1>2 DEF Now, Record
  <1>4. Sound(Now', times') /\ Kept(Now, Now', times')
    BY <1>3
  <1>5. Sound(Now, times)'
    BY <1>4
  <1> QED BY <1>2, <1>4, <1>5 DEF IInv

\* A poll taken from those that wait.
LEMMA PollGone ==
  ASSUME NEW polls \in Seq(Poll), NEW i \in DOMAIN polls
  PROVE  LET rest == Sq!RemoveAt(polls, i)
         IN /\ rest \in Seq(Poll) /\ Len(rest) = Len(polls) - 1
            /\ \A views, t : Prompt(polls, views, t) => Prompt(rest, views, t)
  <1> DEFINE rest == Sq!RemoveAt(polls, i)
  <1>1. rest \in Seq(Poll) /\ Without(rest, polls, i)
    BY Removed
  <1> HIDE DEF rest
  <1>2. Len(rest) = Len(polls) - 1
    BY <1>1 DEF Without
  <1>3. Range(rest) \subseteq Range(polls)
    <2>1. DOMAIN rest = 1 .. Len(polls) - 1 /\ DOMAIN polls = 1 .. Len(polls) /\ Len(polls) \in Nat
      BY <1>1, <1>2
    <2>2. ASSUME NEW j \in DOMAIN rest PROVE rest[j] \in Range(polls)
      <3> DEFINE k == IF j < i THEN j ELSE j + 1
      <3>1. k \in DOMAIN polls
        BY <2>1
      <3>2. rest[j] = polls[k]
        BY <1>1, <2>1 DEF Without
      <3> QED BY <3>1, <3>2 DEF Range
    <2> QED BY <2>2 DEF Range
  <1>4. \A views, t : Prompt(polls, views, t) => Prompt(rest, views, t)
    BY <1>3 DEF Prompt
  <1> QED BY <1>1, <1>2, <1>4 DEF rest

LEMMA RequestSteps ==
  ASSUME IInv, NEW c \in Client, NEW p \in Param, Request(c, p)
  PROVE  IInv' /\ Kept(Now, Now', times')
  <1> DEFINE s == _getwork(Now, times, c, p)
  <1>1. times \in Nat /\ Sound(Now, times)
    BY Limits DEF IInv
  <1>2. Become(s) /\ times' = times /\ waiting' = waiting /\ _long_poll_waiters' = _long_poll_waiters
    BY DEF Request
  <1>3. Sound(s, times) /\ Kept(Now, s, times) /\ s.wi.worker_views = wi.worker_views
    <2>1. Sound(s, times) /\ Kept(Now, s, times) /\ s.wi.worker_views = Now.wi.worker_views
      BY <1>1, GetworkKeeps
    <2> HIDE DEF s
    <2> QED BY <2>1 DEF Now
  <1> HIDE DEF s
  <1> QED BY <1>1, <1>2, <1>3, Advance DEF IInv

LEMMA LongPollSteps ==
  ASSUME IInv, NEW c \in Client, NEW p \in Param, LongPoll(c, p)
  PROVE  IInv' /\ Kept(Now, Now', times')
  <1> DEFINE s == _sync_getwork_generation(Now, times)
             r == Push(s, times, c, p)
             q == [client |-> c, param |-> p, left |-> PollLife]
  <1>1. times \in Nat /\ Sound(Now, times) /\ waiting \in Seq(Poll) /\ Prompt(waiting, wi.worker_views, times)
        /\ times' = times /\ _long_poll_waiters = Len(waiting) /\ times \in 0 .. MaxTimes
        /\ Len(waiting) <= MAX_CONCURRENT_LONG_POLLS
    BY Limits DEF IInv, LongPoll
  <1>2. Sound(s, times) /\ Kept(Now, s, times) /\ s.wi.worker_views = wi.worker_views
    <2>1. Sound(s, times) /\ Kept(Now, s, times) /\ s.wi.worker_views = Now.wi.worker_views
      BY <1>1, SyncKeeps
    <2> HIDE DEF s
    <2> QED BY <2>1 DEF Now
  <1>3. \/ Become(r) /\ waiting' = waiting /\ _long_poll_waiters' = _long_poll_waiters
        \/ /\ ~ Behind(c) /\ _long_poll_waiters < MAX_CONCURRENT_LONG_POLLS /\ Become(s)
           /\ waiting' = Append(waiting, q) /\ _long_poll_waiters' = _long_poll_waiters + 1
        \/ Become(s) /\ waiting' = waiting /\ _long_poll_waiters' = _long_poll_waiters
    BY DEF LongPoll
  <1> HIDE DEF s
  <1>4. CASE Become(r) /\ waiting' = waiting /\ _long_poll_waiters' = _long_poll_waiters
    <2>1. Sound(r, times) /\ Kept(s, r, times) /\ Told(r.wi.worker_views, s.wi.worker_views, times)
      BY <1>1, <1>2, PushKeeps
    <2> HIDE DEF r
    <2>2. Kept(Now, r, times) /\ Prompt(waiting, r.wi.worker_views, times)
      BY <1>1, <1>2, <2>1, KeptOn, PromptTold
    <2> QED BY <1>1, <1>4, <2>1, <2>2, Advance
  <1>5. CASE /\ ~ Behind(c) /\ _long_poll_waiters < MAX_CONCURRENT_LONG_POLLS /\ Become(s)
             /\ waiting' = Append(waiting, q) /\ _long_poll_waiters' = _long_poll_waiters + 1
    <2>1. q \in Poll /\ q.client = c
      BY Limits DEF Poll
    <2> HIDE DEF q
    <2>2. /\ Append(waiting, q) \in Seq(Poll) /\ Len(Append(waiting, q)) = Len(waiting) + 1
          /\ Range(Append(waiting, q)) = Range(waiting) \cup {q}
      <3> DEFINE a == Append(waiting, q)
      <3>1. /\ a \in Seq(Poll) /\ Len(a) = Len(waiting) + 1 /\ a[Len(waiting) + 1] = q
            /\ \A i \in 1 .. Len(waiting) : a[i] = waiting[i]
        BY <1>1, <2>1
      <3>2. DOMAIN a = 1 .. Len(waiting) + 1 /\ DOMAIN waiting = 1 .. Len(waiting) /\ Len(waiting) \in Nat
        BY <1>1, <3>1
      <3> HIDE DEF a
      <3>3. \A i \in DOMAIN a : i = Len(waiting) + 1 \/ i \in DOMAIN waiting
        BY <3>2
      <3>4. \A i \in DOMAIN waiting : i \in DOMAIN a
        BY <3>2
      <3>5. Len(waiting) + 1 \in DOMAIN a
        BY <3>2
      <3>6. Range(a) = Range(waiting) \cup {q}
        BY <3>1, <3>2, <3>3, <3>4, <3>5 DEF Range
      <3> QED BY <3>1, <3>6 DEF a
    <2>3. \A v \in Range(wi.worker_views) : v.key = c => v.value = times
      <3> DEFINE d == wi.worker_views
      <3>1. d \in Dict(Client, Nat) /\ Orderly(d, ViewLife, MAX_LONG_POLL_IDENTITIES)
        BY <1>1 DEF Sound, Record, Interface, AllOrderly, Now
      <3>2. Get(d, c, times) = times
        BY <1>5 DEF Behind
      <3> HIDE DEF d
      <3>3. \A v \in Range(d) : \A x : Get(d, v.key, x) = v.value
        BY ONLY <3>1, ByKey
      <3>4. \A v \in Range(d) : v.key = c => v.value = times
        BY <3>2, <3>3
      <3> QED BY <3>4 DEF d
    <2>4. Prompt(waiting', wi.worker_views, times)
      BY <1>1, <1>5, <2>1, <2>2, <2>3 DEF Prompt
    <2>5. waiting' \in Seq(Poll) /\ _long_poll_waiters' = Len(waiting') /\ Len(waiting') <= MAX_CONCURRENT_LONG_POLLS
      <3>1. Len(waiting) \in Nat
        BY <1>1
      <3> QED BY <1>1, <1>5, <2>2, <3>1, Limits
    <2> QED BY <1>1, <1>2, <1>5, <2>4, <2>5, Advance
  <1>6. CASE Become(s) /\ waiting' = waiting /\ _long_poll_waiters' = _long_poll_waiters
    BY <1>1, <1>2, <1>6, Advance
  <1> QED BY <1>3, <1>4, <1>5, <1>6

LEMMA PollTimesOutSteps ==
  ASSUME IInv, NEW i \in DOMAIN waiting, PollTimesOut(i)
  PROVE  IInv' /\ Kept(Now, Now', times')
  <1> DEFINE q == waiting[i]
             r == Push(Now, times, q.client, q.param)
  <1>1. times \in Nat /\ Sound(Now, times) /\ waiting \in Seq(Poll) /\ Prompt(waiting, wi.worker_views, times)
        /\ times' = times /\ _long_poll_waiters = Len(waiting) /\ times \in 0 .. MaxTimes
        /\ Len(waiting) <= MAX_CONCURRENT_LONG_POLLS
    BY Limits DEF IInv, PollTimesOut
  <1>2. Become(r) /\ waiting' = Sq!RemoveAt(waiting, i) /\ _long_poll_waiters' = _long_poll_waiters - 1
    BY DEF PollTimesOut
  <1>3. q.client \in Client /\ q.param \in Param
    <2>1. q \in Poll
      BY <1>1
    <2> QED BY <2>1 DEF Poll
  <1> HIDE DEF q
  <1>4. Sound(r, times) /\ Kept(Now, r, times) /\ Told(r.wi.worker_views, wi.worker_views, times)
    <2>1. Sound(r, times) /\ Kept(Now, r, times) /\ Told(r.wi.worker_views, Now.wi.worker_views, times)
      BY <1>1, <1>3, PushKeeps
    <2> HIDE DEF r
    <2> QED BY <2>1 DEF Now
  <1> HIDE DEF r
  <1>5. Prompt(waiting, r.wi.worker_views, times)
    BY <1>1, <1>4, PromptTold
  <1>6. waiting' \in Seq(Poll) /\ Len(waiting') = Len(waiting) - 1 /\ Prompt(waiting', r.wi.worker_views, times)
    BY <1>1, <1>2, <1>5, PollGone
  <1>7. _long_poll_waiters' = Len(waiting') /\ Len(waiting') <= MAX_CONCURRENT_LONG_POLLS
    <2>1. Len(waiting) \in Nat
      BY <1>1
    <2> QED BY <1>1, <1>2, <1>6, <2>1, Limits
  <1> QED BY <1>1, <1>2, <1>4, <1>6, <1>7, Advance

LEMMA PollDroppedSteps ==
  ASSUME IInv, NEW i \in DOMAIN waiting, PollDropped(i)
  PROVE  IInv' /\ Kept(Now, Now', times')
  <1>1. Sound(Now, times) /\ waiting \in Seq(Poll) /\ Prompt(waiting, wi.worker_views, times)
        /\ times' = times /\ _long_poll_waiters = Len(waiting) /\ times \in 0 .. MaxTimes
        /\ Len(waiting) <= MAX_CONCURRENT_LONG_POLLS /\ bridge.works <= MaxWorks
        /\ waiting' = Sq!RemoveAt(waiting, i) /\ _long_poll_waiters' = _long_poll_waiters - 1
        /\ wi' = wi /\ bridge' = bridge /\ given' = given /\ again' = again
    BY DEF IInv, PollDropped
  <1>2. waiting' \in Seq(Poll) /\ Len(waiting') = Len(waiting) - 1 /\ Prompt(waiting', wi.worker_views, times)
    BY <1>1, PollGone
  <1>3. _long_poll_waiters' = Len(waiting') /\ Len(waiting') <= MAX_CONCURRENT_LONG_POLLS
    <2>1. Len(waiting) \in Nat
      BY <1>1
    <2> QED BY <1>1, <1>2, <2>1, Limits
  <1>4. Now' = Now
    BY <1>1 DEF Now
  <1>5. Kept(Now, Now', times')
    BY <1>4 DEF Kept
  <1>6. Sound(Now, times)'
    BY <1>1, <1>4
  <1> QED BY <1>1, <1>2, <1>3, <1>5, <1>6 DEF IInv

LEMMA NewWorkSteps ==
  ASSUME IInv, NewWork
  PROVE  IInv' /\ Kept(Now, Now', times')
  <1> DEFINE t == times + 1
             r == Answered(Now, t, waiting)
             x == <<>>
  <1>1. times \in Nat /\ Sound(Now, times) /\ waiting \in Seq(Poll) /\ times' = t /\ t \in 0 .. MaxTimes /\ t \in Nat
        /\ Become(r) /\ waiting' = x /\ _long_poll_waiters' = _long_poll_waiters - Len(waiting)
        /\ _long_poll_waiters = Len(waiting) /\ Len(waiting) \in Nat
    BY Limits DEF IInv, NewWork
  <1>2. x \in Seq(Poll) /\ Len(x) = 0 /\ Range(x) = {}
    BY DEF Range
  <1>3. Sound(Now, t)
    BY <1>1, Later
  <1> HIDE DEF t, x
  <1>4. Sound(r, t) /\ Kept(Now, r, t)
    BY <1>1, <1>3, AnsweredKeeps
  <1> HIDE DEF r
  <1>5. Prompt(waiting', r.wi.worker_views, t)
    BY <1>1, <1>2 DEF Prompt
  <1>6. _long_poll_waiters' = Len(waiting') /\ Len(waiting') <= MAX_CONCURRENT_LONG_POLLS /\ waiting' \in Seq(Poll)
    BY <1>1, <1>2, Limits
  <1> QED BY <1>1, <1>4, <1>5, <1>6, Advance

LEMMA SubmitSteps ==
  ASSUME IInv, NEW root, Submit(root)
  PROVE  IInv' /\ Kept(Now, Now', times')
  <1> DEFINE s == _sync_getwork_generation(Now, times)
             c == IF root \in Keys(s.wi.merkle_root_to_handler) THEN At(s.wi.merkle_root_to_handler, root)
                  ELSE At(s.wi.stale_merkle_root_to_handler, root)
             v == [s EXCEPT !.wi.verified_getwork_clients =
                              touch(@, c, TRUE, VerifiedLife, MAX_VERIFIED_GETWORK_CLIENTS)]
             r == IF Linked(s.wi, root) THEN v ELSE s
  <1>1. times \in Nat /\ Sound(Now, times) /\ times' = times /\ waiting' = waiting
        /\ _long_poll_waiters' = _long_poll_waiters /\ Become(r)
    BY Limits DEF IInv, Submit
  <1>2. Sound(s, times) /\ Kept(Now, s, times) /\ s.wi.worker_views = wi.worker_views
    <2>1. Sound(s, times) /\ Kept(Now, s, times) /\ s.wi.worker_views = Now.wi.worker_views
      BY <1>1, SyncKeeps
    <2> HIDE DEF s
    <2> QED BY <2>1 DEF Now
  <1> HIDE DEF s
  <1>3. Sound(r, times) /\ Kept(s, r, times) /\ r.wi.worker_views = s.wi.worker_views
    <2>1. CASE Linked(s.wi, root)
      <3>1. c \in Client
        BY <1>2, <2>1, OwnerKnown
      <3> HIDE DEF c
      <3>2. Sound(v, times) /\ Kept(s, v, times) /\ v.wi.worker_views = s.wi.worker_views
        BY <1>1, <1>2, <3>1, VerifiedKeeps
      <3> HIDE DEF v
      <3> QED BY <2>1, <3>2
    <2>2. CASE ~ Linked(s.wi, root)
      <3>1. r = s
        BY <2>2
      <3> QED BY <1>2, <3>1 DEF Kept
    <2> QED BY <2>1, <2>2
  <1> HIDE DEF r
  <1>4. Kept(Now, r, times)
    BY <1>2, <1>3, KeptOn
  <1> QED BY <1>1, <1>2, <1>3, <1>4, Advance DEF IInv

LEMMA StratumWorkSteps ==
  ASSUME IInv, NEW p \in Param, StratumWork(p)
  PROVE  IInv' /\ Kept(Now, Now', times')
  <1> DEFINE r == Give([Now EXCEPT !.bridge = get_work(@, times, p)], times, Root(NextWork(Now.bridge, times, p)), 0)
  <1>1. times \in Nat /\ Sound(Now, times) /\ times' = times /\ waiting' = waiting
        /\ _long_poll_waiters' = _long_poll_waiters
    BY Limits DEF IInv, StratumWork
  <1>2. Become(r)
    BY DEF StratumWork, Now
  <1>3. Sound(r, times) /\ r.wi = Now.wi
    BY <1>1, StratumKeeps
  <1> HIDE DEF r
  <1>4. Kept(Now, r, times) /\ r.wi = wi
    BY <1>3 DEF Kept, Now
  <1> QED BY <1>1, <1>2, <1>3, <1>4, Advance DEF IInv

\* Time passes: the handlers that had more than a unit to go are still there.
LEMMA TickSteps ==
  ASSUME IInv, Tick
  PROVE  IInv' /\ Ages(wi'.merkle_root_to_handler, wi.merkle_root_to_handler)
  <1>1. Sound(Now, times) /\ waiting \in Seq(Poll) /\ Prompt(waiting, wi.worker_views, times)
        /\ times' = times /\ _long_poll_waiters = Len(waiting) /\ times \in 0 .. MaxTimes
        /\ Len(waiting) <= MAX_CONCURRENT_LONG_POLLS /\ bridge.works <= MaxWorks
        /\ waiting' = [i \in DOMAIN waiting |-> [waiting[i] EXCEPT !.left = @ - 1]]
        /\ (\A i \in DOMAIN waiting : waiting[i].left > 0)
        /\ bridge' = bridge /\ given' = given /\ again' = again /\ _long_poll_waiters' = _long_poll_waiters
    BY DEF IInv, Tick
  <1>2. wi' = Passing(wi)
    BY DEF Tick, Passing
  <1>3. /\ wi \in Interface /\ AllOrderly(wi) /\ QuotasKept(wi) /\ RequestsAhead(wi, given) /\ RootsGiven(wi, given)
        /\ wi._getwork_generation <= times /\ Now \in Record
    BY <1>1 DEF Sound, Record, Now
  <1>4. /\ wi' \in Interface /\ AllOrderly(wi') /\ QuotasKept(wi') /\ RequestsAhead(wi', given) /\ RootsGiven(wi', given)
        /\ wi'._getwork_generation = wi._getwork_generation
        /\ Ages(wi'.merkle_root_to_handler, wi.merkle_root_to_handler)
        /\ Ages(wi'.worker_views, wi.worker_views)
    BY <1>2, <1>3, PassingKeeps
  <1>5. Now' \in Record /\ Now'.wi = wi' /\ Now'.bridge = bridge /\ Now'.given = given /\ Now'.again = again
    BY <1>1, <1>3, <1>4 DEF Now, Record
  <1>6. Sound(Now', times)
    BY <1>1, <1>3, <1>4, <1>5 DEF Sound, Now
  <1>7. waiting' \in Seq(Poll) /\ Len(waiting') = Len(waiting) /\ Prompt(waiting', wi'.worker_views, times)
    <2>1. DOMAIN waiting = 1 .. Len(waiting) /\ Len(waiting) \in Nat
      BY <1>1
    <2>2. ASSUME NEW i \in DOMAIN waiting
          PROVE  waiting'[i] \in Poll /\ waiting'[i].client = waiting[i].client
      <3>1. waiting[i] \in Poll /\ waiting[i].left > 0 /\ waiting'[i] = [waiting[i] EXCEPT !.left = @ - 1]
        BY <1>1
      <3> QED BY <3>1 DEF Poll
    <2>3. waiting' \in [1 .. Len(waiting) -> Poll]
      BY <1>1, <2>1, <2>2
    <2>4. waiting' \in Seq(Poll) /\ Len(waiting') = Len(waiting) /\ DOMAIN waiting' = DOMAIN waiting
      BY <2>1, <2>3
    <2>5. \A q \in Range(waiting') : \E o \in Range(waiting) : q.client = o.client
      BY <2>2, <2>4 DEF Range
    <2>6. \A v \in Range(wi'.worker_views) : \E o \in Range(wi.worker_views) : v.key = o.key /\ v.value = o.value
      BY <1>4 DEF Ages
    <2>7. Prompt(waiting', wi'.worker_views, times)
      BY <1>1, <2>5, <2>6 DEF Prompt
    <2> QED BY <2>4, <2>7
  <1>8. Sound(Now, times)'
    BY <1>1, <1>6
  <1> QED BY <1>1, <1>4, <1>7, <1>8 DEF IInv

LEMMA InitIInv == Init => IInv
  <1> SUFFICES ASSUME Init PROVE IInv
    OBVIOUS
  <1> DEFINE x == <<>>
             none == {}
  <1>1. /\ times = 0 /\ waiting = x /\ _long_poll_waiters = 0 /\ given = none /\ again = FALSE
        /\ wi = [merkle_root_to_handler |-> x, stale_merkle_root_to_handler |-> x,
                 getwork_roots_by_client |-> x, getwork_roots_by_ipv6_prefix |-> x,
                 getwork_by_request |-> x, verified_getwork_clients |-> x,
                 worker_views |-> x, _getwork_generation |-> 0]
        /\ bridge = [_cache |-> x, _times |-> 0, works |-> 0]
    BY DEF Init
  <1>2. /\ x \in Dict(Roots, Client) /\ x \in Dict(Client, RootSets) /\ x \in Dict(Sites, RootSets)
        /\ x \in Dict(Wanted, Issue) /\ x \in Dict(Client, BOOLEAN) /\ x \in Dict(Client, Nat)
        /\ x \in Seq(Cached) /\ x \in Seq(Poll) /\ DOMAIN x = {} /\ Len(x) = 0
        /\ Range(x) = {} /\ Keys(x) = {}
    BY DEF Dict, Range, Keys
  <1>3. \A life, max : max \in Nat => Orderly(x, life, max)
    BY Nothing
  <1> HIDE DEF x
  <1>4. wi \in Interface
    BY <1>1, <1>2 DEF Interface
  <1>5. bridge \in Bridge
    BY <1>1, <1>2 DEF Bridge
  <1>6. none \in SUBSET Gift /\ \A g \in none : FALSE
    OBVIOUS
  <1> HIDE DEF none
  <1>7. Now \in Record /\ Now.wi = wi /\ Now.bridge = bridge /\ Now.given = given /\ Now.again = again
    BY <1>1, <1>4, <1>5, <1>6 DEF Now, Record
  <1>8. AllOrderly(wi)
    BY <1>1, <1>3, Limits DEF AllOrderly
  <1>9. GivenBy(given, bridge.works, 0) /\ CacheAhead(bridge, given, 0)
    <2>1. GivenBy(given, bridge.works, 0)
      BY <1>1, <1>6 DEF GivenBy
    <2>2. Ahead(x, 0, none, 0)
      BY <1>2 DEF Ahead
    <2>3. Len(x) <= MAX_CACHED_WORK_ITEMS /\ 0 <= 0
      BY <1>2, Limits
    <2> QED BY <1>1, <2>1, <2>2, <2>3 DEF CacheAhead
  <1>10. RequestsAhead(wi, given)
    BY <1>1, <1>2 DEF RequestsAhead
  <1>11. RootsGiven(wi, given)
    BY <1>1, <1>2 DEF RootsGiven
  <1>12. QuotasKept(wi)
    <2>1. ASSUME NEW own, NEW k PROVE Cardinality(HandlersOf(x, own, k)) = 0
      <3>1. HandlersOf(x, own, k) = {}
        BY <1>2 DEF HandlersOf
      <3> QED BY <3>1, FS_EmptySet
    <2>2. /\ wi.merkle_root_to_handler = x /\ wi.getwork_roots_by_client = x /\ wi.getwork_roots_by_ipv6_prefix = x
      BY <1>1
    <2> QED BY <1>2, <2>1, <2>2, Limits DEF QuotasKept, Quota, Within
  <1>13. Sound(Now, times)
    <2>1. wi._getwork_generation <= times /\ ~ again /\ times = 0
      BY <1>1
    <2> QED BY <1>7, <1>8, <1>9, <1>10, <1>11, <1>12, <2>1 DEF Sound
  <1>14. Prompt(waiting, wi.worker_views, times)
    BY <1>1, <1>2 DEF Prompt
  <1>15. /\ times \in 0 .. MaxTimes /\ waiting \in Seq(Poll) /\ _long_poll_waiters = Len(waiting)
         /\ Len(waiting) <= MAX_CONCURRENT_LONG_POLLS /\ bridge.works <= MaxWorks
    BY <1>1, <1>2, Limits
  <1> QED BY <1>13, <1>14, <1>15 DEF IInv

\* What a step may do to the handlers.
HandlersStay ==
  \A e \in Range(wi.merkle_root_to_handler) :
    \/ e.key \in Keys(wi'.merkle_root_to_handler)
    \/ e.left = 1
    \/ wi'._getwork_generation # wi._getwork_generation
       /\ \/ e.key \in Keys(wi'.stale_merkle_root_to_handler)
          \/ Len(wi'.stale_merkle_root_to_handler) = MAX_STALE_GETWORK_HANDLERS

LEMMA KeptStay ==
  ASSUME Kept(Now, Now', times')
  PROVE  HandlersStay
  <1>1. Now.wi = wi /\ Now'.wi = wi'
    BY DEF Now
  <1>2. \A e \in Range(wi.merkle_root_to_handler) : e.key \in Keys(wi.merkle_root_to_handler)
    BY DEF Keys, Range
  <1> QED BY <1>1, <1>2 DEF Kept, HandlersStay

LEMMA AgesStay ==
  ASSUME IInv, Ages(wi'.merkle_root_to_handler, wi.merkle_root_to_handler)
  PROVE  HandlersStay
  <1> DEFINE h  == wi.merkle_root_to_handler
             h1 == wi'.merkle_root_to_handler
  <1>1. h \in Dict(Roots, Client) /\ Orderly(h, HandlerLife, MAX_CURRENT_GETWORK_HANDLERS) /\ Ages(h1, h)
    BY DEF IInv, Sound, Record, Interface, AllOrderly, Now
  <1> HIDE DEF h, h1
  <1>2. ASSUME NEW e \in Range(h) PROVE e.key \in Keys(h1) \/ e.left = 1
    <2>1. e.left \in 1 .. HandlerLife
      BY <1>1, ByKey
    <2>2. CASE e.left > 1
      <3>1. PICK f \in Range(h1) : f.key = e.key
        BY <1>1, <2>2 DEF Ages
      <3> QED BY <3>1 DEF Keys, Range
    <2> QED BY <2>1, <2>2, Limits
  <1> QED BY <1>2 DEF HandlersStay, h, h1

LEMMA NextIInv ==
  ASSUME IInv, [Next]_getWorkVars
  PROVE  IInv' /\ HandlersStay
  <1>1. ASSUME NEW c \in Client, NEW p \in Param, Request(c, p) PROVE IInv' /\ HandlersStay
    BY <1>1, RequestSteps, KeptStay
  <1>2. ASSUME NEW c \in Client, NEW p \in Param, LongPoll(c, p) PROVE IInv' /\ HandlersStay
    BY <1>2, LongPollSteps, KeptStay
  <1>3. ASSUME NEW i \in DOMAIN waiting, PollTimesOut(i) PROVE IInv' /\ HandlersStay
    BY <1>3, PollTimesOutSteps, KeptStay
  <1>4. ASSUME NEW i \in DOMAIN waiting, PollDropped(i) PROVE IInv' /\ HandlersStay
    BY <1>4, PollDroppedSteps, KeptStay
  <1>5. CASE NewWork
    BY <1>5, NewWorkSteps, KeptStay
  <1>6. ASSUME NEW g \in given, Submit(g.root) PROVE IInv' /\ HandlersStay
    <2>1. PICK root : Submit(root)
      BY <1>6
    <2> QED BY <2>1, SubmitSteps, KeptStay
  <1>7. ASSUME NEW p \in Param, StratumWork(p) PROVE IInv' /\ HandlersStay
    BY <1>7, StratumWorkSteps, KeptStay
  <1>8. CASE Tick
    BY <1>8, TickSteps, AgesStay
  <1>9. CASE UNCHANGED getWorkVars
    <2>1. Now' = Now /\ times' = times /\ waiting' = waiting /\ _long_poll_waiters' = _long_poll_waiters
          /\ wi' = wi /\ bridge' = bridge
      BY <1>9 DEF getWorkVars, Now
    <2>2. Sound(Now, times)'
      BY <2>1 DEF IInv
    <2>3. IInv'
      BY <2>1, <2>2 DEF IInv
    <2>4. HandlersStay
      BY <2>1 DEF HandlersStay, Keys, Range
    <2> QED BY <2>3, <2>4
  <1> QED BY <1>1, <1>2, <1>3, <1>4, <1>5, <1>6, <1>7, <1>8, <1>9 DEF Next

LEMMA SpecIInv == Spec => []IInv
  <1>1. IInv /\ [Next]_getWorkVars => IInv'
    BY NextIInv
  <1> QED BY <1>1, InitIInv, PTL DEF Spec

-----------------------------------------------------------------------------
\* The dictionaries, the cache and the polls keep their types and their limits, and the polls
\* counted are those that wait: the counter of long polls is right however they end.
THEOREM TypesKept == Spec => []GetWorkTypeOK
  <1> SUFFICES ASSUME IInv PROVE GetWorkTypeOK
    BY SpecIInv, PTL
  <1>1. /\ Now.wi = wi /\ Now.bridge = bridge /\ Now.given = given
        /\ wi \in Interface /\ bridge \in Bridge /\ given \in SUBSET Gift
        /\ AllOrderly(wi) /\ wi._getwork_generation <= times
        /\ GivenBy(given, bridge.works, times) /\ CacheAhead(bridge, given, times) /\ RootsGiven(wi, given)
    BY DEF IInv, Sound, Record, Now
  <1>2. times \in 0 .. MaxTimes /\ times \in Nat /\ wi._getwork_generation \in Nat /\ bridge.works \in Nat
        /\ bridge.works <= MaxWorks
    BY <1>1, Limits DEF IInv, Interface, Bridge
  <1>3. ASSUME NEW g \in given PROVE g.root \in Job /\ g.offset <= MaxOffset
    <2>1. g.root \in Nat \X Nat /\ g.root[1] \in 1 .. bridge.works /\ g.root[2] \in 0 .. Nonces - 1 /\ g.offset <= MaxOffset
      BY <1>1 DEF GivenBy, Gift, Roots
    <2>2. g.root[1] \in 1 .. MaxWorks
      BY <1>2, <2>1, Limits
    <2> QED BY <2>1, <2>2 DEF Job
  <1>4. Keys(wi.merkle_root_to_handler) \cup Keys(wi.stale_merkle_root_to_handler) \subseteq Job
    BY <1>1, <1>3 DEF RootsGiven
  <1>5. ASSUME NEW e \in Range(bridge._cache)
        PROVE  e.param \in Param /\ e.work \in 1 .. MaxWorks /\ e.nonce \in 0 .. Nonces - 1
    <2>1. PICK i \in DOMAIN bridge._cache : bridge._cache[i] = e
      BY DEF Range
    <2>2. e \in Cached
      BY <1>1, <2>1 DEF Bridge
    <2>3. e.work \in 1 .. bridge.works /\ e.nonce \in 0 .. Nonces - 1
      BY <1>1, <2>1 DEF CacheAhead, Ahead
    <2>4. e.work \in 1 .. MaxWorks
      BY <1>2, <2>3, Limits
    <2> QED BY <2>2, <2>3, <2>4 DEF Cached
  <1>6. _long_poll_waiters = Len(waiting) /\ _long_poll_waiters <= MAX_CONCURRENT_LONG_POLLS
    BY DEF IInv
  <1>7. wi._getwork_generation \in 0 .. times
    BY <1>1, <1>2
  <1>8. /\ Len(wi.merkle_root_to_handler) <= MAX_CURRENT_GETWORK_HANDLERS
        /\ Len(wi.stale_merkle_root_to_handler) <= MAX_STALE_GETWORK_HANDLERS
        /\ Len(wi.verified_getwork_clients) <= MAX_VERIFIED_GETWORK_CLIENTS
        /\ Len(wi.worker_views) <= MAX_LONG_POLL_IDENTITIES
        /\ Len(bridge._cache) <= MAX_CACHED_WORK_ITEMS
    BY <1>1 DEF AllOrderly, Orderly, CacheAhead
  <1> QED BY <1>2, <1>3, <1>4, <1>5, <1>6, <1>7, <1>8 DEF GetWorkTypeOK

\* No two miners are given the same header: the bridge hands out every nonce of every piece
\* of work once, and a client that asks again gets timestamps after those it had.
THEOREM NobodyTwice == Spec => []NeverTwice
  <1> SUFFICES ASSUME IInv PROVE NeverTwice
    BY SpecIInv, PTL
  <1>1. Now.again = again
    BY DEF Now
  <1> QED BY <1>1 DEF IInv, Sound, NeverTwice

\* Work made before a change of work is not handed out after it.
THEOREM WorkIsCurrent == Spec => []CurrentWork
  <1> SUFFICES ASSUME IInv PROVE CurrentWork
    BY SpecIInv, PTL
  <1>1. Now.given = given
    BY DEF Now
  <1> QED BY <1>1 DEF IInv, Sound, GivenBy, CurrentWork

\* The dictionaries by client and by site count the handlers of each, and none goes over its
\* limit, although the three expire, and are dropped from, apart from each other.
THEOREM QuotasAreExact == Spec => []QuotasExact
  <1> SUFFICES ASSUME IInv PROVE QuotasExact
    BY SpecIInv, PTL
  <1> DEFINE h == wi.merkle_root_to_handler
             q == wi.getwork_roots_by_client
             x == wi.getwork_roots_by_ipv6_prefix
  <1>1. wi \in Interface /\ AllOrderly(wi) /\ QuotasKept(wi)
    BY DEF IInv, Sound, Record, Now
  <1>2. /\ h \in Dict(Roots, Client) /\ Orderly(h, HandlerLife, MAX_CURRENT_GETWORK_HANDLERS)
        /\ q \in Dict(Client, RootSets) /\ Orderly(q, HandlerLife, MaxActive)
        /\ x \in Dict(Sites, RootSets) /\ Orderly(x, HandlerLife, MAX_CURRENT_GETWORK_HANDLERS)
        /\ Quota(h, q, itself, Client) /\ Quota(h, x, sited, Sites)
        /\ Within(h, itself, Client, MAX_GETWORK_HANDLERS_PER_CLIENT)
        /\ Within(h, sited, Sites, MAX_GETWORK_HANDLERS_PER_IPV6_PREFIX)
    BY <1>1 DEF Interface, AllOrderly, QuotasKept
  <1> HIDE DEF h, q, x
  <1>3. \A e \in Range(h) : e.value \in Client
    BY <1>2, ByKey
  <1> DEFINE handlers(C) == {e.key : e \in {y \in Range(h) : y.value \in C}}
  <1>4. ASSUME NEW c \in Client
        PROVE  /\ _getwork_client_roots(wi, c) = handlers({c})
               /\ Cardinality(handlers({c})) <= MAX_GETWORK_HANDLERS_PER_CLIENT
    <2>1. Get(q, c, {}) \cap Keys(h) = HandlersOf(h, itself, c)
      BY ONLY <1>2, QuotaCounts, c \in Client
    <2>2. handlers({c}) = HandlersOf(h, itself, c)
      <3>1. \A e \in Range(h) : itself[e.value] = c <=> e.value \in {c}
        BY <1>3 DEF itself
      <3> QED BY <3>1 DEF HandlersOf
    <2>3. _getwork_client_roots(wi, c) = Get(q, c, {}) \cap Keys(h)
      BY DEF _getwork_client_roots, q, h
    <2>4. Cardinality(HandlersOf(h, itself, c)) <= MAX_GETWORK_HANDLERS_PER_CLIENT
      BY <1>2 DEF Within
    <2> HIDE DEF handlers
    <2> QED BY <2>1, <2>2, <2>3, <2>4
  <1>5. ASSUME NEW c \in Client, site[c] # no_site
        PROVE  LET all == handlers({d \in Client : site[d] = site[c]})
               IN /\ _getwork_ipv6_prefix_roots(wi, c) = all
                  /\ Cardinality(all) <= MAX_GETWORK_HANDLERS_PER_IPV6_PREFIX
    <2> DEFINE k == site[c]
               all == handlers({d \in Client : site[d] = k})
    <2>0. k \in Sites
      BY <1>5 DEF Sites
    <2>3. _getwork_ipv6_prefix_roots(wi, c) = Get(x, k, {}) \cap Keys(h)
      BY DEF _getwork_ipv6_prefix_roots, x, h
    <2>2. all = HandlersOf(h, sited, k)
      <3>1. \A e \in Range(h) : sited[e.value] = k <=> e.value \in {d \in Client : site[d] = k}
        BY <1>3 DEF sited
      <3> HIDE DEF k
      <3> QED BY <3>1 DEF HandlersOf
    <2> HIDE DEF all, k
    <2>1. Get(x, k, {}) \cap Keys(h) = HandlersOf(h, sited, k)
      BY ONLY <1>2, <2>0, QuotaCounts
    <2>4. Cardinality(HandlersOf(h, sited, k)) <= MAX_GETWORK_HANDLERS_PER_IPV6_PREFIX
      BY <1>2, <2>0 DEF Within
    <2>5. _getwork_ipv6_prefix_roots(wi, c) = all /\ Cardinality(all) <= MAX_GETWORK_HANDLERS_PER_IPV6_PREFIX
      BY <2>1, <2>2, <2>3, <2>4
    <2> QED BY <2>5 DEF all, k
  <1> QED BY <1>4, <1>5 DEF QuotasExact, h

\* No client that waits is known to have missed a change of work.
THEOREM PollsArePrompt == Spec => []PollsPrompt
  <1> SUFFICES ASSUME IInv PROVE PollsPrompt
    BY SpecIInv, PTL
  <1> DEFINE d == wi.worker_views
  <1>1. d \in Dict(Client, Nat) /\ Orderly(d, ViewLife, MAX_LONG_POLL_IDENTITIES) /\ Prompt(waiting, d, times)
    BY DEF IInv, Sound, Record, Interface, AllOrderly, Now
  <1> HIDE DEF d
  <1>2. ASSUME NEW q \in Range(waiting) PROVE Get(d, q.client, times) = times
    <2>1. CASE q.client \in Keys(d)
      <3>1. PICK v \in Range(d) : v.key = q.client
        BY <2>1 DEF Keys, Range
      <3>2. v.value = times
        BY <1>1, <3>1 DEF Prompt
      <3>3. \A y : Get(d, v.key, y) = v.value
        BY ONLY <1>1, ByKey, v \in Range(d)
      <3> QED BY <3>1, <3>2, <3>3
    <2>2. CASE q.client \notin Keys(d)
      BY <2>2 DEF Get
    <2> QED BY <2>1, <2>2
  <1> QED BY <1>2 DEF PollsPrompt, d

\* A handler goes when its time is up or the work changes, and never to make room; when the
\* work changes it is kept as stale unless as many newer ones are.
THEOREM HandlersAreKept == Spec => HandlersKept
  <1>1. IInv /\ [Next]_getWorkVars => [HandlersStay]_getWorkVars
    BY NextIInv
  <1> QED BY <1>1, SpecIInv, PTL DEF Spec, HandlersKept, HandlersStay
=============================================================================
