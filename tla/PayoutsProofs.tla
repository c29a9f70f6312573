----------------------------- MODULE PayoutsProofs -----------------------------
(***************************************************************************)
(* Proofs about Payouts: whatever chains grow and shrink, whatever levels  *)
(* the skip list draws and whatever it has remembered of shares long gone, *)
(* the weights of a window are the plain sum of its shares, a share a node *)
(* makes passes its own check(), and a coinbase pays out what it claims.   *)
(*                                                                         *)
(* The argument. A jump of the skip list is true when it adds what lies    *)
(* between its ends (Spans). A walk over true jumps ends with the plain    *)
(* sum of the chain (WeightsAnswer) and leaves true jumps behind, and a    *)
(* chain that was true stays so when shares are added (SkipsExtended). So  *)
(* a window sums the same whenever it is summed. What a share was made     *)
(* with is said of the whole chain below it, not of the shares a tracker   *)
(* has (Made): then more shares change nothing of it (MadeExtended), and   *)
(* with the history check() asks for the tracker works out the same again  *)
(* (MadeIsRemade). A target that was clipped and rounded is so again       *)
(* (RoundedTwice).                                                         *)
(***************************************************************************)
EXTENDS Payouts, FoldLemmas

-----------------------------------------------------------------------------
\* Sums of what shares add.
DeltaType == [count : Nat, weights : [Payee -> Nat], total : Nat, donation : Nat]

\* combine_deltas adds part by part.
LEMMA CombineType ==
  ASSUME NEW d \in DeltaType, NEW e \in DeltaType
  PROVE  /\ combine_deltas(d, e) \in DeltaType
         /\ combine_deltas(d, e).count = d.count + e.count
         /\ combine_deltas(d, e).total = d.total + e.total
         /\ combine_deltas(d, e).donation = d.donation + e.donation
         /\ \A a \in Payee : combine_deltas(d, e).weights[a] = d.weights[a] + e.weights[a]
  <1>1. PICK w : w = [a \in Payee |-> d.weights[a] + e.weights[a]]
    OBVIOUS
  <1>2. w \in [Payee -> Nat] /\ \A a \in Payee : w[a] = d.weights[a] + e.weights[a]
    BY <1>1 DEF DeltaType
  <1>3. combine_deltas(d, e) = [count |-> d.count + e.count, weights |-> w, total |-> d.total + e.total,
                                donation |-> d.donation + e.donation]
    BY <1>1 DEF combine_deltas
  <1> QED BY <1>2, <1>3 DEF DeltaType

\* Two of them are equal when all their parts are.
LEMMA SameDelta ==
  ASSUME NEW d \in DeltaType, NEW e \in DeltaType,
         d.count = e.count, d.total = e.total, d.donation = e.donation,
         \A a \in Payee : d.weights[a] = e.weights[a]
  PROVE  d = e
  <1>1. d.weights \in [Payee -> Nat] /\ e.weights \in [Payee -> Nat]
    BY DEF DeltaType
  <1>2. d.weights = e.weights
    BY <1>1
  <1> QED BY <1>2 DEF DeltaType

\* In which order jumps are put together is the same.
LEMMA CombineAssoc ==
  ASSUME NEW c \in DeltaType, NEW d \in DeltaType, NEW e \in DeltaType
  PROVE  combine_deltas(combine_deltas(c, d), e) = combine_deltas(c, combine_deltas(d, e))
  <1>1. PICK x \in DeltaType : x = combine_deltas(c, d)
    BY CombineType
  <1>2. PICK y \in DeltaType : y = combine_deltas(d, e)
    BY CombineType
  <1>3. PICK u \in DeltaType : u = combine_deltas(x, e)
    BY CombineType
  <1>4. PICK v \in DeltaType : v = combine_deltas(c, y)
    BY CombineType
  <1>5. u.count = v.count /\ u.total = v.total /\ u.donation = v.donation
    <2>1. x.count = c.count + d.count /\ y.count = d.count + e.count
          /\ u.count = x.count + e.count /\ v.count = c.count + y.count
      BY <1>1, <1>2, <1>3, <1>4, CombineType
    <2>2. x.total = c.total + d.total /\ y.total = d.total + e.total
          /\ u.total = x.total + e.total /\ v.total = c.total + y.total
      BY <1>1, <1>2, <1>3, <1>4, CombineType
    <2>3. x.donation = c.donation + d.donation /\ y.donation = d.donation + e.donation
          /\ u.donation = x.donation + e.donation /\ v.donation = c.donation + y.donation
      BY <1>1, <1>2, <1>3, <1>4, CombineType
    <2>4. /\ c.count \in Nat /\ d.count \in Nat /\ e.count \in Nat
          /\ c.total \in Nat /\ d.total \in Nat /\ e.total \in Nat
          /\ c.donation \in Nat /\ d.donation \in Nat /\ e.donation \in Nat
      BY DEF DeltaType
    <2> QED BY ONLY <2>1, <2>2, <2>3, <2>4
  <1>6. ASSUME NEW a \in Payee PROVE u.weights[a] = v.weights[a]
    <2>1. x.weights[a] = c.weights[a] + d.weights[a] /\ y.weights[a] = d.weights[a] + e.weights[a]
          /\ u.weights[a] = x.weights[a] + e.weights[a] /\ v.weights[a] = c.weights[a] + y.weights[a]
      BY <1>1, <1>2, <1>3, <1>4, CombineType
    <2>2. c.weights[a] \in Nat /\ d.weights[a] \in Nat /\ e.weights[a] \in Nat
      BY DEF DeltaType
    <2> QED BY ONLY <2>1, <2>2
  <1>7. u = v
    BY <1>5, <1>6, SameDelta
  <1> QED BY <1>1, <1>2, <1>3, <1>4, <1>7

\* Nothing that was added is lost in the sum.
LEMMA CombineCancel ==
  ASSUME NEW c \in DeltaType, NEW d \in DeltaType, NEW e \in DeltaType,
         combine_deltas(d, c) = combine_deltas(e, c)
  PROVE  d = e
  <1>1. PICK x \in DeltaType : x = combine_deltas(d, c) /\ x = combine_deltas(e, c)
    BY CombineType
  <1>2. /\ x.count = d.count + c.count /\ x.count = e.count + c.count
        /\ x.total = d.total + c.total /\ x.total = e.total + c.total
        /\ x.donation = d.donation + c.donation /\ x.donation = e.donation + c.donation
    BY <1>1, CombineType
  <1>3. d.count = e.count /\ d.total = e.total /\ d.donation = e.donation
    <2>1. /\ c.count \in Nat /\ d.count \in Nat /\ e.count \in Nat
          /\ c.total \in Nat /\ d.total \in Nat /\ e.total \in Nat
          /\ c.donation \in Nat /\ d.donation \in Nat /\ e.donation \in Nat
      BY DEF DeltaType
    <2> QED BY ONLY <1>2, <2>1
  <1>4. ASSUME NEW a \in Payee PROVE d.weights[a] = e.weights[a]
    <2>1. x.weights[a] = d.weights[a] + c.weights[a] /\ x.weights[a] = e.weights[a] + c.weights[a]
      BY <1>1, CombineType
    <2>2. c.weights[a] \in Nat /\ d.weights[a] \in Nat /\ e.weights[a] \in Nat
      BY DEF DeltaType
    <2> QED BY ONLY <2>1, <2>2
  <1> QED BY <1>3, <1>4, SameDelta

\* Zero adds nothing.
LEMMA CombineZero ==
  /\ Zero \in DeltaType /\ Zero.count = 0 /\ Zero.total = 0 /\ Zero.donation = 0
  /\ \A a \in Payee : Zero.weights[a] = 0
  /\ \A d \in DeltaType : combine_deltas(Zero, d) = d
  <1>1. /\ Zero \in DeltaType /\ Zero.count = 0 /\ Zero.total = 0 /\ Zero.donation = 0
        /\ \A a \in Payee : Zero.weights[a] = 0
    BY DEF Zero, DeltaType
  <1>2. ASSUME NEW d \in DeltaType PROVE combine_deltas(Zero, d) = d
    <2>1. PICK x \in DeltaType : x = combine_deltas(Zero, d)
      BY <1>1, CombineType
    <2>2. x.count = 0 + d.count /\ x.total = 0 + d.total /\ x.donation = 0 + d.donation
      BY <1>1, <2>1, CombineType
    <2>3. \A a \in Payee : x.weights[a] = 0 + d.weights[a]
      BY <1>1, <2>1, CombineType
    <2>4. d.count \in Nat /\ d.total \in Nat /\ d.donation \in Nat /\ \A a \in Payee : d.weights[a] \in Nat
      BY DEF DeltaType
    <2>5. x = d
      BY <2>2, <2>3, <2>4, SameDelta
    <2> QED BY <2>1, <2>5
  <1> QED BY <1>1, <1>2

-----------------------------------------------------------------------------
\* What the weights ask of shares: an address, a target below Space, a donation in Units.
\* A share that can be weighed, and shares that can be summed.
Weighs(r) == r.address \in Payee /\ r.bits \in Nat /\ r.bits < Space /\ r.donation \in 0 .. Unit
Chained(sh) == BackLinked(sh) /\ \A h \in 1 .. Len(sh) : Weighs(sh[h])

\* What a share adds.
DeltaIn(r) == Delta(r.address, target_to_average_attempts(r.bits), r.donation)

\* A target below 2^256 asks for at least one attempt.
LEMMA AttemptsArePositive ==
  ASSUME NEW t \in Nat, t < Space
  PROVE  target_to_average_attempts(t) \in Nat /\ target_to_average_attempts(t) >= 1
  <1>1. Space \in Nat /\ Space >= t + 1 /\ t + 1 \in Nat \ {0}
    BY PayoutsAssumption
  <1> QED BY <1>1 DEF target_to_average_attempts

\* A share adds one to the count and its work to the weights.
LEMMA DeltaInType ==
  ASSUME NEW r, Weighs(r)
  PROVE  /\ DeltaIn(r) \in DeltaType /\ DeltaIn(r).count = 1
         /\ DeltaIn(r).total > 0
         /\ DeltaIn(r).total \div Unit \in Nat \ {0}
         /\ (DeltaIn(r).total \div Unit) * Unit = DeltaIn(r).total
  <1>1. PICK n \in Nat : n = target_to_average_attempts(r.bits) /\ n >= 1
    BY AttemptsArePositive DEF Weighs
  <1>2. Unit \in Nat \ {0} /\ r.donation \in Nat /\ Unit - r.donation \in Nat
    BY UnitAssumption DEF Weighs
  <1>3. /\ n * Unit \in Nat /\ n * Unit > 0 /\ (n * Unit) \div Unit = n
        /\ n * r.donation \in Nat /\ n * (Unit - r.donation) \in Nat
    BY <1>1, <1>2
  <1>4. PICK w : w = [a \in Payee |-> IF a = r.address THEN n * (Unit - r.donation) ELSE 0]
    OBVIOUS
  <1>5. w \in [Payee -> Nat]
    BY <1>3, <1>4
  <1>6. DeltaIn(r) = [count |-> 1, weights |-> w, total |-> n * Unit, donation |-> n * r.donation]
    BY <1>1, <1>4 DEF DeltaIn, Delta
  <1> QED BY <1>1, <1>3, <1>5, <1>6 DEF DeltaType

\* A walk's sum grows by one share and never goes over.
LEMMA ApplyType ==
  ASSUME NEW sol \in DeltaType, NEW desired \in Nat, sol.total <= desired, NEW r, Weighs(r)
  PROVE  /\ apply_delta(sol, DeltaIn(r), desired) \in DeltaType
         /\ apply_delta(sol, DeltaIn(r), desired).count = sol.count + 1
         /\ apply_delta(sol, DeltaIn(r), desired).total <= desired
         /\ sol.total + DeltaIn(r).total <= desired =>
              apply_delta(sol, DeltaIn(r), desired) = combine_deltas(sol, DeltaIn(r))
         /\ sol.total + DeltaIn(r).total > desired =>
              apply_delta(sol, DeltaIn(r), desired).total = desired
  <1>1. PICK d \in DeltaType : d = DeltaIn(r) /\ d.count = 1 /\ d.total > 0 /\ d.total \div Unit \in Nat \ {0}
    BY DeltaInType
  <1>2. /\ sol.total \in Nat /\ d.total \in Nat /\ sol.count \in Nat
        /\ desired - sol.total \in Nat /\ Unit \in Nat \ {0}
    BY UnitAssumption DEF DeltaType
  <1>3. CASE sol.total + d.total <= desired
    <2>1. apply_delta(sol, d, desired) = combine_deltas(sol, d)
      BY <1>2, <1>3 DEF apply_delta
    <2> QED BY <1>1, <1>2, <1>3, <2>1, CombineType
  <1>4. CASE ~ (sol.total + d.total <= desired)
    <2> DEFINE room == desired - sol.total
    <2>1. PICK p : p = Part(d, room)
      OBVIOUS
    <2>2. room \div Unit \in Nat
      BY <1>2
    <2>3. \A x \in Nat : ((room \div Unit) * x) \div (d.total \div Unit) \in Nat
      <3> HIDE DEF room
      <3>1. PICK k \in Nat, t \in Nat \ {0} : k = room \div Unit /\ t = d.total \div Unit
        BY <1>1, <2>2
      <3>2. ASSUME NEW x \in Nat PROVE (k * x) \div t \in Nat
        <4>1. k * x \in Nat
          OBVIOUS
        <4> QED BY <4>1
      <3> QED BY <3>1, <3>2
    <2>4. PICK w : w = [a \in Payee |-> ((room \div Unit) * d.weights[a]) \div (d.total \div Unit)]
      OBVIOUS
    <2>5. w \in [Payee -> Nat]
      <3>1. \A a \in Payee : d.weights[a] \in Nat
        BY DEF DeltaType
      <3> QED BY <2>3, <2>4, <3>1
    <2>6. PICK m \in Nat : m = ((room \div Unit) * d.donation) \div (d.total \div Unit)
      <3>1. d.donation \in Nat
        BY DEF DeltaType
      <3> QED BY <2>3, <3>1
    <2>7. p = [count |-> 1, weights |-> w, total |-> room, donation |-> m]
      BY <2>1, <2>4, <2>6 DEF Part
    <2>8. p \in DeltaType /\ p.count = 1 /\ p.total = room
      BY <1>2, <2>5, <2>7 DEF DeltaType
    <2>9. apply_delta(sol, d, desired) = combine_deltas(sol, p)
      BY <1>1, <1>2, <1>4, <2>1 DEF apply_delta
    <2>10. combine_deltas(sol, p).total = sol.total + room /\ sol.total + room = desired
      BY <1>2, <2>8, CombineType
    <2> QED BY <1>1, <1>2, <1>4, <2>8, <2>9, <2>10, CombineType
  <1> QED BY <1>1, <1>3, <1>4

-----------------------------------------------------------------------------
\* What all the shares from one on add, down to the first of all.
Totals(c, sh) ==
  c = [h \in 0 .. Len(sh) |-> IF h = 0 THEN Zero
                              ELSE combine_deltas(DeltaIn(sh[h]), c[sh[h].previous])]
SumAll(sh, h) == (CHOOSE c : Totals(c, sh))[h]

\* The recursion of SumAll has a solution.
LEMMA TotalsExist ==
  ASSUME NEW sh, Chained(sh)
  PROVE  \E c \in [0 .. Len(sh) -> DeltaType] : Totals(c, sh)
  <1> DEFINE N == Len(sh)
             Body(c, h) == IF h = 0 THEN Zero ELSE combine_deltas(DeltaIn(sh[h]), c[sh[h].previous])
             Is(c, n) == c \in [0 .. N -> DeltaType] /\ \A h \in 0 .. n : c[h] = Body(c, h)
             T == {n \in 0 .. N : \E c : Is(c, n)}
  <1>0. /\ N \in Nat /\ 0 \in 0 .. N
        /\ \A h \in 1 .. N : /\ sh[h].previous \in 0 .. N /\ sh[h].previous < h
                             /\ DeltaIn(sh[h]) \in DeltaType
    <2>1. N \in Nat /\ 0 \in 0 .. N
      BY DEF Chained, BackLinked
    <2>2. ASSUME NEW h \in 1 .. Len(sh)
          PROVE  sh[h].previous \in 0 .. Len(sh) /\ sh[h].previous < h /\ DeltaIn(sh[h]) \in DeltaType
      BY PreviousIs, DeltaInType DEF Chained
    <2> QED BY <2>1, <2>2
  <1> HIDE DEF N
  <1>1. 0 \in T
    <2>1. PICK c : c = [h \in 0 .. N |-> Zero]
      OBVIOUS
    <2>2. c \in [0 .. N -> DeltaType] /\ c[0] = Zero
      BY <1>0, <2>1, CombineZero
    <2>3. \A h \in 0 .. 0 : h = 0
      OBVIOUS
    <2>4. Is(c, 0)
      BY <2>2, <2>3
    <2> HIDE DEF Is
    <2> QED BY <1>0, <2>4
  <1>2. ASSUME NEW n \in 1 .. N, n - 1 \in T PROVE n \in T
    <2>1. PICK c : Is(c, n - 1)
      BY <1>2
    <2>2. PICK e \in DeltaType : e = combine_deltas(DeltaIn(sh[n]), c[sh[n].previous])
      BY <1>0, <2>1, CombineType
    <2>3. PICK g : g = [c EXCEPT ![n] = e]
      OBVIOUS
    <2>4. g \in [0 .. N -> DeltaType] /\ \A h \in 0 .. N : g[h] = IF h = n THEN e ELSE c[h]
      BY <2>1, <2>2, <2>3
    <2>5. ASSUME NEW h \in 0 .. n PROVE g[h] = Body(g, h)
      <3>1. h \in 0 .. N /\ n \in 0 .. N /\ n # 0
        BY <1>0
      <3>2. CASE h = 0
        <4>1. 0 \in 0 .. n - 1
          BY <1>0
        <4> QED BY <2>1, <2>4, <3>1, <3>2, <4>1
      <3>3. CASE h # 0
        <4>1. h \in 1 .. N /\ sh[h].previous \in 0 .. N /\ sh[h].previous # n
          BY <1>0, <3>1, <3>3
        <4>2. g[sh[h].previous] = c[sh[h].previous]
          BY <2>4, <4>1
        <4>3. h = n \/ h \in 0 .. n - 1
          BY <1>0
        <4> QED BY <2>1, <2>2, <2>4, <3>1, <3>3, <4>2, <4>3
      <3> QED BY <3>2, <3>3
    <2>6. Is(g, n)
      BY <2>4, <2>5
    <2> HIDE DEF Is
    <2> QED BY <1>0, <2>6
  <1>3. N \in T
    <2> HIDE DEF T
    <2>1. \A n \in 0 .. N : n \in T
      BY <1>0, <1>1, <1>2, UpTo
    <2> QED BY <1>0, <2>1
  <1>4. PICK c : Is(c, N)
    BY <1>3
  <1>5. c = [h \in 0 .. N |-> Body(c, h)]
    <2> HIDE DEF Body
    <2> QED BY <1>4
  <1> QED BY <1>4, <1>5 DEF Totals, N

\* What it says of each share.
LEMMA SumAllSteps ==
  ASSUME NEW sh, Chained(sh)
  PROVE  /\ SumAll(sh, 0) = Zero
         /\ \A h \in 0 .. Len(sh) : SumAll(sh, h) \in DeltaType
         /\ \A h \in 1 .. Len(sh) :
              SumAll(sh, h) = combine_deltas(DeltaIn(sh[h]), SumAll(sh, sh[h].previous))
  <1> DEFINE C == CHOOSE c : Totals(c, sh)
  <1>0. Len(sh) \in Nat /\ 0 \in 0 .. Len(sh)
    BY DEF Chained, BackLinked
  <1>1. Totals(C, sh)
    BY TotalsExist
  <1> HIDE DEF C
  <1>2. \A h \in 0 .. Len(sh) :
          C[h] = IF h = 0 THEN Zero ELSE combine_deltas(DeltaIn(sh[h]), C[sh[h].previous])
    BY <1>1 DEF Totals
  <1> DEFINE T == {h \in 0 .. Len(sh) : C[h] \in DeltaType}
  <1>3. ASSUME NEW h \in 0 .. Len(sh), \A y \in 0 .. Len(sh) : y < h => y \in T
        PROVE  h \in T
    <2>1. CASE h = 0
      BY <1>2, <2>1, CombineZero
    <2>2. CASE h # 0
      <3>1. h \in 1 .. Len(sh)
        BY <1>0, <2>2
      <3>2. sh[h].previous \in 0 .. Len(sh) /\ sh[h].previous < h /\ DeltaIn(sh[h]) \in DeltaType
        BY <3>1, PreviousIs, DeltaInType DEF Chained
      <3>3. C[sh[h].previous] \in DeltaType
        BY <1>3, <3>2
      <3>4. combine_deltas(DeltaIn(sh[h]), C[sh[h].previous]) \in DeltaType
        BY <3>2, <3>3, CombineType
      <3> QED BY <1>2, <2>2, <3>4
    <2> QED BY <2>1, <2>2
  <1>4. \A h \in 0 .. Len(sh) : C[h] \in DeltaType
    <2>1. \A h \in 0 .. Len(sh) : h \in T
      <3> HIDE DEF T
      <3> QED BY <1>0, <1>3, ByShares
    <2> QED BY <2>1
  <1>5. \A h \in 1 .. Len(sh) : h \in 0 .. Len(sh) /\ h # 0
    BY <1>0
  <1>6. \A h : SumAll(sh, h) = C[h]
    BY DEF SumAll, C
  <1> QED BY <1>0, <1>2, <1>4, <1>5, <1>6

\* d is what the shares from x down to y add, y not included.
Spans(sh, d, x, y) ==
  /\ d \in DeltaType /\ d.count <= DepthOf(sh, x) /\ y = NthBack(sh, x, d.count)
  /\ combine_deltas(d, SumAll(sh, y)) = SumAll(sh, x)

\* Where a sum leads.
LEMMA SpansIn ==
  ASSUME NEW sh, Chained(sh), NEW x \in 0 .. Len(sh), NEW d, NEW y, Spans(sh, d, x, y)
  PROVE  /\ d \in DeltaType /\ d.count \in 0 .. DepthOf(sh, x) /\ DepthOf(sh, x) \in Nat
         /\ y \in 0 .. Len(sh) /\ DepthOf(sh, y) = DepthOf(sh, x) - d.count
         /\ d.count < DepthOf(sh, x) <=> y # 0
  <1>1. d \in DeltaType /\ d.count \in Nat /\ DepthOf(sh, x) \in Nat /\ d.count \in 0 .. DepthOf(sh, x)
    <2>1. d.count \in Nat /\ DepthOf(sh, x) \in Nat /\ d.count <= DepthOf(sh, x)
      BY LineSteps DEF Spans, DeltaType, Chained
    <2> QED BY <2>1 DEF Spans
  <1>2. GoesBack(sh, x)
    BY AtBack DEF Chained
  <1>3. y = NthBack(sh, x, d.count)
    BY DEF Spans
  <1>4. /\ y \in 0 .. Len(sh) /\ DepthOf(sh, y) = DepthOf(sh, x) - d.count
        /\ d.count < DepthOf(sh, x) => y \in 1 .. Len(sh)
        /\ d.count = DepthOf(sh, x) => y = 0
    BY <1>1, <1>2, <1>3 DEF GoesBack
  <1> QED BY <1>1, <1>4

\* Two jumps in a row are one.
LEMMA SpansCompose ==
  ASSUME NEW sh, Chained(sh), NEW x \in 0 .. Len(sh), NEW d, NEW y, Spans(sh, d, x, y),
         NEW e, NEW z, Spans(sh, e, y, z)
  PROVE  Spans(sh, combine_deltas(d, e), x, z)
  <1>1. /\ d \in DeltaType /\ d.count \in 0 .. DepthOf(sh, x) /\ DepthOf(sh, x) \in Nat
        /\ y \in 0 .. Len(sh) /\ DepthOf(sh, y) = DepthOf(sh, x) - d.count
    BY SpansIn
  <1>2. e \in DeltaType /\ e.count \in 0 .. DepthOf(sh, y) /\ z \in 0 .. Len(sh)
    BY <1>1, SpansIn
  <1>3. PICK s \in DeltaType : s = combine_deltas(d, e) /\ s.count = d.count + e.count
    BY <1>1, <1>2, CombineType
  <1>4. GoesBack(sh, x)
    BY AtBack DEF Chained
  <1>5. d.count + e.count <= DepthOf(sh, x) /\ e.count \in 0 .. DepthOf(sh, x) - d.count
    BY <1>1, <1>2
  <1>6. NthBack(sh, NthBack(sh, x, d.count), e.count) = NthBack(sh, x, d.count + e.count)
    BY <1>1, <1>4, <1>5 DEF GoesBack
  <1>7. z = NthBack(sh, x, s.count)
    BY <1>3, <1>6 DEF Spans
  <1>8. combine_deltas(s, SumAll(sh, z)) = SumAll(sh, x)
    <2>1. SumAll(sh, z) \in DeltaType
      BY <1>2, SumAllSteps
    <2>2. combine_deltas(s, SumAll(sh, z)) = combine_deltas(d, combine_deltas(e, SumAll(sh, z)))
      BY <1>1, <1>2, <1>3, <2>1, CombineAssoc
    <2>3. combine_deltas(e, SumAll(sh, z)) = SumAll(sh, y) /\ combine_deltas(d, SumAll(sh, y)) = SumAll(sh, x)
      BY DEF Spans
    <2> QED BY <2>2, <2>3
  <1> QED BY <1>3, <1>5, <1>7, <1>8 DEF Spans

\* No share adds nothing.
LEMMA SpansNone ==
  ASSUME NEW sh, Chained(sh), NEW x \in 0 .. Len(sh)
  PROVE  Spans(sh, Zero, x, x)
  <1>1. SumAll(sh, x) \in DeltaType
    BY SumAllSteps
  <1>2. NthBack(sh, x, 0) = x /\ DepthOf(sh, x) \in Nat
    BY AtSteps, LineSteps DEF Chained
  <1> QED BY <1>1, <1>2, CombineZero DEF Spans

\* The step to the share before is a jump.
LEMMA SpansOne ==
  ASSUME NEW sh, Chained(sh), NEW x \in 1 .. Len(sh)
  PROVE  Spans(sh, DeltaIn(sh[x]), x, sh[x].previous)
  <1>1. DeltaIn(sh[x]) \in DeltaType /\ DeltaIn(sh[x]).count = 1
    BY DeltaInType DEF Chained
  <1>2. SumAll(sh, x) = combine_deltas(DeltaIn(sh[x]), SumAll(sh, sh[x].previous))
    BY SumAllSteps
  <1>3. DepthOf(sh, x) \in Nat /\ 1 \in 1 .. DepthOf(sh, x) /\ NthBack(sh, x, 1) = sh[x].previous
    <2>1. /\ sh[x].previous \in 0 .. Len(sh) /\ DepthOf(sh, sh[x].previous) \in Nat
          /\ DepthOf(sh, x) = DepthOf(sh, sh[x].previous) + 1
      BY LineSteps DEF Chained
    <2>2. 1 \in 1 .. DepthOf(sh, x) /\ 1 - 1 = 0 /\ DepthOf(sh, x) \in Nat
      BY <2>1
    <2>3. NthBack(sh, x, 1) = NthBack(sh, sh[x].previous, 1 - 1)
      BY <2>2, AtSteps DEF Chained
    <2>4. NthBack(sh, sh[x].previous, 0) = sh[x].previous
      BY <2>1, AtSteps DEF Chained
    <2> QED BY <2>2, <2>3, <2>4
  <1> QED BY <1>1, <1>2, <1>3 DEF Spans

\* The count of a jump says what it adds and where it leads.
LEMMA SpansUnique ==
  ASSUME NEW sh, Chained(sh), NEW x \in 0 .. Len(sh), NEW d, NEW y, Spans(sh, d, x, y),
         NEW e, NEW z, Spans(sh, e, x, z), d.count = e.count
  PROVE  d = e /\ y = z
  <1>1. y = z
    BY DEF Spans
  <1>2. SumAll(sh, y) \in DeltaType
    BY SpansIn, SumAllSteps
  <1> QED BY <1>1, <1>2, CombineCancel DEF Spans

-----------------------------------------------------------------------------
\* The plain sum: share after share from s on, and where it ends.
Within(desired) == {d \in DeltaType : d.total <= desired}
AlongLine(f, sh, s, n, desired) ==
  /\ f \in [0 .. n -> Within(desired)]
  /\ f[0] = Zero
  /\ \A k \in 1 .. n : f[k] = apply_delta(f[k - 1], DeltaIn(sh[NthBack(sh, s, k - 1)]), desired)

\* sol is the plain sum of max shares from s on, or of as many as there is room for.
EndsAt(f, n, max, desired) ==
  (\A k \in 0 .. n - 1 : f[k].total < desired) /\ (n = max \/ f[n].total = desired)
Answer(sol, sh, s, max, desired) ==
  \E n \in 0 .. max : \E f : AlongLine(f, sh, s, n, desired) /\ EndsAt(f, n, max, desired) /\ sol = f[n]

\* The shares of a chain can be summed one after another.
LEMMA AlongLineExists ==
  ASSUME NEW sh, Chained(sh), NEW s \in 0 .. Len(sh), NEW N \in 0 .. DepthOf(sh, s), NEW desired \in Nat
  PROVE  \E f : AlongLine(f, sh, s, N, desired)
  <1> DEFINE T == {n \in 0 .. N : \E f : AlongLine(f, sh, s, n, desired)}
  <1>0. N \in Nat /\ DepthOf(sh, s) \in Nat /\ 0 \in 0 .. N /\ N \in 0 .. N
    BY LineSteps DEF Chained
  <1>1. 0 \in T
    <2>1. PICK f : f = [k \in 0 .. 0 |-> Zero]
      OBVIOUS
    <2>2. Zero \in Within(desired)
      BY CombineZero DEF Within
    <2>3. AlongLine(f, sh, s, 0, desired)
      BY <2>1, <2>2 DEF AlongLine
    <2> QED BY <1>0, <2>3
  <1>2. ASSUME NEW n \in 1 .. N, n - 1 \in T PROVE n \in T
    <2>1. PICK f : AlongLine(f, sh, s, n - 1, desired)
      BY <1>2
    <2>2. n - 1 \in 0 .. DepthOf(sh, s) /\ n - 1 < DepthOf(sh, s) /\ n - 1 \in 0 .. n - 1 /\ n \in 0 .. N
      BY <1>0
    <2>3. NthBack(sh, s, n - 1) \in 1 .. Len(sh)
      BY <2>2, AtBack DEF GoesBack, Chained
    <2>4. PICK r : r = sh[NthBack(sh, s, n - 1)] /\ Weighs(r)
      BY <2>3 DEF Chained
    <2>5. f[n - 1] \in Within(desired)
      BY <2>1, <2>2 DEF AlongLine
    <2>6. PICK e \in Within(desired) : e = apply_delta(f[n - 1], DeltaIn(r), desired)
      BY <2>4, <2>5, ApplyType DEF Within
    <2>7. PICK g : g = [k \in 0 .. n |-> IF k = n THEN e ELSE f[k]]
      OBVIOUS
    <2>8. \A k \in 0 .. n : k = n \/ k \in 0 .. n - 1
      OBVIOUS
    <2>9. g \in [0 .. n -> Within(desired)]
      BY <2>1, <2>6, <2>7, <2>8 DEF AlongLine
    <2>10. g[0] = Zero
      <3>1. 0 \in 0 .. n - 1 /\ 0 \in 0 .. n /\ 0 # n
        OBVIOUS
      <3> QED BY <2>1, <2>7, <3>1 DEF AlongLine
    <2>11. ASSUME NEW k \in 1 .. n
           PROVE  g[k] = apply_delta(g[k - 1], DeltaIn(sh[NthBack(sh, s, k - 1)]), desired)
      <3>1. k - 1 \in 0 .. n /\ k - 1 # n /\ k \in 0 .. n
        OBVIOUS
      <3>2. CASE k = n
        BY <2>4, <2>6, <2>7, <3>1, <3>2
      <3>3. CASE k # n
        <4>1. k \in 1 .. n - 1
          BY <3>3
        <4>2. f[k] = apply_delta(f[k - 1], DeltaIn(sh[NthBack(sh, s, k - 1)]), desired)
          BY <2>1, <4>1 DEF AlongLine
        <4> QED BY <2>7, <3>1, <3>3, <4>2
      <3> QED BY <3>2, <3>3
    <2>12. AlongLine(g, sh, s, n, desired)
      BY <2>9, <2>10, <2>11 DEF AlongLine
    <2> QED BY <2>2, <2>12
  <1>3. \A n \in 0 .. N : n \in T
    <2> HIDE DEF T
    <2> QED BY <1>0, <1>1, <1>2, UpTo
  <1> QED BY <1>0, <1>3

\* The sum of the first shares does not depend on how many are summed.
LEMMA AlongLineSame ==
  ASSUME NEW sh, NEW s, NEW N \in Nat, NEW M \in Nat, N <= M, NEW desired,
         NEW f, AlongLine(f, sh, s, N, desired), NEW g, AlongLine(g, sh, s, M, desired)
  PROVE  \A k \in 0 .. N : f[k] = g[k]
  <1> DEFINE T == {k \in 0 .. N : f[k] = g[k]}
  <1>1. 0 \in T
    BY DEF AlongLine
  <1>2. ASSUME NEW n \in 1 .. N, n - 1 \in T PROVE n \in T
    <2>1. n \in 1 .. M /\ n \in 0 .. N /\ n - 1 \in 0 .. N
      OBVIOUS
    <2>2. f[n - 1] = g[n - 1]
      BY <1>2
    <2>3. f[n] = apply_delta(f[n - 1], DeltaIn(sh[NthBack(sh, s, n - 1)]), desired)
      BY DEF AlongLine
    <2>4. g[n] = apply_delta(g[n - 1], DeltaIn(sh[NthBack(sh, s, n - 1)]), desired)
      BY <2>1 DEF AlongLine
    <2> QED BY <2>1, <2>2, <2>3, <2>4
  <1>3. \A k \in 0 .. N : k \in T
    <2> HIDE DEF T
    <2> QED BY <1>1, <1>2, UpTo
  <1> QED BY <1>3

\* There is one plain sum.
LEMMA AnswerIsOne ==
  ASSUME NEW sh, NEW s, NEW max \in Nat, NEW desired \in Nat,
         NEW sol, Answer(sol, sh, s, max, desired), NEW other, Answer(other, sh, s, max, desired)
  PROVE  sol = other
  <1>n. PICK n \in 0 .. max : \E f : AlongLine(f, sh, s, n, desired) /\ EndsAt(f, n, max, desired) /\ sol = f[n]
    BY DEF Answer
  <1>1. PICK f : AlongLine(f, sh, s, n, desired) /\ EndsAt(f, n, max, desired) /\ sol = f[n]
    BY <1>n
  <1>m. PICK m \in 0 .. max : \E g : AlongLine(g, sh, s, m, desired) /\ EndsAt(g, m, max, desired) /\ other = g[m]
    BY DEF Answer
  <1>2. PICK g : AlongLine(g, sh, s, m, desired) /\ EndsAt(g, m, max, desired) /\ other = g[m]
    BY <1>m
  <1>3. ASSUME NEW i \in 0 .. max, NEW j \in 0 .. max, NEW e, NEW h, i < j,
               AlongLine(e, sh, s, i, desired), EndsAt(e, i, max, desired),
               AlongLine(h, sh, s, j, desired), EndsAt(h, j, max, desired)
        PROVE  FALSE
    <2>1. i \in 0 .. i /\ i \in 0 .. j - 1 /\ i # max /\ i \in Nat /\ j \in Nat /\ i <= j /\ i \in 0 .. j
      BY <1>3
    <2>2. e[i] = h[i]
      BY ONLY <1>3, <2>1, AlongLineSame
    <2>3. e[i].total = desired /\ h[i].total < desired
      BY <1>3, <2>1 DEF EndsAt
    <2>4. h[i].total \in Nat
      <3>1. h[i] \in Within(desired)
        BY <1>3, <2>1 DEF AlongLine
      <3> QED BY <3>1 DEF Within, DeltaType
    <2> QED BY <2>2, <2>3, <2>4
  <1>4. n \in Nat /\ m \in Nat /\ n \in 0 .. n
    OBVIOUS
  <1>5. n = m
    <2>1. ~ (n < m)
      BY <1>1, <1>2, <1>3
    <2>2. ~ (m < n)
      BY <1>1, <1>2, <1>3
    <2> QED BY <1>4, <2>1, <2>2
  <1>6. f[n] = g[n]
    BY <1>1, <1>2, <1>4, <1>5, AlongLineSame
  <1> QED BY <1>1, <1>2, <1>5, <1>6

\* While there is room for whole shares, the plain sum is what they add.
LEMMA ExactSoFar ==
  ASSUME NEW sh, Chained(sh), NEW s \in 0 .. Len(sh), NEW N \in 0 .. DepthOf(sh, s), NEW desired \in Nat,
         NEW f, AlongLine(f, sh, s, N, desired)
  PROVE  \A d, y : Spans(sh, d, s, y) /\ d.count <= N /\ d.total <= desired =>
           f[d.count] = d /\ \A k \in 0 .. d.count - 1 : f[k].total < desired
  <1> DEFINE Ok(n) == /\ \E d, y : Spans(sh, d, s, y) /\ d.count = n
                      /\ \A d, y : Spans(sh, d, s, y) /\ d.count = n /\ d.total <= desired =>
                           f[n] = d /\ \A k \in 0 .. n - 1 : f[k].total < desired
             T == {n \in 0 .. N : Ok(n)}
  <1>0. N \in Nat /\ DepthOf(sh, s) \in Nat /\ 0 \in 0 .. N
    BY LineSteps DEF Chained
  <1>1. 0 \in T
    <2>1. Spans(sh, Zero, s, s) /\ Zero.count = 0
      BY SpansNone, CombineZero
    <2>2. ASSUME NEW d, NEW y, Spans(sh, d, s, y), d.count = 0
          PROVE  d = Zero
      BY <2>1, <2>2, SpansUnique
    <2>3. f[0] = Zero /\ 0 .. 0 - 1 = {}
      BY DEF AlongLine
    <2>4. Ok(0)
      BY <2>1, <2>2, <2>3
    <2> QED BY <1>0, <2>4
  <1>2. ASSUME NEW n \in 1 .. N, n - 1 \in T PROVE n \in T
    <2>1. PICK e, x : Spans(sh, e, s, x) /\ e.count = n - 1
      BY <1>2
    <2>2. e \in DeltaType /\ x = NthBack(sh, s, n - 1) /\ x \in 1 .. Len(sh)
      <3>1. e \in DeltaType /\ x \in 0 .. Len(sh) /\ x # 0
        <4>1. e.count < DepthOf(sh, s)
          BY <1>0, <2>1
        <4> QED BY <2>1, <4>1, SpansIn
      <3> QED BY <2>1, <3>1 DEF Spans
    <2>3. Spans(sh, DeltaIn(sh[x]), x, sh[x].previous)
      BY <2>2, SpansOne
    <2>4. PICK g : g = DeltaIn(sh[x])
      OBVIOUS
    <2>5. g \in DeltaType /\ g.count = 1 /\ g.total > 0
      BY <2>2, <2>4, DeltaInType DEF Chained
    <2>6. PICK c \in DeltaType : c = combine_deltas(e, g) /\ c.count = n /\ c.total = e.total + g.total
      <3>1. n - 1 + 1 = n
        OBVIOUS
      <3> QED BY <2>1, <2>2, <2>5, <3>1, CombineType
    <2>7. Spans(sh, c, s, sh[x].previous)
      BY ONLY <2>1, <2>3, <2>4, <2>6, SpansCompose, Chained(sh), s \in 0 .. Len(sh)
    <2>8. ASSUME NEW d, NEW y, Spans(sh, d, s, y), d.count = n, d.total <= desired
          PROVE  f[n] = d /\ \A k \in 0 .. n - 1 : f[k].total < desired
      <3>1. d = c
        BY <2>6, <2>7, <2>8, SpansUnique
      <3>2. e.total \in Nat /\ g.total \in Nat
        BY <2>2, <2>5 DEF DeltaType
      <3>3. e.total < desired /\ e.total <= desired /\ e.total + g.total <= desired
        BY <2>5, <2>6, <2>8, <3>1, <3>2
      <3>4. f[n - 1] = e /\ \A k \in 0 .. n - 1 - 1 : f[k].total < desired
        BY <1>2, <2>1, <3>3
      <3>5. f[n] = apply_delta(e, g, desired)
        BY <2>2, <2>4, <3>4 DEF AlongLine
      <3>6. f[n] = c
        BY <2>2, <2>4, <2>6, <3>3, <3>5, ApplyType DEF Chained
      <3>7. ASSUME NEW k \in 0 .. n - 1 PROVE f[k].total < desired
        <4>1. k = n - 1 \/ k \in 0 .. n - 1 - 1
          OBVIOUS
        <4> QED BY <3>3, <3>4, <4>1
      <3> QED BY <3>1, <3>6, <3>7
    <2>9. Ok(n)
      BY <2>6, <2>7, <2>8
    <2>10. n \in 0 .. N
      OBVIOUS
    <2> QED BY <2>9, <2>10
  <1>3. \A n \in 0 .. N : n \in T
    <2> HIDE DEF T
    <2> QED BY <1>0, <1>1, <1>2, UpTo
  <1>4. ASSUME NEW d, NEW y, Spans(sh, d, s, y), d.count <= N, d.total <= desired
        PROVE  f[d.count] = d /\ \A k \in 0 .. d.count - 1 : f[k].total < desired
    <2>1. d.count \in 0 .. N
      <3>1. d.count \in Nat
        BY <1>4 DEF Spans, DeltaType
      <3> QED BY <1>0, <1>4, <3>1
    <2>2. Ok(d.count)
      BY <1>3, <2>1
    <2> QED BY <1>4, <2>2
  <1> QED BY <1>4

\* More shares change no plain sum.
LEMMA AnswerExtended ==
  ASSUME NEW sh, Chained(sh), NEW more, Chained(more), Len(sh) <= Len(more),
         \A h \in 1 .. Len(sh) : more[h] = sh[h],
         NEW s \in 0 .. Len(sh), NEW max \in 0 .. DepthOf(sh, s), NEW desired,
         NEW sol, Answer(sol, sh, s, max, desired)
  PROVE  Answer(sol, more, s, max, desired)
  <1>n. PICK n \in 0 .. max : \E f : AlongLine(f, sh, s, n, desired) /\ EndsAt(f, n, max, desired) /\ sol = f[n]
    BY DEF Answer
  <1>1. PICK f : AlongLine(f, sh, s, n, desired) /\ EndsAt(f, n, max, desired) /\ sol = f[n]
    BY <1>n
  <1>2. \A k : NthBack(more, s, k) = NthBack(sh, s, k)
    BY LineExtended DEF Chained
  <1>3. DepthOf(sh, s) \in Nat /\ max \in Nat
    BY LineSteps DEF Chained
  <1>4. ASSUME NEW k \in 1 .. n
        PROVE  more[NthBack(more, s, k - 1)] = sh[NthBack(sh, s, k - 1)]
    <2>1. k - 1 \in 0 .. DepthOf(sh, s) /\ k - 1 < DepthOf(sh, s)
      BY <1>3
    <2>2. NthBack(sh, s, k - 1) \in 1 .. Len(sh)
      BY <2>1, AtBack DEF GoesBack, Chained
    <2> QED BY <1>2, <2>2
  <1>5. AlongLine(f, more, s, n, desired)
    BY <1>1, <1>4 DEF AlongLine
  <1> QED BY <1>1, <1>5 DEF Answer

\* The paths of Chain are the walks of FoldLemmas.
LEMMA PathIsWalk == \A S, x : PathIn(S, x) = Walk(share, S, x)
  BY DEF PathIn, Walk, Steps

\* PlainWeights is the plain sum.
LEMMA PlainIsAnswer ==
  ASSUME Chained(share), DOMAIN share = 1 .. Len(share),
         NEW s \in 0 .. Len(share), NEW max \in 0 .. DepthOf(share, s), NEW desired \in Nat
  PROVE  Answer(PlainWeights(s, max, desired), share, s, max, desired)
  <1> DEFINE path == FullPath(s)
             Body(g, n) == IF n = 0 \/ n > max THEN Zero
                           ELSE apply_delta(g[n - 1], get_delta(path[n]), desired)
             S == CHOOSE g : g = [n \in 0 .. Len(path) |-> Body(g, n)]
             Is(n) == /\ n = max \/ S[n].total = desired
                      /\ \A k \in 0 .. n - 1 : S[k].total < desired
             last == CHOOSE n \in 0 .. Len(path) : Is(n)
  <1>1. PlainWeights(s, max, desired) = S[last]
    BY DEF PlainWeights
  <1>2. /\ path = Line(share, s) /\ Len(path) = DepthOf(share, s)
        /\ max \in Nat /\ DepthOf(share, s) \in Nat /\ max <= DepthOf(share, s)
    <2>1. path = Walk(share, DOMAIN share, s)
      BY PathIsWalk DEF FullPath
    <2>2. DepthOf(share, s) \in Nat
      BY LineSteps DEF Chained
    <2> QED BY <2>1, <2>2 DEF Line, DepthOf
  <1>3. ASSUME NEW n \in 1 .. max
        PROVE  get_delta(path[n]) = DeltaIn(share[NthBack(share, s, n - 1)])
    <2>1. path[n] = NthBack(share, s, n - 1)
      <3>1. n - 1 # DepthOf(share, s) /\ n - 1 + 1 = n
        BY <1>2
      <3> QED BY <1>2, <3>1 DEF NthBack
    <2>2. NthBack(share, s, n - 1) \in 1 .. Len(share)
      <3>1. n - 1 \in 0 .. DepthOf(share, s) /\ n - 1 < DepthOf(share, s)
        BY <1>2
      <3> QED BY <3>1, AtBack DEF GoesBack, Chained
    <2> QED BY <2>1, <2>2 DEF get_delta, DeltaIn, Attempts
  <1> HIDE DEF path
  <1>4. \E g : g = [n \in 0 .. Len(path) |-> Body(g, n)]
    <2>1. PICK f : AlongLine(f, share, s, max, desired)
      BY AlongLineExists
    <2>2. PICK g : g = [n \in 0 .. Len(path) |-> IF n > max THEN Zero ELSE f[n]]
      OBVIOUS
    <2>3. ASSUME NEW n \in 0 .. Len(path) PROVE g[n] = Body(g, n)
      <3>1. CASE n > max
        BY <2>2, <3>1
      <3>2. CASE n = 0
        BY <1>2, <2>1, <2>2, <3>2 DEF AlongLine
      <3>3. CASE ~ (n > max) /\ n # 0
        <4>1. n \in 1 .. max /\ n - 1 \in 0 .. Len(path) /\ ~ (n - 1 > max)
          BY <1>2, <3>3
        <4>2. g[n - 1] = f[n - 1] /\ g[n] = f[n]
          BY <2>2, <3>3, <4>1
        <4>3. f[n] = apply_delta(f[n - 1], DeltaIn(share[NthBack(share, s, n - 1)]), desired)
          BY <2>1, <4>1 DEF AlongLine
        <4> QED BY <1>3, <3>3, <4>1, <4>2, <4>3
      <3> QED BY <3>1, <3>2, <3>3
    <2>4. g = [n \in 0 .. Len(path) |-> Body(g, n)]
      <3> HIDE DEF Body
      <3> QED BY <2>2, <2>3
    <2> QED BY <2>4
  <1>5. \A n \in 0 .. Len(path) : S[n] = Body(S, n)
    <2>1. S = [n \in 0 .. Len(path) |-> Body(S, n)]
      <3> HIDE DEF Body
      <3> QED BY <1>4
    <2> HIDE DEF S, Body
    <2> QED BY <2>1
  <1> HIDE DEF S
  <1>6. PICK f : AlongLine(f, share, s, max, desired)
    BY AlongLineExists
  <1>7. \A n \in 0 .. max : S[n] = f[n]
    <2> DEFINE T == {n \in 0 .. max : S[n] = f[n]}
    <2>1. 0 \in T
      BY <1>2, <1>5, <1>6 DEF AlongLine
    <2>2. ASSUME NEW n \in 1 .. max, n - 1 \in T PROVE n \in T
      <3>1. n \in 0 .. Len(path) /\ n # 0 /\ ~ (n > max) /\ n \in 0 .. max
        BY <1>2
      <3>2. S[n] = apply_delta(S[n - 1], get_delta(path[n]), desired)
        BY <1>5, <3>1
      <3>3. f[n] = apply_delta(f[n - 1], DeltaIn(share[NthBack(share, s, n - 1)]), desired)
        BY <1>6 DEF AlongLine
      <3>4. S[n] = f[n]
        BY <1>3, <2>2, <3>2, <3>3
      <3> QED BY <3>1, <3>4
    <2> HIDE DEF T
    <2>3. \A n \in 0 .. max : n \in T
      BY <1>2, <2>1, <2>2, UpTo
    <2> QED BY <2>3 DEF T
  <1>8. \A n \in 0 .. max : f[n].total \in Nat /\ f[n].total <= desired
    <2>1. \A n \in 0 .. max : f[n] \in Within(desired)
      BY <1>6 DEF AlongLine
    <2> QED BY <2>1 DEF Within, DeltaType
  <1>9. PICK n \in 0 .. max : Is(n)
    <2> DEFINE U == {n \in 0 .. max : n = max \/ S[n].total = desired}
    <2>1. U \in SUBSET Nat /\ max \in U
      BY <1>2
    <2>2. PICK n \in U : \A k \in U : n <= k
      <3> HIDE DEF U
      <3> QED BY <2>1, LeastNumber
    <2>3. ASSUME NEW k \in 0 .. n - 1 PROVE S[k].total < desired
      <3>1. k \in 0 .. max /\ k # max /\ ~ (n <= k)
        BY <1>2, <2>2
      <3>2. k \notin U
        BY <2>2, <3>1
      <3>3. S[k].total # desired
        BY <3>1, <3>2
      <3> QED BY <1>7, <1>8, <3>1, <3>3
    <2> QED BY <2>2, <2>3
  <1>10. last \in 0 .. Len(path) /\ Is(last)
    <2>1. n \in 0 .. Len(path)
      BY <1>2
    <2> HIDE DEF Is
    <2> QED BY <1>9, <2>1
  <1> HIDE DEF last
  <1>11. last \in 0 .. max
    <2>1. SUFFICES ASSUME last > max PROVE FALSE
      BY <1>2, <1>10
    <2>2. S[last] = Zero /\ S[last].total = desired
      BY <1>2, <1>5, <1>10, <2>1
    <2>3. max \in 0 .. last - 1 /\ max \in 0 .. max
      BY <1>2, <1>10, <2>1
    <2>4. S[max].total < desired /\ S[max].total \in Nat
      BY <1>7, <1>8, <1>10, <2>3
    <2> QED BY <2>2, <2>4, CombineZero
  <1>12. PICK h : h = [k \in 0 .. last |-> f[k]]
    OBVIOUS
  <1>13. AlongLine(h, share, s, last, desired)
    <2>1. \A k \in 0 .. last : k \in 0 .. max
      BY <1>2, <1>11
    <2>2. h \in [0 .. last -> Within(desired)]
      BY <1>6, <1>12, <2>1 DEF AlongLine
    <2>3. h[0] = Zero
      BY <1>6, <1>11, <1>12 DEF AlongLine
    <2>4. ASSUME NEW k \in 1 .. last
          PROVE  h[k] = apply_delta(h[k - 1], DeltaIn(share[NthBack(share, s, k - 1)]), desired)
      <3>1. k \in 0 .. last /\ k - 1 \in 0 .. last /\ k \in 1 .. max
        BY <1>11
      <3> QED BY <1>6, <1>12, <3>1 DEF AlongLine
    <2> QED BY <2>2, <2>3, <2>4 DEF AlongLine
  <1>14. EndsAt(h, last, max, desired) /\ S[last] = h[last]
    <2>1. \A k \in 0 .. last : h[k] = S[k]
      BY <1>2, <1>7, <1>11, <1>12
    <2>2. last \in 0 .. last /\ \A k \in 0 .. last - 1 : k \in 0 .. last
      BY <1>11
    <2> QED BY <1>10, <2>1, <2>2 DEF EndsAt
  <1> QED BY <1>1, <1>11, <1>13, <1>14 DEF Answer

-----------------------------------------------------------------------------
\* The jumps of a skip list, all true of the shares sh: each leads where it says and adds what
\* lies between, the first of a share is the step to the share before.
JumpType == [to : Nat, delta : DeltaType]
WaitType == [from : Nat, delta : DeltaType]

RowTrue(row, sh, h) ==
  /\ row \in Seq(JumpType) /\ Len(row) >= 1 /\ row[1].delta.count = 1
  /\ \A i \in 1 .. Len(row) : row[i].delta.count >= 1 /\ Spans(sh, row[i].delta, h, row[i].to)
SkipsTrue(sk, sh) ==
  /\ DOMAIN sk \subseteq 1 .. Len(sh) /\ sk = [h \in DOMAIN sk |-> sk[h]]
  /\ \A h \in DOMAIN sk : RowTrue(sk[h], sh, h)

\* What waits to be filled in is true too.
WaitsTrue(up, sk, sh, pos) ==
  \A i \in DOMAIN up : /\ up[i] \in WaitType /\ up[i].from \in DOMAIN sk
                       /\ Spans(sh, up[i].delta, up[i].from, pos)
Summed(up) == \A i \in DOMAIN up : up[i].delta.count >= 1

\* The jumps that end at pos are filled in one by one.
Filled(fill, begun, up, ending, pos, len) ==
  fill = [i \in 0 .. len |->
            IF i = 0 THEN begun
            ELSE IF i - 1 \notin ending THEN fill[i - 1]
            ELSE [fill[i - 1] EXCEPT ![up[i - 1].from] =
                    Append(@, [to |-> pos, delta |-> up[i - 1].delta])]]

\* The recursion that fills in the jumps has a solution.
LEMMA FillExists ==
  ASSUME NEW begun, NEW up, NEW ending, NEW pos, NEW len \in Nat
  PROVE  \E fill : Filled(fill, begun, up, ending, pos, len)
  <1> DEFINE Body(f, i) == IF i = 0 THEN begun
                           ELSE IF i - 1 \notin ending THEN f[i - 1]
                           ELSE [f[i - 1] EXCEPT ![up[i - 1].from] =
                                   Append(@, [to |-> pos, delta |-> up[i - 1].delta])]
             Is(f, n) == f = [i \in 0 .. n |-> f[i]] /\ \A i \in 0 .. n : f[i] = Body(f, i)
             T == {n \in 0 .. len : \E f : Is(f, n)}
  <1>1. 0 \in T
    <2>1. PICK f : f = [i \in 0 .. 0 |-> begun]
      OBVIOUS
    <2>2. Is(f, 0)
      BY <2>1
    <2> HIDE DEF Is
    <2> QED BY <2>2
  <1>2. ASSUME NEW n \in 1 .. len, n - 1 \in T PROVE n \in T
    <2>1. PICK f : Is(f, n - 1)
      BY <1>2
    <2>2. PICK e : e = Body(f, n)
      OBVIOUS
    <2>3. PICK g : g = [i \in 0 .. n |-> IF i = n THEN e ELSE f[i]]
      OBVIOUS
    <2>4. ASSUME NEW i \in 0 .. n PROVE g[i] = Body(g, i)
      <3>1. i = n \/ i \in 0 .. n - 1
        OBVIOUS
      <3>2. i # 0 => i - 1 \in 0 .. n /\ i - 1 # n
        OBVIOUS
      <3>3. i # 0 => g[i - 1] = f[i - 1]
        BY <2>3, <3>2
      <3>4. Body(g, i) = Body(f, i)
        BY <3>3
      <3>5. g[i] = Body(f, i)
        <4>1. CASE i = n
          BY <2>2, <2>3, <4>1
        <4>2. CASE i # n
          <5> HIDE DEF Body
          <5> QED BY <2>1, <2>3, <3>1, <4>2
        <4> QED BY <4>1, <4>2
      <3> HIDE DEF Body
      <3> QED BY <3>4, <3>5
    <2>5. Is(g, n)
      <3>1. g = [i \in 0 .. n |-> g[i]]
        BY <2>3
      <3> HIDE DEF Body
      <3> QED BY <2>4, <3>1
    <2>6. n \in 0 .. len
      OBVIOUS
    <2> HIDE DEF Is
    <2> QED BY <2>5, <2>6
  <1>3. len \in T
    <2> HIDE DEF T
    <2>1. \A n \in 0 .. len : n \in T
      BY <1>1, <1>2, UpTo
    <2> QED BY <2>1
  <1>4. PICK f : Is(f, len)
    BY <1>3
  <1>5. f = [i \in 0 .. len |-> Body(f, i)]
    <2> HIDE DEF Body
    <2> QED BY <1>4
  <1> QED BY <1>5 DEF Filled

\* A jump that is true may be added to a share's.
LEMMA JumpAdded ==
  ASSUME NEW sh, NEW sk, SkipsTrue(sk, sh), NEW h \in DOMAIN sk, NEW pos \in Nat,
         NEW d, d.count >= 1, Spans(sh, d, h, pos),
         NEW more, more = [sk EXCEPT ![h] = Append(@, [to |-> pos, delta |-> d])]
  PROVE  SkipsTrue(more, sh) /\ DOMAIN more = DOMAIN sk
  <1>1. /\ DOMAIN sk \subseteq 1 .. Len(sh) /\ sk = [x \in DOMAIN sk |-> sk[x]]
        /\ \A x \in DOMAIN sk : RowTrue(sk[x], sh, x)
    BY DEF SkipsTrue
  <1>2. PICK j \in JumpType : j = [to |-> pos, delta |-> d]
    BY DEF Spans, JumpType
  <1>3. PICK row : row = sk[h] /\ row \in Seq(JumpType) /\ Len(row) >= 1 /\ row[1].delta.count = 1
                   /\ \A i \in 1 .. Len(row) :
                        row[i].delta.count >= 1 /\ Spans(sh, row[i].delta, h, row[i].to)
    BY <1>1 DEF RowTrue
  <1>4. PICK longer : longer = Append(row, j)
    OBVIOUS
  <1>5. /\ longer \in Seq(JumpType) /\ Len(longer) = Len(row) + 1 /\ longer[Len(row) + 1] = j
        /\ \A i \in 1 .. Len(row) : longer[i] = row[i]
    BY <1>3, <1>4
  <1>6. RowTrue(longer, sh, h)
    <2>1. Len(row) \in Nat /\ Len(longer) >= 1 /\ 1 \in 1 .. Len(row)
      BY <1>3, <1>5
    <2>2. ASSUME NEW i \in 1 .. Len(longer)
          PROVE  longer[i].delta.count >= 1 /\ Spans(sh, longer[i].delta, h, longer[i].to)
      <3>1. i = Len(row) + 1 \/ i \in 1 .. Len(row)
        BY <1>5, <2>1
      <3> QED BY <1>2, <1>3, <1>5, <3>1
    <2> QED BY <1>3, <1>5, <2>1, <2>2 DEF RowTrue
  <1>7. DOMAIN more = DOMAIN sk /\ \A x \in DOMAIN sk : more[x] = IF x = h THEN longer ELSE sk[x]
    BY <1>1, <1>2, <1>3, <1>4
  <1>8. more = [x \in DOMAIN more |-> more[x]]
    BY <1>1, <1>7
  <1> QED BY <1>1, <1>6, <1>7, <1>8 DEF SkipsTrue

\* Filled in, the jumps are true.
LEMMA FillTrue ==
  ASSUME NEW sh, NEW begun, SkipsTrue(begun, sh), NEW pos \in Nat, NEW len \in Nat,
         NEW up, WaitsTrue(up, begun, sh, pos), Summed(up),
         NEW ending \in SUBSET DOMAIN up,
         NEW fill, Filled(fill, begun, up, ending, pos, len)
  PROVE  SkipsTrue(fill[len], sh) /\ DOMAIN fill[len] = DOMAIN begun
  <1> DEFINE T == {n \in 0 .. len : SkipsTrue(fill[n], sh) /\ DOMAIN fill[n] = DOMAIN begun}
  <1>0. \A i \in 0 .. len :
          fill[i] = IF i = 0 THEN begun
                    ELSE IF i - 1 \notin ending THEN fill[i - 1]
                    ELSE [fill[i - 1] EXCEPT ![up[i - 1].from] =
                            Append(@, [to |-> pos, delta |-> up[i - 1].delta])]
    BY DEF Filled
  <1>1. 0 \in T
    <2>1. 0 \in 0 .. len
      OBVIOUS
    <2>2. fill[0] = begun
      BY <1>0, <2>1
    <2> QED BY <2>1, <2>2
  <1>2. ASSUME NEW n \in 1 .. len, n - 1 \in T PROVE n \in T
    <2>1. n \in 0 .. len /\ n # 0
      OBVIOUS
    <2>2. CASE n - 1 \notin ending
      BY <1>0, <1>2, <2>1, <2>2
    <2>3. CASE n - 1 \in ending
      <3>1. /\ up[n - 1].from \in DOMAIN begun /\ up[n - 1].delta.count >= 1
            /\ Spans(sh, up[n - 1].delta, up[n - 1].from, pos)
        BY <2>3 DEF WaitsTrue, Summed
      <3>h. PICK h \in DOMAIN begun : h = up[n - 1].from
        BY <3>1
      <3>2. PICK d : h = up[n - 1].from /\ d = up[n - 1].delta
                     /\ d.count >= 1 /\ Spans(sh, d, h, pos)
        BY <3>1, <3>h
      <3>3. PICK sk : sk = fill[n - 1] /\ SkipsTrue(sk, sh) /\ DOMAIN sk = DOMAIN begun
        BY <1>2
      <3>4. PICK more : more = [sk EXCEPT ![h] = Append(@, [to |-> pos, delta |-> d])]
        OBVIOUS
      <3>5. fill[n] = more
        BY <1>0, <2>1, <2>3, <3>2, <3>3, <3>4
      <3>6. SkipsTrue(more, sh) /\ DOMAIN more = DOMAIN sk
        BY <3>2, <3>3, <3>4, JumpAdded
      <3> QED BY <2>1, <3>3, <3>5, <3>6
    <2> QED BY <2>2, <2>3
  <1>3. \A n \in 0 .. len : n \in T
    <2> HIDE DEF T
    <2> QED BY <1>1, <1>2, UpTo
  <1> QED BY <1>3

-----------------------------------------------------------------------------
\* A walk under way: it has been true so far, and has neither count nor weight enough.
WalkRecord(w) ==
  w = [pos |-> w.pos, sol |-> w.sol, skips |-> w.skips, updates |-> w.updates, done |-> w.done]
UnderWay(w, sh, s, max, desired) ==
  /\ WalkRecord(w) /\ w.done = FALSE
  /\ SkipsTrue(w.skips, sh)
  /\ Spans(sh, w.sol, s, w.pos) /\ w.sol.count < max /\ w.sol.total < desired
  /\ w.pos \in 1 .. Len(sh)
  /\ WaitsTrue(w.updates, w.skips, sh, w.pos)

\* A walk that meets a share fills in true jumps only.
LEMMA MeetTrue ==
  ASSUME NEW sh, Chained(sh), NEW s, NEW max, NEW desired,
         NEW w, UnderWay(w, sh, s, max, desired), Summed(w.updates), NEW len \in Nat \ {0},
         NEW m, m = Meet(w, w.pos, len, sh[w.pos].previous, DeltaIn(sh[w.pos]))
  PROVE  /\ UnderWay(m, sh, s, max, desired) /\ m.pos = w.pos /\ m.sol = w.sol
         /\ m.pos \in DOMAIN m.skips
  <1> DEFINE pos == w.pos
             known == pos \in DOMAIN w.skips
             first == [to |-> sh[pos].previous, delta |-> DeltaIn(sh[pos])]
             begun == IF known THEN w.skips
                      ELSE [x \in DOMAIN w.skips \cup {pos} |-> IF x = pos THEN <<first>> ELSE w.skips[x]]
             ending == {i \in DOMAIN w.updates : i < len}
             fill == CHOOSE f : Filled(f, begun, w.updates, ending, pos, len)
             starting == Len(begun[pos]) .. len - 1
             updates == [i \in (DOMAIN w.updates \ ending) \cup starting |->
                           IF i \in starting THEN [from |-> pos, delta |-> Zero] ELSE w.updates[i]]
  <1>1. m = [w EXCEPT !.skips = fill[len], !.updates = updates]
    BY DEF Meet, Filled
  <1>2. /\ WalkRecord(w) /\ w.done = FALSE /\ SkipsTrue(w.skips, sh)
        /\ Spans(sh, w.sol, s, pos) /\ w.sol.count < max /\ w.sol.total < desired
        /\ pos \in 1 .. Len(sh) /\ pos \in Nat
        /\ WaitsTrue(w.updates, w.skips, sh, pos)
    BY DEF UnderWay
  <1>3. SkipsTrue(begun, sh) /\ pos \in DOMAIN begun /\ DOMAIN w.skips \subseteq DOMAIN begun
    <2>1. CASE known
      BY <1>2, <2>1
    <2>2. CASE ~ known
      <3>1. PICK r : r = <<first>>
        OBVIOUS
      <3>2. DeltaIn(sh[pos]) \in DeltaType /\ DeltaIn(sh[pos]).count = 1
            /\ Spans(sh, DeltaIn(sh[pos]), pos, sh[pos].previous) /\ sh[pos].previous \in Nat
        BY <1>2, DeltaInType, SpansOne, PreviousIs DEF Chained
      <3>3. first \in JumpType /\ first.to = sh[pos].previous /\ first.delta = DeltaIn(sh[pos])
        BY <3>2 DEF JumpType
      <3>4. RowTrue(r, sh, pos)
        <4> HIDE DEF first
        <4>1. r \in Seq(JumpType) /\ Len(r) = 1 /\ r[1] = first
          BY <3>1, <3>3
        <4>2. \A i \in 1 .. 1 : i = 1
          OBVIOUS
        <4> QED BY <3>2, <3>3, <4>1, <4>2 DEF RowTrue
      <3>5. PICK b : b = [x \in DOMAIN w.skips \cup {pos} |-> IF x = pos THEN r ELSE w.skips[x]]
        OBVIOUS
      <3>6. b = [x \in DOMAIN b |-> b[x]] /\ DOMAIN b = DOMAIN w.skips \cup {pos}
        BY <3>5
      <3>7. SkipsTrue(b, sh)
        <4>1. DOMAIN b \subseteq 1 .. Len(sh)
          BY <1>2, <3>6 DEF SkipsTrue
        <4>2. \A x \in DOMAIN b : RowTrue(b[x], sh, x)
          BY <1>2, <3>4, <3>5 DEF SkipsTrue
        <4> QED BY <3>6, <4>1, <4>2 DEF SkipsTrue
      <3> HIDE DEF first
      <3> QED BY <2>2, <3>1, <3>5, <3>6, <3>7
    <2> QED BY <2>1, <2>2
  <1> HIDE DEF begun
  <1>4. WaitsTrue(w.updates, begun, sh, pos)
    BY <1>2, <1>3 DEF WaitsTrue
  <1>5. ending \in SUBSET DOMAIN w.updates
    OBVIOUS
  <1> HIDE DEF ending
  <1>6. Filled(fill, begun, w.updates, ending, pos, len)
    <2>1. len \in Nat
      OBVIOUS
    <2> HIDE DEF pos
    <2>2. \E f : Filled(f, begun, w.updates, ending, pos, len)
      BY ONLY <2>1, FillExists
    <2> QED BY <2>2
  <1> HIDE DEF fill
  <1>7. SkipsTrue(fill[len], sh) /\ DOMAIN fill[len] = DOMAIN begun
    <2> HIDE DEF pos
    <2>1. len \in Nat
      OBVIOUS
    <2> QED BY ONLY <1>2, <1>3, <1>4, <1>5, <1>6, <2>1, Summed(w.updates), FillTrue
  <1>8. WaitsTrue(updates, fill[len], sh, pos)
    <2>1. ASSUME NEW i \in DOMAIN updates
          PROVE  /\ updates[i] \in WaitType /\ updates[i].from \in DOMAIN begun
                 /\ Spans(sh, updates[i].delta, updates[i].from, pos)
      <3>1. CASE i \in starting
        <4>1. updates[i] = [from |-> pos, delta |-> Zero]
          BY <3>1
        <4>2. Spans(sh, Zero, pos, pos) /\ Zero \in DeltaType
          <5>1. pos \in 0 .. Len(sh)
            BY <1>2
          <5> QED BY <5>1, SpansNone, CombineZero
        <4> HIDE DEF updates
        <4> QED BY <1>2, <1>3, <4>1, <4>2 DEF WaitType
      <3>2. CASE i \notin starting
        <4>1. i \in DOMAIN w.updates /\ updates[i] = w.updates[i]
          BY <3>2
        <4> HIDE DEF updates
        <4> QED BY <1>4, <4>1 DEF WaitsTrue
      <3> QED BY <3>1, <3>2
    <2> HIDE DEF updates
    <2> QED BY <1>7, <2>1 DEF WaitsTrue
  <1> HIDE DEF updates
  <1>9. /\ WalkRecord(m) /\ m.pos = pos /\ m.sol = w.sol /\ m.done = w.done
        /\ m.skips = fill[len] /\ m.updates = updates
    <2>1. m = [pos |-> w.pos, sol |-> w.sol, skips |-> fill[len], updates |-> updates, done |-> w.done]
      BY <1>1, <1>2 DEF WalkRecord
    <2> QED BY <2>1 DEF WalkRecord
  <1> QED BY <1>2, <1>3, <1>7, <1>8, <1>9 DEF UnderWay

-----------------------------------------------------------------------------
\* The walk: it ends with the plain sum, and the jumps it has filled in are true.

\* A share's own step is in every row first.
LEMMA OneStep ==
  ASSUME NEW sh, Chained(sh), NEW x \in 1 .. Len(sh), NEW d, NEW y, Spans(sh, d, x, y), d.count = 1
  PROVE  d = DeltaIn(sh[x]) /\ y = sh[x].previous
  <1>1. Spans(sh, DeltaIn(sh[x]), x, sh[x].previous) /\ DeltaIn(sh[x]).count = 1
    BY SpansOne, DeltaInType DEF Chained
  <1>2. x \in 0 .. Len(sh)
    OBVIOUS
  <1> QED BY <1>1, <1>2, SpansUnique

\* The jump taken is one of those of the share that do not go too far; there is one.
LEMMA JumpFits ==
  ASSUME NEW sh, Chained(sh), NEW s, NEW max \in Nat, NEW desired \in Nat,
         NEW w, UnderWay(w, sh, s, max, desired), w.pos \in DOMAIN w.skips
  PROVE  \E j \in JumpType :
           /\ j = Jump(w, max, desired)
           /\ j.delta.count >= 1 /\ Spans(sh, j.delta, w.pos, j.to)
           /\ ~ Over(apply_delta(w.sol, j.delta, desired), max, desired)
  <1>1. PICK row : row = w.skips[w.pos] /\ RowTrue(row, sh, w.pos)
    BY DEF UnderWay, SkipsTrue
  <1>2. /\ row \in Seq(JumpType) /\ Len(row) \in Nat /\ DOMAIN row = 1 .. Len(row) /\ 1 \in 1 .. Len(row)
        /\ row[1].delta.count = 1
        /\ \A i \in 1 .. Len(row) : row[i].delta.count >= 1 /\ Spans(sh, row[i].delta, w.pos, row[i].to)
    BY <1>1 DEF RowTrue
  <1> DEFINE ok == {i \in DOMAIN row : ~ Over(apply_delta(w.sol, row[i].delta, desired), max, desired)}
             best == CHOOSE i \in ok : \A j \in ok : j <= i
  <1>3. 1 \in ok
    <2>1. w.pos \in 1 .. Len(sh) /\ w.sol \in DeltaType /\ w.sol.count < max /\ w.sol.total < desired
      BY DEF UnderWay, Spans
    <2>2. row[1].delta = DeltaIn(sh[w.pos]) /\ Weighs(sh[w.pos])
      BY <1>2, <2>1, OneStep DEF Chained
    <2>3. w.sol.count \in Nat /\ w.sol.total \in Nat /\ w.sol.total <= desired
      BY <2>1 DEF DeltaType
    <2>4. PICK e \in DeltaType : /\ e = apply_delta(w.sol, DeltaIn(sh[w.pos]), desired)
                                 /\ e.count = w.sol.count + 1 /\ e.total <= desired
      BY <2>1, <2>2, <2>3, ApplyType
    <2>5. ~ Over(e, max, desired)
      <3>1. e.total \in Nat
        BY <2>4 DEF DeltaType
      <3> QED BY <2>1, <2>3, <2>4, <3>1 DEF Over
    <2> QED BY <1>2, <2>2, <2>4, <2>5
  <1>4. best \in ok
    <2>1. ok \in SUBSET (1 .. Len(row)) /\ ok # {}
      BY <1>2, <1>3
    <2> HIDE DEF ok
    <2>2. Top(ok) \in ok /\ \A y \in ok : Top(ok) >= y
      BY <1>2, <2>1, TopOfIndices
    <2>3. \A y \in ok : y <= Top(ok)
      BY <2>1, <2>2
    <2> QED BY <2>2, <2>3
  <1>5. Jump(w, max, desired) = row[best]
    BY <1>1 DEF Jump
  <1>6. best \in 1 .. Len(row) /\ ~ Over(apply_delta(w.sol, row[best].delta, desired), max, desired)
    BY <1>2, <1>4
  <1> HIDE DEF best
  <1>7. row[best] \in JumpType
    BY <1>2, <1>6
  <1> QED BY <1>2, <1>5, <1>6, <1>7

\* A walk that has ended.
Arrived(w, sh, s, max, desired) ==
  WalkRecord(w) /\ w.done = TRUE /\ SkipsTrue(w.skips, sh) /\ Answer(w.sol, sh, s, max, desired)

\* A turn of the loop takes a walk on, or ends it with the plain sum.
LEMMA TurnTrue ==
  ASSUME NEW sh, Chained(sh), NEW s \in 0 .. Len(sh), NEW max \in 0 .. DepthOf(sh, s), NEW desired \in Nat,
         NEW w, UnderWay(w, sh, s, max, desired), Summed(w.updates), NEW len \in Nat \ {0},
         NEW t, t = Turn(w, len, sh[w.pos].previous, DeltaIn(sh[w.pos]), max, desired)
  PROVE  \/ Arrived(t, sh, s, max, desired)
         \/ UnderWay(t, sh, s, max, desired) /\ Summed(t.updates) /\ t.sol.count >= w.sol.count + 1
  <1>0. max \in Nat /\ DepthOf(sh, s) \in Nat /\ max <= DepthOf(sh, s)
    BY LineSteps DEF Chained
  <1>1. PICK m : m = Meet(w, w.pos, len, sh[w.pos].previous, DeltaIn(sh[w.pos]))
    OBVIOUS
  <1>2. UnderWay(m, sh, s, max, desired) /\ m.pos = w.pos /\ m.sol = w.sol /\ m.pos \in DOMAIN m.skips
    BY <1>1, MeetTrue
  <1>3. PICK j \in JumpType : /\ j = Jump(m, max, desired)
                              /\ j.delta.count >= 1 /\ Spans(sh, j.delta, m.pos, j.to)
                              /\ ~ Over(apply_delta(m.sol, j.delta, desired), max, desired)
    BY ONLY <1>0, <1>2, JumpFits, Chained(sh), desired \in Nat
  <1>4. PICK sol : sol = apply_delta(m.sol, j.delta, desired)
    OBVIOUS
  <1>5. t = IF There(sol, max, desired) THEN [m EXCEPT !.sol = sol, !.done = TRUE]
            ELSE [m EXCEPT !.sol = sol, !.pos = j.to,
                    !.updates = [i \in DOMAIN m.updates |->
                                   [m.updates[i] EXCEPT !.delta = combine_deltas(@, j.delta)]]]
    BY <1>1, <1>3, <1>4 DEF Turn
  <1>6. /\ WalkRecord(m) /\ m.done = FALSE /\ SkipsTrue(m.skips, sh)
        /\ Spans(sh, m.sol, s, m.pos) /\ m.sol.count < max /\ m.sol.total < desired
        /\ m.pos \in 1 .. Len(sh) /\ WaitsTrue(m.updates, m.skips, sh, m.pos)
    BY <1>2 DEF UnderWay
  <1>7. /\ m.sol \in DeltaType /\ m.sol.count \in Nat /\ m.sol.total \in Nat
        /\ j.delta \in DeltaType /\ j.delta.count \in Nat /\ j.delta.total \in Nat
    <2>1. m.sol \in DeltaType /\ j.delta \in DeltaType
      BY <1>3, <1>6 DEF Spans
    <2> QED BY <2>1 DEF DeltaType
  <1>8. PICK f : AlongLine(f, sh, s, max, desired)
    BY ONLY AlongLineExists, Chained(sh), s \in 0 .. Len(sh), max \in 0 .. DepthOf(sh, s), desired \in Nat
  <1>9. \A d, y : Spans(sh, d, s, y) /\ d.count <= max /\ d.total <= desired =>
           f[d.count] = d /\ \A k \in 0 .. d.count - 1 : f[k].total < desired
    BY ONLY <1>8, ExactSoFar, Chained(sh), s \in 0 .. Len(sh), max \in 0 .. DepthOf(sh, s), desired \in Nat
  <1>10. f[m.sol.count] = m.sol /\ \A k \in 0 .. m.sol.count - 1 : f[k].total < desired
    BY <1>0, <1>6, <1>7, <1>9
  <1>11. ASSUME NEW n \in 0 .. max, EndsAt(f, n, max, desired), sol = f[n]
         PROVE  Answer(sol, sh, s, max, desired)
    <2>1. PICK g : g = [k \in 0 .. n |-> f[k]]
      OBVIOUS
    <2>2. \A k \in 0 .. n : k \in 0 .. max /\ g[k] = f[k]
      BY <1>0, <2>1
    <2>3. n \in 0 .. n /\ 0 \in 0 .. n /\ (\A k \in 1 .. n : k \in 0 .. n /\ k - 1 \in 0 .. n /\ k \in 1 .. max)
      BY <1>0
    <2>4. g \in [0 .. n -> Within(desired)]
      BY <1>8, <2>1, <2>2 DEF AlongLine
    <2>5. AlongLine(g, sh, s, n, desired)
      BY <1>8, <2>2, <2>3, <2>4 DEF AlongLine
    <2>6. EndsAt(g, n, max, desired)
      <3>1. \A k \in 0 .. n - 1 : k \in 0 .. n
        OBVIOUS
      <3> QED BY <1>11, <2>2, <2>3, <3>1 DEF EndsAt
    <2> QED BY <1>11, <2>2, <2>3, <2>5, <2>6 DEF Answer
  <1>12. CASE j.delta.count = 1 /\ m.sol.total + j.delta.total > desired
    <2>1. j.delta = DeltaIn(sh[m.pos]) /\ Weighs(sh[m.pos])
      BY <1>3, <1>6, <1>12, OneStep DEF Chained
    <2>2. sol.total = desired
      <3>1. m.sol \in DeltaType /\ m.sol.total <= desired /\ m.sol.total + DeltaIn(sh[m.pos]).total > desired
        BY ONLY <1>6, <1>7, <1>12, <2>1, desired \in Nat
      <3>2. apply_delta(m.sol, DeltaIn(sh[m.pos]), desired).total = desired
        BY ONLY <2>1, <3>1, desired \in Nat, ApplyType
      <3> QED BY ONLY <1>4, <2>1, <3>2
    <2>3. There(sol, max, desired)
      BY <2>2 DEF There
    <2> DEFINE n == m.sol.count + 1
    <2>4. n \in 1 .. max /\ n \in 0 .. max /\ n - 1 = m.sol.count
      BY <1>0, <1>6, <1>7
    <2>5. f[n] = apply_delta(f[n - 1], DeltaIn(sh[NthBack(sh, s, n - 1)]), desired)
      BY <1>8, <2>4 DEF AlongLine
    <2>6. NthBack(sh, s, n - 1) = m.pos
      BY <1>6, <2>4 DEF Spans
    <2>7. f[n] = sol
      BY <1>4, <1>10, <2>1, <2>4, <2>5, <2>6
    <2>8. EndsAt(f, n, max, desired)
      <3>1. ASSUME NEW k \in 0 .. n - 1 PROVE f[k].total < desired
        <4>1. k = m.sol.count \/ k \in 0 .. m.sol.count - 1
          BY <1>7
        <4> QED BY <1>6, <1>10, <4>1
      <3> QED BY <2>2, <2>7, <3>1 DEF EndsAt
    <2>9. Answer(sol, sh, s, max, desired)
      BY <1>11, <2>4, <2>7, <2>8
    <2>10. t = [pos |-> m.pos, sol |-> sol, skips |-> m.skips, updates |-> m.updates, done |-> TRUE]
      BY <1>5, <1>6, <2>3 DEF WalkRecord
    <2>11. WalkRecord(t) /\ t.done = TRUE /\ t.skips = m.skips /\ t.sol = sol
      BY <2>10 DEF WalkRecord
    <2> QED BY <1>6, <2>9, <2>11 DEF Arrived
  <1>13. CASE ~ (j.delta.count = 1 /\ m.sol.total + j.delta.total > desired)
    <2>1. sol = combine_deltas(m.sol, j.delta)
      BY <1>4, <1>7, <1>13 DEF apply_delta
    <2>2. Spans(sh, sol, s, j.to)
      BY ONLY <1>3, <1>6, <2>1, SpansCompose, Chained(sh), s \in 0 .. Len(sh)
    <2>3. sol \in DeltaType /\ sol.count = m.sol.count + j.delta.count /\ sol.count \in Nat /\ sol.total \in Nat
      <3>1. sol \in DeltaType /\ sol.count = m.sol.count + j.delta.count
        BY <1>7, <2>1, CombineType
      <3> QED BY <3>1 DEF DeltaType
    <2>4. sol.count <= max /\ sol.total <= desired
      BY <1>0, <1>3, <1>4, <2>3 DEF Over
    <2>5. f[sol.count] = sol /\ \A k \in 0 .. sol.count - 1 : f[k].total < desired
      BY <1>9, <2>2, <2>4
    <2>6. CASE There(sol, max, desired)
      <3>1. EndsAt(f, sol.count, max, desired)
        BY <2>5, <2>6 DEF EndsAt, There
      <3>2. sol.count \in 0 .. max
        BY <1>0, <2>3, <2>4
      <3>3. Answer(sol, sh, s, max, desired)
        BY <1>11, <2>5, <3>1, <3>2
      <3>4. t = [pos |-> m.pos, sol |-> sol, skips |-> m.skips, updates |-> m.updates, done |-> TRUE]
        BY <1>5, <1>6, <2>6 DEF WalkRecord
      <3>5. WalkRecord(t) /\ t.done = TRUE /\ t.skips = m.skips /\ t.sol = sol
        BY <3>4 DEF WalkRecord
      <3> QED BY <1>6, <3>3, <3>5 DEF Arrived
    <2>7. CASE ~ There(sol, max, desired)
      <3>1. sol.count < max /\ sol.total < desired
        BY <1>0, <2>3, <2>4, <2>7 DEF There
      <3>2. j.to \in 1 .. Len(sh)
        <4>1. /\ sol.count < DepthOf(sh, s)
          BY <1>0, <2>3, <3>1
        <4>2. j.to \in 0 .. Len(sh) /\ j.to # 0
          BY ONLY <2>2, <4>1, SpansIn, Chained(sh), s \in 0 .. Len(sh)
        <4> QED BY <4>2
      <3>3. PICK up : up = [i \in DOMAIN m.updates |->
                              [m.updates[i] EXCEPT !.delta = combine_deltas(@, j.delta)]]
        OBVIOUS
      <3>4. ASSUME NEW i \in DOMAIN up
            PROVE  /\ up[i] \in WaitType /\ up[i].from \in DOMAIN m.skips
                   /\ Spans(sh, up[i].delta, up[i].from, j.to) /\ up[i].delta.count >= 1
        <4>1. i \in DOMAIN m.updates /\ up[i] = [m.updates[i] EXCEPT !.delta = combine_deltas(@, j.delta)]
          BY <3>3
        <4>2. PICK u \in WaitType : /\ u = m.updates[i] /\ u.from \in DOMAIN m.skips
                                    /\ Spans(sh, u.delta, u.from, m.pos)
          BY <1>6, <4>1 DEF WaitsTrue
        <4>3. u.from \in 0 .. Len(sh)
          BY <1>6, <4>2 DEF SkipsTrue
        <4>4. PICK d : d = combine_deltas(u.delta, j.delta)
          OBVIOUS
        <4>5. Spans(sh, d, u.from, j.to)
          BY ONLY <1>3, <4>2, <4>3, <4>4, SpansCompose, Chained(sh)
        <4>6. u.delta \in DeltaType /\ u.delta.count \in Nat
          BY <4>2 DEF WaitType, DeltaType
        <4>7. d \in DeltaType /\ d.count = u.delta.count + j.delta.count
          BY <1>7, <4>4, <4>6, CombineType
        <4>8. d.count >= 1
          BY <1>3, <1>7, <4>6, <4>7
        <4>9. up[i] = [from |-> u.from, delta |-> d] /\ u.from \in Nat
          BY <4>1, <4>2, <4>4 DEF WaitType
        <4> QED BY <4>2, <4>5, <4>7, <4>8, <4>9 DEF WaitType
      <3>5. t = [pos |-> j.to, sol |-> sol, skips |-> m.skips, updates |-> up, done |-> FALSE]
        BY <1>5, <1>6, <2>7, <3>3 DEF WalkRecord
      <3>6. /\ WalkRecord(t) /\ t.done = FALSE /\ t.skips = m.skips /\ t.sol = sol /\ t.updates = up
            /\ t.pos = j.to
        BY <3>5 DEF WalkRecord
      <3>7. UnderWay(t, sh, s, max, desired)
        BY <1>6, <2>2, <3>1, <3>2, <3>4, <3>6 DEF UnderWay, WaitsTrue
      <3>8. Summed(t.updates)
        BY <3>4, <3>6 DEF Summed
      <3>9. t.sol.count >= w.sol.count + 1
        BY <1>2, <1>3, <1>7, <2>3, <3>6
      <3> QED BY <3>7, <3>8, <3>9
    <2> QED BY <2>6, <2>7
  <1> QED BY <1>12, <1>13

\* The turns of a walk: turns[n] is the walk after n of them.
Walked(turns, start, max, desired) ==
  turns = [n \in 0 .. MaxShares |->
             IF n = 0 THEN Start(skips, start, max, desired)
             ELSE IF turns[n - 1].done THEN turns[n - 1]
             ELSE Turn(turns[n - 1], level[turns[n - 1].pos], share[turns[n - 1].pos].previous,
                       get_delta(turns[n - 1].pos), max, desired)]

\* The recursion that is the loop has a solution.
LEMMA WalkedExists ==
  ASSUME NEW start, NEW max, NEW desired
  PROVE  \E turns : Walked(turns, start, max, desired)
  <1> DEFINE Body(f, n) ==
               IF n = 0 THEN Start(skips, start, max, desired)
               ELSE IF f[n - 1].done THEN f[n - 1]
               ELSE Turn(f[n - 1], level[f[n - 1].pos], share[f[n - 1].pos].previous,
                         get_delta(f[n - 1].pos), max, desired)
             Is(f, n) == f = [i \in 0 .. n |-> f[i]] /\ \A i \in 0 .. n : f[i] = Body(f, i)
             T == {n \in 0 .. MaxShares : \E f : Is(f, n)}
  <1>0. MaxShares \in Nat /\ 0 \in 0 .. MaxShares /\ MaxShares \in 0 .. MaxShares
    BY PayoutsAssumption
  <1>1. 0 \in T
    <2>1. PICK f : f = [i \in 0 .. 0 |-> Start(skips, start, max, desired)]
      OBVIOUS
    <2>2. Is(f, 0)
      BY <2>1
    <2> HIDE DEF Is
    <2> QED BY <1>0, <2>2
  <1>2. ASSUME NEW n \in 1 .. MaxShares, n - 1 \in T PROVE n \in T
    <2>1. PICK f : Is(f, n - 1)
      BY <1>2
    <2>2. PICK e : e = Body(f, n)
      OBVIOUS
    <2>3. PICK g : g = [i \in 0 .. n |-> IF i = n THEN e ELSE f[i]]
      OBVIOUS
    <2>4. ASSUME NEW i \in 0 .. n PROVE g[i] = Body(g, i)
      <3>1. i = n \/ i \in 0 .. n - 1
        BY <1>0
      <3>2. i # 0 => i - 1 \in 0 .. n /\ i - 1 # n
        BY <1>0
      <3>3. i # 0 => g[i - 1] = f[i - 1]
        BY <2>3, <3>2
      <3>4. Body(g, i) = Body(f, i)
        BY <3>3
      <3>5. g[i] = Body(f, i)
        <4>1. CASE i = n
          BY <2>2, <2>3, <4>1
        <4>2. CASE i # n
          <5> HIDE DEF Body
          <5> QED BY <2>1, <2>3, <3>1, <4>2
        <4> QED BY <4>1, <4>2
      <3> HIDE DEF Body
      <3> QED BY <3>4, <3>5
    <2>5. Is(g, n)
      <3>1. g = [i \in 0 .. n |-> g[i]]
        BY <2>3
      <3> HIDE DEF Body
      <3> QED BY <2>4, <3>1
    <2>6. n \in 0 .. MaxShares
      BY <1>0
    <2> HIDE DEF Is
    <2> QED BY <2>5, <2>6
  <1>3. MaxShares \in T
    <2> HIDE DEF T
    <2>1. \A n \in 0 .. MaxShares : n \in T
      BY <1>0, <1>1, <1>2, UpTo
    <2> QED BY <1>0, <2>1
  <1>4. PICK f : Is(f, MaxShares)
    BY <1>3
  <1>5. f = [i \in 0 .. MaxShares |-> Body(f, i)]
    <2> HIDE DEF Body
    <2> QED BY <1>4
  <1> QED BY <1>5 DEF Walked

\* Whatever jumps there are, so long as they are true, the answer is the plain sum.
LEMMA WeightsAnswer ==
  ASSUME Chained(share), DOMAIN share = 1 .. Len(share), Len(share) <= MaxShares,
         SkipsTrue(skips, share), level \in [Hash -> Nat \ {0}],
         NEW start \in 0 .. Len(share), NEW max \in 0 .. DepthOf(share, start), NEW desired \in Nat
  PROVE  Arrived(get_cumulative_weights(start, max, desired), share, start, max, desired)
  <1> DEFINE turns == CHOOSE turns : Walked(turns, start, max, desired)
             Going(w, n) == UnderWay(w, share, start, max, desired) /\ Summed(w.updates) /\ w.sol.count >= n
             Home(w) == Arrived(w, share, start, max, desired)
             T == {n \in 0 .. MaxShares : Home(turns[n]) \/ Going(turns[n], n)}
  <1>0. /\ max \in Nat /\ DepthOf(share, start) \in Nat /\ max <= DepthOf(share, start) /\ Len(share) \in Nat
        /\ MaxShares \in Nat /\ 0 \in 0 .. MaxShares /\ MaxShares \in 0 .. MaxShares
        /\ max <= MaxShares /\ start \in 0 .. Len(share)
    <2>1. BackLinked(share) /\ Len(share) \in Nat /\ MaxShares \in Nat
      BY PayoutsAssumption DEF Chained, BackLinked
    <2>2. DepthOf(share, start) \in Nat /\ DepthOf(share, start) <= start
      BY <2>1, LineSteps, DepthBound
    <2> QED BY <2>1, <2>2
  <1>1. get_cumulative_weights(start, max, desired) = turns[MaxShares]
    BY DEF get_cumulative_weights, Walked
  <1>2. Walked(turns, start, max, desired)
    <2>1. \E f : Walked(f, start, max, desired)
      BY ONLY WalkedExists
    <2> QED BY <2>1
  <1> HIDE DEF turns
  <1>3. \A n \in 0 .. MaxShares :
          turns[n] = IF n = 0 THEN Start(skips, start, max, desired)
                     ELSE IF turns[n - 1].done THEN turns[n - 1]
                     ELSE Turn(turns[n - 1], level[turns[n - 1].pos], share[turns[n - 1].pos].previous,
                               get_delta(turns[n - 1].pos), max, desired)
    BY <1>2 DEF Walked
  <1>4. 0 \in T
    <2>1. PICK w : w = turns[0] /\ w = Start(skips, start, max, desired)
      BY <1>0, <1>3
    <2>2. PICK up : up = [i \in {} |-> Zero]
      OBVIOUS
    <2>3. w = [pos |-> start, sol |-> Zero, skips |-> skips, updates |-> up,
               done |-> There(Zero, max, desired)]
      BY <2>1, <2>2 DEF Start
    <2>4. /\ WalkRecord(w) /\ w.pos = start /\ w.sol = Zero /\ w.skips = skips /\ w.updates = up
          /\ w.done = There(Zero, max, desired) /\ DOMAIN up = {}
      BY <2>2, <2>3 DEF WalkRecord
    <2>5. CASE There(Zero, max, desired)
      <3>1. PICK f : AlongLine(f, share, start, 0, desired)
        <4>1. 0 \in 0 .. DepthOf(share, start)
          BY <1>0
        <4> QED BY <4>1, AlongLineExists
      <3>2. f[0] = Zero
        BY <3>1 DEF AlongLine
      <3>3. 0 .. 0 - 1 = {} /\ 0 \in 0 .. max /\ (0 = max \/ Zero.total = desired)
        BY <1>0, <2>5, CombineZero DEF There
      <3>4. Answer(Zero, share, start, max, desired)
        BY <3>1, <3>2, <3>3 DEF Answer, EndsAt
      <3>5. w.done = TRUE
        BY <2>4, <2>5
      <3>6. Home(w)
        BY <2>4, <3>4, <3>5 DEF Arrived
      <3> QED BY <1>0, <2>1, <3>6
    <2>6. CASE ~ There(Zero, max, desired)
      <3>1. 0 < max /\ 0 < desired
        BY <1>0, <2>6, CombineZero DEF There
      <3>2. start # 0
        BY <1>0, <3>1, LineSteps DEF Chained
      <3>3. start \in 1 .. Len(share)
        BY <1>0, <3>2
      <3>4. Spans(share, Zero, start, start) /\ Zero.count = 0 /\ Zero.total = 0
        BY SpansNone, CombineZero
      <3>5. w.done = FALSE
        BY <2>4, <2>6 DEF There
      <3>6. UnderWay(w, share, start, max, desired) /\ Summed(w.updates)
        BY <2>4, <3>1, <3>3, <3>4, <3>5 DEF UnderWay, WaitsTrue, Summed
      <3>7. w.sol.count >= 0
        BY <2>4, <3>4
      <3>8. Going(w, 0)
        BY <3>6, <3>7
      <3> HIDE DEF Going
      <3> QED BY <1>0, <2>1, <3>8
    <2> QED BY <2>5, <2>6
  <1>5. ASSUME NEW n \in 1 .. MaxShares, n - 1 \in T PROVE n \in T
    <2>1. n \in 0 .. MaxShares /\ n # 0 /\ n \in Nat
      BY <1>0
    <2>2. PICK w : w = turns[n - 1] /\ (Home(w) \/ Going(w, n - 1))
      BY <1>5
    <2>3. turns[n] = IF w.done THEN w
                     ELSE Turn(w, level[w.pos], share[w.pos].previous, get_delta(w.pos), max, desired)
      BY <1>3, <2>1, <2>2
    <2>4. CASE Home(w)
      <3>1. w.done = TRUE
        BY <2>4 DEF Arrived
      <3> QED BY <2>1, <2>3, <2>4, <3>1
    <2>5. CASE Going(w, n - 1)
      <3>1. w.done = FALSE /\ w.pos \in 1 .. Len(share) /\ Spans(share, w.sol, start, w.pos)
        BY <2>5 DEF UnderWay
      <3>2. level[w.pos] \in Nat \ {0}
        <4>1. w.pos \in Hash
          BY <1>0, <3>1 DEF Hash
        <4> QED BY <4>1
      <3>3. PICK len \in Nat \ {0} : len = level[w.pos]
        BY <3>2
      <3>4. get_delta(w.pos) = DeltaIn(share[w.pos])
        BY <3>1 DEF get_delta, DeltaIn, Attempts
      <3>5. PICK t : t = Turn(w, len, share[w.pos].previous, DeltaIn(share[w.pos]), max, desired)
        OBVIOUS
      <3>6. turns[n] = t
        BY <2>3, <3>1, <3>3, <3>4, <3>5
      <3>7. UnderWay(w, share, start, max, desired) /\ Summed(w.updates) /\ w.sol.count >= n - 1
        BY <2>5
      <3>8. \/ Arrived(t, share, start, max, desired)
            \/ UnderWay(t, share, start, max, desired) /\ Summed(t.updates) /\ t.sol.count >= w.sol.count + 1
        BY <3>5, <3>7, TurnTrue
      <3>9. CASE Arrived(t, share, start, max, desired)
        BY <2>1, <3>6, <3>9
      <3>10. CASE UnderWay(t, share, start, max, desired) /\ Summed(t.updates) /\ t.sol.count >= w.sol.count + 1
        <4>1. w.sol.count \in Nat /\ t.sol.count \in Nat
          BY <3>1, <3>10 DEF UnderWay, Spans, DeltaType
        <4>2. t.sol.count >= n
          BY <2>1, <3>7, <3>10, <4>1
        <4>3. Going(t, n)
          BY <3>10, <4>2
        <4> HIDE DEF Going
        <4> QED BY <2>1, <3>6, <4>3
      <3> QED BY <3>8, <3>9, <3>10
    <2> HIDE DEF Home, Going
    <2> QED BY <2>2, <2>4, <2>5
  <1>6. MaxShares \in T
    <2> HIDE DEF T
    <2>1. \A n \in 0 .. MaxShares : n \in T
      BY <1>0, <1>4, <1>5, UpTo
    <2> QED BY <1>0, <2>1
  <1>7. ~ Going(turns[MaxShares], MaxShares)
    <2>1. SUFFICES ASSUME NEW w, UnderWay(w, share, start, max, desired), w.sol.count >= MaxShares PROVE FALSE
      OBVIOUS
    <2>2. w.sol.count < max /\ w.sol.count \in Nat
      BY <2>1 DEF UnderWay, Spans, DeltaType
    <2> QED BY <1>0, <2>1, <2>2
  <1> QED BY <1>1, <1>6, <1>7

-----------------------------------------------------------------------------
\* The tracker's answers along a chain, as far as it has it.
Placed == BackLinked(share) /\ DOMAIN share = 1 .. Len(share) /\ items \subseteq 1 .. Len(share)

\* get_height counts the shares of the chain that are there, from x down.
LEMMA HeightIs ==
  ASSUME Placed, NEW x \in 0 .. Len(share)
  PROVE  /\ Path(x) \in Seq(Nat) /\ get_height(x) = Len(Path(x))
         /\ get_height(x) \in Nat /\ DepthOf(share, x) \in Nat /\ get_height(x) <= DepthOf(share, x)
         /\ \A i \in 1 .. get_height(x) : Path(x)[i] = NthBack(share, x, i - 1) /\ NthBack(share, x, i - 1) \in items
         /\ NthBack(share, x, get_height(x)) \notin items
  <1>1. Path(x) = Walk(share, items, x)
    BY PathIsWalk DEF Path
  <1>2. BackLinked(share) /\ items \in SUBSET (1 .. Len(share))
    BY DEF Placed
  <1>3. DepthOf(share, x) \in Nat
    BY <1>2, LineSteps
  <1>4. /\ Walk(share, items, x) \in Seq(Nat) /\ Len(Walk(share, items, x)) \in Nat
        /\ Len(Walk(share, items, x)) <= DepthOf(share, x)
        /\ \A i \in 1 .. Len(Walk(share, items, x)) :
             Walk(share, items, x)[i] = NthBack(share, x, i - 1) /\ NthBack(share, x, i - 1) \in items
        /\ NthBack(share, x, Len(Walk(share, items, x))) \notin items
    BY <1>2, WalkIsBeginning
  <1> QED BY <1>1, <1>3, <1>4 DEF get_height

\* get_nth_parent_hash, as far as the shares are there.
LEMMA ParentIs ==
  ASSUME Placed, NEW x \in 0 .. Len(share), NEW n \in 0 .. get_height(x)
  PROVE  get_nth_parent_hash(x, n) = NthBack(share, x, n)
  <1>1. get_height(x) \in Nat /\ DepthOf(share, x) \in Nat /\ get_height(x) <= DepthOf(share, x)
    BY HeightIs
  <1>2. CASE n = 0
    BY <1>2, AtSteps DEF get_nth_parent_hash, Placed
  <1>3. CASE n # 0
    <2>1. n \in 1 .. get_height(x) /\ n - 1 \in 0 .. DepthOf(share, x) /\ n - 1 < DepthOf(share, x)
          /\ n - 1 + 1 = n
      BY <1>1, <1>3
    <2>2. Path(x)[n] = NthBack(share, x, n - 1)
      BY <2>1, HeightIs
    <2>3. share[NthBack(share, x, n - 1)].previous = NthBack(share, x, n - 1 + 1)
      BY <2>1, AtBack DEF GoesBack, Placed
    <2> QED BY <1>3, <2>1, <2>2, <2>3 DEF get_nth_parent_hash
  <1> QED BY <1>2, <1>3

\* get_last is where the shares that are there end.
LEMMA LastIs ==
  ASSUME Placed, NEW x \in 0 .. Len(share)
  PROVE  get_last(x) = NthBack(share, x, get_height(x))
  <1> DEFINE H == get_height(x)
  <1>1. /\ Path(x) \in Seq(Nat) /\ H = Len(Path(x)) /\ H \in Nat /\ DepthOf(share, x) \in Nat
        /\ H <= DepthOf(share, x)
        /\ \A i \in 1 .. H : Path(x)[i] = NthBack(share, x, i - 1) /\ NthBack(share, x, i - 1) \in items
        /\ NthBack(share, x, H) \notin items
    BY HeightIs
  <1>2. NthBack(share, x, 0) = x
    BY AtSteps DEF Placed
  <1> HIDE DEF H
  <1>3. CASE H = 0
    <2>1. x \notin items
      BY <1>1, <1>2, <1>3
    <2> QED BY <1>2, <1>3, <2>1 DEF get_last, H
  <1>4. CASE H # 0
    <2>1. H \in 1 .. H /\ 1 \in 1 .. H /\ 1 - 1 = 0 /\ H - 1 + 1 = H
          /\ H - 1 \in 0 .. DepthOf(share, x) /\ H - 1 < DepthOf(share, x)
      BY <1>1, <1>4
    <2>2. x \in items
      BY <1>1, <1>2, <2>1
    <2>3. Sq!Last(Path(x)) = NthBack(share, x, H - 1)
      BY <1>1, <2>1 DEF Sq!Last
    <2>4. share[NthBack(share, x, H - 1)].previous = NthBack(share, x, H - 1 + 1)
      BY <2>1, AtBack DEF GoesBack, Placed
    <2> QED BY <2>1, <2>2, <2>3, <2>4 DEF get_last, H
  <1> QED BY <1>3, <1>4

\* The n shares from x on.
Stretch(x, n) == [i \in 1 .. n |-> NthBack(share, x, i - 1)]

\* get_chain is the chain.
LEMMA ChainIs ==
  ASSUME Placed, NEW x \in 0 .. Len(share), NEW n \in 0 .. get_height(x)
  PROVE  get_chain(x, n) = Stretch(x, n)
  <1>1. /\ Path(x) \in Seq(Nat) /\ get_height(x) = Len(Path(x)) /\ get_height(x) \in Nat
        /\ \A i \in 1 .. get_height(x) : Path(x)[i] = NthBack(share, x, i - 1)
    BY HeightIs
  <1>2. SubSeq(Path(x), 1, n) = [i \in 1 .. n |-> Path(x)[i]]
    <2>1. PICK p : p = Path(x)
      OBVIOUS
    <2>2. p \in Seq(Nat) /\ n \in 0 .. Len(p) /\ Len(p) \in Nat
      BY <1>1, <2>1
    <2>3. PICK q : q = SubSeq(p, 1, n)
      OBVIOUS
    <2>4. q \in Seq(Nat) /\ Len(q) = n /\ DOMAIN q = 1 .. n /\ \A i \in 1 .. n : q[i] = p[i]
      BY <2>2, <2>3
    <2>5. q = [i \in 1 .. n |-> p[i]]
      BY <2>4
    <2> QED BY <2>1, <2>3, <2>5
  <1>3. \A i \in 1 .. n : Path(x)[i] = NthBack(share, x, i - 1)
    BY <1>1
  <1> QED BY <1>2, <1>3 DEF get_chain, Stretch

\* Each step down is one share less of height.
LEMMA HeightBack ==
  ASSUME Placed, NEW x \in 0 .. Len(share), NEW n \in 0 .. get_height(x)
  PROVE  /\ NthBack(share, x, n) \in 0 .. Len(share)
         /\ get_height(NthBack(share, x, n)) = get_height(x) - n
         /\ \A m \in 0 .. get_height(x) - n : NthBack(share, NthBack(share, x, n), m) = NthBack(share, x, n + m)
  <1>1. /\ get_height(x) \in Nat /\ DepthOf(share, x) \in Nat /\ get_height(x) <= DepthOf(share, x)
        /\ \A i \in 1 .. get_height(x) : NthBack(share, x, i - 1) \in items
        /\ NthBack(share, x, get_height(x)) \notin items
    BY HeightIs
  <1>2. n \in 0 .. DepthOf(share, x)
    BY <1>1
  <1>3. /\ NthBack(share, x, n) \in 0 .. Len(share)
        /\ DepthOf(share, NthBack(share, x, n)) = DepthOf(share, x) - n
        /\ \A m \in 0 .. DepthOf(share, x) - n : NthBack(share, NthBack(share, x, n), m) = NthBack(share, x, n + m)
    BY <1>2, AtBack DEF GoesBack, Placed
  <1>4. PICK y \in 0 .. Len(share) : y = NthBack(share, x, n)
    BY <1>3
  <1>5. /\ get_height(y) \in Nat /\ get_height(y) <= DepthOf(share, y)
        /\ \A i \in 1 .. get_height(y) : NthBack(share, y, i - 1) \in items
        /\ NthBack(share, y, get_height(y)) \notin items
    BY HeightIs
  <1> DEFINE H == get_height(x)
             G == get_height(y)
  <1>6. /\ H \in Nat /\ G \in Nat /\ G <= DepthOf(share, x) - n /\ H <= DepthOf(share, x) /\ n \in Nat /\ n <= H
        /\ DepthOf(share, x) \in Nat
    BY <1>1, <1>3, <1>4, <1>5
  <1> HIDE DEF H, G
  <1>7. ~ (n + G < H)
    <2>1. SUFFICES ASSUME n + G < H PROVE FALSE
      OBVIOUS
    <2>2. n + G + 1 \in 1 .. H /\ n + G + 1 - 1 = n + G /\ G \in 0 .. DepthOf(share, x) - n
      BY <1>6, <2>1
    <2>3. NthBack(share, x, n + G) \in items
      BY <1>1, <2>2 DEF H
    <2>4. NthBack(share, y, G) = NthBack(share, x, n + G)
      BY <1>3, <1>4, <2>2
    <2> QED BY <1>5, <2>3, <2>4 DEF G
  <1>8. ~ (n + G > H)
    <2>1. SUFFICES ASSUME n + G > H PROVE FALSE
      OBVIOUS
    <2>2. H - n + 1 \in 1 .. G /\ H - n + 1 - 1 = H - n /\ H - n \in 0 .. DepthOf(share, x) - n
          /\ n + (H - n) = H
      BY <1>6, <2>1
    <2>3. NthBack(share, y, H - n) \in items
      BY <1>5, <2>2 DEF G
    <2>4. NthBack(share, y, H - n) = NthBack(share, x, H)
      BY <1>3, <1>4, <2>2
    <2> QED BY <1>1, <2>3, <2>4 DEF H
  <1>9. G = H - n
    BY <1>6, <1>7, <1>8
  <1>10. \A m \in 0 .. get_height(x) - n : m \in 0 .. DepthOf(share, x) - n
    BY <1>1, <1>2
  <1> QED BY <1>3, <1>4, <1>9, <1>10 DEF H, G

\* With the history generate_transaction asserts, the tracker has a chain whole or as far as
\* the window reaches.
LEMMA HistoryIs ==
  ASSUME Placed, NEW x \in 0 .. Len(share)
  PROVE  /\ get_last(x) = None <=> get_height(x) = DepthOf(share, x)
         /\ HasHistory(x) <=> get_height(x) >= REAL_CHAIN_LENGTH \/ get_height(x) = DepthOf(share, x)
  <1>1. get_height(x) \in Nat /\ DepthOf(share, x) \in Nat /\ get_height(x) <= DepthOf(share, x)
    BY HeightIs
  <1>2. get_last(x) = NthBack(share, x, get_height(x))
    BY LastIs
  <1>3. CASE get_height(x) = DepthOf(share, x)
    <2>1. NthBack(share, x, get_height(x)) = 0
      BY <1>3 DEF NthBack
    <2> QED BY <1>2, <1>3, <2>1 DEF HasHistory, None
  <1>4. CASE get_height(x) # DepthOf(share, x)
    <2>1. get_height(x) \in 0 .. DepthOf(share, x) /\ get_height(x) < DepthOf(share, x)
      BY <1>1, <1>4
    <2>2. NthBack(share, x, get_height(x)) \in 1 .. Len(share)
      BY <2>1, AtBack DEF GoesBack, Placed
    <2>3. get_last(x) # 0
      <3>1. 0 \notin 1 .. Len(share)
        OBVIOUS
      <3> QED BY <1>2, <2>2, <3>1
    <2> QED BY <1>4, <2>3 DEF HasHistory, None
  <1> QED BY <1>3, <1>4

-----------------------------------------------------------------------------
\* More shares change nothing that was true.
Longer(sh, more) ==
  /\ Chained(sh) /\ Chained(more) /\ Len(sh) <= Len(more)
  /\ \A h \in 1 .. Len(sh) : more[h] = sh[h]

\* Every sum to the first share stays the same.
LEMMA SumAllExtended ==
  ASSUME NEW sh, NEW more, Longer(sh, more)
  PROVE  \A x \in 0 .. Len(sh) : SumAll(more, x) = SumAll(sh, x)
  <1> DEFINE T == {x \in 0 .. Len(sh) : SumAll(more, x) = SumAll(sh, x)}
  <1>0. Chained(sh) /\ Chained(more) /\ Len(sh) \in Nat /\ Len(more) \in Nat /\ Len(sh) <= Len(more)
        /\ \A h \in 1 .. Len(sh) : more[h] = sh[h]
    BY DEF Longer, Chained, BackLinked
  <1>1. ASSUME NEW x \in 0 .. Len(sh), \A y \in 0 .. Len(sh) : y < x => y \in T
        PROVE  x \in T
    <2>1. CASE x = 0
      BY <1>0, <2>1, SumAllSteps
    <2>2. CASE x # 0
      <3>1. x \in 1 .. Len(sh) /\ x \in 1 .. Len(more) /\ more[x] = sh[x]
        BY <1>0, <2>2
      <3>2. sh[x].previous \in 0 .. Len(sh) /\ sh[x].previous < x
        BY <1>0, <3>1, PreviousIs DEF Chained
      <3>3. SumAll(sh, x) = combine_deltas(DeltaIn(sh[x]), SumAll(sh, sh[x].previous))
        BY <1>0, <3>1, SumAllSteps
      <3>4. SumAll(more, x) = combine_deltas(DeltaIn(more[x]), SumAll(more, more[x].previous))
        BY <1>0, <3>1, SumAllSteps
      <3>5. SumAll(more, sh[x].previous) = SumAll(sh, sh[x].previous)
        BY <1>1, <3>2
      <3>6. SumAll(more, x) = SumAll(sh, x)
        BY <3>1, <3>3, <3>4, <3>5
      <3> QED BY <3>6
    <2> QED BY <2>1, <2>2
  <1>2. \A x \in 0 .. Len(sh) : x \in T
    <2> HIDE DEF T
    <2> QED BY <1>0, <1>1, ByShares
  <1> QED BY <1>2

\* A true jump stays true.
LEMMA SkipsExtended ==
  ASSUME NEW sh, NEW more, Longer(sh, more), NEW sk, SkipsTrue(sk, sh)
  PROVE  SkipsTrue(sk, more)
  <1>1. Chained(sh) /\ Chained(more) /\ Len(sh) \in Nat /\ Len(more) \in Nat /\ Len(sh) <= Len(more)
        /\ \A h \in 1 .. Len(sh) : more[h] = sh[h]
    BY DEF Longer, Chained, BackLinked
  <1>2. \A x \in 0 .. Len(sh) : SumAll(more, x) = SumAll(sh, x) /\ DepthOf(more, x) = DepthOf(sh, x)
                                /\ \A n : NthBack(more, x, n) = NthBack(sh, x, n)
    BY <1>1, SumAllExtended, LineExtended DEF Chained
  <1>3. ASSUME NEW x \in 0 .. Len(sh), NEW d, NEW y, Spans(sh, d, x, y)
        PROVE  Spans(more, d, x, y)
    <2>1. y \in 0 .. Len(sh)
      BY <1>1, <1>3, SpansIn
    <2> QED BY <1>2, <1>3, <2>1 DEF Spans
  <1>4. DOMAIN sk \subseteq 1 .. Len(more)
    <2>1. 1 .. Len(sh) \subseteq 1 .. Len(more)
      BY <1>1
    <2> QED BY <2>1 DEF SkipsTrue
  <1>5. ASSUME NEW h \in DOMAIN sk PROVE RowTrue(sk[h], more, h)
    <2>1. RowTrue(sk[h], sh, h) /\ h \in 0 .. Len(sh)
      BY <1>1 DEF SkipsTrue
    <2> QED BY <1>3, <2>1 DEF RowTrue
  <1> QED BY <1>4, <1>5 DEF SkipsTrue

\* What the walks rest on.
Standing ==
  /\ Placed /\ Chained(share) /\ Len(share) <= MaxShares
  /\ SkipsTrue(skips, share) /\ level \in [Hash -> Nat \ {0}]

\* Where the window of generate_transaction begins, and how long it is when all of it is there.
From(sh, x) == IF x = 0 THEN 0 ELSE sh[x].previous
Window(sh, x) == IF x = 0 THEN 0
                 ELSE IF DepthOf(sh, x) < REAL_CHAIN_LENGTH THEN DepthOf(sh, x) - 1 ELSE REAL_CHAIN_LENGTH - 1

\* The chain has the shares of the window.
LEMMA WindowFits ==
  ASSUME NEW sh, Chained(sh), NEW x \in 0 .. Len(sh)
  PROVE  /\ From(sh, x) \in 0 .. Len(sh) /\ DepthOf(sh, From(sh, x)) \in Nat
         /\ Window(sh, x) \in 0 .. DepthOf(sh, From(sh, x))
         /\ x # 0 => DepthOf(sh, x) = DepthOf(sh, From(sh, x)) + 1
  <1>1. Len(sh) \in Nat /\ REAL_CHAIN_LENGTH \in Nat \ {0}
    BY PayoutsAssumption DEF Chained, BackLinked
  <1>2. CASE x = 0
    BY <1>2, LineSteps DEF From, Window, Chained
  <1>3. CASE x # 0
    <2>1. x \in 1 .. Len(sh)
      BY <1>1, <1>3
    <2>2. /\ sh[x].previous \in 0 .. Len(sh) /\ DepthOf(sh, sh[x].previous) \in Nat
          /\ DepthOf(sh, x) = DepthOf(sh, sh[x].previous) + 1
      BY <2>1, LineSteps DEF Chained
    <2>3. Window(sh, x) \in 0 .. DepthOf(sh, sh[x].previous)
      BY <1>1, <1>3, <2>2 DEF Window
    <2> QED BY <1>3, <2>2, <2>3 DEF From
  <1> QED BY <1>2, <1>3

\* The walk that generate_transaction asks for answers the plain sum of its window.
LEMMA WeightsForAnswer ==
  ASSUME Standing, NEW x \in 0 .. Len(share)
  PROVE  \E max \in 0 .. DepthOf(share, From(share, x)) :
           /\ Arrived(WeightsFor(x), share, From(share, x), max, Spread)
           /\ HasHistory(x) => max = Window(share, x)
  <1>0. /\ REAL_CHAIN_LENGTH \in Nat \ {0} /\ Spread \in Nat
        /\ Placed /\ Chained(share) /\ DOMAIN share = 1 .. Len(share) /\ Len(share) \in Nat
    BY PayoutsAssumption DEF Standing, Placed, BackLinked
  <1>1. PICK H \in Nat, D \in Nat : H = get_height(x) /\ D = DepthOf(share, x) /\ H <= D
    BY <1>0, HeightIs
  <1>2. PICK lo : lo = IF H < REAL_CHAIN_LENGTH THEN H ELSE REAL_CHAIN_LENGTH
    OBVIOUS
  <1>3. PICK max : max = IF 0 > lo - 1 THEN 0 ELSE lo - 1
    OBVIOUS
  <1>4. PICK from \in 0 .. Len(share) : from = From(share, x)
    BY <1>0, WindowFits
  <1>5. WeightsFor(x) = get_cumulative_weights(from, max, Spread)
    BY <1>1, <1>2, <1>3, <1>4 DEF WeightsFor, From, None
  <1>6. D = IF x = 0 THEN 0 ELSE DepthOf(share, from) + 1
    BY <1>0, <1>1, <1>4, WindowFits, LineSteps DEF Chained
  <1>7. DepthOf(share, from) \in Nat
    BY <1>0, <1>4, WindowFits
  <1>8. max \in 0 .. DepthOf(share, from)
    <2>1. lo \in Nat /\ lo <= D
      BY <1>0, <1>1, <1>2
    <2>2. max \in Nat /\ (max = 0 \/ max + 1 <= D)
      BY <2>1, <1>1, <1>3
    <2> QED BY <1>6, <1>7, <2>2
  <1>9. Arrived(get_cumulative_weights(from, max, Spread), share, from, max, Spread)
    BY <1>0, <1>8, WeightsAnswer DEF Standing
  <1>10. ASSUME HasHistory(x) PROVE max = Window(share, x)
    <2>1. H >= REAL_CHAIN_LENGTH \/ H = D
      BY <1>0, <1>1, <1>10, HistoryIs
    <2> QED BY <1>0, <1>1, <1>2, <1>3, <1>6, <1>7, <2>1 DEF Window
  <1> QED BY <1>4, <1>5, <1>8, <1>9, <1>10

\* So does the one of get_expected_payouts.
LEMMA ExpectedAnswer ==
  ASSUME Standing, NEW x \in 0 .. Len(share)
  PROVE  \E max \in 0 .. DepthOf(share, x) :
           /\ Arrived(ExpectedWeights(x), share, x, max, Spread)
           /\ HasHistory(x) => max = IF DepthOf(share, x) < REAL_CHAIN_LENGTH THEN DepthOf(share, x)
                                     ELSE REAL_CHAIN_LENGTH
  <1>0. /\ REAL_CHAIN_LENGTH \in Nat \ {0} /\ Spread \in Nat
        /\ Placed /\ Chained(share) /\ DOMAIN share = 1 .. Len(share)
    BY PayoutsAssumption DEF Standing, Placed
  <1>1. PICK H \in Nat, D \in Nat : H = get_height(x) /\ D = DepthOf(share, x) /\ H <= D
    BY <1>0, HeightIs
  <1>2. PICK max : max = IF H < REAL_CHAIN_LENGTH THEN H ELSE REAL_CHAIN_LENGTH
    OBVIOUS
  <1>3. ExpectedWeights(x) = get_cumulative_weights(x, max, Spread)
    BY <1>1, <1>2 DEF ExpectedWeights
  <1>4. max \in 0 .. DepthOf(share, x)
    BY <1>0, <1>1, <1>2
  <1>5. Arrived(get_cumulative_weights(x, max, Spread), share, x, max, Spread)
    BY <1>0, <1>4, WeightsAnswer DEF Standing
  <1>6. ASSUME HasHistory(x) PROVE max = IF D < REAL_CHAIN_LENGTH THEN D ELSE REAL_CHAIN_LENGTH
    <2>1. H >= REAL_CHAIN_LENGTH \/ H = D
      BY <1>0, <1>1, <1>6, HistoryIs
    <2> QED BY <1>0, <1>1, <1>2, <2>1
  <1> QED BY <1>1, <1>3, <1>4, <1>5, <1>6

\* Where the walks rest on what is true, every window is exact.
LEMMA StandingExact == ASSUME Standing PROVE WindowExact
  <1>0. /\ REAL_CHAIN_LENGTH \in Nat \ {0} /\ Spread \in Nat
        /\ Placed /\ Chained(share) /\ DOMAIN share = 1 .. Len(share) /\ items \subseteq 1 .. Len(share)
    BY PayoutsAssumption DEF Standing, Placed
  <1>1. SUFFICES ASSUME NEW h \in items, HasHistory(h)
                 PROVE  LET whole == Len(FullPath(h))
                            window == IF whole < REAL_CHAIN_LENGTH THEN whole ELSE REAL_CHAIN_LENGTH
                        IN /\ WeightsFor(h).sol = PlainWeights(share[h].previous, window - 1, Spread)
                           /\ ExpectedWeights(h).sol = PlainWeights(h, window, Spread)
    BY DEF WindowExact
  <1>2. h \in 1 .. Len(share) /\ h \in 0 .. Len(share) /\ h # 0
    BY <1>0
  <1>3. PICK D \in Nat : D = DepthOf(share, h) /\ D = Len(FullPath(h))
    <2>1. FullPath(h) = Line(share, h)
      BY <1>0, PathIsWalk DEF FullPath, Line
    <2>2. DepthOf(share, h) \in Nat
      BY <1>0, <1>2, LineSteps DEF Chained
    <2> QED BY <2>1, <2>2 DEF DepthOf
  <1>4. PICK window : window = IF D < REAL_CHAIN_LENGTH THEN D ELSE REAL_CHAIN_LENGTH
    OBVIOUS
  <1>5. Window(share, h) = window - 1 /\ From(share, h) = share[h].previous
    BY <1>2, <1>3, <1>4 DEF Window, From
  <1>6. WeightsFor(h).sol = PlainWeights(share[h].previous, window - 1, Spread)
    <2>1. PICK max \in 0 .. DepthOf(share, From(share, h)) :
            Arrived(WeightsFor(h), share, From(share, h), max, Spread) /\ max = Window(share, h)
      BY <1>1, <1>2, WeightsForAnswer
    <2>2. PICK from \in 0 .. Len(share) : from = From(share, h)
      BY <1>0, <1>2, WindowFits
    <2>3. Answer(PlainWeights(from, max, Spread), share, from, max, Spread)
      BY <1>0, <2>1, <2>2, PlainIsAnswer
    <2>4. Answer(WeightsFor(h).sol, share, from, max, Spread)
      BY <2>1, <2>2 DEF Arrived
    <2>5. max \in Nat
      BY <2>1
    <2>6. WeightsFor(h).sol = PlainWeights(from, max, Spread)
      BY <1>0, <2>3, <2>4, <2>5, AnswerIsOne
    <2> QED BY <1>5, <2>1, <2>2, <2>6
  <1>7. ExpectedWeights(h).sol = PlainWeights(h, window, Spread)
    <2>1. PICK max \in 0 .. DepthOf(share, h) :
            Arrived(ExpectedWeights(h), share, h, max, Spread) /\ max = window
      BY <1>1, <1>2, <1>3, <1>4, ExpectedAnswer
    <2>2. Answer(PlainWeights(h, max, Spread), share, h, max, Spread)
      BY <1>0, <1>2, <2>1, PlainIsAnswer
    <2>3. Answer(ExpectedWeights(h).sol, share, h, max, Spread)
      BY <2>1 DEF Arrived
    <2>4. max \in Nat
      BY <2>1
    <2> QED BY <1>0, <2>1, <2>2, <2>3, <2>4, AnswerIsOne
  <1> QED BY <1>3, <1>4, <1>6, <1>7

-----------------------------------------------------------------------------
\* Sums over parts of a finite set.

\* What is summed over a part is the whole sum's value there.
LEMMA PartSum ==
  ASSUME NEW D, IsFiniteSet(D), NEW f \in [D -> Int], NEW g, Sums(g, f, D), NEW R \in SUBSET D
  PROVE  SumIn(f, R) = g[R]
  <1> DEFINE G == CHOOSE h : Sums(h, f, R)
  <1>1. SumIn(f, R) = G[R]
    BY DEF SumIn, MapThenSumSet, MapThenFoldSet, Sums, Pick
  <1>2. Sums(G, f, R)
    <2>1. PICK h : h = [s \in SUBSET R |-> g[s]]
      OBVIOUS
    <2>2. ASSUME NEW s \in SUBSET R PROVE h[s] = IF s = {} THEN 0 ELSE f[Pick(s)] + h[s \ {Pick(s)}]
      <3>1. s \in SUBSET D /\ s \ {Pick(s)} \in SUBSET R
        OBVIOUS
      <3>2. g[s] = IF s = {} THEN 0 ELSE f[Pick(s)] + g[s \ {Pick(s)}]
        BY <3>1 DEF Sums
      <3> QED BY <2>1, <3>1, <3>2
    <2>3. Sums(h, f, R)
      BY <2>1, <2>2 DEF Sums
    <2> QED BY <2>3
  <1> HIDE DEF G
  <1>3. \A s \in SUBSET R : G[s] = IF s = {} THEN 0 ELSE G[s \ {Pick(s)}] + f[Pick(s)]
    <2>1. ASSUME NEW s \in SUBSET R, s # {} PROVE G[s] = f[Pick(s)] + G[s \ {Pick(s)}]
      BY <1>2, <2>1 DEF Sums
    <2>2. \A h : Sums(h, f, R) => \A s \in SUBSET R : h[s] \in Int
      <3>1. IsFiniteSet(R)
        BY FS_Subset
      <3>2. PICK e : e = [x \in R |-> f[x]]
        OBVIOUS
      <3>3. e \in [R -> Int]
        BY <3>2
      <3>4. ASSUME NEW h, Sums(h, f, R) PROVE Sums(h, e, R)
        <4>1. \A s \in SUBSET R : s # {} => Pick(s) \in R
          BY DEF Pick
        <4>2. \A s \in SUBSET R : h[s] = IF s = {} THEN 0 ELSE e[Pick(s)] + h[s \ {Pick(s)}]
          BY <3>2, <3>4, <4>1 DEF Sums
        <4>3. h = [s \in SUBSET R |-> h[s]]
          BY <3>4 DEF Sums
        <4> QED BY <4>2, <4>3 DEF Sums
      <3> QED BY <3>1, <3>3, <3>4, SumTakes
    <2>3. ASSUME NEW s \in SUBSET R, s # {} PROVE G[s] = G[s \ {Pick(s)}] + f[Pick(s)]
      <3>1. Pick(s) \in D /\ s \ {Pick(s)} \in SUBSET R
        BY <2>3 DEF Pick
      <3>2. PICK a \in Int, b \in Int : a = G[s \ {Pick(s)}] /\ b = f[Pick(s)]
        BY <1>2, <2>2, <3>1
      <3>3. a + b = b + a
        OBVIOUS
      <3>4. G[s] = b + a
        BY <2>1, <2>3, <3>2
      <3> QED BY <3>2, <3>3, <3>4
    <2>4. G[{}] = 0
      BY <1>2 DEF Sums
    <2> QED BY <2>3, <2>4
  <1>4. G[R] = g[R]
    BY <1>3, SumOfPart
  <1> QED BY <1>1, <1>4

\* Of a finite set that is not empty one element can be taken.
LEMMA OneTaken ==
  ASSUME NEW S, IsFiniteSet(S), NEW s \in SUBSET S, s # {}
  PROVE  \E y \in s : s \ {y} \in SUBSET S /\ Cardinality(s \ {y}) < Cardinality(s)
  <1>1. Pick(s) \in s /\ Cardinality(s) \in Nat /\ Cardinality(s \ {Pick(s)}) = Cardinality(s) - 1
        /\ s \ {Pick(s)} \in SUBSET S
    BY Picked
  <1>2. PICK y \in s : /\ s \ {y} \in SUBSET S /\ Cardinality(s) \in Nat
                       /\ Cardinality(s \ {y}) = Cardinality(s) - 1
    BY <1>1
  <1>3. Cardinality(s \ {y}) < Cardinality(s)
    BY <1>2
  <1> QED BY <1>2, <1>3

\* The sum over two parts is the sum of both; of nothing negative it is not negative.
LEMMA SumOfParts ==
  ASSUME NEW D, IsFiniteSet(D), NEW f \in [D -> Int], NEW g, Sums(g, f, D), NEW R \in SUBSET D
  PROVE  \A s \in SUBSET (D \ R) : g[R \cup s] = g[R] + g[s]
  <1> DEFINE U == D \ R
             T == {s \in SUBSET U : g[R \cup s] = g[R] + g[s]}
  <1>0. IsFiniteSet(U) /\ U \in SUBSET D
    BY FS_Subset
  <1>1. ASSUME NEW s \in SUBSET U,
               \A t \in SUBSET U : Cardinality(t) < Cardinality(s) => t \in T
        PROVE  s \in T
    <2>1. CASE s = {}
      <3>1. g[R] \in Int
        BY SumTakes
      <3>2. g[{}] = 0
        BY DEF Sums
      <3> QED BY <2>1, <3>1, <3>2
    <2>2. CASE s # {}
      <3>1. PICK y \in s : s \ {y} \in SUBSET U /\ Cardinality(s \ {y}) < Cardinality(s)
        BY <1>0, <2>2, OneTaken
      <3>2. /\ R \cup s \in SUBSET D /\ y \in R \cup s /\ y \in D
            /\ (R \cup s) \ {y} = R \cup (s \ {y}) /\ s \in SUBSET D
        BY <3>1
      <3>3. g[R \cup (s \ {y})] = g[R] + g[s \ {y}]
        BY <1>1, <3>1
      <3>4. g[R \cup s] = f[y] + g[(R \cup s) \ {y}]
        BY ONLY <3>2, SumTake, IsFiniteSet(D), f \in [D -> Int], Sums(g, f, D)
      <3>5. g[s] = f[y] + g[s \ {y}] /\ g[s \ {y}] \in Int
        BY ONLY <3>1, <3>2, SumTake, IsFiniteSet(D), f \in [D -> Int], Sums(g, f, D)
      <3>6. g[R] \in Int /\ f[y] \in Int
        BY <3>2, SumTakes
      <3>7. PICK a \in Int, b \in Int, c \in Int : a = g[R] /\ b = f[y] /\ c = g[s \ {y}]
        BY <3>5, <3>6
      <3>8. g[R \cup s] = b + (a + c) /\ g[s] = b + c
        BY <3>2, <3>3, <3>4, <3>5, <3>7
      <3>9. b + (a + c) = a + (b + c)
        OBVIOUS
      <3>10. g[R \cup s] = g[R] + g[s]
        BY <3>7, <3>8, <3>9
      <3> QED BY <3>10
    <2> QED BY <2>1, <2>2
  <1>2. SUBSET U \subseteq T
    <2> HIDE DEF T, U
    <2> QED BY <1>0, <1>1, BySize
  <1> QED BY <1>2

\* c times the one sum is no more than k times the other, when it is so of each two numbers.
LEMMA SumLeast ==
  ASSUME NEW D, IsFiniteSet(D), NEW f \in [D -> Int], NEW e \in [D -> Int], NEW c \in Int, NEW k \in Int,
         \A x \in D : c * f[x] <= k * e[x],
         NEW g, Sums(g, f, D), NEW h, Sums(h, e, D)
  PROVE  \A s \in SUBSET D : g[s] \in Int /\ h[s] \in Int /\ c * g[s] <= k * h[s]
  <1> DEFINE T == {s \in SUBSET D : c * g[s] <= k * h[s]}
  <1>1. ASSUME NEW s \in SUBSET D,
               \A t \in SUBSET D : Cardinality(t) < Cardinality(s) => t \in T
        PROVE  s \in T
    <2>1. CASE s = {}
      <3>1. g[{}] = 0 /\ h[{}] = 0
        BY DEF Sums
      <3> QED BY <2>1, <3>1
    <2>2. CASE s # {}
      <3>1. PICK y \in s : s \ {y} \in SUBSET D /\ Cardinality(s \ {y}) < Cardinality(s)
        BY <2>2, OneTaken
      <3>2. c * g[s \ {y}] <= k * h[s \ {y}] /\ c * f[y] <= k * e[y]
        BY <1>1, <3>1
      <3>3. /\ g[s] = f[y] + g[s \ {y}] /\ g[s \ {y}] \in Int /\ f[y] \in Int
            /\ h[s] = e[y] + h[s \ {y}] /\ h[s \ {y}] \in Int /\ e[y] \in Int
        <4>1. g[s] = f[y] + g[s \ {y}] /\ g[s \ {y}] \in Int
          BY SumTake
        <4>2. h[s] = e[y] + h[s \ {y}] /\ h[s \ {y}] \in Int
          BY SumTake
        <4> QED BY <4>1, <4>2
      <3>4. PICK a \in Int, b \in Int, p \in Int, q \in Int :
              a = f[y] /\ b = g[s \ {y}] /\ p = e[y] /\ q = h[s \ {y}]
        BY <3>3
      <3>5. c * (a + b) = c * a + c * b /\ k * (p + q) = k * p + k * q
        OBVIOUS
      <3>6. c * (a + b) <= k * (p + q)
        BY <3>2, <3>4, <3>5
      <3> QED BY <3>3, <3>4, <3>6
    <2> QED BY <2>1, <2>2
  <1>2. SUBSET D \subseteq T
    <2> HIDE DEF T
    <2> QED BY <1>1, BySize
  <1> QED BY <1>2, SumTakes

\* A sum of what is not negative is not negative.
LEMMA SumNotNegative ==
  ASSUME NEW D, IsFiniteSet(D), NEW f \in [D -> Nat], NEW g, Sums(g, f, D)
  PROVE  \A s \in SUBSET D : g[s] \in Nat
  <1>1. f \in [D -> Int] /\ \A x \in D : 0 * f[x] <= 1 * f[x]
    OBVIOUS
  <1>2. ASSUME NEW s \in SUBSET D PROVE g[s] \in Nat
    <2>1. g[s] \in Int /\ 0 * g[s] <= 1 * g[s]
      BY <1>1, SumLeast
    <2> QED BY <2>1
  <1> QED BY <1>2

\* The same of whole sums.
LEMMA SumOfIs ==
  ASSUME NEW D, IsFiniteSet(D), NEW f \in [D -> Int]
  PROVE  SumOf(f) \in Int /\ SumIn(f, D) = SumOf(f)
  <1>1. PICK g : Sums(g, f, D) /\ SumOf(f) = g[D]
    BY SumByFold
  <1>2. SumIn(f, D) = g[D]
    BY <1>1, PartSum
  <1>3. g[D] \in Int
    BY <1>1, SumTakes
  <1> QED BY <1>1, <1>2, <1>3

\* The same of sums over all of D.
LEMMA SumOfAtMost ==
  ASSUME NEW D, IsFiniteSet(D), NEW f \in [D -> Int], NEW e \in [D -> Int], NEW c \in Int, NEW k \in Int,
         \A x \in D : c * f[x] <= k * e[x]
  PROVE  c * SumOf(f) <= k * SumOf(e)
  <1>1. PICK g : Sums(g, f, D) /\ SumOf(f) = g[D]
    BY SumByFold
  <1>2. PICK h : Sums(h, e, D) /\ SumOf(e) = h[D]
    BY SumByFold
  <1> QED BY <1>1, <1>2, SumLeast

-----------------------------------------------------------------------------
\* Nobody's weights come to more than there is to share out.
Balanced(d) == SumOf(d.weights) <= d.total

\* The payees can be summed over.
LEMMA PayeesAreFinite == IsFiniteSet(Payee)
  BY PayoutsAssumption

\* It stays so when sums are put together,
LEMMA CombineBalanced ==
  ASSUME NEW d \in DeltaType, Balanced(d), NEW e \in DeltaType, NEW a \in Payee,
         \A b \in Payee : b # a => e.weights[b] = 0, e.weights[a] <= e.total
  PROVE  Balanced(combine_deltas(d, e))
  <1>1. PICK c \in DeltaType : /\ c = combine_deltas(d, e) /\ c.total = d.total + e.total
                               /\ \A b \in Payee : c.weights[b] = d.weights[b] + e.weights[b]
    BY CombineType
  <1>2. /\ d.weights \in [Payee -> Int] /\ c.weights \in [Payee -> Int]
        /\ d.total \in Nat /\ e.total \in Nat /\ c.total \in Nat
        /\ \A b \in Payee : d.weights[b] \in Nat /\ e.weights[b] \in Nat
    BY <1>1 DEF DeltaType
  <1>3. \A b \in Payee : b # a => d.weights[b] = c.weights[b]
    BY <1>1, <1>2
  <1>4. PICK w : w = d.weights /\ w \in [Payee -> Int]
    BY <1>2
  <1>5. PICK v : v = c.weights /\ v \in [Payee -> Int]
    BY <1>2
  <1>6. SumOf(w) \in Int /\ SumOf(v) = SumOf(w) - w[a] + v[a]
    BY <1>3, <1>4, <1>5, PayeesAreFinite, SumChange
  <1>7. PICK x \in Int, y \in Nat, z \in Nat : x = SumOf(w) /\ y = w[a] /\ z = e.weights[a] /\ v[a] = y + z
    BY <1>1, <1>2, <1>4, <1>5, <1>6
  <1>8. x <= d.total /\ z <= e.total /\ SumOf(v) = x - y + (y + z)
    BY <1>4, <1>6, <1>7 DEF Balanced
  <1>9. SumOf(v) <= c.total
    BY ONLY <1>1, <1>2, <1>7, <1>8
  <1> QED BY <1>1, <1>5, <1>9 DEF Balanced

\* when one more share is summed, or the part of it there is room for,
LEMMA ApplyBalanced ==
  ASSUME NEW sol \in DeltaType, Balanced(sol), NEW desired \in Nat, sol.total <= desired,
         NEW r, Weighs(r)
  PROVE  Balanced(apply_delta(sol, DeltaIn(r), desired))
  <1>1. PICK n \in Nat : n = target_to_average_attempts(r.bits) /\ n >= 1
    BY AttemptsArePositive DEF Weighs
  <1>2. PICK u \in Nat, g \in Nat : u = Unit /\ u >= 1 /\ g = r.donation /\ g <= u /\ u - g \in Nat
    BY UnitAssumption DEF Weighs
  <1>3. r.address \in Payee
    BY DEF Weighs
  <1>4. PICK w : w = [a \in Payee |-> IF a = r.address THEN n * (u - g) ELSE 0]
    OBVIOUS
  <1>5. PICK d : d = DeltaIn(r) /\ d = [count |-> 1, weights |-> w, total |-> n * u, donation |-> n * g]
    BY <1>1, <1>2, <1>4 DEF DeltaIn, Delta
  <1>6. d \in DeltaType
    BY <1>5, DeltaInType
  <1>7. n * (u - g) <= n * u /\ n * u \in Nat /\ (n * u) \div u = n
    BY <1>1, <1>2
  <1>8. CASE sol.total + d.total <= desired
    <2>1. apply_delta(sol, d, desired) = combine_deltas(sol, d)
      <3>1. sol.total \in Nat /\ d.total \in Nat
        BY <1>6 DEF DeltaType
      <3> QED BY <1>8, <3>1 DEF apply_delta
    <2>2. d.weights[r.address] <= d.total /\ \A b \in Payee : b # r.address => d.weights[b] = 0
      BY <1>3, <1>4, <1>5, <1>7
    <2>3. Balanced(combine_deltas(sol, d))
      BY <1>3, <1>6, <2>2, CombineBalanced
    <2> QED BY <1>5, <2>1, <2>3
  <1>9. CASE ~ (sol.total + d.total <= desired)
    <2>1. PICK room \in Nat : room = desired - sol.total
      <3>1. sol.total \in Nat
        BY DEF DeltaType
      <3> QED BY <3>1
    <2>2. PICK k \in Nat : k = room \div u /\ k * u <= room
      BY <1>2, <2>1
    <2>3. d.total \div Unit = n /\ Unit = u
      BY <1>2, <1>5, <1>7
    <2>4. PICK p : p = Part(d, room)
      OBVIOUS
    <2>5. PICK v : v = [a \in Payee |-> (k * d.weights[a]) \div n]
      OBVIOUS
    <2>6. p = [count |-> 1, weights |-> v, total |-> room, donation |-> (k * d.donation) \div n]
      BY <2>2, <2>3, <2>4, <2>5 DEF Part
    <2>7. (k * (n * (u - g))) \div n = k * (u - g)
      <3>1. PICK h \in Nat : h = u - g
        BY <1>2
      <3>2. k * (n * h) = n * (k * h) /\ k * h \in Nat
        OBVIOUS
      <3>3. \A z \in Nat : (n * z) \div n = z
        BY <1>1
      <3> QED BY <3>1, <3>2, <3>3
    <2>8. k * (u - g) <= room /\ k * (u - g) \in Nat
      <3>1. PICK h \in Nat : h = u - g /\ h <= u
        BY <1>2
      <3>2. k * h <= k * u /\ k * h \in Nat
        BY <3>1
      <3> QED BY <2>2, <3>1, <3>2
    <2>9. v[r.address] = k * (u - g)
      BY <1>3, <1>4, <1>5, <2>5, <2>7
    <2>10. ASSUME NEW b \in Payee, b # r.address PROVE v[b] = 0
      <3>1. d.weights[b] = 0
        BY <1>4, <1>5, <2>10
      <3>2. (k * 0) \div n = 0
        BY <1>1
      <3> QED BY <2>5, <3>1, <3>2
    <2>11. v \in [Payee -> Nat]
      <3>1. \A b \in Payee : v[b] \in Nat
        BY <2>8, <2>9, <2>10
      <3> QED BY <2>5, <3>1
    <2>12. (k * d.donation) \div n \in Nat
      <3>1. k * (n * g) \in Nat
        OBVIOUS
      <3>2. (k * (n * g)) \div n \in Nat
        BY <1>1, <3>1
      <3> QED BY <1>5, <3>2
    <2>13. p \in DeltaType /\ p.total = room /\ p.weights = v
      BY <2>6, <2>11, <2>12 DEF DeltaType
    <2>14. Balanced(combine_deltas(sol, p))
      BY <1>3, <2>8, <2>9, <2>10, <2>13, CombineBalanced
    <2>15. apply_delta(sol, d, desired) = combine_deltas(sol, p)
      <3>1. sol.total + d.total > desired /\ d.count = 1
        <4>1. sol.total \in Nat /\ d.total \in Nat
          BY <1>6 DEF DeltaType
        <4> QED BY <1>5, <1>9, <4>1
      <3> QED BY <2>1, <2>4, <3>1 DEF apply_delta
    <2> QED BY <1>5, <2>14, <2>15
  <1> QED BY <1>8, <1>9

\* and so along a whole window.
LEMMA AnswerBalanced ==
  ASSUME NEW sh, Chained(sh), NEW s \in 0 .. Len(sh), NEW max \in 0 .. DepthOf(sh, s), NEW desired \in Nat,
         NEW sol, Answer(sol, sh, s, max, desired)
  PROVE  sol \in DeltaType /\ Balanced(sol)
  <1>n. PICK n \in 0 .. max : \E f : AlongLine(f, sh, s, n, desired) /\ sol = f[n]
    BY DEF Answer
  <1>1. PICK f : AlongLine(f, sh, s, n, desired) /\ sol = f[n]
    BY <1>n
  <1>2. max \in Nat /\ DepthOf(sh, s) \in Nat
    BY LineSteps DEF Chained
  <1>3. /\ \A k \in 0 .. n : f[k] \in DeltaType /\ f[k].total <= desired
        /\ f[0] = Zero
        /\ \A k \in 1 .. n : f[k] = apply_delta(f[k - 1], DeltaIn(sh[NthBack(sh, s, k - 1)]), desired)
    BY <1>1 DEF AlongLine, Within
  <1> DEFINE T == {k \in 0 .. n : Balanced(f[k])}
  <1>4. 0 \in T
    <2>1. Zero.weights \in [Payee -> Int] /\ (\A a \in Payee : Zero.weights[a] = 0) /\ Zero.total = 0
      BY CombineZero DEF DeltaType
    <2>2. SumOf(Zero.weights) = 0
      BY <2>1, PayeesAreFinite, SumOfNothing
    <2> QED BY <1>2, <1>3, <2>1, <2>2 DEF Balanced
  <1>5. ASSUME NEW k \in 1 .. n, k - 1 \in T PROVE k \in T
    <2>1. k - 1 \in 0 .. n /\ k \in 0 .. n /\ k - 1 \in 0 .. DepthOf(sh, s) /\ k - 1 < DepthOf(sh, s)
      BY <1>2
    <2>2. NthBack(sh, s, k - 1) \in 1 .. Len(sh)
      BY <2>1, AtBack DEF GoesBack, Chained
    <2>3. PICK r : r = sh[NthBack(sh, s, k - 1)] /\ Weighs(r)
      BY <2>2 DEF Chained
    <2>4. f[k - 1] \in DeltaType /\ f[k - 1].total <= desired /\ Balanced(f[k - 1])
      BY <1>3, <1>5, <2>1
    <2>5. Balanced(apply_delta(f[k - 1], DeltaIn(r), desired))
      BY <2>3, <2>4, ApplyBalanced
    <2> QED BY <1>3, <2>1, <2>3, <2>5
  <1>6. \A k \in 0 .. n : k \in T
    <2> HIDE DEF T
    <2> QED BY <1>2, <1>4, <1>5, UpTo
  <1>7. n \in 0 .. n
    BY <1>2
  <1> QED BY <1>1, <1>3, <1>6, <1>7

\* A sum of what is not negative is no less than any part of it.
LEMMA SumHolds ==
  ASSUME NEW D, IsFiniteSet(D), NEW f \in [D -> Nat]
  PROVE  SumOf(f) \in Nat /\ \A x \in D : f[x] <= SumOf(f)
  <1>1. f \in [D -> Int]
    OBVIOUS
  <1>2. PICK g : Sums(g, f, D) /\ SumOf(f) = g[D]
    BY <1>1, SumByFold
  <1>3. \A s \in SUBSET D : g[s] \in Nat
    BY <1>2, SumNotNegative
  <1>4. ASSUME NEW x \in D PROVE f[x] <= SumOf(f)
    <2>1. g[D] = f[x] + g[D \ {x}] /\ D \ {x} \in SUBSET D
      BY <1>1, <1>2, SumTake
    <2>2. g[D \ {x}] \in Nat /\ f[x] \in Nat
      BY <1>3
    <2> QED BY <1>2, <2>1, <2>2
  <1> QED BY <1>2, <1>3, <1>4

\* The coinbase pays all of the subsidy, and nobody less than nothing.
LEMMA AmountsPaid ==
  ASSUME NEW version, NEW address \in Payee, NEW subsidy \in Nat,
         NEW weights \in [Payee -> Nat], NEW total \in Nat, SumOf(weights) <= total
  PROVE  /\ Amounts(version, address, subsidy, weights, total) \in [Payee -> Nat]
         /\ SumIn(Amounts(version, address, subsidy, weights, total), Payee) = subsidy
  <1> DEFINE share1 == [a \in Payee |-> IF weights[a] = 0 THEN 0
                                        ELSE (subsidy * (199 * weights[a])) \div (200 * total)]
             finder == [share1 EXCEPT ![address] = @ + subsidy \div 200]
             remainder == subsidy - SumIn(finder, Payee)
             rest == IF PAYS_LEGACY_DONATION(version) THEN donation_address ELSE address
             all == [finder EXCEPT ![rest] = @ + remainder]
  <1>1. Amounts(version, address, subsidy, weights, total) = all
    BY DEF Amounts
  <1>2. IsFiniteSet(Payee) /\ rest \in Payee
    BY PayoutsAssumption
  <1>3. \A a \in Payee : weights[a] # 0 => total \in Nat \ {0}
    <2>1. ASSUME NEW a \in Payee, weights[a] # 0 PROVE total \in Nat \ {0}
      <3>1. weights[a] <= SumOf(weights) /\ SumOf(weights) \in Nat /\ weights[a] \in Nat
        BY <1>2, SumHolds
      <3> QED BY <2>1, <3>1
    <2> QED BY <2>1
  <1>4. ASSUME NEW a \in Payee
        PROVE  share1[a] \in Nat /\ (200 * total) * share1[a] <= (199 * subsidy) * weights[a]
    <2>1. weights[a] \in Nat
      OBVIOUS
    <2>2. CASE weights[a] = 0
      <3>1. share1[a] = 0
        BY <2>2
      <3>2. (200 * total) * 0 <= (199 * subsidy) * 0
        OBVIOUS
      <3> HIDE DEF share1
      <3> QED BY <2>2, <3>1, <3>2
    <2>3. CASE weights[a] # 0
      <3>1. PICK t \in Nat \ {0} : t = total
        BY <1>3, <2>3
      <3>2. PICK w \in Nat : w = weights[a]
        OBVIOUS
      <3>3. share1[a] = (subsidy * (199 * w)) \div (200 * t)
        BY <2>3, <3>1, <3>2
      <3>4. PICK X \in Nat, D \in Nat \ {0} : X = subsidy * (199 * w) /\ D = 200 * t
        BY <3>1
      <3>5. X \div D \in Nat /\ D * (X \div D) <= X
        BY <3>4
      <3>6. X = (199 * subsidy) * w
        BY <3>4
      <3> QED BY <3>1, <3>2, <3>3, <3>4, <3>5, <3>6
    <2> HIDE DEF share1
    <2> QED BY <2>2, <2>3
  <1>5. share1 \in [Payee -> Nat]
    <2>1. share1 = [a \in Payee |-> share1[a]]
      OBVIOUS
    <2> HIDE DEF share1
    <2> QED BY <1>4, <2>1
  <1> HIDE DEF share1
  <1>6. PICK S \in Nat : S = SumOf(share1)
    BY <1>2, <1>5, SumHolds
  <1>7. 200 * S <= 199 * subsidy
    <2>1. CASE total = 0
      <3>1. \A a \in Payee : weights[a] = 0
        BY <1>3, <2>1
      <3>2. \A a \in Payee : share1[a] = 0
        BY <3>1 DEF share1
      <3>3. S = 0
        <4>1. share1 \in [Payee -> Int]
          BY <1>5
        <4> QED BY <1>2, <1>6, <3>2, <4>1, SumOfNothing
      <3> QED BY <3>3
    <2>2. CASE total # 0
      <3>1. PICK W \in Nat : W = SumOf(weights) /\ W <= total
        BY <1>2, SumHolds
      <3>2. PICK c \in Int, k \in Int : c = 200 * total /\ k = 199 * subsidy
        OBVIOUS
      <3>3. \A a \in Payee : c * share1[a] <= k * weights[a]
        BY <1>4, <3>2
      <3>4. share1 \in [Payee -> Int] /\ weights \in [Payee -> Int]
        BY <1>5
      <3>5. c * S <= k * W
        BY <1>2, <1>6, <3>1, <3>3, <3>4, SumOfAtMost
      <3>6. PICK p \in Nat : p = 199 * subsidy
        OBVIOUS
      <3>7. p * W <= p * total
        BY <3>1
      <3>8. (200 * total) * S <= p * total
        BY <3>2, <3>5, <3>6, <3>7
      <3>9. (200 * total) * S = total * (200 * S) /\ p * total = total * p
        OBVIOUS
      <3>10. total * (200 * S) <= total * p
        BY <3>8, <3>9
      <3>11. \A x \in Nat, y \in Nat, z \in Nat \ {0} : z * x <= z * y => x <= y
        OBVIOUS
      <3>12. 200 * S \in Nat /\ total \in Nat \ {0}
        BY <2>2
      <3>13. 200 * S <= p
        BY ONLY <3>10, <3>11, <3>12, <3>6
      <3> QED BY <3>6, <3>13
    <2> QED BY <2>1, <2>2
  <1>8. PICK b \in Nat : b = subsidy \div 200 /\ 200 * b <= subsidy
    OBVIOUS
  <1>9. finder \in [Payee -> Nat] /\ finder[address] = share1[address] + b
        /\ \A a \in Payee : a # address => finder[a] = share1[a]
    BY <1>5, <1>8
  <1> HIDE DEF finder
  <1>10. SumOf(finder) = S + b
    <2>1. share1 \in [Payee -> Int] /\ finder \in [Payee -> Int] /\ \A a \in Payee : a # address => share1[a] = finder[a]
      BY <1>5, <1>9
    <2>2. SumOf(finder) = S - share1[address] + finder[address]
      BY <1>2, <1>6, <2>1, SumChange
    <2>3. share1[address] \in Nat
      BY <1>5
    <2> QED BY <1>6, <1>8, <1>9, <2>2, <2>3
  <1>11. S + b <= subsidy
    BY <1>6, <1>7, <1>8
  <1>12. remainder = subsidy - (S + b) /\ remainder \in Nat
    <2>1. SumIn(finder, Payee) = SumOf(finder)
      BY <1>2, <1>9, SumOfIs
    <2> QED BY <1>10, <1>11, <2>1
  <1> HIDE DEF remainder, rest
  <1>13. all \in [Payee -> Nat] /\ all[rest] = finder[rest] + remainder
         /\ \A a \in Payee : a # rest => all[a] = finder[a]
    BY <1>2, <1>9, <1>12
  <1> HIDE DEF all
  <1>14. SumOf(all) = S + b + remainder
    <2>1. finder \in [Payee -> Int] /\ all \in [Payee -> Int] /\ \A a \in Payee : a # rest => finder[a] = all[a]
      BY <1>9, <1>13
    <2>2. SumOf(all) = S + b - finder[rest] + all[rest]
      BY <1>2, <1>10, <2>1, SumChange
    <2>3. finder[rest] \in Nat
      BY <1>2, <1>9
    <2> QED BY <1>12, <1>13, <2>2, <2>3
  <1>15. SumIn(all, Payee) = subsidy
    <2>1. SumIn(all, Payee) = SumOf(all)
      BY <1>2, <1>13, SumOfIs
    <2> QED BY <1>12, <1>14, <2>1
  <1> QED BY <1>1, <1>13, <1>15

\* What is claimed, written out.
LEMMA Claimed ==
  ASSUME NEW subsidy, NEW fees, NEW known, NEW fit, NEW R, R = DOMAIN fees \ (1 .. fit)
  PROVE  ClaimedSubsidy(subsidy, fees, known, fit)
         = IF R \subseteq known THEN subsidy - SumIn(fees, R)
           ELSE Subsidy + SumIn(fees, (1 .. fit) \cap known)
  BY DEF ClaimedSubsidy

\* A share claims no more than the coin grants for the transactions left in it.
LEMMA ClaimFits ==
  ASSUME NEW fees \in Seq(Nat), NEW known \in SUBSET DOMAIN fees, NEW fit \in 0 .. Len(fees)
  PROVE  LET claimed == ClaimedSubsidy(Subsidy + SumIn(fees, DOMAIN fees), fees, known, fit)
             most == Subsidy + SumIn(fees, 1 .. fit)
         IN  claimed \in Nat /\ most \in Nat /\ claimed <= most
  <1> DEFINE D == DOMAIN fees
             included == 1 .. fit
             removed == D \ included
             whole == Subsidy + SumIn(fees, D)
             claimed == ClaimedSubsidy(whole, fees, known, fit)
             most == Subsidy + SumIn(fees, included)
  <1>0. /\ Len(fees) \in Nat /\ D = 1 .. Len(fees) /\ fees \in [D -> Nat] /\ fees \in [D -> Int]
        /\ Subsidy \in Nat
    <2>1. Subsidy \in Nat
      BY PayoutsAssumption
    <2>2. Len(fees) \in Nat /\ D = 1 .. Len(fees) /\ fees \in [D -> Nat]
      OBVIOUS
    <2>3. fees \in [D -> Int]
      BY <2>2
    <2> QED BY <2>1, <2>2, <2>3
  <1>1. IsFiniteSet(D)
    <2>1. 1 \in Int /\ Len(fees) \in Int
      BY <1>0
    <2>2. IsFiniteSet(1 .. Len(fees))
      BY ONLY <2>1, FS_Interval
    <2> QED BY <1>0, <2>2
  <1>2. included \in SUBSET D /\ removed \in SUBSET D /\ D = included \cup removed
        /\ removed \in SUBSET (D \ included) /\ D \in SUBSET D
        /\ included \cap known \in SUBSET D /\ included \ known \in SUBSET D
        /\ included = (included \cap known) \cup (included \ known)
        /\ included \ known \in SUBSET (D \ (included \cap known))
    BY <1>0
  <1>3. SUFFICES claimed \in Nat /\ most \in Nat /\ claimed <= most
    OBVIOUS
  <1>4. claimed = IF removed \subseteq known THEN whole - SumIn(fees, removed)
                  ELSE Subsidy + SumIn(fees, included \cap known)
    <2> HIDE DEF whole
    <2> QED BY Claimed
  <1> HIDE DEF D, included, removed, claimed, most
  <1>5. PICK g : Sums(g, fees, D)
    BY <1>0, <1>1, SumExists
  <1>6. \A R \in SUBSET D : SumIn(fees, R) = g[R] /\ g[R] \in Nat
    <2>1. fees \in [D -> Nat] /\ fees \in [D -> Int]
      BY <1>0
    <2>2. \A R \in SUBSET D : SumIn(fees, R) = g[R]
      BY ONLY <2>1, <1>1, <1>5, PartSum
    <2>3. \A R \in SUBSET D : g[R] \in Nat
      BY ONLY <2>1, <1>1, <1>5, SumNotNegative
    <2> QED BY <2>2, <2>3
  <1>7. \A R \in SUBSET D : \A s \in SUBSET (D \ R) : g[R \cup s] = g[R] + g[s]
    <2>1. fees \in [D -> Int]
      BY <1>0
    <2>2. ASSUME NEW R \in SUBSET D PROVE \A s \in SUBSET (D \ R) : g[R \cup s] = g[R] + g[s]
      BY <2>1, <1>1, <1>5, SumOfParts
    <2> QED BY <2>2
  <1>8. /\ g[D] = g[included] + g[removed]
        /\ g[included] = g[included \cap known] + g[included \ known]
    <2>1. g[included \cup removed] = g[included] + g[removed]
      BY <1>2, <1>7
    <2>2. g[(included \cap known) \cup (included \ known)] = g[included \cap known] + g[included \ known]
      BY <1>2, <1>7
    <2>3. D = included \cup removed /\ included = (included \cap known) \cup (included \ known)
      BY <1>2
    <2> QED BY <2>1, <2>2, <2>3
  <1>9. PICK a \in Nat, b \in Nat, c \in Nat, d \in Nat :
          a = g[included] /\ b = g[removed] /\ c = g[included \cap known] /\ d = g[included \ known]
    BY <1>2, <1>6
  <1>10. most = Subsidy + a /\ most \in Nat
    BY <1>0, <1>2, <1>6, <1>9 DEF most
  <1>11. claimed = Subsidy + a \/ claimed = Subsidy + c
    <2>1. SumIn(fees, D) = a + b /\ SumIn(fees, removed) = b /\ SumIn(fees, included \cap known) = c
      BY <1>2, <1>6, <1>8, <1>9
    <2>2. whole - b = Subsidy + a
      BY <1>0, <2>1
    <2> HIDE DEF whole
    <2> QED BY <1>4, <2>1, <2>2
  <1>12. a = c + d
    BY <1>8, <1>9
  <1> QED BY <1>0, <1>10, <1>11, <1>12

-----------------------------------------------------------------------------
\* Targets as floating numbers: rounding down is monotone, and done twice is done once.

\* Division by what is not zero.
LEMMA Divides ==
  ASSUME NEW x \in Nat, NEW q \in Nat \ {0}
  PROVE  /\ x \div q \in Nat
         /\ (x \div q) * q <= x
         /\ x < (x \div q) * q + q
         /\ \A c \in Nat : c * q <= x <=> c <= x \div q
         /\ \A c \in Nat : (c * q) \div q = c
  <1>1. PICK d \in Nat : d = x \div q /\ d * q <= x /\ x < d * q + q
    OBVIOUS
  <1>2. ASSUME NEW c \in Nat PROVE c * q <= x <=> c <= d
    <2>1. ASSUME c <= d PROVE c * q <= x
      <3>1. c * q <= d * q
        BY <2>1
      <3> QED BY <1>1, <3>1
    <2>2. ASSUME c > d PROVE c * q > x
      <3>1. PICK e \in Nat : c = d + 1 + e
        <4>1. c - d - 1 \in Nat /\ c = d + 1 + (c - d - 1)
          BY <2>2
        <4> QED BY <4>1
      <3>2. c * q = d * q + q + e * q /\ e * q \in Nat
        BY <3>1
      <3> QED BY <1>1, <3>2
    <2> QED BY <2>1, <2>2, <1>1
  <1>3. ASSUME NEW c \in Nat PROVE (c * q) \div q = c
    OBVIOUS
  <1> QED BY <1>1, <1>2, <1>3

\* The base and the digits of a floating target are proper.
LEMMA BaseIs == Base \in Nat /\ Base >= 2 /\ Digits \in Nat /\ Digits >= 2
  BY PayoutsAssumption

\* The powers of the base.
Powers(p) == p = [k \in Nat |-> IF k = 0 THEN 1 ELSE Base * p[k - 1]]

\* The recursion of Power has a solution.
LEMMA PowersExist == \E p : Powers(p)
  <1> DEFINE Is(f, n) == /\ f = [i \in 0 .. n |-> f[i]]
                         /\ \A i \in 0 .. n : f[i] = IF i = 0 THEN 1 ELSE Base * f[i - 1]
  <1>1. ASSUME NEW N \in Nat PROVE \A n \in 0 .. N : \E f : Is(f, n)
    <2> DEFINE T == {n \in 0 .. N : \E f : Is(f, n)}
    <2>1. 0 \in T
      <3>1. PICK f : f = [i \in 0 .. 0 |-> 1]
        OBVIOUS
      <3>2. Is(f, 0)
        BY <3>1
      <3> QED BY <3>2
    <2>2. ASSUME NEW n \in 1 .. N, n - 1 \in T PROVE n \in T
      <3>1. PICK f : Is(f, n - 1)
        BY <2>2
      <3>2. PICK g : g = [i \in 0 .. n |-> IF i = n THEN Base * f[n - 1] ELSE f[i]]
        OBVIOUS
      <3>3. ASSUME NEW i \in 0 .. n PROVE g[i] = IF i = 0 THEN 1 ELSE Base * g[i - 1]
        <4>1. CASE i = n
          <5>1. g[n] = Base * f[n - 1] /\ g[n - 1] = f[n - 1] /\ n # 0
            BY <3>2
          <5> QED BY <4>1, <5>1
        <4>2. CASE i # n
          <5>1. i \in 0 .. n - 1 /\ i # n /\ (i # 0 => i - 1 \in 0 .. n /\ i - 1 # n)
            BY <4>2
          <5>2. f[i] = IF i = 0 THEN 1 ELSE Base * f[i - 1]
            BY <3>1, <5>1
          <5>3. g[i] = f[i] /\ (i # 0 => g[i - 1] = f[i - 1])
            BY <3>2, <5>1
          <5> QED BY <5>2, <5>3
        <4> QED BY <4>1, <4>2
      <3>4. g = [i \in 0 .. n |-> g[i]]
        BY <3>2
      <3>5. Is(g, n)
        BY <3>3, <3>4
      <3> HIDE DEF Is
      <3> QED BY <3>5
    <2> HIDE DEF Is
    <2>3. \A n \in 0 .. N : n \in T
      <3> HIDE DEF T
      <3> QED BY <2>1, <2>2, UpTo
    <2> QED BY <2>3
  <1>2. ASSUME NEW n \in Nat, NEW f, Is(f, n), NEW m \in Nat, NEW g, Is(g, m), n <= m
        PROVE  \A i \in 0 .. n : f[i] = g[i]
    <2> DEFINE T == {i \in 0 .. n : f[i] = g[i]}
    <2>1. 0 \in T
      <3>1. 0 \in 0 .. n /\ 0 \in 0 .. m
        BY <1>2
      <3>2. f[0] = 1 /\ g[0] = 1
        BY <1>2, <3>1
      <3> QED BY <3>1, <3>2
    <2>2. ASSUME NEW i \in 1 .. n, i - 1 \in T PROVE i \in T
      <3>1. i \in 0 .. n /\ i \in 0 .. m /\ i # 0 /\ f[i - 1] = g[i - 1]
        BY <1>2, <2>2
      <3>2. f[i] = Base * f[i - 1] /\ g[i] = Base * g[i - 1]
        BY <1>2, <3>1
      <3> QED BY <3>1, <3>2
    <2> HIDE DEF Is
    <2>3. \A i \in 0 .. n : i \in T
      <3> HIDE DEF T
      <3> QED BY <2>1, <2>2, UpTo
    <2> QED BY <2>3
  <1> DEFINE best(n) == CHOOSE f : Is(f, n)
             p == [n \in Nat |-> best(n)[n]]
  <1>3. ASSUME NEW n \in Nat PROVE Is(best(n), n)
    <2>1. n \in 0 .. n
      OBVIOUS
    <2>2. \E f : Is(f, n)
      BY <1>1, <2>1
    <2> HIDE DEF Is
    <2> QED BY <2>2
  <1>4. ASSUME NEW n \in Nat PROVE p[n] = IF n = 0 THEN 1 ELSE Base * p[n - 1]
    <2>1. best(n)[n] = IF n = 0 THEN 1 ELSE Base * best(n)[n - 1]
      <3> HIDE DEF best
      <3>1. Is(best(n), n) /\ n \in 0 .. n
        BY <1>3
      <3> QED BY <3>1
    <2>2. CASE n = 0
      <3> HIDE DEF best, Is
      <3> QED BY <2>1, <2>2
    <2>3. CASE n # 0
      <3>1. n - 1 \in Nat /\ n - 1 <= n /\ n - 1 \in 0 .. n - 1
        BY <2>3
      <3>2. Is(best(n - 1), n - 1) /\ Is(best(n), n)
        BY <1>3, <3>1
      <3> HIDE DEF best, Is
      <3>3. best(n - 1)[n - 1] = best(n)[n - 1]
        BY <1>2, <3>1, <3>2
      <3>4. p[n] = best(n)[n] /\ p[n - 1] = best(n - 1)[n - 1]
        BY <3>1
      <3> QED BY <2>1, <2>3, <3>3, <3>4
    <2> QED BY <2>2, <2>3
  <1>5. p = [n \in Nat |-> p[n]]
    <2> HIDE DEF best
    <2> QED OBVIOUS
  <1> HIDE DEF p
  <1>6. Powers(p)
    BY <1>4, <1>5 DEF Powers
  <1> QED BY <1>6

\* What it says of each power.
LEMMA PowerIs ==
  /\ Power(0) = 1
  /\ \A n \in Nat \ {0} : Power(n) = Base * Power(n - 1)
  <1> DEFINE p == CHOOSE q : Powers(q)
  <1>1. \A n : Power(n) = p[n]
    BY DEF Power, Powers
  <1>2. Powers(p)
    BY PowersExist
  <1> HIDE DEF p
  <1>3. \A n \in Nat : p[n] = IF n = 0 THEN 1 ELSE Base * p[n - 1]
    BY <1>2 DEF Powers
  <1>4. 0 \in Nat
    OBVIOUS
  <1> QED BY <1>1, <1>3, <1>4

\* A power is greater than its exponent, and a multiple of the powers below.
LEMMA PowersGrow ==
  /\ \A n \in Nat : Power(n) \in Nat \ {0} /\ Power(n) > n
  /\ \A n \in Nat : \A m \in 0 .. n : \E c \in Nat \ {0} : Power(n) = c * Power(m)
  <1>1. ASSUME NEW N \in Nat PROVE \A n \in 0 .. N : Power(n) \in Nat \ {0} /\ Power(n) > n
    <2> DEFINE T == {n \in 0 .. N : Power(n) \in Nat \ {0} /\ Power(n) > n}
    <2>1. 0 \in T
      BY PowerIs
    <2>2. ASSUME NEW n \in 1 .. N, n - 1 \in T PROVE n \in T
      <3>1. PICK q \in Nat : q = Power(n - 1) /\ q > n - 1
        BY <2>2
      <3>2. n \in Nat \ {0}
        OBVIOUS
      <3>3. Power(n) = Base * q
        BY <3>1, <3>2, PowerIs
      <3>4. PICK b \in Nat : b = Base - 2 /\ Base = b + 2
        <4>1. Base - 2 \in Nat /\ Base = (Base - 2) + 2
          BY BaseIs
        <4> QED BY <4>1
      <3>5. (b + 2) * q = b * q + (q + q) /\ b * q \in Nat
        OBVIOUS
      <3>6. Power(n) \in Nat /\ Power(n) > n
        BY <3>1, <3>2, <3>3, <3>4, <3>5
      <3> QED BY <3>2, <3>6
    <2> HIDE DEF T
    <2>3. \A n \in 0 .. N : n \in T
      BY <2>1, <2>2, UpTo
    <2> QED BY <2>3 DEF T
  <1>2. \A n \in Nat : Power(n) \in Nat \ {0} /\ Power(n) > n
    <2>1. ASSUME NEW n \in Nat PROVE Power(n) \in Nat \ {0} /\ Power(n) > n
      <3>1. n \in 0 .. n
        OBVIOUS
      <3> QED BY <1>1, <3>1
    <2> QED BY <2>1
  <1>3. ASSUME NEW N \in Nat, NEW m \in 0 .. N PROVE \E c \in Nat \ {0} : Power(N) = c * Power(m)
    <2> DEFINE T == {i \in 0 .. N - m : \E c \in Nat \ {0} : Power(m + i) = c * Power(m)}
    <2>0. N - m \in Nat /\ Power(m) \in Nat
      BY <1>2
    <2>1. 0 \in T
      <3>1. Power(m + 0) = 1 * Power(m)
        BY <2>0
      <3>2. \E c \in Nat \ {0} : Power(m + 0) = c * Power(m)
        BY <3>1
      <3> QED BY <2>0, <3>2
    <2>2. ASSUME NEW i \in 1 .. N - m, i - 1 \in T PROVE i \in T
      <3>1. PICK c \in Nat \ {0} : Power(m + (i - 1)) = c * Power(m)
        BY <2>2
      <3>2. m + i \in Nat \ {0} /\ m + i - 1 = m + (i - 1)
        BY <2>0
      <3>3. Power(m + i) = Base * (c * Power(m))
        BY <3>1, <3>2, PowerIs
      <3>4. PICK b \in Nat : b = Base /\ b # 0
        BY BaseIs
      <3>5. b * (c * Power(m)) = (b * c) * Power(m) /\ b * c \in Nat \ {0}
        BY <2>0, <3>4
      <3>6. \E d \in Nat \ {0} : Power(m + i) = d * Power(m)
        BY <3>3, <3>4, <3>5
      <3> QED BY <2>0, <3>6
    <2>3. \A i \in 0 .. N - m : i \in T
      <3> HIDE DEF T
      <3> QED BY <2>0, <2>1, <2>2, UpTo
    <2>4. N - m \in 0 .. N - m /\ m + (N - m) = N
      BY <2>0
    <2>5. N - m \in T
      BY <2>3, <2>4
    <2> QED BY <2>4, <2>5
  <1> QED BY <1>2, <1>3

\* The number of digits t needs.
Needs(t, k) == t < Power(k) /\ (k # 0 => Power(k - 1) <= t)

\* A higher power is no less.
LEMMA PowerMonotone ==
  ASSUME NEW n \in Nat, NEW m \in 0 .. n
  PROVE  Power(m) <= Power(n)
  <1>1. PICK c \in Nat \ {0} : Power(n) = c * Power(m)
    BY PowersGrow
  <1>2. PICK q \in Nat : q = Power(m)
    BY PowersGrow
  <1>3. PICK d \in Nat : c = d + 1
    <2>1. c - 1 \in Nat /\ c = (c - 1) + 1
      OBVIOUS
    <2> QED BY <2>1
  <1>4. (d + 1) * q = d * q + q /\ d * q \in Nat
    OBVIOUS
  <1>5. Power(n) = d * q + q
    BY <1>1, <1>2, <1>3, <1>4
  <1> QED BY <1>2, <1>4, <1>5

\* A number needs one number of digits.
LEMMA NeedsOne ==
  ASSUME NEW t \in Nat, NEW k \in Nat, NEW m \in Nat, Needs(t, k), Needs(t, m)
  PROVE  k = m
  <1>1. ASSUME NEW i \in Nat, NEW j \in Nat, Needs(t, i), Needs(t, j), i < j PROVE FALSE
    <2>1. j - 1 \in Nat /\ i \in 0 .. j - 1 /\ j # 0
      BY <1>1
    <2>2. Power(i) <= Power(j - 1) /\ Power(i) \in Nat /\ Power(j - 1) \in Nat
      BY <2>1, PowerMonotone, PowersGrow
    <2> QED BY <1>1, <2>1, <2>2 DEF Needs
  <1>2. ~ (k < m) /\ ~ (m < k)
    BY <1>1
  <1> QED BY <1>2

\* One digit more for the next.
LEMMA NeedsNext ==
  ASSUME NEW t \in Nat \ {0}, NEW k \in Nat, Needs(t \div Base, k)
  PROVE  Needs(t, k + 1)
  <1>1. Base \in Nat \ {0}
    BY BaseIs
  <1>2. PICK d \in Nat : /\ d = t \div Base /\ d * Base <= t /\ t < d * Base + Base
                         /\ \A c \in Nat : c * Base <= t <=> c <= d
    BY <1>1, Divides
  <1>3. PICK q \in Nat : q = Power(k)
    BY PowersGrow
  <1>4. Power(k + 1) = Base * q /\ k + 1 - 1 = k /\ k + 1 \in Nat \ {0}
    BY <1>3, PowerIs
  <1>5. t < Power(k + 1)
    <2>1. d < q
      BY <1>2, <1>3 DEF Needs
    <2>2. ~ (q * Base <= t)
      BY <1>2, <1>3, <2>1
    <2>3. q * Base = Base * q
      BY <1>1
    <2>4. q * Base \in Nat
      BY <1>1
    <2> QED BY <1>4, <2>2, <2>3, <2>4
  <1>6. Power(k) <= t
    <2>1. CASE k = 0
      BY <2>1, PowerIs
    <2>2. CASE k # 0
      <3>1. PICK p \in Nat : p = Power(k - 1) /\ p <= d
        <4>1. Power(k - 1) \in Nat
          <5>1. k - 1 \in Nat
            BY <2>2
          <5> QED BY <5>1, PowersGrow
        <4> QED BY <1>2, <2>2, <4>1 DEF Needs
      <3>2. p * Base <= t
        BY <1>2, <3>1
      <3>3. q = Base * p
        BY <1>3, <2>2, <3>1, PowerIs
      <3>4. Base * p = p * Base
        BY <1>1
      <3> QED BY <1>3, <3>2, <3>3, <3>4
    <2> QED BY <2>1, <2>2
  <1> QED BY <1>4, <1>5, <1>6 DEF Needs

\* Nought needs no digit.
LEMMA NeedsZero == Needs(0, 0)
  BY PowerIs DEF Needs

\* Without its last digit a number is smaller.
LEMMA Smaller ==
  ASSUME NEW t \in Nat \ {0}
  PROVE  t \div Base \in Nat /\ t \div Base < t
  <1>1. Base \in Nat \ {0}
    BY BaseIs
  <1>2. PICK d \in Nat : d = t \div Base /\ d * Base <= t
    BY <1>1, Divides
  <1>3. PICK b \in Nat : Base = b + 2
    <2>1. Base - 2 \in Nat /\ Base = (Base - 2) + 2
      BY BaseIs
    <2> QED BY <2>1
  <1>4. d * (b + 2) = d * b + (d + d) /\ d * b \in Nat
    OBVIOUS
  <1> QED BY <1>2, <1>3, <1>4

\* Every number needs some number of digits.
LEMMA NeedsSome == \A t \in Nat : \E k \in Nat : Needs(t, k)
  <1>1. ASSUME NEW N \in Nat PROVE \A t \in 0 .. N : \E k \in Nat : Needs(t, k)
    <2> DEFINE T == {t \in 0 .. N : \E k \in Nat : Needs(t, k)}
    <2>1. ASSUME NEW t \in 0 .. N, \A y \in 0 .. N : y < t => y \in T PROVE t \in T
      <3>1. CASE t = 0
        BY <3>1, NeedsZero
      <3>2. CASE t # 0
        <4>1. PICK d \in 0 .. N : d = t \div Base /\ d < t
          BY <3>2, Smaller
        <4>2. PICK k \in Nat : Needs(d, k)
          BY <2>1, <4>1
        <4>3. Needs(t, k + 1)
          BY <3>2, <4>1, <4>2, NeedsNext
        <4> QED BY <4>3
      <3> QED BY <3>1, <3>2
    <2>2. \A t \in 0 .. N : t \in T
      <3> HIDE DEF T
      <3> QED BY <2>1, ByShares
    <2> QED BY <2>2
  <1>2. ASSUME NEW t \in Nat PROVE \E k \in Nat : Needs(t, k)
    <2>1. t \in 0 .. t
      OBVIOUS
    <2> QED BY <1>1, <2>1
  <1> QED BY <1>2

\* The number of digits.
Counts(d) == d = [n \in Nat |-> IF n = 0 THEN 0 ELSE 1 + d[n \div Base]]

\* The recursion that counts digits has a solution.
LEMMA CountsExist == \E d : Counts(d)
  <1> DEFINE k(n) == CHOOSE i \in Nat : Needs(n, i)
             d == [n \in Nat |-> k(n)]
  <1>1. ASSUME NEW n \in Nat PROVE k(n) \in Nat /\ Needs(n, k(n))
    BY NeedsSome
  <1> HIDE DEF k
  <1>2. ASSUME NEW n \in Nat PROVE d[n] = IF n = 0 THEN 0 ELSE 1 + d[n \div Base]
    <2>1. CASE n = 0
      BY <1>1, <2>1, NeedsZero, NeedsOne
    <2>2. CASE n # 0
      <3>1. PICK m \in Nat : m = n \div Base
        BY <2>2, Smaller
      <3>2. k(m) \in Nat /\ Needs(n, k(m) + 1)
        BY <1>1, <2>2, <3>1, NeedsNext
      <3>3. k(n) = k(m) + 1
        BY <1>1, <3>2, NeedsOne
      <3>4. d[n] = k(n) /\ d[n \div Base] = k(m)
        BY <3>1
      <3> HIDE DEF d
      <3> QED BY <2>2, <3>2, <3>3, <3>4
    <2> QED BY <2>1, <2>2
  <1>3. d = [n \in Nat |-> d[n]]
    OBVIOUS
  <1> HIDE DEF d
  <1> QED BY <1>2, <1>3 DEF Counts

\* It counts the digits needed.
LEMMA CountsNeed ==
  ASSUME NEW d, Counts(d)
  PROVE  \A t \in Nat : d[t] \in Nat /\ Needs(t, d[t])
  <1>1. ASSUME NEW N \in Nat PROVE \A t \in 0 .. N : d[t] \in Nat /\ Needs(t, d[t])
    <2> DEFINE T == {t \in 0 .. N : d[t] \in Nat /\ Needs(t, d[t])}
    <2>1. ASSUME NEW t \in 0 .. N, \A y \in 0 .. N : y < t => y \in T PROVE t \in T
      <3>0. t \in Nat /\ d[t] = IF t = 0 THEN 0 ELSE 1 + d[t \div Base]
        BY DEF Counts
      <3>1. CASE t = 0
        BY <3>0, <3>1, NeedsZero
      <3>2. CASE t # 0
        <4>1. PICK m \in 0 .. N : m = t \div Base /\ m < t
          BY <3>2, Smaller
        <4>2. d[m] \in Nat /\ Needs(m, d[m])
          BY <2>1, <4>1
        <4>3. Needs(t, d[m] + 1)
          BY <3>2, <4>1, <4>2, NeedsNext
        <4>4. d[t] = d[m] + 1
          BY <3>0, <3>2, <4>1, <4>2
        <4> QED BY <4>2, <4>3, <4>4
      <3> QED BY <3>1, <3>2
    <2>2. \A t \in 0 .. N : t \in T
      <3> HIDE DEF T
      <3> QED BY <2>1, ByShares
    <2> QED BY <2>2
  <1>2. ASSUME NEW t \in Nat PROVE d[t] \in Nat /\ Needs(t, d[t])
    <2>1. t \in 0 .. t
      OBVIOUS
    <2> QED BY <1>1, <2>1
  <1> QED BY <1>2

-----------------------------------------------------------------------------
\* A number has m digits or more from half the Base, with m - 2 digits behind it, on.
Half == Base \div 2
\* Half the base is a proper digit.
LEMMA HalfIs == Half \in Nat \ {0} /\ Half <= Base
  <1>1. PICK b \in Nat : b = Base /\ b >= 2
    BY BaseIs
  <1> QED BY <1>1 DEF Half

\* The length of a number, and the extra byte of a high first digit.
LEMMA LengthIs ==
  ASSUME NEW t \in Nat
  PROVE  /\ Length(t) \in Nat
         /\ \A m \in Nat : m >= 2 => (Length(t) >= m <=> Half * Power(m - 2) <= t)
  <1> DEFINE d == CHOOSE e : Counts(e)
  <1>1. Length(t) = IF d[t] > 0 /\ t \div Power(d[t] - 1) >= Half THEN d[t] + 1 ELSE d[t]
    BY DEF Length, Counts, Half
  <1>2. Counts(d)
    BY CountsExist
  <1> HIDE DEF d
  <1>3. PICK n \in Nat : n = d[t] /\ Needs(t, n)
    BY <1>2, CountsNeed
  <1>4. Length(t) = n \/ Length(t) = n + 1
    BY <1>1, <1>3
  <1>5. ASSUME NEW m \in Nat, m >= 2 PROVE Length(t) >= m <=> Half * Power(m - 2) <= t
    <2>1. PICK h \in Nat \ {0} : h = Half /\ h <= Base
      BY HalfIs
    <2>2. m - 2 \in Nat /\ m - 1 \in Nat \ {0} /\ m - 1 - 1 = m - 2
      BY <1>5
    <2>3. PICK p \in Nat \ {0} : p = Power(m - 2)
      BY <2>2, PowersGrow
    <2>4. h * p \in Nat /\ h * p >= p
      <3>1. PICK c \in Nat : h = c + 1
        <4>1. h - 1 \in Nat /\ h = (h - 1) + 1
          OBVIOUS
        <4> QED BY <4>1
      <3>2. (c + 1) * p = c * p + p /\ c * p \in Nat
        OBVIOUS
      <3> QED BY <3>1, <3>2
    <2>5. CASE m <= n
      <3>1. n # 0 /\ n - 1 \in Nat /\ m - 1 \in 0 .. n - 1
        BY <1>5, <2>2, <2>5
      <3>2. Power(n - 1) <= t /\ Power(m - 1) <= Power(n - 1) /\ Power(n - 1) \in Nat /\ Power(m - 1) \in Nat
        BY <1>3, <2>2, <3>1, PowerMonotone, PowersGrow DEF Needs
      <3>3. Power(m - 1) = Base * p
        BY <2>2, <2>3, PowerIs
      <3>4. h * p <= Base * p
        <4>1. PICK e \in Nat : Base = h + e
          <5>1. Base - h \in Nat /\ Base = h + (Base - h)
            BY <2>1, BaseIs
          <5> QED BY <5>1
        <4>2. (h + e) * p = h * p + e * p /\ e * p \in Nat
          OBVIOUS
        <4> QED BY <2>4, <4>1, <4>2
      <3>5. h * p <= t
        BY <2>4, <3>2, <3>3, <3>4
      <3> QED BY <1>4, <2>1, <2>3, <2>5, <3>5
    <2>6. CASE m = n + 1
      <3>1. n > 0 /\ n - 1 = m - 2
        BY <1>5, <2>6
      <3>2. t \div p \in Nat /\ (h * p <= t <=> h <= t \div p)
        BY Divides
      <3>3. Length(t) = IF t \div p >= h THEN n + 1 ELSE n
        BY <1>1, <1>3, <2>1, <2>3, <3>1
      <3>4. Length(t) >= m <=> t \div p >= h
        BY <2>6, <3>3
      <3>5. Length(t) >= m <=> h * p <= t
        BY <3>2, <3>4
      <3> QED BY <2>1, <2>3, <3>5
    <2>7. CASE m > n + 1
      <3>1. n \in 0 .. m - 2
        BY <2>2, <2>7
      <3>2. t < Power(n) /\ Power(n) <= p /\ Power(n) \in Nat
        BY <1>3, <2>2, <2>3, <3>1, PowerMonotone, PowersGrow DEF Needs
      <3>3. ~ (h * p <= t) /\ ~ (Length(t) >= m)
        BY <1>4, <2>4, <2>7, <3>2
      <3> QED BY <2>1, <2>3, <3>3
    <2> QED BY <2>5, <2>6, <2>7
  <1> QED BY <1>4, <1>5

\* A greater number is no shorter.
LEMMA LengthMonotone ==
  ASSUME NEW t \in Nat, NEW s \in 0 .. t, Length(t) >= 2 \/ Length(s) >= 2
  PROVE  Length(s) <= Length(t)
  <1>1. Length(s) \in Nat /\ Length(t) \in Nat
    BY LengthIs
  <1>2. CASE Length(s) >= 2
    <2>1. Half * Power(Length(s) - 2) <= s
      BY <1>1, <1>2, LengthIs
    <2>2. Half * Power(Length(s) - 2) \in Nat
      <3>1. Length(s) - 2 \in Nat
        BY <1>1, <1>2
      <3>2. PICK p \in Nat : p = Power(Length(s) - 2)
        BY <3>1, PowersGrow
      <3>3. PICK h \in Nat : h = Half
        BY HalfIs
      <3>4. h * p \in Nat
        OBVIOUS
      <3> QED BY <3>2, <3>3, <3>4
    <2>3. Half * Power(Length(s) - 2) <= t
      BY <2>1, <2>2
    <2> QED BY <1>1, <1>2, <2>3, LengthIs
  <1>3. CASE ~ (Length(s) >= 2)
    BY <1>1, <1>3
  <1> QED BY <1>2, <1>3

\* The least number of n digits, n more than Digits, is a floating number itself.
LEMMA LeastFloats ==
  ASSUME NEW n \in Nat, n > Digits
  PROVE  /\ n - Digits \in Nat /\ n - 2 \in Nat /\ Power(n - Digits) \in Nat \ {0}
         /\ \E c \in Nat : Half * Power(n - 2) = c * Power(n - Digits)
  <1>1. n - Digits \in 0 .. n - 2 /\ n - 2 \in Nat /\ n - Digits \in Nat
    BY BaseIs
  <1>2. PICK c \in Nat \ {0} : Power(n - 2) = c * Power(n - Digits)
    BY <1>1, PowersGrow
  <1>3. PICK q \in Nat \ {0} : q = Power(n - Digits)
    BY <1>1, PowersGrow
  <1>4. PICK h \in Nat : h = Half
    BY HalfIs
  <1>5. h * (c * q) = (h * c) * q /\ h * c \in Nat
    OBVIOUS
  <1> QED BY <1>1, <1>2, <1>3, <1>4, <1>5

\* What Rounded does to a number of more than Digits digits.
LEMMA RoundedCuts ==
  ASSUME NEW t \in Nat, Length(t) > Digits
  PROVE  /\ Length(t) - Digits \in Nat
         /\ \E q \in Nat \ {0} :
              /\ q = Power(Length(t) - Digits)
              /\ Rounded(t) = (t \div q) * q /\ t \div q \in Nat /\ Rounded(t) \in Nat /\ Rounded(t) <= t
              /\ Half * Power(Length(t) - 2) <= Rounded(t)
              /\ Half * Power(Length(t) - 2) \in Nat
              /\ \A c \in Nat : c * q <= t => c * q <= Rounded(t)
  <1>1. PICK n \in Nat : n = Length(t)
    BY LengthIs
  <1>2. PICK q \in Nat \ {0} : n - Digits \in Nat /\ q = Power(n - Digits)
    BY <1>1, LeastFloats
  <1>3. PICK c \in Nat : Half * Power(n - 2) = c * q
    BY <1>1, <1>2, LeastFloats
  <1>4. PICK d \in Nat : d = t \div q /\ d * q <= t /\ \A e \in Nat : e * q <= t <=> e <= d
    BY Divides
  <1>5. Rounded(t) = d * q /\ d * q \in Nat
    <2>1. ~ (Length(t) <= Digits)
      BY <1>1, BaseIs
    <2> QED BY <1>1, <1>2, <1>4, <2>1 DEF Rounded
  <1>6. ASSUME NEW e \in Nat, e * q <= t PROVE e * q <= d * q
    <2>1. e <= d
      BY <1>4, <1>6
    <2> QED BY <2>1
  <1>7. c * q <= t
    <2>1. n >= 2
      BY <1>1, BaseIs
    <2>2. Half * Power(n - 2) <= t
      BY <1>1, <2>1, LengthIs
    <2> QED BY <1>3, <2>2
  <1>8. c * q <= d * q /\ c * q \in Nat
    BY <1>6, <1>7
  <1> QED BY <1>1, <1>2, <1>3, <1>4, <1>5, <1>6, <1>8

\* A number that fits is kept.
LEMMA RoundedKeeps ==
  ASSUME NEW t \in Nat, ~ (Length(t) > Digits)
  PROVE  Rounded(t) = t
  <1>1. Length(t) \in Nat /\ Digits \in Nat
    BY LengthIs, BaseIs
  <1>2. Length(t) <= Digits
    BY <1>1
  <1> QED BY <1>2 DEF Rounded

\* Rounding to a floating number goes down.
LEMMA RoundedDown ==
  ASSUME NEW t \in Nat
  PROVE  Rounded(t) \in Nat /\ Rounded(t) <= t
  <1>1. CASE Length(t) > Digits
    BY <1>1, RoundedCuts
  <1>2. CASE ~ (Length(t) > Digits)
    BY <1>2, RoundedKeeps
  <1> QED BY <1>1, <1>2

\* Rounding keeps the order.
LEMMA RoundedMonotone ==
  ASSUME NEW t \in Nat, NEW s \in 0 .. t
  PROVE  Rounded(s) <= Rounded(t)
  <1>0. /\ Rounded(s) \in Nat /\ Rounded(s) <= s /\ Rounded(t) \in Nat /\ s \in Nat
        /\ Length(s) \in Nat /\ Length(t) \in Nat
    BY RoundedDown, LengthIs
  <1>1. CASE ~ (Length(t) > Digits)
    <2>1. Rounded(t) = t
      BY <1>1, RoundedKeeps
    <2> QED BY <1>0, <2>1
  <1>2. CASE Length(t) > Digits
    <2>1. Length(t) >= 2 /\ Digits \in Nat
      BY <1>0, <1>2, BaseIs
    <2>2. Length(s) <= Length(t)
      BY <2>1, LengthMonotone
    <2>3. CASE Length(s) = Length(t)
      <3>1. PICK q \in Nat \ {0} : /\ q = Power(Length(t) - Digits)
                                     /\ \A c \in Nat : c * q <= t => c * q <= Rounded(t)
        BY <1>2, RoundedCuts
      <3>2. Rounded(s) = (s \div q) * q /\ s \div q \in Nat
        BY <1>0, <1>2, <2>3, <3>1, RoundedCuts
      <3>3. PICK c \in Nat : c = s \div q
        BY <3>2
      <3>4. c * q <= t
        BY <1>0, <3>2, <3>3
      <3> QED BY <3>1, <3>2, <3>3, <3>4
    <2>4. CASE Length(s) # Length(t)
      <3>1. ~ (Length(s) >= Length(t))
        BY <1>0, <2>2, <2>4
      <3>2. ~ (Half * Power(Length(t) - 2) <= s)
        BY <1>0, <2>1, <3>1, LengthIs
      <3>3. Half * Power(Length(t) - 2) <= Rounded(t) /\ Half * Power(Length(t) - 2) \in Nat
        BY <1>2, RoundedCuts
      <3> QED BY <1>0, <3>2, <3>3
    <2> QED BY <2>3, <2>4
  <1> QED BY <1>1, <1>2

\* What is rounded is a floating number.
LEMMA RoundedOnce ==
  ASSUME NEW t \in Nat
  PROVE  Rounded(Rounded(t)) = Rounded(t)
  <1>1. CASE ~ (Length(t) > Digits)
    BY <1>1, RoundedKeeps
  <1>2. CASE Length(t) > Digits
    <2>1. PICK q \in Nat \ {0} : /\ q = Power(Length(t) - Digits)
                                   /\ Rounded(t) = (t \div q) * q /\ t \div q \in Nat
                                   /\ Rounded(t) \in Nat /\ Rounded(t) <= t
                                   /\ Half * Power(Length(t) - 2) <= Rounded(t)
      BY <1>2, RoundedCuts
    <2>2. PICK r \in Nat, c \in Nat : r = Rounded(t) /\ c = t \div q /\ r = c * q /\ r \in 0 .. t
      BY <2>1
    <2>3. PICK n \in Nat : n = Length(t) /\ n >= 2
      BY <1>2, LengthIs, BaseIs
    <2>4. Length(r) >= n
      BY <2>1, <2>2, <2>3, LengthIs
    <2>5. Length(r) <= n
      BY <2>2, <2>3, LengthMonotone
    <2>6. Length(r) = n
      <3>1. Length(r) \in Nat
        BY <2>2, LengthIs
      <3> QED BY <2>4, <2>5, <3>1
    <2>7. Rounded(r) = (r \div q) * q
      BY <1>2, <2>1, <2>2, <2>3, <2>6, RoundedCuts
    <2>8. (c * q) \div q = c
      BY Divides
    <2> QED BY <2>2, <2>7, <2>8
  <1> QED BY <1>1, <1>2

\* clip stays between its bounds.
LEMMA ClipWithin ==
  ASSUME NEW a \in Nat, NEW b \in Nat, a <= b, NEW x \in Nat
  PROVE  clip(x, a, b) \in Nat /\ a <= clip(x, a, b) /\ clip(x, a, b) <= b
  BY DEF clip

\* A target clipped and rounded is so clipped and rounded again.
LEMMA RoundedTwice ==
  ASSUME NEW a \in Nat, NEW b \in Nat, a <= b, NEW x \in Nat
  PROVE  LET y == Rounded(clip(x, a, b)) IN y \in Nat /\ y <= b /\ Rounded(clip(y, a, b)) = y
  <1>1. PICK c \in Nat : c = clip(x, a, b) /\ a <= c /\ c <= b
    BY ClipWithin
  <1>2. PICK y \in Nat : y = Rounded(c) /\ y <= c
    BY RoundedDown
  <1>3. y <= b
    BY <1>1, <1>2
  <1>4. CASE y < a
    <2>1. clip(y, a, b) = a
      BY <1>4 DEF clip
    <2>2. Rounded(a) \in Nat /\ Rounded(a) <= y
      BY <1>1, <1>2, RoundedDown, RoundedMonotone
    <2>3. Rounded(y) <= Rounded(a) /\ Rounded(y) = y
      BY <1>2, <1>4, RoundedMonotone, RoundedOnce
    <2>4. Rounded(a) = y
      BY <2>2, <2>3
    <2> QED BY <1>1, <1>2, <1>3, <2>1, <2>4
  <1>5. CASE ~ (y < a)
    <2>1. clip(y, a, b) = y
      BY <1>3, <1>5 DEF clip
    <2>2. Rounded(y) = y
      BY <1>2, RoundedOnce
    <2> QED BY <1>1, <1>2, <1>3, <2>1, <2>2
  <1> QED BY <1>4, <1>5

-----------------------------------------------------------------------------
\* What generate_transaction and check ask of the tracker, said of the whole chain.

\* SumOver is a sum of the values along a path.
LEMMA SumOverIs ==
  ASSUME NEW path, NEW f
  PROVE  SumOver(path, f) = SumOf([i \in DOMAIN path |-> f[path[i]]])
  BY DEF SumOver, SumOf, FoldFunction

\* Of numbers it is a number.
LEMMA SumOfNaturals ==
  ASSUME NEW n \in Nat, NEW f \in [1 .. n -> Nat]
  PROVE  SumOf(f) \in Nat
  <1>1. IsFiniteSet(1 .. n)
    BY FS_Interval
  <1> QED BY <1>1, SumHolds

\* The sum of f over the n shares from x on, and what the tracker makes of it.
SumAlong(sh, x, n, f) == SumOf([i \in 1 .. n |-> f[NthBack(sh, x, i - 1)]])

\* The sums the tracker makes are those.
LEMMA SumOverChain ==
  ASSUME Placed, NEW x \in 0 .. Len(share), NEW n \in 0 .. get_height(x), NEW f
  PROVE  SumOver(get_chain(x, n), f) = SumAlong(share, x, n, f)
  <1>1. PICK path : path = get_chain(x, n) /\ path = [i \in 1 .. n |-> NthBack(share, x, i - 1)]
    BY ChainIs DEF Stretch
  <1>2. [i \in DOMAIN path |-> f[path[i]]] = [i \in 1 .. n |-> f[NthBack(share, x, i - 1)]]
    BY <1>1
  <1>3. SumOver(path, f) = SumOf([i \in DOMAIN path |-> f[path[i]]])
    BY SumOverIs
  <1> QED BY <1>1, <1>2, <1>3 DEF SumAlong

\* More shares change none of these sums.
LEMMA SumAlongExtended ==
  ASSUME NEW sh, NEW more, Longer(sh, more), NEW x \in 0 .. Len(sh), NEW n \in 0 .. DepthOf(sh, x),
         NEW f, NEW g, \A h \in 1 .. Len(sh) : g[h] = f[h]
  PROVE  SumAlong(more, x, n, g) = SumAlong(sh, x, n, f)
  <1>1. /\ BackLinked(sh) /\ BackLinked(more) /\ Len(sh) <= Len(more)
        /\ \A h \in 1 .. Len(sh) : more[h].previous = sh[h].previous
    BY DEF Longer, Chained
  <1>2. \A i : NthBack(more, x, i) = NthBack(sh, x, i)
    BY <1>1, LineExtended
  <1>3. DepthOf(sh, x) \in Nat /\ GoesBack(sh, x)
    BY <1>1, AtBack, LineSteps
  <1>4. ASSUME NEW i \in 1 .. n PROVE g[NthBack(more, x, i - 1)] = f[NthBack(sh, x, i - 1)]
    <2>1. i - 1 \in 0 .. DepthOf(sh, x) /\ i - 1 < DepthOf(sh, x)
      BY <1>3
    <2>2. NthBack(sh, x, i - 1) \in 1 .. Len(sh)
      BY <1>3, <2>1 DEF GoesBack
    <2> QED BY <1>2, <2>2
  <1>5. [i \in 1 .. n |-> g[NthBack(more, x, i - 1)]] = [i \in 1 .. n |-> f[NthBack(sh, x, i - 1)]]
    BY <1>4
  <1> QED BY <1>5 DEF SumAlong

\* Of numbers they are numbers.
LEMMA SumAlongNatural ==
  ASSUME NEW sh, BackLinked(sh), NEW x \in 0 .. Len(sh), NEW n \in 0 .. DepthOf(sh, x),
         NEW f, \A h \in 1 .. Len(sh) : f[h] \in Nat
  PROVE  SumAlong(sh, x, n, f) \in Nat
  <1>1. DepthOf(sh, x) \in Nat /\ GoesBack(sh, x) /\ n \in Nat
    BY AtBack, LineSteps
  <1>2. ASSUME NEW i \in 1 .. n PROVE f[NthBack(sh, x, i - 1)] \in Nat
    <2>1. i - 1 \in 0 .. DepthOf(sh, x) /\ i - 1 < DepthOf(sh, x)
      BY <1>1
    <2>2. NthBack(sh, x, i - 1) \in 1 .. Len(sh)
      BY <1>1, <2>1 DEF GoesBack
    <2> QED BY <2>2
  <1>3. PICK e : e = [i \in 1 .. n |-> f[NthBack(sh, x, i - 1)]]
    OBVIOUS
  <1>4. e \in [1 .. n -> Nat]
    BY <1>2, <1>3
  <1>5. SumOf(e) \in Nat
    BY <1>1, <1>4, SumOfNaturals
  <1> QED BY <1>3, <1>5 DEF SumAlong

-----------------------------------------------------------------------------
\* The easiest target a share on p may have.
EasyWork(sh) == [h \in 1 .. Len(sh) |-> target_to_average_attempts(sh[h].max_bits)]
WorkPerSecond(sh, p) ==
  LET time == sh[p].timestamp - sh[NthBack(sh, p, TARGET_LOOKBEHIND - 1)].timestamp
  IN SumAlong(sh, p, TARGET_LOOKBEHIND - 1, EasyWork(sh)) \div (IF time <= 0 THEN 1 ELSE time)
Retargeted(aps, before) ==
  LET pre_target == IF aps = 0 THEN Space - 1 ELSE Space \div (SHARE_PERIOD * aps) - 1
      pre_target2 == clip(pre_target, (before * 9) \div 10, (before * 11) \div 10)
  IN clip(pre_target2, MIN_TARGET, MAX_TARGET)
Easiest(sh, p) ==
  IF DepthOf(sh, p) < TARGET_LOOKBEHIND THEN MAX_TARGET
  ELSE Retargeted(WorkPerSecond(sh, p), sh[p].max_bits)

\* The target generate_transaction works out from the tracker is the one of the whole chain.
LEMMA EasiestIs ==
  ASSUME Placed, NEW p \in 0 .. Len(share), HasHistory(p)
  PROVE  pre_target3(p) = Easiest(share, p)
  <1>0. /\ TARGET_LOOKBEHIND \in Nat /\ TARGET_LOOKBEHIND >= 2 /\ REAL_CHAIN_LENGTH \in Nat
        /\ TARGET_LOOKBEHIND <= REAL_CHAIN_LENGTH /\ DOMAIN share = 1 .. Len(share)
    BY PayoutsAssumption DEF Placed
  <1>1. PICK H \in Nat, D \in Nat : H = get_height(p) /\ D = DepthOf(share, p) /\ H <= D
    BY HeightIs
  <1>2. H >= REAL_CHAIN_LENGTH \/ H = D
    BY <1>1, HistoryIs
  <1>3. H < TARGET_LOOKBEHIND <=> D < TARGET_LOOKBEHIND
    BY <1>0, <1>1, <1>2
  <1>4. ASSUME ~ (H < TARGET_LOOKBEHIND)
        PROVE  get_pool_attempts_per_second(p, TARGET_LOOKBEHIND) = WorkPerSecond(share, p)
    <2>1. TARGET_LOOKBEHIND - 1 \in 0 .. get_height(p)
      BY <1>0, <1>1, <1>4
    <2>2. MinAttempts = EasyWork(share)
      BY <1>0 DEF MinAttempts, EasyWork
    <2>3. get_nth_parent_hash(p, TARGET_LOOKBEHIND - 1) = NthBack(share, p, TARGET_LOOKBEHIND - 1)
      BY <2>1, ParentIs
    <2>4. SumOver(get_chain(p, TARGET_LOOKBEHIND - 1), MinAttempts)
          = SumAlong(share, p, TARGET_LOOKBEHIND - 1, EasyWork(share))
      BY <2>1, <2>2, SumOverChain
    <2> QED BY <2>3, <2>4 DEF get_pool_attempts_per_second, WorkPerSecond
  <1>5. CASE H < TARGET_LOOKBEHIND
    BY <1>1, <1>3, <1>5 DEF pre_target3, Easiest
  <1>6. CASE ~ (H < TARGET_LOOKBEHIND)
    BY <1>1, <1>3, <1>4, <1>6 DEF pre_target3, Easiest, Retargeted
  <1> QED BY <1>5, <1>6

\* What a share says, as to type.
Reference == [share_count : Nat, tx : Nat]
ShareType ==
  [previous : Nat, version : {17, 35, 36}, address : Payee, new_transaction_hashes : SUBSET Nat,
   transaction_hash_refs : Seq(Reference), donation : 0 .. Unit,
   desired_version : {35, 36}, subsidy : Nat, most : Nat, max_bits : Nat, bits : 0 .. Space - 1,
   timestamp : Int, far_share_hash : Nat, amounts : [Payee -> Nat]]
Shares(sh) == BackLinked(sh) /\ \A h \in 1 .. Len(sh) : sh[h] \in ShareType

\* Shares weigh something.
LEMMA SharesChained == ASSUME NEW sh, Shares(sh) PROVE Chained(sh)
  <1>1. ASSUME NEW h \in 1 .. Len(sh) PROVE Weighs(sh[h])
    <2>1. PICK r : r = sh[h] /\ r \in ShareType
      BY DEF Shares
    <2>2. Space \in Nat
      BY PayoutsAssumption
    <2> QED BY <2>1, <2>2 DEF ShareType, Weighs
  <1> QED BY <1>1 DEF Shares, Chained

\* clip yields a number.
LEMMA ClipTyped ==
  ASSUME NEW x \in Int, NEW a \in Nat, NEW b \in Nat, a <= b
  PROVE  clip(x, a, b) \in Nat /\ clip(x, a, b) <= b
  BY DEF clip

\* So does the retargeting.
LEMMA RetargetedTyped ==
  ASSUME NEW aps \in Nat, NEW before \in Nat
  PROVE  Retargeted(aps, before) \in Nat /\ Retargeted(aps, before) <= MAX_TARGET
  <1>0. /\ Space \in Nat \ {0} /\ SHARE_PERIOD \in Nat \ {0} /\ MIN_TARGET \in Nat /\ MAX_TARGET \in Nat
        /\ MIN_TARGET <= MAX_TARGET
    BY PayoutsAssumption
  <1>1. PICK pre : pre = IF aps = 0 THEN Space - 1 ELSE Space \div (SHARE_PERIOD * aps) - 1
    OBVIOUS
  <1>2. pre \in Int
    <2>1. CASE aps = 0
      BY <1>0, <1>1, <2>1
    <2>2. CASE aps # 0
      <3>1. SHARE_PERIOD * aps \in Nat \ {0}
        BY <1>0, <2>2
      <3>2. Space \div (SHARE_PERIOD * aps) \in Nat
        BY <1>0, <3>1
      <3> QED BY <1>1, <2>2, <3>2
    <2> QED BY <2>1, <2>2
  <1>3. PICK lo \in Nat, hi \in Nat : lo = (before * 9) \div 10 /\ hi = (before * 11) \div 10
    OBVIOUS
  <1>4. PICK pre2 \in Int : pre2 = clip(pre, lo, hi)
    BY <1>2 DEF clip
  <1>5. Retargeted(aps, before) = clip(pre2, MIN_TARGET, MAX_TARGET)
    BY <1>1, <1>3, <1>4 DEF Retargeted
  <1> QED BY <1>0, <1>5, ClipTyped

\* The work of a share at its easiest target is a number.
LEMMA EasyWorkTyped ==
  ASSUME NEW sh, Shares(sh)
  PROVE  \A h \in 1 .. Len(sh) : EasyWork(sh)[h] \in Nat
  <1>1. ASSUME NEW h \in 1 .. Len(sh) PROVE EasyWork(sh)[h] \in Nat
    <2>1. PICK r : r = sh[h] /\ r \in ShareType
      BY DEF Shares
    <2>2. PICK t \in Nat : t = r.max_bits
      BY <2>1 DEF ShareType
    <2>3. Space \in Nat /\ t + 1 \in Nat \ {0}
      BY PayoutsAssumption
    <2>4. Space \div (t + 1) \in Nat
      BY <2>3
    <2> QED BY <2>1, <2>2, <2>4 DEF EasyWork, target_to_average_attempts
  <1> QED BY <1>1

\* The easiest target is a target.
LEMMA EasiestTyped ==
  ASSUME NEW sh, Shares(sh), NEW p \in 0 .. Len(sh)
  PROVE  Easiest(sh, p) \in Nat /\ Easiest(sh, p) <= MAX_TARGET
  <1>0. BackLinked(sh) /\ TARGET_LOOKBEHIND \in Nat /\ TARGET_LOOKBEHIND >= 2 /\ MAX_TARGET \in Nat
    BY PayoutsAssumption DEF Shares
  <1>1. DepthOf(sh, p) \in Nat /\ GoesBack(sh, p) /\ DepthOf(sh, 0) = 0
    BY <1>0, LineSteps, AtBack
  <1>2. CASE DepthOf(sh, p) < TARGET_LOOKBEHIND
    BY <1>0, <1>2 DEF Easiest
  <1>3. CASE ~ (DepthOf(sh, p) < TARGET_LOOKBEHIND)
    <2>1. PICK n \in Nat : n = TARGET_LOOKBEHIND - 1 /\ n \in 0 .. DepthOf(sh, p) /\ n < DepthOf(sh, p)
      BY <1>0, <1>1, <1>3
    <2>2. NthBack(sh, p, n) \in 1 .. Len(sh) /\ p \in 1 .. Len(sh)
      BY <1>0, <1>1, <1>3, <2>1 DEF GoesBack
    <2>3. PICK s \in Nat : s = SumAlong(sh, p, n, EasyWork(sh))
      BY <1>0, <2>1, EasyWorkTyped, SumAlongNatural
    <2>4. PICK t \in Int : t = sh[p].timestamp - sh[NthBack(sh, p, n)].timestamp
      <3>1. PICK a, b : a = sh[p] /\ b = sh[NthBack(sh, p, n)] /\ a \in ShareType /\ b \in ShareType
        BY <2>2 DEF Shares
      <3>2. a.timestamp \in Int /\ b.timestamp \in Int
        BY <3>1 DEF ShareType
      <3> QED BY <3>1, <3>2
    <2>5. PICK d \in Nat \ {0} : d = IF t <= 0 THEN 1 ELSE t
      OBVIOUS
    <2>6. PICK aps \in Nat : aps = WorkPerSecond(sh, p)
      <3>1. s \div d \in Nat
        OBVIOUS
      <3> QED BY <2>1, <2>3, <2>4, <2>5, <3>1 DEF WorkPerSecond
    <2>7. PICK before \in Nat : before = sh[p].max_bits
      <3>1. PICK a : a = sh[p] /\ a \in ShareType
        BY <2>2 DEF Shares
      <3> QED BY <3>1 DEF ShareType
    <2> QED BY <1>3, <2>6, <2>7, RetargetedTyped DEF Easiest
  <1> QED BY <1>2, <1>3

\* More shares change no easiest target.
LEMMA EasiestExtended ==
  ASSUME NEW sh, Shares(sh), NEW more, Longer(sh, more), NEW p \in 0 .. Len(sh)
  PROVE  Easiest(more, p) = Easiest(sh, p)
  <1>0. /\ BackLinked(sh) /\ BackLinked(more) /\ Len(sh) <= Len(more) /\ Len(sh) \in Nat /\ Len(more) \in Nat
        /\ \A h \in 1 .. Len(sh) : more[h] = sh[h]
        /\ TARGET_LOOKBEHIND \in Nat /\ TARGET_LOOKBEHIND >= 2
    BY PayoutsAssumption DEF Longer, Chained, BackLinked
  <1>1. DepthOf(more, p) = DepthOf(sh, p) /\ \A n : NthBack(more, p, n) = NthBack(sh, p, n)
    BY <1>0, LineExtended
  <1>2. DepthOf(sh, p) \in Nat /\ GoesBack(sh, p) /\ DepthOf(sh, 0) = 0
    BY <1>0, LineSteps, AtBack
  <1>3. ASSUME ~ (DepthOf(sh, p) < TARGET_LOOKBEHIND)
        PROVE  WorkPerSecond(more, p) = WorkPerSecond(sh, p) /\ more[p] = sh[p]
    <2>1. PICK n \in Nat : n = TARGET_LOOKBEHIND - 1 /\ n \in 0 .. DepthOf(sh, p) /\ n < DepthOf(sh, p)
      BY <1>0, <1>2, <1>3
    <2>2. NthBack(sh, p, n) \in 1 .. Len(sh) /\ p \in 1 .. Len(sh)
      BY <1>0, <1>2, <1>3, <2>1 DEF GoesBack
    <2>3. \A h \in 1 .. Len(sh) : EasyWork(more)[h] = EasyWork(sh)[h]
      BY <1>0 DEF EasyWork
    <2>4. SumAlong(more, p, n, EasyWork(more)) = SumAlong(sh, p, n, EasyWork(sh))
      BY <2>1, <2>3, SumAlongExtended
    <2>5. more[p] = sh[p] /\ more[NthBack(more, p, n)] = sh[NthBack(sh, p, n)]
      BY <1>0, <1>1, <2>2
    <2> QED BY <2>1, <2>4, <2>5 DEF WorkPerSecond
  <1>4. CASE DepthOf(sh, p) < TARGET_LOOKBEHIND
    BY <1>1, <1>4 DEF Easiest
  <1>5. CASE ~ (DepthOf(sh, p) < TARGET_LOOKBEHIND)
    BY <1>1, <1>3, <1>5 DEF Easiest
  <1> QED BY <1>4, <1>5

-----------------------------------------------------------------------------
\* The vote before a share on p.
\* Shares weigh in the vote by their work: of all the shares, and of those for a version.
Work(sh) == [h \in 1 .. Len(sh) |-> target_to_average_attempts(sh[h].bits)]
WorkFor(sh, v) ==
  [h \in 1 .. Len(sh) |-> IF sh[h].desired_version = v THEN target_to_average_attempts(sh[h].bits) ELSE 0]
VotesFor(sh, p, v) == SumAlong(sh, NthBack(sh, p, VoteFrom), VoteLength, WorkFor(sh, v))
VotesCast(sh, p) == SumAlong(sh, NthBack(sh, p, VoteFrom), VoteLength, Work(sh))

\* The votes the tracker counts are those of the whole chain.
LEMMA VotesAre ==
  ASSUME Placed, NEW p \in 0 .. Len(share), get_height(p) >= CHAIN_LENGTH, NEW v
  PROVE  Votes(p, v) = VotesFor(share, p, v) /\ AllVotes(p) = VotesCast(share, p)
  <1>0. /\ VoteFrom \in Nat /\ VoteLength \in Nat /\ VoteFrom + VoteLength <= CHAIN_LENGTH
        /\ CHAIN_LENGTH \in Nat /\ DOMAIN share = 1 .. Len(share)
    BY PayoutsAssumption DEF Placed
  <1>1. get_height(p) \in Nat /\ VoteFrom \in 0 .. get_height(p)
    BY <1>0, HeightIs
  <1>2. PICK y \in 0 .. Len(share) :
          y = NthBack(share, p, VoteFrom) /\ get_height(y) = get_height(p) - VoteFrom
    BY <1>1, HeightBack
  <1>3. get_nth_parent_hash(p, VoteFrom) = y
    BY <1>1, <1>2, ParentIs
  <1>4. VoteLength \in 0 .. get_height(y)
    BY <1>0, <1>1, <1>2
  <1>5. \A f : SumOver(get_chain(y, VoteLength), f) = SumAlong(share, y, VoteLength, f)
    BY <1>4, SumOverChain
  <1>6. Attempts = Work(share)
    BY <1>0 DEF Attempts, Work
  <1>7. [x \in DOMAIN share |-> IF share[x].desired_version = v THEN Attempts[x] ELSE 0] = WorkFor(share, v)
    BY <1>0 DEF Attempts, WorkFor
  <1>8. AllVotes(p) = VotesCast(share, p)
    BY <1>2, <1>3, <1>5, <1>6 DEF AllVotes, Voters, VotesCast
  <1>9. Votes(p, v) = VotesFor(share, p, v)
    BY <1>2, <1>3, <1>5, <1>7 DEF Votes, Voters, VotesFor
  <1> QED BY <1>8, <1>9

\* More shares change no count of votes.
LEMMA VotesExtended ==
  ASSUME NEW sh, Shares(sh), NEW more, Longer(sh, more), NEW p \in 0 .. Len(sh),
         DepthOf(sh, p) >= CHAIN_LENGTH, NEW v
  PROVE  VotesFor(more, p, v) = VotesFor(sh, p, v) /\ VotesCast(more, p) = VotesCast(sh, p)
         /\ VotesCast(sh, p) \in Nat
  <1>0. /\ BackLinked(sh) /\ BackLinked(more) /\ Len(sh) <= Len(more) /\ Len(sh) \in Nat /\ Len(more) \in Nat
        /\ \A h \in 1 .. Len(sh) : more[h] = sh[h]
        /\ VoteFrom \in Nat /\ VoteLength \in Nat /\ VoteFrom + VoteLength <= CHAIN_LENGTH
        /\ CHAIN_LENGTH \in Nat
    BY PayoutsAssumption DEF Longer, Chained, BackLinked
  <1>1. \A n : NthBack(more, p, n) = NthBack(sh, p, n)
    BY <1>0, LineExtended
  <1>2. DepthOf(sh, p) \in Nat /\ GoesBack(sh, p) /\ VoteFrom \in 0 .. DepthOf(sh, p)
    <2>1. DepthOf(sh, p) \in Nat /\ GoesBack(sh, p)
      BY <1>0, LineSteps, AtBack
    <2> QED BY <1>0, <2>1
  <1>3. PICK y \in 0 .. Len(sh) : y = NthBack(sh, p, VoteFrom) /\ VoteLength \in 0 .. DepthOf(sh, y)
    <2>1. NthBack(sh, p, VoteFrom) \in 0 .. Len(sh) /\ DepthOf(sh, NthBack(sh, p, VoteFrom)) = DepthOf(sh, p) - VoteFrom
      BY <1>2 DEF GoesBack
    <2> QED BY <1>0, <1>2, <2>1
  <1>4. \A h \in 1 .. Len(sh) : Work(more)[h] = Work(sh)[h] /\ WorkFor(more, v)[h] = WorkFor(sh, v)[h]
    BY <1>0 DEF Work, WorkFor
  <1>5. SumAlong(more, y, VoteLength, Work(more)) = SumAlong(sh, y, VoteLength, Work(sh))
    BY <1>3, <1>4, SumAlongExtended
  <1>6. SumAlong(more, y, VoteLength, WorkFor(more, v)) = SumAlong(sh, y, VoteLength, WorkFor(sh, v))
    BY <1>3, <1>4, SumAlongExtended
  <1>7. ASSUME NEW h \in 1 .. Len(sh) PROVE Work(sh)[h] \in Nat
    <2>1. PICK r : r = sh[h] /\ Weighs(r)
      BY SharesChained DEF Chained
    <2>2. target_to_average_attempts(r.bits) \in Nat
      BY <2>1, AttemptsArePositive DEF Weighs
    <2> QED BY <2>1, <2>2 DEF Work
  <1>8. SumAlong(sh, y, VoteLength, Work(sh)) \in Nat
    BY <1>0, <1>3, <1>7, SumAlongNatural
  <1> QED BY <1>1, <1>3, <1>5, <1>6, <1>8 DEF VotesFor, VotesCast

-----------------------------------------------------------------------------
\* The time of a share after one of the time before.
TimeAfter(v, before, desired) ==
  IF v < 32 THEN clip(desired, before + 1, before + 2 * SHARE_PERIOD - 1)
  ELSE IF desired > before THEN desired ELSE before + 1

\* It is so again, and ahead of the clock only where it follows the share before.
LEMMA TimeTwice ==
  ASSUME NEW v \in {17, 35, 36}, NEW before \in Int, NEW c \in Int
  PROVE  \E s \in Int : /\ s = TimeAfter(v, before, c) /\ s = TimeAfter(v, before, s)
                        /\ s <= c \/ s = before + 1
  <1>0. PICK s : s = TimeAfter(v, before, c)
    OBVIOUS
  <1>1. PICK hi \in Int : hi = before + 2 * SHARE_PERIOD - 1 /\ before + 1 <= hi
    <2>1. SHARE_PERIOD \in Nat \ {0}
      BY PayoutsAssumption
    <2> QED BY <2>1
  <1>2. CASE v < 32
    <2>1. s = IF c < before + 1 THEN before + 1 ELSE IF c > hi THEN hi ELSE c
      BY <1>0, <1>1, <1>2 DEF TimeAfter, clip
    <2>2. s \in Int /\ before + 1 <= s /\ s <= hi
      BY <1>1, <2>1
    <2>3. TimeAfter(v, before, s) = s
      BY <1>1, <1>2, <2>2 DEF TimeAfter, clip
    <2> QED BY <1>0, <1>1, <2>1, <2>2, <2>3
  <1>3. CASE ~ (v < 32)
    <2>1. s = IF c > before THEN c ELSE before + 1
      BY <1>0, <1>3 DEF TimeAfter
    <2>2. s \in Int /\ s > before
      BY <2>1
    <2>3. TimeAfter(v, before, s) = s
      BY <1>3, <2>2 DEF TimeAfter
    <2> QED BY <1>0, <2>1, <2>2, <2>3
  <1> QED BY <1>2, <1>3

\* Where a transaction is found: among the shares that are looked through, said of the whole chain.
Reach(sh, p) == IF DepthOf(sh, p) < RefDepth THEN DepthOf(sh, p) ELSE RefDepth
FoundAt(sh, p, tx) == {i \in 1 .. Reach(sh, p) : tx \in sh[NthBack(sh, p, i - 1)].new_transaction_hashes}
LeastOf(F) == IF F = {} THEN 0 ELSE CHOOSE i \in F : \A k \in F : i <= k
FirstBack(sh, p, tx) == LeastOf(FoundAt(sh, p, tx))

\* A place that is given is one there is.
LEMMA FirstIsFound ==
  ASSUME NEW sh, NEW p, Reach(sh, p) \in Nat, NEW tx
  PROVE  /\ FirstBack(sh, p, tx) \in 0 .. Reach(sh, p)
         /\ FirstBack(sh, p, tx) # 0 => FirstBack(sh, p, tx) \in FoundAt(sh, p, tx)
  <1>1. PICK F \in SUBSET Nat : F = FoundAt(sh, p, tx) /\ F \subseteq 1 .. Reach(sh, p)
    <2>1. FoundAt(sh, p, tx) \subseteq 1 .. Reach(sh, p)
      BY DEF FoundAt
    <2>2. 1 .. Reach(sh, p) \subseteq Nat
      OBVIOUS
    <2> QED BY <2>1, <2>2
  <1>2. CASE F = {}
    BY <1>1, <1>2 DEF FirstBack, LeastOf
  <1>3. CASE F # {}
    <2>1. \E i \in F : \A k \in F : i <= k
      BY <1>3, LeastNumber
    <2>2. (CHOOSE i \in F : \A k \in F : i <= k) \in F
      BY <2>1
    <2>3. FirstBack(sh, p, tx) \in F
      BY <1>1, <1>3, <2>2 DEF FirstBack, LeastOf
    <2> QED BY <1>1, <2>3
  <1> QED BY <1>2, <1>3

\* The shares looked through are shares there are.
LEMMA ReachIs ==
  ASSUME NEW sh, BackLinked(sh), NEW p \in 0 .. Len(sh)
  PROVE  /\ Reach(sh, p) \in Nat /\ Reach(sh, p) <= RefDepth /\ Reach(sh, p) <= DepthOf(sh, p)
         /\ \A i \in 1 .. Reach(sh, p) : NthBack(sh, p, i - 1) \in 1 .. Len(sh)
  <1>1. DepthOf(sh, p) \in Nat /\ GoesBack(sh, p) /\ RefDepth \in Nat
    BY LineSteps, AtBack, PayoutsAssumption
  <1>2. Reach(sh, p) \in Nat /\ Reach(sh, p) <= RefDepth /\ Reach(sh, p) <= DepthOf(sh, p)
    BY <1>1 DEF Reach
  <1>3. ASSUME NEW i \in 1 .. Reach(sh, p) PROVE NthBack(sh, p, i - 1) \in 1 .. Len(sh)
    <2>1. i - 1 \in 0 .. DepthOf(sh, p) /\ i - 1 < DepthOf(sh, p)
      BY <1>1, <1>2
    <2> QED BY <1>1, <2>1 DEF GoesBack
  <1> QED BY <1>2, <1>3

\* More shares move no transaction.
LEMMA FirstExtended ==
  ASSUME NEW sh, NEW more, Longer(sh, more), NEW p \in 0 .. Len(sh), NEW tx
  PROVE  FirstBack(more, p, tx) = FirstBack(sh, p, tx)
  <1>0. /\ BackLinked(sh) /\ BackLinked(more) /\ Len(sh) <= Len(more)
        /\ \A h \in 1 .. Len(sh) : more[h] = sh[h]
    BY DEF Longer, Chained
  <1>1. DepthOf(more, p) = DepthOf(sh, p) /\ \A n : NthBack(more, p, n) = NthBack(sh, p, n)
    BY <1>0, LineExtended
  <1>2. Reach(more, p) = Reach(sh, p)
    BY <1>1 DEF Reach
  <1>3. \A i \in 1 .. Reach(sh, p) : more[NthBack(more, p, i - 1)] = sh[NthBack(sh, p, i - 1)]
    BY <1>0, <1>1, ReachIs
  <1>4. FoundAt(more, p, tx) = FoundAt(sh, p, tx)
    BY <1>2, <1>3 DEF FoundAt
  <1> QED BY <1>4 DEF FirstBack

\* The tracker finds a transaction where the whole chain has it.
FirstIn(past, tx) == LeastOf({i \in DOMAIN past : tx \in share[past[i]].new_transaction_hashes})

LEMMA BackIs ==
  ASSUME Placed, NEW p \in 0 .. Len(share), HasHistory(p), NEW tx
  PROVE  Back(p, tx) = FirstBack(share, p, tx)
  <1>0. RefDepth \in Nat /\ REAL_CHAIN_LENGTH \in Nat /\ RefDepth <= REAL_CHAIN_LENGTH
    BY PayoutsAssumption
  <1>1. PICK H \in Nat, D \in Nat : H = get_height(p) /\ D = DepthOf(share, p) /\ H <= D
    BY HeightIs
  <1>2. H >= REAL_CHAIN_LENGTH \/ H = D
    BY <1>1, HistoryIs
  <1>3. PICK reach \in 0 .. H : /\ reach = Reach(share, p)
                               /\ reach = IF get_height(p) < RefDepth THEN get_height(p) ELSE RefDepth
    <2>1. Reach(share, p) = IF H < RefDepth THEN H ELSE RefDepth
      BY <1>0, <1>1, <1>2 DEF Reach
    <2> QED BY <1>0, <1>1, <2>1
  <1>4. PICK past : past = get_chain(p, reach) /\ past = [i \in 1 .. reach |-> NthBack(share, p, i - 1)]
    BY <1>1, ChainIs DEF Stretch
  <1>5. DOMAIN past = 1 .. reach /\ \A i \in 1 .. reach : past[i] = NthBack(share, p, i - 1)
    BY <1>4
  <1>6. {i \in DOMAIN past : tx \in share[past[i]].new_transaction_hashes} = FoundAt(share, p, tx)
    BY <1>3, <1>5 DEF FoundAt
  <1>7. Back(p, tx) = FirstIn(get_chain(p, IF get_height(p) < RefDepth THEN get_height(p) ELSE RefDepth), tx)
    BY DEF Back, FirstIn, LeastOf
  <1>8. FirstIn(past, tx) = FirstBack(share, p, tx)
    BY <1>6 DEF FirstIn, FirstBack
  <1> QED BY <1>3, <1>4, <1>7, <1>8

-----------------------------------------------------------------------------
\* What is true of a share that was made, said of the whole chain below it.
FarShare(sh, p) == IF DepthOf(sh, p) < Far THEN 0 ELSE NthBack(sh, p, Far)
Fitting(sh, p, v) ==
  \/ v = sh[p].version
  \/ /\ v = SUCCESSOR(sh[p].version) /\ DepthOf(sh, p) >= CHAIN_LENGTH
     /\ ByFlagDay(v) \/ VotesFor(sh, p, v) > (VotesCast(sh, p) * 95) \div 100
Paying(sh, s, address) ==
  \E sol : /\ Answer(sol, sh, From(sh, s.previous), Window(sh, s.previous), Spread)
           /\ s.amounts = Amounts(s.version, address, s.subsidy, sol.weights, sol.total)
Timely(sh, s, clock) ==
  /\ s.previous # 0 => TimeAfter(s.version, sh[s.previous].timestamp, s.timestamp) = s.timestamp
  /\ s.timestamp <= clock \/ (s.previous # 0 /\ s.timestamp = sh[s.previous].timestamp + 1)
Referring(sh, s) ==
  /\ s.version >= 34 => s.transaction_hash_refs = <<>>
  /\ s.version < 34 => legacy_address[s.address] = s.address
  /\ \A n \in DOMAIN s.transaction_hash_refs :
       s.transaction_hash_refs[n].share_count = FirstBack(sh, s.previous, s.transaction_hash_refs[n].tx)
  /\ s.new_transaction_hashes =
       {s.transaction_hash_refs[n].tx :
          n \in {i \in DOMAIN s.transaction_hash_refs : s.transaction_hash_refs[i].share_count = 0}}
Made(sh, s, how) ==
  /\ s.max_bits = Rounded(Easiest(sh, s.previous))
  /\ Rounded(clip(s.bits, Easiest(sh, s.previous) \div 30, Easiest(sh, s.previous))) = s.bits
  /\ s.previous # 0 => Fitting(sh, s.previous, s.version)
  /\ Timely(sh, s, how.clock)
  /\ Referring(sh, s)
  /\ s.far_share_hash = FarShare(sh, s.previous)
  /\ Paying(sh, s, how.address)

\* More shares change nothing of it.
LEMMA MadeExtended ==
  ASSUME NEW sh, Shares(sh), NEW more, Longer(sh, more), NEW s, s.previous \in 0 .. Len(sh), NEW how,
         Made(sh, s, how)
  PROVE  Made(more, s, how)
  <1>0. /\ BackLinked(sh) /\ BackLinked(more) /\ Len(sh) <= Len(more) /\ Len(sh) \in Nat
        /\ Chained(sh) /\ Chained(more) /\ \A h \in 1 .. Len(sh) : more[h] = sh[h]
    BY DEF Longer, Chained, BackLinked
  <1>1. PICK p \in 0 .. Len(sh) : p = s.previous
    OBVIOUS
  <1>2. DepthOf(more, p) = DepthOf(sh, p) /\ \A n : NthBack(more, p, n) = NthBack(sh, p, n)
    BY <1>0, LineExtended
  <1>3. Easiest(more, p) = Easiest(sh, p)
    BY EasiestExtended
  <1>4. FarShare(more, p) = FarShare(sh, p)
    BY <1>2 DEF FarShare
  <1>5. p # 0 => more[p] = sh[p]
    <2>1. p # 0 => p \in 1 .. Len(sh)
      BY <1>0
    <2> QED BY <1>0, <2>1
  <1>6. ASSUME p # 0, Fitting(sh, p, s.version) PROVE Fitting(more, p, s.version)
    <2>1. CASE s.version = sh[p].version
      BY <1>5, <1>6, <2>1 DEF Fitting
    <2>2. CASE s.version # sh[p].version
      <3>1. /\ s.version = SUCCESSOR(sh[p].version) /\ DepthOf(sh, p) >= CHAIN_LENGTH
            /\ ByFlagDay(s.version) \/ VotesFor(sh, p, s.version) > (VotesCast(sh, p) * 95) \div 100
        BY <1>6, <2>2 DEF Fitting
      <3>2. VotesFor(more, p, s.version) = VotesFor(sh, p, s.version) /\ VotesCast(more, p) = VotesCast(sh, p)
        BY <3>1, VotesExtended
      <3> QED BY <1>2, <1>5, <1>6, <3>1, <3>2 DEF Fitting
    <2> QED BY <2>1, <2>2
  <1>7. Paying(more, s, how.address)
    <2>1. PICK sol : /\ Answer(sol, sh, From(sh, p), Window(sh, p), Spread)
                     /\ s.amounts = Amounts(s.version, how.address, s.subsidy, sol.weights, sol.total)
      BY <1>1 DEF Made, Paying
    <2>2. /\ From(sh, p) \in 0 .. Len(sh) /\ Window(sh, p) \in 0 .. DepthOf(sh, From(sh, p))
      BY <1>0, WindowFits
    <2>3. From(more, p) = From(sh, p) /\ Window(more, p) = Window(sh, p)
      BY <1>2, <1>5 DEF From, Window
    <2>4. Answer(sol, more, From(sh, p), Window(sh, p), Spread)
      BY <1>0, <2>1, <2>2, AnswerExtended
    <2> QED BY <1>1, <2>1, <2>3, <2>4 DEF Paying
  <1>8. Timely(more, s, how.clock)
    <2>1. Timely(sh, s, how.clock)
      BY DEF Made
    <2> QED BY <1>1, <1>5, <2>1 DEF Timely
  <1>9. Referring(more, s)
    <2>1. Referring(sh, s)
      BY DEF Made
    <2>2. \A tx : FirstBack(more, p, tx) = FirstBack(sh, p, tx)
      BY FirstExtended
    <2> QED BY <1>1, <2>1, <2>2 DEF Referring
  <1> QED BY <1>1, <1>3, <1>4, <1>5, <1>6, <1>7, <1>8, <1>9 DEF Made

-----------------------------------------------------------------------------
\* What every reachable state has.
How == [clock : Int, address : Payee]
AllMade == \A h \in 1 .. Len(share) : Made(share, share[h], made[h])
Kept == /\ share \in Seq(ShareType) /\ Shares(share) /\ Standing
        /\ made \in Seq(How) /\ Len(made) = Len(share)
        /\ flag_day \in BOOLEAN /\ AllMade

\* What the other lemmas ask for.
LEMMA KeptIs ==
  ASSUME Kept
  PROVE  /\ Len(share) \in Nat /\ DOMAIN share = 1 .. Len(share) /\ items \subseteq 1 .. Len(share)
         /\ Placed /\ Chained(share) /\ BackLinked(share) /\ Shares(share)
  BY DEF Kept, Standing, Placed, BackLinked

\* The far share that is asked of the tracker is the one of the whole chain.
LEMMA FarIs ==
  ASSUME Placed, NEW p \in 0 .. Len(share), HasHistory(p)
  PROVE  (IF get_last(p) = None /\ get_height(p) < Far THEN None ELSE get_nth_parent_hash(p, Far))
         = FarShare(share, p)
  <1>0. Far \in Nat /\ REAL_CHAIN_LENGTH \in Nat /\ Far <= REAL_CHAIN_LENGTH
    BY PayoutsAssumption
  <1>1. PICK H \in Nat, D \in Nat : H = get_height(p) /\ D = DepthOf(share, p) /\ H <= D
    BY HeightIs
  <1>2. (H >= REAL_CHAIN_LENGTH \/ H = D) /\ (get_last(p) = None <=> H = D)
    BY <1>1, HistoryIs
  <1>3. CASE H < Far
    <2>1. H = D /\ get_last(p) = None /\ D < Far
      BY <1>0, <1>1, <1>2, <1>3
    <2> QED BY <1>1, <1>3, <2>1 DEF FarShare, None
  <1>4. CASE ~ (H < Far)
    <2>1. Far \in 0 .. get_height(p) /\ ~ (D < Far)
      BY <1>0, <1>1, <1>4
    <2>2. get_nth_parent_hash(p, Far) = NthBack(share, p, Far)
      BY <2>1, ParentIs
    <2> QED BY <1>1, <1>4, <2>1, <2>2 DEF FarShare
  <1> QED BY <1>3, <1>4

\* What the walk answers is what the whole chain does.
LEMMA WalkIs ==
  ASSUME Kept, NEW p \in 0 .. Len(share), HasHistory(p)
  PROVE  /\ Answer(WeightsFor(p).sol, share, From(share, p), Window(share, p), Spread)
         /\ SkipsTrue(WeightsFor(p).skips, share)
  <1>1. Standing
    BY DEF Kept
  <1>2. PICK max \in 0 .. DepthOf(share, From(share, p)) :
          Arrived(WeightsFor(p), share, From(share, p), max, Spread) /\ max = Window(share, p)
    BY <1>1, WeightsForAnswer
  <1> QED BY <1>2 DEF Arrived

\* Where a share has what check asks for, so has the one before it.
LEMMA JudgeableIs ==
  ASSUME Kept, NEW h \in items, Judgeable(h)
  PROVE  /\ h \in 1 .. Len(share) /\ share[h].previous \in 0 .. Len(share) /\ HasHistory(share[h].previous)
         /\ get_height(share[h].previous) >= CHAIN_LENGTH
            <=> DepthOf(share, share[h].previous) >= CHAIN_LENGTH
         /\ get_height(h) = get_height(share[h].previous) + 1
         /\ DepthOf(share, h) = DepthOf(share, share[h].previous) + 1
  <1>0. /\ Placed /\ BackLinked(share) /\ h \in 1 .. Len(share) /\ h \in 0 .. Len(share)
        /\ CHAIN_LENGTH \in Nat /\ REAL_CHAIN_LENGTH \in Nat /\ REAL_CHAIN_LENGTH <= CHAIN_LENGTH
    <2>1. /\ Len(share) \in Nat /\ items \subseteq 1 .. Len(share)
          /\ Placed /\ BackLinked(share)
      BY KeptIs
    <2>2. CHAIN_LENGTH \in Nat /\ REAL_CHAIN_LENGTH \in Nat /\ REAL_CHAIN_LENGTH <= CHAIN_LENGTH
      BY PayoutsAssumption
    <2>3. h \in 1 .. Len(share) /\ h \in 0 .. Len(share)
      BY <2>1
    <2> QED BY <2>1, <2>2, <2>3
  <1>1. PICK p \in 0 .. Len(share) : p = share[h].previous /\ DepthOf(share, h) = DepthOf(share, p) + 1
    BY <1>0, LineSteps
  <1>2. get_height(h) \in Nat /\ NthBack(share, h, 0) = h /\ NthBack(share, h, get_height(h)) \notin items
    BY <1>0, HeightIs, AtSteps
  <1>3. 1 \in 0 .. get_height(h)
    BY <1>2
  <1>4. NthBack(share, h, 1) = p /\ get_height(p) = get_height(h) - 1
    <2>1. 1 \in 1 .. DepthOf(share, h) /\ 1 - 1 = 0
      <3>1. DepthOf(share, p) \in Nat
        BY <1>0, LineSteps
      <3> QED BY <1>1, <3>1
    <2>2. NthBack(share, h, 1) = NthBack(share, p, 0) /\ NthBack(share, p, 0) = p
      BY <1>0, <1>1, <2>1, AtSteps
    <2> QED BY <1>0, <1>3, <2>2, HeightBack
  <1>5. PICK H \in Nat, D \in Nat : H = get_height(p) /\ D = DepthOf(share, p) /\ H <= D
    BY <1>0, HeightIs
  <1>6. H >= CHAIN_LENGTH \/ H = D
    <2>1. get_height(h) >= CHAIN_LENGTH + 1 \/ get_height(h) = DepthOf(share, h)
      BY <1>0, HistoryIs DEF Judgeable
    <2> QED BY <1>0, <1>1, <1>2, <1>4, <1>5, <2>1
  <1>7. HasHistory(p)
    BY <1>0, <1>5, <1>6, HistoryIs
  <1>8. get_height(h) = H + 1
    BY <1>2, <1>4, <1>5
  <1>9. H >= CHAIN_LENGTH <=> D >= CHAIN_LENGTH
    BY <1>0, <1>5, <1>6
  <1> QED BY <1>0, <1>1, <1>5, <1>7, <1>8, <1>9

\* A version that was chosen by the vote passes by the lower share of it that check asks for.
LEMMA FittingPasses ==
  ASSUME Kept, NEW p \in 1 .. Len(share), NEW v \in {17, 35, 36}, Fitting(share, p, v),
         get_height(p) >= CHAIN_LENGTH <=> DepthOf(share, p) >= CHAIN_LENGTH
  PROVE  VersionPasses(v, p)
  <1>1. PICK before \in {17, 35, 36} : before = share[p].version
    <2>1. PICK r : r = share[p] /\ r \in ShareType
      BY KeptIs DEF Shares
    <2> QED BY <2>1 DEF ShareType
  <1>2. before # SUCCESSOR(before)
    BY DEF SUCCESSOR, None
  <1>3. p \in 0 .. Len(share) /\ Placed /\ Shares(share)
    BY KeptIs
  <1>4. CASE get_height(p) >= CHAIN_LENGTH
    <2>1. CASE v = before
      BY <1>1, <1>4, <2>1 DEF VersionPasses
    <2>2. CASE v # before
      <3>1. /\ v = SUCCESSOR(before)
            /\ ByFlagDay(v) \/ VotesFor(share, p, v) > (VotesCast(share, p) * 95) \div 100
        BY <1>1, <2>2 DEF Fitting
      <3>2. Votes(p, v) = VotesFor(share, p, v) /\ AllVotes(p) = VotesCast(share, p)
        BY <1>3, <1>4, VotesAre
      <3>3. PICK A \in Nat : A = VotesCast(share, p)
        <4>1. Longer(share, share)
          BY KeptIs DEF Longer
        <4> QED BY <1>3, <1>4, <4>1, VotesExtended
      <3>4. PICK V \in Nat : V = VotesFor(share, p, v)
        <4>1. /\ BackLinked(share) /\ VoteFrom \in Nat /\ VoteLength \in Nat
              /\ VoteFrom + VoteLength <= CHAIN_LENGTH /\ CHAIN_LENGTH \in Nat
          BY KeptIs, PayoutsAssumption
        <4>2. DepthOf(share, p) \in Nat /\ GoesBack(share, p) /\ VoteFrom \in 0 .. DepthOf(share, p)
          <5>1. DepthOf(share, p) \in Nat /\ GoesBack(share, p)
            BY <1>3, <4>1, LineSteps, AtBack
          <5> QED BY <1>4, <4>1, <5>1
        <4>3. /\ NthBack(share, p, VoteFrom) \in 0 .. Len(share)
              /\ VoteLength \in 0 .. DepthOf(share, NthBack(share, p, VoteFrom))
          <5>1. DepthOf(share, NthBack(share, p, VoteFrom)) = DepthOf(share, p) - VoteFrom
            BY <4>2 DEF GoesBack
          <5> QED BY <1>4, <4>1, <4>2, <5>1 DEF GoesBack
        <4>4. ASSUME NEW h \in 1 .. Len(share) PROVE WorkFor(share, v)[h] \in Nat
          <5>1. PICK r : r = share[h] /\ Weighs(r)
            BY KeptIs DEF Chained
          <5>2. target_to_average_attempts(r.bits) \in Nat
            BY <5>1, AttemptsArePositive DEF Weighs
          <5>3. WorkFor(share, v)[h] = target_to_average_attempts(r.bits) \/ WorkFor(share, v)[h] = 0
            BY <5>1 DEF WorkFor
          <5> QED BY <5>2, <5>3
        <4>5. SumAlong(share, NthBack(share, p, VoteFrom), VoteLength, WorkFor(share, v)) \in Nat
          BY <4>1, <4>3, <4>4, SumAlongNatural
        <4> QED BY <4>5 DEF VotesFor
      <3>5. (A * 60) \div 100 <= (A * 95) \div 100
        OBVIOUS
      <3>6. V > (A * 95) \div 100 => V >= (A * 60) \div 100
        BY <3>5
      <3>7. ByFlagDay(v) \/ Votes(p, v) >= (AllVotes(p) * 60) \div 100
        BY <3>1, <3>2, <3>3, <3>4, <3>6
      <3> QED BY <1>1, <1>4, <3>1, <3>7 DEF VersionPasses
    <2> QED BY <2>1, <2>2
  <1>5. CASE ~ (get_height(p) >= CHAIN_LENGTH)
    <2>1. v = before
      BY <1>1, <1>5 DEF Fitting
    <2> QED BY <1>1, <1>2, <1>5, <2>1 DEF VersionPasses
  <1> QED BY <1>4, <1>5

\* What is true of every share made, is what check makes again, where it was made for the
\* address it says.
LEMMA MadeIsRemade ==
  ASSUME Kept, NEW h \in items, Judgeable(h), made[h].address = share[h].address
  PROVE  share[h] = Remade(h)
  <1>1. /\ h \in 1 .. Len(share) /\ share[h].previous \in 0 .. Len(share) /\ HasHistory(share[h].previous)
    BY JudgeableIs
  <1>2. PICK s \in ShareType : s = share[h]
    BY <1>1, KeptIs DEF Shares
  <1>3. PICK p \in 0 .. Len(share) : p = s.previous /\ HasHistory(p)
    BY <1>1, <1>2
  <1>4. PICK how : how = made[h] /\ Made(share, s, how) /\ how.address = s.address
    BY <1>1, <1>2 DEF Kept, AllMade
  <1>5. pre_target3(p) = Easiest(share, p)
    BY <1>3, KeptIs, EasiestIs
  <1>6. PICK walk : walk = WeightsFor(p)
    OBVIOUS
  <1>7. PICK data : data = [previous |-> p, version |-> s.version, address |-> s.address,
                            donation |-> s.donation, desired_version |-> s.desired_version,
                            subsidy |-> s.subsidy, most |-> s.most]
    OBVIOUS
  <1>8. PICK R \in Seq(Reference) : R = s.transaction_hash_refs
    BY DEF ShareType
  <1>9. PICK txs : txs = [n \in DOMAIN R |-> R[n].tx]
    OBVIOUS
  <1>10. Remade(h) = Generated(data, s.timestamp, s.bits, txs, walk)
    BY <1>2, <1>3, <1>6, <1>7, <1>8, <1>9 DEF Remade
  <1>11. s.max_bits = Rounded(pre_target3(p))
         /\ Rounded(clip(s.bits, pre_target3(p) \div 30, pre_target3(p))) = s.bits
    BY <1>3, <1>4, <1>5 DEF Made
  <1>12. Timestamp(s.version, p, s.timestamp) = s.timestamp
    BY <1>3, <1>4 DEF Made, Timely, Timestamp, TimeAfter, None
  <1>13. (IF get_last(p) = None /\ get_height(p) < Far THEN None ELSE get_nth_parent_hash(p, Far))
         = s.far_share_hash
    BY <1>3, <1>4, KeptIs, FarIs DEF Made
  <1>14. s.amounts = Amounts(s.version, s.address, s.subsidy, walk.sol.weights, walk.sol.total)
    <2>1. PICK sol : /\ Answer(sol, share, From(share, p), Window(share, p), Spread)
                     /\ s.amounts = Amounts(s.version, s.address, s.subsidy, sol.weights, sol.total)
      BY <1>3, <1>4 DEF Made, Paying
    <2>2. Answer(walk.sol, share, From(share, p), Window(share, p), Spread)
      BY <1>3, <1>6, WalkIs
    <2>3. Window(share, p) \in Nat /\ Spread \in Nat
      <3>1. Chained(share) /\ Spread \in Nat
        BY KeptIs, PayoutsAssumption
      <3>2. Window(share, p) \in 0 .. DepthOf(share, From(share, p)) /\ DepthOf(share, From(share, p)) \in Nat
        BY <3>1, WindowFits
      <3> QED BY <3>1, <3>2
    <2>4. walk.sol = sol
      BY <2>1, <2>2, <2>3, AnswerIsOne
    <2> QED BY <2>1, <2>4
  <1>15. Referring(share, s)
    BY <1>4 DEF Made
  <1>16. (IF s.version < 34 THEN Refs(p, txs) ELSE <<>>) = R
    <2>1. CASE s.version < 34
      <3>1. \A n \in DOMAIN R : txs[n] = R[n].tx /\ Back(p, R[n].tx) = R[n].share_count
        BY <1>3, <1>8, <1>9, <1>15, KeptIs, BackIs DEF Referring
      <3>2. \A n \in DOMAIN R : R[n] = [share_count |-> Back(p, txs[n]), tx |-> txs[n]]
        <4>1. ASSUME NEW n \in DOMAIN R PROVE R[n] = [share_count |-> Back(p, txs[n]), tx |-> txs[n]]
          <5>1. R[n] \in Reference
            BY <1>8
          <5>2. R[n] = [share_count |-> R[n].share_count, tx |-> R[n].tx]
            BY <5>1 DEF Reference
          <5> QED BY <3>1, <5>2
        <4> QED BY <4>1
      <3>3. DOMAIN txs = DOMAIN R /\ R = [n \in DOMAIN R |-> R[n]]
        BY <1>8, <1>9
      <3> QED BY <2>1, <3>2, <3>3 DEF Refs
    <2>2. CASE ~ (s.version < 34)
      <3>1. s.version \in {17, 35, 36}
        BY DEF ShareType
      <3>2. s.version >= 34
        BY <2>2, <3>1
      <3> QED BY <1>8, <1>15, <2>2, <3>2 DEF Referring
    <2> QED BY <2>1, <2>2
  <1>17. PICK new \in SUBSET Nat : /\ new = s.new_transaction_hashes
                                 /\ new = {R[n].tx : n \in {i \in DOMAIN R : R[i].share_count = 0}}
    BY <1>8, <1>15 DEF Referring, ShareType
  <1>18. (IF s.version < 34 THEN legacy_address[s.address] ELSE s.address) = s.address
    BY <1>15 DEF Referring
  <1>19. Remade(h) =
           [previous |-> p, version |-> s.version, address |-> s.address,
            new_transaction_hashes |-> new, transaction_hash_refs |-> R,
            donation |-> s.donation, desired_version |-> s.desired_version,
            subsidy |-> s.subsidy, most |-> s.most, max_bits |-> s.max_bits, bits |-> s.bits,
            timestamp |-> s.timestamp, far_share_hash |-> s.far_share_hash, amounts |-> s.amounts]
    BY <1>7, <1>10, <1>11, <1>12, <1>13, <1>14, <1>16, <1>17, <1>18 DEF Generated
  <1>20. s = [previous |-> p, version |-> s.version, address |-> s.address,
              new_transaction_hashes |-> new, transaction_hash_refs |-> R,
              donation |-> s.donation, desired_version |-> s.desired_version,
              subsidy |-> s.subsidy, most |-> s.most, max_bits |-> s.max_bits, bits |-> s.bits,
              timestamp |-> s.timestamp, far_share_hash |-> s.far_share_hash, amounts |-> s.amounts]
    BY <1>3, <1>8, <1>17 DEF ShareType
  <1> QED BY <1>2, <1>19, <1>20

\* The transactions a share refers to are found.
LEMMA RefsAreThere ==
  ASSUME Kept, NEW h \in items, Judgeable(h)
  PROVE  RefsResolve(h)
  <1>1. /\ h \in 1 .. Len(share) /\ share[h].previous \in 0 .. Len(share)
        /\ get_height(h) = get_height(share[h].previous) + 1
        /\ DepthOf(share, h) = DepthOf(share, share[h].previous) + 1
        /\ HasHistory(share[h].previous)
    BY JudgeableIs
  <1>2. PICK s \in ShareType : s = share[h] /\ Referring(share, s)
    BY <1>1, KeptIs DEF Shares, Kept, AllMade, Made
  <1>3. PICK p \in 0 .. Len(share) : p = s.previous
    BY <1>1, <1>2
  <1>4. PICK R \in Seq(Reference) : R = s.transaction_hash_refs
    BY DEF ShareType
  <1>5. PICK H \in Nat, D \in Nat : /\ H = get_height(p) /\ D = DepthOf(share, p)
                                  /\ get_height(h) = H + 1 /\ DepthOf(share, h) = D + 1
    BY <1>1, <1>2, <1>3, KeptIs, HeightIs
  <1>6. Reach(share, p) \in Nat /\ Reach(share, p) <= H
    <2>1. RefDepth \in Nat /\ REAL_CHAIN_LENGTH \in Nat /\ RefDepth <= REAL_CHAIN_LENGTH
      BY PayoutsAssumption
    <2>2. H >= REAL_CHAIN_LENGTH \/ H = D
      BY <1>1, <1>2, <1>3, <1>5, KeptIs, HistoryIs
    <2>3. Reach(share, p) \in Nat /\ Reach(share, p) <= RefDepth /\ Reach(share, p) <= D
      BY <1>5, KeptIs, ReachIs
    <2> QED BY <2>1, <2>2, <2>3
  <1>7. ASSUME NEW n \in DOMAIN R
        PROVE  R[n].tx \in share[get_nth_parent_hash(h, R[n].share_count)].new_transaction_hashes
    <2>1. PICK i, tx : i = R[n].share_count /\ tx = R[n].tx /\ i = FirstBack(share, p, tx)
      BY <1>2, <1>3, <1>4 DEF Referring
    <2>2. i \in 0 .. Reach(share, p) /\ (i # 0 => i \in FoundAt(share, p, tx))
      BY <1>6, <2>1, FirstIsFound
    <2>3. i \in 0 .. get_height(h) /\ h \in 0 .. Len(share)
      BY <1>1, <1>5, <1>6, <2>2, KeptIs
    <2>4. get_nth_parent_hash(h, i) = NthBack(share, h, i)
      BY <2>3, KeptIs, ParentIs
    <2>5. CASE i = 0
      <3>1. NthBack(share, h, 0) = h
        BY <2>3, KeptIs, AtSteps
      <3>2. tx \in s.new_transaction_hashes
        BY <1>2, <1>4, <2>1, <2>5 DEF Referring
      <3> QED BY <1>2, <2>1, <2>4, <2>5, <3>1, <3>2
    <2>6. CASE i # 0
      <3>1. i \in 1 .. DepthOf(share, h)
        <4>1. Reach(share, p) <= D
          BY <1>5, KeptIs, ReachIs
        <4> QED BY <1>5, <1>6, <2>2, <2>6, <4>1
      <3>2. NthBack(share, h, i) = NthBack(share, p, i - 1)
        BY <1>1, <1>2, <1>3, <3>1, KeptIs, AtSteps
      <3>3. tx \in share[NthBack(share, p, i - 1)].new_transaction_hashes
        BY <2>2, <2>6 DEF FoundAt
      <3> QED BY <2>1, <2>4, <3>2, <3>3
    <2> QED BY <2>5, <2>6
  <1> QED BY <1>2, <1>4, <1>7 DEF RefsResolve

\* What is true of every share made lets check() pass every one of them.
LEMMA KeptPasses == ASSUME Kept PROVE OwnSharesPass
  <1>1. ASSUME NEW h \in items, NEW skew \in Skews, NEW now, now = made[h].clock + skew,
               Judgeable(h), made[h].clock <= now + Ahead,
               share[h].previous # None => share[share[h].previous].timestamp < now + Ahead,
               made[h].address = share[h].address
        PROVE  check(h, now)
    <2>1. PICK p \in 0 .. Len(share) :
            /\ p = share[h].previous /\ h \in 1 .. Len(share)
            /\ get_height(p) >= CHAIN_LENGTH <=> DepthOf(share, p) >= CHAIN_LENGTH
      BY <1>1, JudgeableIs
    <2>2. ASSUME p # None PROVE VersionPasses(share[h].version, p)
      <3>1. p \in 1 .. Len(share)
        BY <2>1, <2>2, KeptIs DEF None
      <3>2. Fitting(share, p, share[h].version)
        BY <2>1, <2>2 DEF Kept, AllMade, Made, None
      <3>3. share[h].version \in {17, 35, 36}
        <4>1. PICK r : r = share[h] /\ r \in ShareType
          BY <2>1, KeptIs DEF Shares
        <4> QED BY <4>1 DEF ShareType
      <3> QED BY <2>1, <3>1, <3>2, <3>3, FittingPasses
    <2>3. share[h] = Remade(h)
      BY <1>1, MadeIsRemade
    <2>4. share[h].timestamp <= now + Ahead
      <3>1. PICK c \in Int : c = made[h].clock
        <4>1. PICK k : k = made[h] /\ k \in How
          BY <2>1 DEF Kept
        <4> QED BY <4>1 DEF How
      <3>2. skew \in Int /\ Ahead \in Nat
        BY PayoutsAssumption
      <3>3. PICK s \in ShareType : s = share[h] /\ Timely(share, s, c)
        BY <2>1, <3>1, KeptIs DEF Shares, Kept, AllMade, Made
      <3>4. PICK time \in Int : time = s.timestamp
        BY DEF ShareType
      <3>5. CASE time <= c
        BY <1>1, <3>1, <3>2, <3>3, <3>4, <3>5
      <3>6. CASE ~ (time <= c)
        <4>1. p # 0 /\ time = share[p].timestamp + 1
          BY <2>1, <3>3, <3>4, <3>6 DEF Timely
        <4>2. p \in 1 .. Len(share)
          BY <2>1, <4>1
        <4>3. PICK q : q = share[p] /\ q \in ShareType
          BY <4>2, KeptIs DEF Shares
        <4>4. PICK before \in Int : before = share[p].timestamp
          BY <4>3 DEF ShareType
        <4>5. before < c + skew + Ahead
          BY <1>1, <2>1, <3>1, <4>1, <4>4 DEF None
        <4> QED BY <1>1, <3>1, <3>2, <3>3, <3>4, <4>1, <4>4, <4>5
      <3> QED BY <3>5, <3>6
    <2> QED BY <1>1, <2>1, <2>2, <2>3, <2>4, RefsAreThere DEF check, Admitted
  <1> QED BY <1>1 DEF OwnSharesPass

\* What get_share_type, the work it is made for and generate_transaction put in a share.
MadeOn(previous, m) == IF m.old /\ share_type(previous) = 36 THEN 35 ELSE share_type(previous)
Claim(m) == ClaimedSubsidy(Subsidy + SumIn(m.fees, DOMAIN m.fees), m.fees, m.known, m.fit)
Mined(previous, m) ==
  [previous |-> previous, version |-> MadeOn(previous, m), address |-> m.address,
   donation |-> IF PAYS_LEGACY_DONATION(MadeOn(previous, m)) THEN m.donation ELSE 0,
   desired_version |-> IF m.old THEN 35 ELSE Desired(MadeOn(previous, m)),
   subsidy |-> Claim(m), most |-> Subsidy + SumIn(m.fees, 1 .. m.fit)]
Fit(m) == SubSeq(m.txs, 1, m.fit)
Clock(previous, m) == (IF previous = None THEN Epoch ELSE share[previous].timestamp) + m.later

\* The version is in use, and one that was voted in when it is not that of the share before.
LEMMA VersionMade ==
  ASSUME Kept, NEW p \in 0 .. Len(share), HasHistory(p), NEW m,
         m.old /\ p # None => share[p].version # 36
  PROVE  MadeOn(p, m) \in {17, 35, 36} /\ (p # 0 => Fitting(share, p, MadeOn(p, m)))
  <1>1. CASE p = 0
    BY <1>1 DEF MadeOn, share_type, None
  <1>2. CASE p # 0
    <2>0. p \in 1 .. Len(share)
      BY <1>2, KeptIs
    <2>1. PICK before \in {17, 35, 36} : before = share[p].version
      <3>1. PICK r : r = share[p] /\ r \in ShareType
        BY <2>0, KeptIs DEF Shares
      <3> QED BY <3>1 DEF ShareType
    <2>2. CASE share_type(p) = before
      <3>1. before = 36 => ~ m.old
        BY <1>2, <2>1 DEF None
      <3>2. MadeOn(p, m) = before
        BY <2>2, <3>1 DEF MadeOn
      <3> QED BY <2>1, <3>2 DEF Fitting
    <2>3. CASE share_type(p) # before
      <3>1. PICK v : v = SUCCESSOR(before)
        OBVIOUS
      <3>2. /\ share_type(p) = v /\ v # None
            /\ ~ (get_height(p) < CHAIN_LENGTH)
            /\ ByFlagDay(v) \/ Votes(p, v) > (AllVotes(p) * 95) \div 100
        BY <1>2, <2>1, <2>3, <3>1 DEF share_type, None
      <3>3. v \in {35, 36} /\ (v = 36 => before = 35)
        BY <2>1, <3>1, <3>2 DEF SUCCESSOR, None
      <3>4. get_height(p) >= CHAIN_LENGTH /\ DepthOf(share, p) >= CHAIN_LENGTH
        <4>1. get_height(p) \in Nat /\ DepthOf(share, p) \in Nat /\ get_height(p) <= DepthOf(share, p)
          BY KeptIs, HeightIs
        <4>2. CHAIN_LENGTH \in Nat
          BY PayoutsAssumption
        <4> QED BY <3>2, <4>1, <4>2
      <3>5. Votes(p, v) = VotesFor(share, p, v) /\ AllVotes(p) = VotesCast(share, p)
        BY <3>4, KeptIs, VotesAre
      <3>6. Fitting(share, p, v)
        BY <2>1, <3>1, <3>2, <3>4, <3>5 DEF Fitting
      <3>7. CASE m.old /\ v = 36
        <4>1. MadeOn(p, m) = 35 /\ before = 35
          BY <3>2, <3>3, <3>7 DEF MadeOn
        <4> QED BY <2>1, <4>1 DEF Fitting
      <3>8. CASE ~ (m.old /\ v = 36)
        <4>1. MadeOn(p, m) = v
          BY <3>2, <3>8 DEF MadeOn
        <4> QED BY <3>3, <3>6, <4>1
      <3> QED BY <3>7, <3>8
    <2> QED BY <2>2, <2>3
  <1> QED BY <1>1, <1>2

\* A share that is mined has all that shares have, and pays out what it claims.
LEMMA MinedIsMade ==
  ASSUME Kept, NEW p \in 0 .. Len(share), HasHistory(p), NEW m \in Makers,
         m.old /\ p # None => share[p].version # 36,
         NEW g, g = Generated(Mined(p, m), Clock(p, m), m.target, Fit(m), WeightsFor(p)),
         NEW how, how = [clock |-> Clock(p, m), address |-> m.address]
  PROVE  /\ g \in ShareType /\ how \in How /\ Made(share, g, how) /\ g.previous = p
         /\ SumIn(g.amounts, Payee) = g.subsidy /\ g.subsidy <= g.most
  <1>0. /\ Chained(share) /\ Shares(share) /\ Placed /\ BackLinked(share) /\ Len(share) \in Nat
        /\ REAL_CHAIN_LENGTH \in Nat /\ Spread \in Nat /\ Far \in Nat /\ Epoch \in Int
        /\ Space \in Nat /\ MAX_TARGET \in Nat /\ MAX_TARGET < Space
    BY KeptIs, PayoutsAssumption
  <1>1. /\ m.address \in Payee /\ m.donation \in 0 .. Unit
        /\ m.target \in Nat /\ m.later \in Int
        /\ m.fees \in Seq(Nat) /\ m.known \subseteq DOMAIN m.fees
        /\ m.fit \in 0 .. Len(m.fees) /\ m.txs \in Seq(Nat) /\ Len(m.txs) = Len(m.fees)
    BY MakersAssumption
  <1>2. PICK v \in {17, 35, 36} : v = MadeOn(p, m) /\ (p # 0 => Fitting(share, p, v))
    BY VersionMade
  <1>3. PICK sub \in Nat, most \in Nat :
          sub = Claim(m) /\ most = Subsidy + SumIn(m.fees, 1 .. m.fit) /\ sub <= most
    <2>1. PICK fees \in Seq(Nat) : fees = m.fees
      BY <1>1
    <2>2. PICK known \in SUBSET DOMAIN fees, fit \in 0 .. Len(fees) : known = m.known /\ fit = m.fit
      BY <1>1, <2>1
    <2> QED BY <2>1, <2>2, ClaimFits DEF Claim
  <1>4. PICK don \in 0 .. Unit : don = IF PAYS_LEGACY_DONATION(v) THEN m.donation ELSE 0
    <2>1. 0 \in 0 .. Unit
      BY UnitAssumption
    <2> QED BY <1>1, <2>1
  <1>5. PICK dv \in {35, 36} : dv = IF m.old THEN 35 ELSE Desired(v)
    <2>1. Desired(v) \in {35, 36}
      BY DEF Desired, SUCCESSOR, None
    <2> QED BY <2>1
  <1>6. PICK T \in Nat : T = Easiest(share, p) /\ T = pre_target3(p) /\ T <= MAX_TARGET
    BY <1>0, EasiestTyped, EasiestIs
  <1>7. PICK mb \in Nat : mb = Rounded(T)
    BY RoundedDown
  <1>8. PICK b \in Nat : /\ b = Rounded(clip(m.target, T \div 30, T)) /\ b <= T
                         /\ Rounded(clip(b, T \div 30, T)) = b
    <2>1. PICK lo \in Nat : lo = T \div 30 /\ lo <= T
      OBVIOUS
    <2>2. PICK x \in Nat : x = m.target
      BY <1>1
    <2>3. PICK y \in Nat : y = Rounded(clip(x, lo, T)) /\ y <= T /\ Rounded(clip(y, lo, T)) = y
      <3>1. lo \in Nat /\ T \in Nat /\ x \in Nat /\ lo <= T
        BY <2>1
      <3> QED BY ONLY <3>1, RoundedTwice
    <2> QED BY <2>1, <2>2, <2>3
  <1>9. b \in 0 .. Space - 1
    BY <1>0, <1>6, <1>8
  <1>10. p # 0 => p \in 1 .. Len(share) /\ share[p].timestamp \in Int
    <2>1. ASSUME p # 0 PROVE p \in 1 .. Len(share) /\ share[p].timestamp \in Int
      <3>1. p \in 1 .. Len(share)
        BY <1>0, <2>1
      <3>2. PICK r : r = share[p] /\ r \in ShareType
        BY <1>0, <3>1 DEF Shares
      <3> QED BY <3>1, <3>2 DEF ShareType
    <2> QED BY <2>1
  <1>11. PICK c \in Int : c = Clock(p, m)
    BY <1>0, <1>1, <1>10 DEF Clock, None
  <1>12. PICK t \in Int : /\ t = Timestamp(v, p, c)
                          /\ p # 0 => TimeAfter(v, share[p].timestamp, t) = t
                          /\ t <= c \/ (p # 0 /\ t = share[p].timestamp + 1)
    <2>1. CASE p = 0
      BY <2>1 DEF Timestamp, None
    <2>2. CASE p # 0
      <3>1. PICK s \in Int : s = share[p].timestamp
        BY <1>10, <2>2
      <3>2. Timestamp(v, p, c) = TimeAfter(v, s, c)
        BY <2>2, <3>1 DEF Timestamp, TimeAfter, None
      <3>3. PICK t \in Int : t = TimeAfter(v, s, c) /\ t = TimeAfter(v, s, t) /\ (t <= c \/ t = s + 1)
        BY TimeTwice
      <3> QED BY <2>2, <3>1, <3>2, <3>3
    <2> QED BY <2>1, <2>2
  <1>13. PICK f \in Nat : /\ f = FarShare(share, p)
                          /\ f = IF get_last(p) = None /\ get_height(p) < Far THEN None
                                 ELSE get_nth_parent_hash(p, Far)
    <2>1. FarShare(share, p) \in Nat
      <3>1. CASE DepthOf(share, p) < Far
        BY <3>1 DEF FarShare
      <3>2. CASE ~ (DepthOf(share, p) < Far)
        <4>1. DepthOf(share, p) \in Nat /\ GoesBack(share, p)
          BY <1>0, LineSteps, AtBack
        <4>2. NthBack(share, p, Far) \in 0 .. Len(share)
          BY <1>0, <3>2, <4>1 DEF GoesBack
        <4> QED BY <1>0, <3>2, <4>2 DEF FarShare
      <3> QED BY <3>1, <3>2
    <2> QED BY <1>0, <2>1, FarIs
  <1>14. PICK sol \in DeltaType :
           /\ sol = WeightsFor(p).sol /\ Balanced(sol)
           /\ Answer(sol, share, From(share, p), Window(share, p), Spread)
    <2>1. Answer(WeightsFor(p).sol, share, From(share, p), Window(share, p), Spread)
      BY WalkIs
    <2>2. From(share, p) \in 0 .. Len(share) /\ Window(share, p) \in 0 .. DepthOf(share, From(share, p))
      BY <1>0, WindowFits
    <2>3. WeightsFor(p).sol \in DeltaType /\ Balanced(WeightsFor(p).sol)
      BY <1>0, <2>1, <2>2, AnswerBalanced
    <2> QED BY <2>1, <2>3
  <1>15. PICK am \in [Payee -> Nat] :
           am = Amounts(v, m.address, sub, sol.weights, sol.total) /\ SumIn(am, Payee) = sub
    <2>1. PICK w \in [Payee -> Nat], n \in Nat, a \in Payee :
            w = sol.weights /\ n = sol.total /\ a = m.address /\ SumOf(w) <= n
      BY <1>1, <1>14 DEF DeltaType, Balanced
    <2>2. /\ Amounts(v, a, sub, w, n) \in [Payee -> Nat]
          /\ SumIn(Amounts(v, a, sub, w, n), Payee) = sub
      <3>1. SumOf(w) <= n /\ w \in [Payee -> Nat] /\ n \in Nat /\ a \in Payee /\ sub \in Nat
        BY <2>1
      <3> QED BY ONLY <3>1, AmountsPaid
    <2> QED BY <2>1, <2>2
  <1>16. PICK data : /\ data = Mined(p, m)
                     /\ data = [previous |-> p, version |-> v, address |-> m.address, donation |-> don,
                                desired_version |-> dv, subsidy |-> sub, most |-> most]
    BY <1>2, <1>3, <1>4, <1>5 DEF Mined
  <1>17. PICK txs \in Seq(Nat) : txs = Fit(m)
    <2>1. PICK all \in Seq(Nat) : all = m.txs
      BY <1>1
    <2>2. PICK n \in 0 .. Len(all) : n = m.fit
      BY <1>1, <2>1
    <2>3. SubSeq(all, 1, n) \in Seq(Nat)
      BY <2>1, <2>2
    <2> QED BY <2>1, <2>2, <2>3 DEF Fit
  <1>18. PICK R \in Seq(Reference) :
           /\ R = IF v < 34 THEN Refs(p, txs) ELSE <<>>
           /\ v >= 34 => R = <<>>
           /\ \A n \in DOMAIN R : R[n].share_count = FirstBack(share, p, R[n].tx)
    <2>1. CASE v < 34
      <3>1. PICK R : R = Refs(p, txs)
        OBVIOUS
      <3>2. ASSUME NEW n \in DOMAIN txs
            PROVE  /\ R[n] \in Reference /\ R[n].share_count = FirstBack(share, p, R[n].tx)
        <4>1. R[n] = [share_count |-> Back(p, txs[n]), tx |-> txs[n]]
          BY <3>1 DEF Refs
        <4>2. txs[n] \in Nat
          BY <1>17
        <4>3. Back(p, txs[n]) = FirstBack(share, p, txs[n])
          BY <1>0, BackIs
        <4>4. FirstBack(share, p, txs[n]) \in Nat
          <5>1. Reach(share, p) \in Nat
            BY <1>0, ReachIs
          <5> QED BY <5>1, FirstIsFound
        <4> QED BY <4>1, <4>2, <4>3, <4>4 DEF Reference
      <3>3. DOMAIN R = DOMAIN txs /\ R = [n \in DOMAIN txs |-> R[n]] /\ DOMAIN txs = 1 .. Len(txs)
            /\ Len(txs) \in Nat
        BY <1>17, <3>1 DEF Refs
      <3>4. R \in Seq(Reference)
        BY <3>2, <3>3
      <3>5. \A n \in DOMAIN R : R[n].share_count = FirstBack(share, p, R[n].tx)
        BY <3>2, <3>3
      <3>6. R = IF v < 34 THEN Refs(p, txs) ELSE <<>>
        BY <2>1, <3>1
      <3>7. ~ (v >= 34)
        BY <2>1
      <3> QED BY <3>4, <3>5, <3>6, <3>7
    <2>2. CASE ~ (v < 34)
      <3>1. <<>> \in Seq(Reference) /\ DOMAIN <<>> = {}
        OBVIOUS
      <3> QED BY <2>2, <3>1
    <2> QED BY <2>1, <2>2
  <1>19. PICK new \in SUBSET Nat : new = {R[n].tx : n \in {i \in DOMAIN R : R[i].share_count = 0}}
    <2>1. ASSUME NEW n \in DOMAIN R PROVE R[n].tx \in Nat
      <3>1. PICK ref \in Reference : ref = R[n]
        OBVIOUS
      <3> QED BY <3>1 DEF Reference
    <2> QED BY <2>1
  <1>20. PICK ad \in Payee : /\ ad = IF v < 34 THEN legacy_address[m.address] ELSE m.address
                             /\ v < 34 => legacy_address[ad] = ad
    BY <1>1, PayoutsAssumption
  <1>21. g = [previous |-> p, version |-> v, address |-> ad,
              new_transaction_hashes |-> new, transaction_hash_refs |-> R, donation |-> don,
              desired_version |-> dv, subsidy |-> sub, most |-> most, max_bits |-> mb, bits |-> b,
              timestamp |-> t, far_share_hash |-> f, amounts |-> am]
    <2>1. PICK walk : walk = WeightsFor(p)
      OBVIOUS
    <2>2. g = Generated(data, c, m.target, txs, walk)
      BY <1>11, <1>16, <1>17, <2>1
    <2>3. (IF v < 34 THEN Refs(p, txs) ELSE <<>>) = R
      BY <1>18
    <2>4. Rounded(pre_target3(p)) = mb /\ Rounded(clip(m.target, pre_target3(p) \div 30, pre_target3(p))) = b
      BY <1>6, <1>7, <1>8
    <2>5. Timestamp(v, p, c) = t
          /\ (IF get_last(p) = None /\ get_height(p) < Far THEN None ELSE get_nth_parent_hash(p, Far)) = f
      BY <1>12, <1>13
    <2>6. Amounts(v, m.address, sub, walk.sol.weights, walk.sol.total) = am
      BY <1>14, <1>15, <2>1
    <2>7. (IF v < 34 THEN legacy_address[m.address] ELSE m.address) = ad
      BY <1>20
    <2>8. {R[n].tx : n \in {i \in DOMAIN R : R[i].share_count = 0}} = new
      BY <1>19
    <2>9. data = [previous |-> p, version |-> v, address |-> m.address, donation |-> don,
                  desired_version |-> dv, subsidy |-> sub, most |-> most]
      BY <1>16
    <2>10. PICK want : want = m.target
      OBVIOUS
    <2>11. PICK to : to = m.address
      OBVIOUS
    <2>12. PICK r : r = Generated(data, c, want, txs, walk)
      OBVIOUS
    <2>13. /\ r.previous = p /\ r.version = v /\ r.donation = don /\ r.desired_version = dv
           /\ r.subsidy = sub /\ r.most = most /\ r.max_bits = mb /\ r.bits = b
      BY <2>4, <2>9, <2>10, <2>12 DEF Generated
    <2>14. r.address = ad /\ r.timestamp = t /\ r.far_share_hash = f /\ r.amounts = am
      BY <2>5, <2>6, <2>7, <2>9, <2>11, <2>12 DEF Generated
    <2>15. r.new_transaction_hashes = new /\ r.transaction_hash_refs = R
      BY <2>3, <2>8, <2>9, <2>12 DEF Generated
    <2>16. r = [previous |-> r.previous, version |-> r.version, address |-> r.address,
                new_transaction_hashes |-> r.new_transaction_hashes,
                transaction_hash_refs |-> r.transaction_hash_refs, donation |-> r.donation,
                desired_version |-> r.desired_version, subsidy |-> r.subsidy, most |-> r.most,
                max_bits |-> r.max_bits, bits |-> r.bits, timestamp |-> r.timestamp,
                far_share_hash |-> r.far_share_hash, amounts |-> r.amounts]
      BY <2>12 DEF Generated
    <2> QED BY <2>2, <2>10, <2>12, <2>13, <2>14, <2>15, <2>16
  <1>22. g \in ShareType
    BY <1>9, <1>21 DEF ShareType
  <1>23. how \in How /\ how.clock = c /\ how.address = m.address
    BY <1>1, <1>11 DEF How
  <1>24. Paying(share, g, how.address)
    <2>1. g.previous = p /\ g.version = v /\ g.subsidy = sub /\ g.amounts = am
      BY <1>21
    <2> QED BY <1>14, <1>15, <1>23, <2>1 DEF Paying
  <1>25. Made(share, g, how)
    <2>1. /\ g.previous = p /\ g.version = v /\ g.max_bits = mb /\ g.bits = b /\ g.timestamp = t
          /\ g.far_share_hash = f /\ g.address = ad /\ g.transaction_hash_refs = R
          /\ g.new_transaction_hashes = new
      BY <1>21
    <2>2. g.max_bits = Rounded(Easiest(share, g.previous))
      BY <1>6, <1>7, <2>1
    <2>3. Rounded(clip(g.bits, Easiest(share, g.previous) \div 30, Easiest(share, g.previous))) = g.bits
      BY <1>6, <1>8, <2>1
    <2>4. g.previous # 0 => Fitting(share, g.previous, g.version)
      BY <1>2, <2>1
    <2>5. g.far_share_hash = FarShare(share, g.previous)
      BY <1>13, <2>1
    <2>6. Timely(share, g, how.clock)
      BY <1>12, <1>23, <2>1 DEF Timely
    <2>7. Referring(share, g)
      <3>1. v >= 34 => R = <<>>
        BY <1>18
      <3>2. v < 34 => legacy_address[ad] = ad
        BY <1>20
      <3>3. \A n \in DOMAIN R : R[n].share_count = FirstBack(share, p, R[n].tx)
        BY <1>18
      <3>4. new = {R[n].tx : n \in {i \in DOMAIN R : R[i].share_count = 0}}
        BY <1>19
      <3> QED BY <2>1, <3>1, <3>2, <3>3, <3>4 DEF Referring
    <2> QED BY <1>24, <2>2, <2>3, <2>4, <2>5, <2>6, <2>7 DEF Made
  <1>26. g.previous = p /\ g.subsidy = sub /\ g.most = most /\ g.amounts = am
    BY <1>21
  <1> QED BY <1>3, <1>15, <1>22, <1>23, <1>25, <1>26

-----------------------------------------------------------------------------
\* The steps.

\* A share more.
LEMMA Appended ==
  ASSUME Kept, NEW g \in ShareType, g.previous \in 0 .. Len(share), NEW sh, sh = Append(share, g)
  PROVE  /\ sh \in Seq(ShareType) /\ Len(sh) = Len(share) + 1 /\ DOMAIN sh = 1 .. Len(sh)
         /\ sh[Len(share) + 1] = g /\ \A h \in 1 .. Len(share) : sh[h] = share[h]
         /\ Shares(sh) /\ Longer(share, sh)
  <1>1. PICK n \in Nat : n = Len(share) /\ share \in Seq(ShareType)
    BY KeptIs DEF Kept
  <1>2. /\ sh \in Seq(ShareType) /\ Len(sh) = n + 1 /\ DOMAIN sh = 1 .. n + 1
        /\ sh[n + 1] = g /\ \A h \in 1 .. n : sh[h] = share[h]
    BY <1>1
  <1>3. ASSUME NEW h \in 1 .. Len(sh)
        PROVE  sh[h] \in ShareType /\ sh[h].previous \in Nat /\ sh[h].previous < h
    <2>1. CASE h = n + 1
      <3>1. g.previous \in Nat /\ g.previous < n + 1
        BY <1>1
      <3> QED BY <1>2, <2>1, <3>1
    <2>2. CASE h # n + 1
      <3>1. h \in 1 .. Len(share) /\ sh[h] = share[h]
        BY <1>1, <1>2, <2>2
      <3> QED BY <3>1, KeptIs DEF Shares, BackLinked
    <2> QED BY <2>1, <2>2
  <1>4. Len(sh) \in Nat
    BY <1>2
  <1>5. Shares(sh)
    BY <1>3, <1>4 DEF Shares, BackLinked
  <1>6. Longer(share, sh)
    <2>1. Chained(share) /\ Chained(sh)
      BY <1>5, SharesChained, KeptIs
    <2> QED BY <1>1, <1>2, <2>1 DEF Longer
  <1> QED BY <1>1, <1>2, <1>5, <1>6

\* The inductive invariant.
KeptAll == Kept /\ PaidInFull

\* Mining adds a share that has all that is said of shares.
LEMMA MineKeeps ==
  ASSUME KeptAll, NEW previous \in items \cup {None}, NEW m \in Makers, Mine(previous, m)
  PROVE  KeptAll'
  <1>0. Kept /\ PaidInFull
    BY DEF KeptAll
  <1>1. PICK n \in Nat : n = Len(share) /\ items \subseteq 1 .. n /\ DOMAIN share = 1 .. n
    BY <1>0, KeptIs
  <1>2. PICK p \in 0 .. Len(share) : p = previous
    BY <1>1 DEF None
  <1>3. HasHistory(p) /\ (m.old /\ p # None => share[p].version # 36)
        /\ Len(share) < MaxShares
    BY <1>2 DEF Mine
  <1>4. PICK g, how : /\ g = Generated(Mined(p, m), Clock(p, m), m.target, Fit(m), WeightsFor(p))
                      /\ how = [clock |-> Clock(p, m), address |-> m.address]
    OBVIOUS
  <1>5. /\ share' = Append(share, g) /\ items' = items \cup {n + 1}
        /\ skips' = WeightsFor(p).skips /\ level' = level /\ flag_day' = flag_day
        /\ made' = Append(made, how)
    BY <1>1, <1>2, <1>4 DEF Mine, Mined, Clock, MadeOn, Claim, Fit
  <1>6. /\ g \in ShareType /\ how \in How /\ Made(share, g, how) /\ g.previous = p
        /\ SumIn(g.amounts, Payee) = g.subsidy /\ g.subsidy <= g.most
    BY <1>0, <1>3, <1>4, MinedIsMade
  <1>7. PICK sh : sh = share'
    OBVIOUS
  <1>8. /\ sh \in Seq(ShareType) /\ Len(sh) = n + 1 /\ DOMAIN sh = 1 .. Len(sh)
        /\ sh[n + 1] = g /\ \A h \in 1 .. n : sh[h] = share[h]
        /\ Shares(sh) /\ Longer(share, sh)
    BY <1>0, <1>1, <1>5, <1>6, <1>7, Appended
  <1>9. SkipsTrue(WeightsFor(p).skips, sh)
    <2>1. SkipsTrue(WeightsFor(p).skips, share)
      BY <1>0, <1>3, WalkIs
    <2> QED BY <1>8, <2>1, SkipsExtended
  <1>10. Standing'
    <2>1. BackLinked(sh) /\ Chained(sh)
      BY <1>8, SharesChained DEF Shares
    <2>2. items' \subseteq 1 .. Len(sh)
      <3>1. 1 .. n \subseteq 1 .. n + 1 /\ n + 1 \in 1 .. n + 1
        OBVIOUS
      <3> QED BY <1>1, <1>5, <1>8, <3>1
    <2>3. Len(sh) <= MaxShares
      <3>1. MaxShares \in Nat
        BY PayoutsAssumption
      <3> QED BY <1>1, <1>3, <1>8, <3>1
    <2>4. level \in [Hash -> Nat \ {0}]
      BY <1>0 DEF Kept, Standing
    <2> QED BY <1>5, <1>7, <1>8, <1>9, <2>1, <2>2, <2>3, <2>4 DEF Standing, Placed
  <1>11. PICK mk \in Seq(How) : /\ mk = made' /\ Len(mk) = n + 1 /\ mk[n + 1] = how
                                /\ \A h \in 1 .. n : mk[h] = made[h]
    <2>1. PICK md \in Seq(How) : md = made /\ Len(md) = n
      BY <1>0, <1>1 DEF Kept
    <2>2. /\ Append(md, how) \in Seq(How) /\ Len(Append(md, how)) = n + 1
          /\ Append(md, how)[n + 1] = how /\ \A h \in 1 .. n : Append(md, how)[h] = md[h]
      BY <1>6, <2>1
    <2> QED BY <1>5, <2>1, <2>2
  <1>12. AllMade'
    <2>1. ASSUME NEW h \in 1 .. Len(sh) PROVE Made(sh, sh[h], mk[h])
      <3>1. CASE h = n + 1
        BY <1>0, <1>6, <1>8, <1>11, <3>1, KeptIs, MadeExtended
      <3>2. CASE h # n + 1
        <4>1. h \in 1 .. n /\ h \in 1 .. Len(share) /\ sh[h] = share[h] /\ mk[h] = made[h]
          BY <1>1, <1>8, <1>11, <3>2
        <4>2. share[h].previous \in 0 .. Len(share)
          BY <1>0, <4>1, KeptIs, PreviousIs
        <4>3. Made(share, share[h], made[h]) /\ Shares(share)
          BY <1>0, <4>1, KeptIs DEF Kept, AllMade
        <4> QED BY <1>8, <4>1, <4>2, <4>3, MadeExtended
      <3> QED BY <3>1, <3>2
    <2>2. \A s, k : Made(sh, s, k) => Made(sh, s, k)'
      BY <1>5 DEF Made, Fitting, ByFlagDay, Paying, Timely, Referring
    <2> QED BY <1>7, <1>11, <2>1, <2>2 DEF AllMade
  <1>13. Kept'
    <2>1. flag_day' \in BOOLEAN
      BY <1>0, <1>5 DEF Kept
    <2> QED BY <1>7, <1>8, <1>10, <1>11, <1>12, <2>1 DEF Kept
  <1>14. PaidInFull'
    <2>1. ASSUME NEW h \in DOMAIN sh
          PROVE  /\ SumIn(sh[h].amounts, Payee) = sh[h].subsidy
                 /\ \A a \in Payee : sh[h].amounts[a] >= 0
                 /\ sh[h].subsidy <= sh[h].most
      <3>1. CASE h = n + 1
        <4>1. \A a \in Payee : g.amounts[a] >= 0
          BY <1>6 DEF ShareType
        <4> QED BY <1>6, <1>8, <3>1, <4>1
      <3>2. CASE h # n + 1
        <4>1. h \in DOMAIN share /\ sh[h] = share[h]
          BY <1>1, <1>8, <3>2
        <4> QED BY <1>0, <4>1 DEF PaidInFull
      <3> QED BY <3>1, <3>2
    <2> QED BY <1>7, <2>1 DEF PaidInFull
  <1> QED BY <1>13, <1>14 DEF KeptAll

\* A step that makes no share keeps all that is said of shares.
LEMMA UnmadeKeeps ==
  ASSUME KeptAll, UNCHANGED <<share, made, level, flag_day>>, items' \subseteq items, SkipsTrue(skips', share)
  PROVE  KeptAll'
  <1>0. Kept /\ PaidInFull
    BY DEF KeptAll
  <1>1. Standing'
    <2>1. Standing /\ Placed
      BY <1>0, KeptIs DEF Kept
    <2>2. Placed'
      BY <2>1 DEF Placed
    <2> QED BY <2>1, <2>2 DEF Standing
  <1>2. AllMade'
    <2>1. \A s, k : Made(share, s, k) => Made(share, s, k)'
      BY DEF Made, Fitting, ByFlagDay, Paying, Timely, Referring
    <2> QED BY <1>0, <2>1 DEF Kept, AllMade
  <1>3. Kept'
    BY <1>0, <1>1, <1>2 DEF Kept
  <1>4. PaidInFull'
    BY <1>0 DEF PaidInFull
  <1> QED BY <1>3, <1>4 DEF KeptAll

\* check() only walks.
LEMMA VerifyKeeps ==
  ASSUME KeptAll, NEW h \in items, NEW now, Verify(h, now)
  PROVE  KeptAll'
  <1>0. Kept /\ h \in 1 .. Len(share) /\ share[h].previous \in 0 .. Len(share)
        /\ HasHistory(share[h].previous)
    <2>1. Kept /\ Judgeable(h)
      BY DEF KeptAll, Verify
    <2> QED BY <2>1, JudgeableIs
  <1>1. SkipsTrue(WeightsFor(share[h].previous).skips, share)
    BY <1>0, WalkIs
  <1>2. UNCHANGED <<share, made, level, flag_day>> /\ items' \subseteq items /\ SkipsTrue(skips', share)
    BY <1>1 DEF Verify
  <1> QED BY <1>2, UnmadeKeeps

\* So does get_expected_payouts.
LEMMA ExpectedKeeps ==
  ASSUME KeptAll, NEW h \in Heads(items), get_expected_payouts(h)
  PROVE  KeptAll'
  <1>0. Kept /\ Standing /\ h \in 0 .. Len(share)
    <2>1. Kept /\ h \in items
      BY DEF KeptAll, Heads
    <2> QED BY <2>1, KeptIs DEF Kept
  <1>1. PICK max \in 0 .. DepthOf(share, h) : Arrived(ExpectedWeights(h), share, h, max, Spread)
    BY <1>0, ExpectedAnswer
  <1>2. UNCHANGED <<share, made, level, flag_day>> /\ items' \subseteq items /\ SkipsTrue(skips', share)
    BY <1>1 DEF get_expected_payouts, Arrived
  <1> QED BY <1>2, UnmadeKeeps

\* Removing shares forgets what was known of them and changes no other.
LEMMA RemoveKeeps ==
  ASSUME KeptAll, NEW S, Remove(S)
  PROVE  KeptAll'
  <1>1. SkipsTrue(skips, share)
    BY DEF KeptAll, Kept, Standing
  <1>2. PICK more : more = [h \in DOMAIN skips \ S |-> skips[h]]
    OBVIOUS
  <1>3. DOMAIN more \subseteq DOMAIN skips /\ \A h \in DOMAIN more : more[h] = skips[h]
    BY <1>2
  <1>4. more = [h \in DOMAIN more |-> more[h]]
    BY <1>2
  <1>5. SkipsTrue(more, share)
    BY <1>1, <1>3, <1>4 DEF SkipsTrue
  <1>6. UNCHANGED <<share, made, level, flag_day>> /\ items' \subseteq items /\ SkipsTrue(skips', share)
    BY <1>2, <1>5 DEF Remove
  <1> QED BY <1>6, UnmadeKeeps

\* The beginning.
LEMMA InitKept == ASSUME Init PROVE KeptAll
  <1>1. share = <<>> /\ items = {} /\ made = <<>> /\ skips = [h \in {} |-> <<>>] /\ level \in Levels /\ flag_day \in FlagDays
    BY DEF Init
  <1>2. Len(share) = 0 /\ DOMAIN share = 1 .. Len(share) /\ share \in Seq(ShareType) /\ 1 .. Len(share) = {}
        /\ made \in Seq(How) /\ Len(made) = Len(share)
    BY <1>1
  <1>3. BackLinked(share) /\ Shares(share) /\ Chained(share)
    BY <1>2 DEF BackLinked, Shares, Chained
  <1>4. SkipsTrue(skips, share)
    <2>1. DOMAIN skips = {}
      BY <1>1
    <2> QED BY <1>1, <2>1 DEF SkipsTrue
  <1>5. MaxShares \in Nat /\ level \in [Hash -> Nat \ {0}] /\ flag_day \in BOOLEAN
    BY <1>1, PayoutsAssumption
  <1>6. Standing
    BY <1>1, <1>2, <1>3, <1>4, <1>5 DEF Standing, Placed
  <1>7. AllMade /\ PaidInFull
    BY <1>2 DEF AllMade, PaidInFull
  <1> QED BY <1>2, <1>3, <1>5, <1>6, <1>7 DEF KeptAll, Kept

\* Every step.
LEMMA StepKeeps == ASSUME KeptAll, [Next]_payVars PROVE KeptAll'
  <1>1. CASE \E previous \in items \cup {None}, m \in Makers : Mine(previous, m)
    BY <1>1, MineKeeps
  <1>2. CASE \E h \in items, skew \in Skews : Verify(h, made[h].clock + skew)
    BY <1>2, VerifyKeeps
  <1>3. CASE \E h \in Heads(items) : get_expected_payouts(h)
    BY <1>3, ExpectedKeeps
  <1>4. CASE DropTails
    BY <1>4, RemoveKeeps DEF DropTails
  <1>5. CASE DropHead
    BY <1>5, RemoveKeeps DEF DropHead
  <1>6. CASE UNCHANGED payVars
    <2>1. UNCHANGED <<share, made, level, flag_day>> /\ items' \subseteq items /\ skips' = skips
      BY <1>6 DEF payVars
    <2>2. SkipsTrue(skips', share)
      BY <2>1 DEF KeptAll, Kept, Standing
    <2> QED BY <2>1, <2>2, UnmadeKeeps
  <1> QED BY <1>1, <1>2, <1>3, <1>4, <1>5, <1>6 DEF Next

\* What every reachable state has.
LEMMA AlwaysKept == Spec => []KeptAll
  <1>1. Init => KeptAll
    BY InitKept
  <1>2. KeptAll /\ [Next]_payVars => KeptAll'
    BY StepKeeps
  <1> QED BY <1>1, <1>2, PTL DEF Spec

\* get_cumulative_weights returns the plain sum of the window share by share, whatever its
\* skip list remembers: nobody is paid for a share twice, or not at all.
THEOREM WindowAlwaysExact == Spec => []WindowExact
  <1>1. KeptAll => WindowExact
    BY StandingExact DEF KeptAll, Kept
  <1> QED BY <1>1, AlwaysKept, PTL

\* A share this program made passes check() on every node, however late: for whatever clocks, if
\* only the checker's is not 600 seconds behind the maker's or the share before, and whatever the
\* version, if only it can say the address that is paid. (data.py:543-635.)
THEOREM OwnSharesAlwaysPass == Spec => []OwnSharesPass
  <1>1. KeptAll => OwnSharesPass
    BY KeptPasses DEF KeptAll
  <1> QED BY <1>1, AlwaysKept, PTL

\* The amounts of generate_transaction add up to the subsidy, none is negative, and the
\* subsidy is no more than what the coin grants for the transactions that are left in.
THEOREM AlwaysPaidInFull == Spec => []PaidInFull
  <1>1. KeptAll => PaidInFull
    BY DEF KeptAll
  <1> QED BY <1>1, AlwaysKept, PTL
===============================================================================
