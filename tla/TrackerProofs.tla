---------------------------- MODULE TrackerProofs -----------------------------
(***************************************************************************)
(* The dictionaries of forest.Tracker agree with the items after any run   *)
(* of adds and removes, for any finite or infinite supply of hashes, and   *)
(* Tracker implements Forest. The second part is about TrackerView: the    *)
(* memo of the walks is exact, and the Tracker that reads it implements    *)
(* the one that walks.                                                     *)
(***************************************************************************)
EXTENDS TrackerView, ForestLemmas, FoldLemmas

\* The inductive invariant. The dictionaries are functions of the items, so agreement
\* with them is inductive once the items are known to be finite: the code drops a tail
\* when no head is left over it, and only in a finite forest does every tail have one.
IInv ==
  /\ IsForest(items, previous_hash)
  /\ IsFiniteSet(items)
  /\ TablesAgree

LEMMA InitIInv == Init => IInv
  <1> SUFFICES ASSUME Init PROVE IInv
    OBVIOUS
  <1>1. HeadSet(items, previous_hash) = {} /\ TailSet(items, previous_hash) = {}
    BY DEF Init, HeadSet, TailSet
  <1>2. IsForest(items, previous_hash) /\ IsFiniteSet(items)
    BY FS_EmptySet DEF Init, IsForest
  <1>3. {previous_hash[i] : i \in items} = {}
    BY DEF Init
  <1> QED BY <1>1, <1>2, <1>3 DEF Init, IInv, TablesAgree, ReverseAgrees, HeadsAgree, TailsAgree

\* What the dictionaries' agreement says of their keys and entries.
LEMMA TablesFacts ==
  ASSUME IInv
  PROVE  /\ DOMAIN reverse = {previous_hash[i] : i \in items}
         /\ \A x \in DOMAIN reverse : reverse[x] = Children(items, previous_hash, x)
         /\ DOMAIN heads = HeadSet(items, previous_hash)
         /\ \A x \in DOMAIN heads : heads[x] = Last(items, previous_hash, x)
         /\ DOMAIN tails = TailSet(items, previous_hash)
         /\ \A t \in DOMAIN tails : tails[t] = HeadsAbove(items, previous_hash, t)
  BY DEF IInv, TablesAgree, ReverseAgrees, HeadsAgree, TailsAgree

\* The dictionaries have their types whenever they agree with the items.
LEMMA IInvTypeOK == IInv => TypeOK
  <1> SUFFICES ASSUME IInv PROVE TypeOK
    OBVIOUS
  <1>1. items \in SUBSET Hash /\ previous_hash \in Previous /\ IsForest(items, previous_hash)
    BY DEF IInv, IsForest
  <1>2. \A i \in items : previous_hash[i] \in Node /\ i \in Node
    BY <1>1, PreviousIsEarlier
  <1>3. DOMAIN reverse \subseteq Node /\ reverse \in [DOMAIN reverse -> SUBSET Hash]
    BY <1>1, <1>2 DEF IInv, TablesAgree, ReverseAgrees, Children
  <1>4. HeadSet(items, previous_hash) \subseteq items
    BY DEF HeadSet
  <1>5. \A x \in items : Last(items, previous_hash, x) \in Node
    BY <1>1, <1>2, LastIsAbsent
  <1>6. DOMAIN heads \subseteq Hash /\ heads \in [DOMAIN heads -> Node]
    BY <1>1, <1>4, <1>5 DEF IInv, TablesAgree, HeadsAgree
  <1>7. DOMAIN tails \subseteq Node /\ tails \in [DOMAIN tails -> SUBSET Hash]
    BY <1>1, <1>2, <1>4 DEF IInv, TablesAgree, TailsAgree, TailSet, HeadsAbove
  <1> QED BY <1>1, <1>3, <1>6, <1>7 DEF TypeOK

\* Tracker.add keeps the dictionaries in agreement.
LEMMA AddIInv ==
  ASSUME IInv, NEW h \in Hash, Add(h)
  PROVE  IInv'
  <1> DEFINE I == items
             p == previous_hash
             a == p[h]
             J == I \cup {h}
             t0 == Last(I, p, a)
             up == HeadsOver(h)
  <1>1. IsForest(I, p) /\ IsForest(J, p) /\ h \notin I
    BY LastAfterAdd DEF IInv, Add, Attach
  <1>2. items' = J /\ previous_hash' = p
    BY DEF Add, Attach
  <1>3. IsFiniteSet(J)
    BY FS_AddElement DEF IInv
  <1>4. h \in Node /\ a \in Node /\ a # h
    BY <1>1, PreviousIsEarlier DEF IsForest
  <1>5. TailUnder(h) = t0
    BY TablesFacts DEF TailUnder, get_last
  <1>6. /\ t0 \in Node /\ t0 # h
        /\ \A x \in Node : Last(J, p, x) = IF Last(I, p, x) = h THEN t0 ELSE Last(I, p, x)
    BY <1>1, LastAfterAdd
  <1>7. \A x \in I : x \in Node /\ Last(I, p, x) \in TailSet(I, p)
    BY <1>1, LastIsTail DEF IsForest, Node
  <1>8. /\ h \in TailSet(I, p) <=> Children(I, p, h) # {}
        /\ \A x \in HeadSet(I, p) : x \in I
    BY <1>1 DEF TailSet, Children, HeadSet
  <1>9. HeadSet(J, p) = (HeadSet(I, p) \ {a}) \cup (IF Children(I, p, h) = {} THEN {h} ELSE {})
    BY <1>1, <1>4 DEF HeadSet, Children
  <1>10. \A x : x \in up <=> \/ x \in HeadSet(I, p) /\ Last(I, p, x) = h
                             \/ x = h /\ Children(I, p, h) = {}
    <2>1. CASE h \in TailSet(I, p)
      BY <2>1, <1>8, TablesFacts DEF HeadsOver, HeadsAbove
    <2>2. CASE h \notin TailSet(I, p)
      BY <2>2, <1>7, <1>8, TablesFacts DEF HeadsOver
    <2> QED BY <2>1, <2>2
  <1>11. Last(I, p, a) = t0 /\ Last(J, p, h) = t0
    <2>1. Last(I, p, h) = h
      BY <1>1, <1>4, LastEq
    <2> QED BY <2>1, <1>4, <1>6
  <1>12. a \notin up
    BY <1>4, <1>6, <1>10, <1>11
  <1>13. HeadSet(J, p) = (HeadSet(I, p) \ {a}) \cup up
    BY <1>9, <1>10, <1>12
  <1>14. \A x \in HeadSet(J, p) : Last(J, p, x) = IF x \in up THEN t0 ELSE Last(I, p, x)
    BY <1>4, <1>6, <1>7, <1>8, <1>10, <1>11, <1>13
  <1>15. HeadsAgree'
    <2>1. heads' = [x \in (HeadSet(I, p) \ {a}) \cup up |-> IF x \in up THEN t0 ELSE heads[x]]
      BY <1>5, TablesFacts DEF Add, Attach, AddHeads
    <2>2. heads' = [x \in HeadSet(J, p) |-> Last(J, p, x)]
      BY <2>1, <1>13, <1>14, TablesFacts
    <2> QED BY <2>2, <1>2 DEF HeadsAgree
  <1>16. TailSet(J, p) = (TailSet(I, p) \ {h}) \cup {t0}
    <2>1. TailSet(J, p) = (TailSet(I, p) \ {h}) \cup ({a} \ I)
      BY <1>1, <1>4 DEF TailSet
    <2>2. CASE a \in I
      BY <2>1, <2>2, <1>6, <1>7
    <2>3. CASE a \notin I
      <3>1. t0 = a
        BY <1>1, <1>4, <2>3, LastEq
      <3> QED BY <2>1, <2>3, <3>1
    <2> QED BY <2>2, <2>3
  <1>17. \A t \in TailSet(I, p) \ {h, t0} : HeadsAbove(J, p, t) = HeadsAbove(I, p, t)
    BY <1>4, <1>7, <1>8, <1>10, <1>11, <1>13, <1>14 DEF HeadsAbove
  <1>18. HeadsAbove(J, p, t0) = (Entry(Without(tails, {h}), t0) \cup up) \ {a}
    <2>1. Entry(Without(tails, {h}), t0) = HeadsAbove(I, p, t0)
      <3>1. CASE t0 \in TailSet(I, p)
        BY <3>1, <1>6, TablesFacts DEF Entry, Without
      <3>2. CASE t0 \notin TailSet(I, p)
        <4>1. HeadsAbove(I, p, t0) = {}
          BY <3>2, <1>7, <1>8 DEF HeadsAbove
        <4> QED BY <4>1, <3>2, <1>6, TablesFacts DEF Entry, Without
      <3> QED BY <3>1, <3>2
    <2> QED BY <2>1, <1>12, <1>13, <1>14 DEF HeadsAbove
  <1>19. TailsAgree'
    <2>1. tails' = Put(Without(tails, {h}), t0, (Entry(Without(tails, {h}), t0) \cup up) \ {a})
      BY <1>5 DEF Add, Attach, AddTails
    <2>2. tails' = [t \in TailSet(J, p) |-> HeadsAbove(J, p, t)]
      BY <2>1, <1>16, <1>17, <1>18, TablesFacts DEF Put, Without
    <2> QED BY <2>2, <1>2 DEF TailsAgree
  <1>20. ReverseAgrees'
    <2>1. reverse' = Put(reverse, a, Entry(reverse, a) \cup {h})
      BY DEF Add, Attach
    <2>2. Entry(reverse, a) = Children(I, p, a)
      BY TablesFacts DEF Entry, Children
    <2>3. \A x : Children(J, p, x) = IF x = a THEN Children(I, p, x) \cup {h} ELSE Children(I, p, x)
      BY DEF Children
    <2>4. {p[i] : i \in J} = {p[i] : i \in I} \cup {a}
      OBVIOUS
    <2>5. reverse' = [x \in {p[i] : i \in I} \cup {a} |->
                        IF x = a THEN Children(I, p, a) \cup {h} ELSE Children(I, p, x)]
      BY <2>1, <2>2, TablesFacts DEF Put
    <2>6. reverse' = [x \in {p[i] : i \in J} |-> Children(J, p, x)]
      BY <2>3, <2>4, <2>5
    <2> QED BY <2>6, <1>2 DEF ReverseAgrees
  <1> QED BY <1>1, <1>2, <1>3, <1>15, <1>19, <1>20 DEF IInv, TablesAgree

\* What every case of Tracker.remove does to the items and to the children.
LEMMA DetachFacts ==
  ASSUME IInv, NEW h \in Hash, Detach(h)
  PROVE  /\ h \in items /\ items' = items \ {h} /\ previous_hash' = previous_hash
         /\ IsForest(items \ {h}, previous_hash) /\ IsFiniteSet(items \ {h})
         /\ ReverseAgrees'
         /\ OnlyChild(h) <=> Children(items, previous_hash, previous_hash[h]) = {h}
         /\ h \in Children(items, previous_hash, previous_hash[h])
  <1> DEFINE I == items
             p == previous_hash
             a == p[h]
             J == I \ {h}
  <1>1. h \in I /\ items' = J /\ previous_hash' = p
    BY DEF Detach
  <1>2. IsForest(J, p) /\ IsFiniteSet(J)
    BY FS_RemoveElement DEF IInv, IsForest
  <1>3. a \in DOMAIN reverse /\ reverse[a] = Children(I, p, a)
    BY <1>1, TablesFacts
  <1>4. \A x : Children(J, p, x) = Children(I, p, x) \ (IF x = a THEN {h} ELSE {})
    BY DEF Children
  <1>5. {p[i] : i \in J} = {p[i] : i \in I} \ (IF Children(J, p, a) = {} THEN {a} ELSE {})
    BY <1>1 DEF Children
  <1>6. reverse' = PutOrDrop(reverse, a, Children(J, p, a))
    BY <1>3, <1>4 DEF Detach
  <1>7. reverse' = [x \in {p[i] : i \in J} |-> Children(J, p, x)]
    <2>1. CASE Children(J, p, a) = {}
      <3>1. reverse' = [x \in {p[i] : i \in I} \ {a} |-> Children(I, p, x)]
        BY <1>6, <2>1, TablesFacts DEF PutOrDrop, Without
      <3> QED BY <3>1, <2>1, <1>4, <1>5
    <2>2. CASE Children(J, p, a) # {}
      <3>1. reverse' = [x \in {p[i] : i \in I} |->
                          IF x = a THEN Children(J, p, a) ELSE Children(I, p, x)]
        BY <1>3, <1>6, <2>2, TablesFacts DEF PutOrDrop, Put
      <3> QED BY <3>1, <2>2, <1>4, <1>5
    <2> QED BY <2>1, <2>2
  <1> QED BY <1>1, <1>2, <1>3, <1>7 DEF ReverseAgrees, OnlyChild, Children

\* Removing a head: walks and children as they were, but for the head itself.
LEMMA HeadGoneFacts ==
  ASSUME IInv, NEW h \in HeadSet(items, previous_hash), Detach(h)
  PROVE  /\ \A x \in Node : Last(items \ {h}, previous_hash, x) =
                              IF x = h THEN h ELSE Last(items, previous_hash, x)
         /\ HeadSet(items \ {h}, previous_hash) =
              (HeadSet(items, previous_hash) \ {h}) \cup
              (IF /\ previous_hash[h] \in items
                  /\ Children(items, previous_hash, previous_hash[h]) = {h}
               THEN {previous_hash[h]} ELSE {})
         /\ Last(items, previous_hash, h) = Last(items, previous_hash, previous_hash[h])
         /\ previous_hash[h] # h /\ h \in Hash
         /\ \A t : t # previous_hash[h] =>
              (t \in TailSet(items \ {h}, previous_hash) <=> t \in TailSet(items, previous_hash))
  <1> DEFINE I == items
             p == previous_hash
  <1>1. IsForest(I, p) /\ h \in I
    BY DEF IInv, HeadSet
  <1>2. p[h] \in Node /\ h \in Node /\ p[h] # h /\ h \in Hash
    BY <1>1, PreviousIsEarlier DEF IsForest
  <1>3. \A x \in Node : Last(I \ {h}, p, x) = IF Descends(I, p, h, x) THEN h ELSE Last(I, p, x)
    BY <1>1, LastAfterRemove
  <1>4. \A x \in Node : Descends(I, p, h, x) => x = h
    BY <1>1, HeadHasNoHeirs
  <1>5. Descends(I, p, h, h)
    BY <1>1, <1>2, ChainEq DEF Descends
  <1>6. HeadSet(I \ {h}, p) = (HeadSet(I, p) \ {h}) \cup
              (IF p[h] \in I /\ Children(I, p, p[h]) = {h} THEN {p[h]} ELSE {})
    <2>1. \A x : Children(I \ {h}, p, x) = Children(I, p, x) \ (IF x = p[h] THEN {h} ELSE {})
      BY DEF Children
    <2>2. h \in Children(I, p, p[h])
      BY <1>1 DEF Children
    <2> QED BY <2>1, <2>2, <1>2 DEF HeadSet
  <1>7. Last(I, p, h) = Last(I, p, p[h])
    BY <1>1, <1>2, LastEq
  <1>8. h \notin TailSet(I \ {h}, p)
    BY DEF HeadSet, Children, TailSet
  <1>9. ASSUME NEW t, t # p[h]
        PROVE  t \in TailSet(I \ {h}, p) <=> t \in TailSet(I, p)
    BY <1>8, <1>9 DEF TailSet
  <1> QED BY <1>2, <1>3, <1>4, <1>5, <1>6, <1>7, <1>9

LEMMA RemoveLoneIInv ==
  ASSUME IInv, NEW h \in Hash, RemoveLone(h)
  PROVE  IInv'
  <1> DEFINE I == items
             p == previous_hash
             a == p[h]
             J == I \ {h}
  <1>1. Detach(h) /\ h \in HeadSet(I, p) /\ a \in TailSet(I, p)
    BY TablesFacts DEF RemoveLone
  <1>2. IsForest(I, p)
    BY DEF IInv
  <1>3. \A x \in J : x \in Node /\ x # h
    BY <1>2 DEF IsForest, Node
  <1>4. a \notin I /\ h \in I /\ a \in Node
    BY <1>1, <1>2, PreviousIsEarlier DEF TailSet, HeadSet, IsForest
  <1>5. /\ HeadSet(J, p) = HeadSet(I, p) \ {h}
        /\ \A x \in J : Last(J, p, x) = Last(I, p, x)
        /\ Last(I, p, h) = a
    BY <1>1, <1>2, <1>3, <1>4, HeadGoneFacts, LastEq
  <1>6. \A x \in HeadSet(J, p) : x \in J
    BY DEF HeadSet
  <1>7. HeadsAgree'
    <2>1. heads' = [x \in HeadSet(I, p) \ {h} |-> Last(I, p, x)]
      BY TablesFacts DEF RemoveLone, Without
    <2>2. heads' = [x \in HeadSet(J, p) |-> Last(J, p, x)]
      BY <2>1, <1>5, <1>6
    <2> QED BY <2>2, <1>1, DetachFacts DEF HeadsAgree
  <1>8. \A t : HeadsAbove(J, p, t) = HeadsAbove(I, p, t) \ {h}
    BY <1>5, <1>6 DEF HeadsAbove
  <1>9. a \in TailSet(J, p) <=> HeadsAbove(J, p, a) # {}
    <2>1. IsForest(J, p) /\ IsFiniteSet(J)
      BY <1>1, DetachFacts
    <2>2. ASSUME a \in TailSet(J, p) PROVE HeadsAbove(J, p, a) # {}
      BY <2>1, <2>2, TailHasHead DEF HeadsAbove
    <2>3. ASSUME NEW x \in HeadsAbove(J, p, a) PROVE a \in TailSet(J, p)
      BY <2>1, <2>3, <1>6, LastIsTail DEF HeadsAbove
    <2> QED BY <2>2, <2>3
  <1>10. TailSet(J, p) \ {a} = TailSet(I, p) \ {a}
    BY <1>1, HeadGoneFacts
  <1>11. TailsAgree'
    <2>1. tails' = PutOrDrop(tails, a, HeadsAbove(J, p, a))
      BY <1>1, <1>5, <1>8, TablesFacts DEF RemoveLone
    <2>2. \A t \in TailSet(I, p) \ {a} : HeadsAbove(J, p, t) = tails[t]
      BY <1>5, <1>8, TablesFacts DEF HeadsAbove
    <2>3. tails' = [t \in TailSet(J, p) |-> HeadsAbove(J, p, t)]
      <3>1. CASE HeadsAbove(J, p, a) = {}
        BY <3>1, <2>1, <2>2, <1>9, <1>10, TablesFacts DEF PutOrDrop, Without
      <3>2. CASE HeadsAbove(J, p, a) # {}
        BY <3>2, <2>1, <2>2, <1>1, <1>9, <1>10, TablesFacts DEF PutOrDrop, Put
      <3> QED BY <3>1, <3>2
    <2> QED BY <2>3, <1>1, DetachFacts DEF TailsAgree
  <1> QED BY <1>1, <1>7, <1>11, DetachFacts DEF IInv, TablesAgree

LEMMA RemoveHeadIInv ==
  ASSUME IInv, NEW h \in Hash, RemoveHead(h)
  PROVE  IInv'
  <1> DEFINE I == items
             p == previous_hash
             a == p[h]
             J == I \ {h}
             t0 == Last(I, p, h)
             fresh == IF Children(I, p, a) = {h} THEN {a} ELSE {}
  <1>1. Detach(h) /\ h \in HeadSet(I, p) /\ a \notin TailSet(I, p) /\ heads[h] = t0
    BY TablesFacts DEF RemoveHead
  <1>2. IsForest(I, p)
    BY DEF IInv
  <1>3. \A x \in I : x \in Node
    BY <1>2 DEF IsForest, Node
  <1>4. a \in I /\ h \in I /\ a \in Node /\ a # h
    BY <1>1, <1>2, PreviousIsEarlier DEF TailSet, HeadSet, IsForest
  <1>5. /\ HeadSet(J, p) = (HeadSet(I, p) \ {h}) \cup fresh
        /\ \A x \in J : Last(J, p, x) = Last(I, p, x)
        /\ Last(I, p, a) = t0
    BY <1>1, <1>3, <1>4, HeadGoneFacts
  <1>6. /\ OnlyChild(h) <=> Children(I, p, a) = {h}
        /\ a \notin HeadSet(I, p)
    BY <1>1, DetachFacts DEF HeadSet
  <1>7. \A x \in HeadSet(J, p) : x \in J
    BY DEF HeadSet
  <1>8. t0 \in TailSet(I, p)
    BY <1>2, <1>4, LastIsTail
  <1>9. HeadsAgree'
    <2>1. heads' = [x \in (HeadSet(I, p) \ {h}) \cup fresh |->
                      IF x = a THEN t0 ELSE Last(I, p, x)]
      <3>1. CASE OnlyChild(h)
        BY <3>1, <1>1, <1>6, TablesFacts DEF RemoveHead, Put, Without
      <3>2. CASE ~ OnlyChild(h)
        BY <3>2, <1>1, <1>6, TablesFacts DEF RemoveHead, Put, Without
      <3> QED BY <3>1, <3>2
    <2>2. heads' = [x \in HeadSet(J, p) |-> Last(J, p, x)]
      BY <2>1, <1>5, <1>7
    <2> QED BY <2>2, <1>1, DetachFacts DEF HeadsAgree
  <1>10. \A t : HeadsAbove(J, p, t) =
                  (HeadsAbove(I, p, t) \ {h}) \cup (IF t = t0 THEN fresh ELSE {})
    BY <1>4, <1>5, <1>7 DEF HeadsAbove
  <1>11. TailSet(J, p) = TailSet(I, p)
    <2>1. a \notin TailSet(J, p)
      BY <1>4 DEF TailSet
    <2>2. \A t : t # a => (t \in TailSet(J, p) <=> t \in TailSet(I, p))
      BY <1>1, HeadGoneFacts
    <2>3. \A t : t \in TailSet(J, p) <=> t \in TailSet(I, p)
      BY <2>1, <2>2, <1>1
    <2> QED BY <2>3
  <1>12. TailsAgree'
    <2>1. tails' = Put(tails, t0, HeadsAbove(J, p, t0))
      <3>1. CASE OnlyChild(h)
        BY <3>1, <1>1, <1>6, <1>8, <1>10, TablesFacts DEF RemoveHead
      <3>2. CASE ~ OnlyChild(h)
        BY <3>2, <1>1, <1>6, <1>8, <1>10, TablesFacts DEF RemoveHead
      <3> QED BY <3>1, <3>2
    <2>2. \A t \in TailSet(I, p) \ {t0} : HeadsAbove(J, p, t) = tails[t]
      <3>1. ASSUME NEW t \in TailSet(I, p), t # t0 PROVE h \notin HeadsAbove(I, p, t)
        BY <3>1 DEF HeadsAbove
      <3> QED BY <3>1, <1>10, TablesFacts
    <2>3. tails' = [t \in TailSet(J, p) |-> HeadsAbove(J, p, t)]
      BY <2>1, <2>2, <1>8, <1>11, TablesFacts DEF Put
    <2> QED BY <2>3, <1>1, DetachFacts DEF TailsAgree
  <1> QED BY <1>1, <1>9, <1>12, DetachFacts DEF IInv, TablesAgree

\* Removing a root that has children, with the right heads moved to it.
LEMMA PromoteIInv ==
  ASSUME IInv, NEW h \in Hash, Detach(h), h \notin DOMAIN heads,
         previous_hash[h] \in DOMAIN tails,
         NEW heirs, PromoteToTail(h, heirs),
         heirs = {x \in HeadsAbove(items, previous_hash, previous_hash[h]) :
                    Descends(items, previous_hash, h, x)}
  PROVE  IInv'
  <1> DEFINE I == items
             p == previous_hash
             a == p[h]
             J == I \ {h}
  <1>1. IsForest(I, p) /\ h \in I /\ h \notin HeadSet(I, p) /\ a \in TailSet(I, p)
    BY TablesFacts, DetachFacts DEF IInv
  <1>2. a \notin I /\ a \in Node /\ h \in Node /\ a # h
    BY <1>1, PreviousIsEarlier DEF TailSet, IsForest
  <1>3. \A x \in I : x \in Node
    BY <1>1 DEF IsForest, Node
  <1>4. \A x \in Node : Last(J, p, x) = IF Descends(I, p, h, x) THEN h ELSE Last(I, p, x)
    BY <1>1, LastAfterRemove
  <1>5. HeadSet(J, p) = HeadSet(I, p)
    <2>1. \A x : Children(J, p, x) = Children(I, p, x) \ (IF x = a THEN {h} ELSE {})
      BY DEF Children
    <2> QED BY <2>1, <1>1, <1>2 DEF HeadSet
  <1>6. \A x \in Node : Descends(I, p, h, x) => Last(I, p, x) = a
    <2> DEFINE S == {z \in Node : Descends(I, p, h, z) => Last(I, p, z) = a}
    <2>1. ASSUME NEW z \in Node, \A y \in Node : y < z => y \in S
          PROVE  z \in S
      <3>1. CASE z = h
        BY <3>1, <1>1, <1>2, LastEq
      <3>2. CASE z # h /\ Descends(I, p, h, z)
        <4>1. z \in I /\ Descends(I, p, h, p[z])
          BY <3>2, <1>1, ChainEq DEF Descends
        <4>2. p[z] \in Node /\ p[z] < z
          BY <4>1, <1>1, PreviousIsEarlier DEF IsForest
        <4> QED BY <4>1, <4>2, <2>1, <1>1, LastEq
      <3> QED BY <3>1, <3>2
    <2> QED BY <2>1, NodeInduction
  <1>7. \A x \in HeadSet(I, p) : x \in I /\ (x \in heirs <=> Descends(I, p, h, x))
    BY <1>3, <1>6 DEF HeadSet, HeadsAbove
  <1>8. HeadsAgree'
    <2>1. heads' = [x \in HeadSet(I, p) |-> IF x \in heirs THEN h ELSE Last(I, p, x)]
      BY TablesFacts DEF PromoteToTail
    <2>2. heads' = [x \in HeadSet(J, p) |-> Last(J, p, x)]
      BY <2>1, <1>3, <1>4, <1>5, <1>7
    <2> QED BY <2>2, DetachFacts DEF HeadsAgree
  <1>9. \A x \in HeadSet(I, p) : Last(I, p, x) # h
    BY <1>1, <1>3, LastIsAbsent, <1>7
  <1>10. /\ HeadsAbove(J, p, h) = heirs
         /\ \A t : t # h => HeadsAbove(J, p, t) = HeadsAbove(I, p, t) \ (IF t = a THEN heirs ELSE {})
    BY <1>3, <1>4, <1>5, <1>6, <1>7, <1>9 DEF HeadsAbove
  <1>11. /\ h \in TailSet(J, p)
         /\ \A t : t # h /\ t # a => (t \in TailSet(J, p) <=> t \in TailSet(I, p))
    <2>1. PICK c \in I : p[c] = h
      BY <1>1 DEF HeadSet, Children
    <2>2. c # h
      BY <2>1, <1>1, PreviousIsEarlier DEF IsForest
    <2>3. h \in TailSet(J, p)
      BY <2>1, <2>2 DEF TailSet
    <2>4. ASSUME NEW t, t # h, t # a PROVE t \in TailSet(J, p) <=> t \in TailSet(I, p)
      BY <2>4 DEF TailSet
    <2> QED BY <2>3, <2>4
  <1>12. a \in TailSet(J, p) <=> HeadsAbove(J, p, a) # {}
    <2>1. IsForest(J, p) /\ IsFiniteSet(J)
      BY DetachFacts
    <2>2. ASSUME a \in TailSet(J, p) PROVE HeadsAbove(J, p, a) # {}
      BY <2>1, <2>2, TailHasHead DEF HeadsAbove
    <2>3. ASSUME NEW x \in HeadsAbove(J, p, a) PROVE a \in TailSet(J, p)
      BY <2>1, <2>3, LastIsTail DEF HeadsAbove, HeadSet
    <2> QED BY <2>2, <2>3
  <1>13. TailsAgree'
    <2>1. tails' = Put(PutOrDrop(tails, a, HeadsAbove(J, p, a)), h, HeadsAbove(J, p, h))
      BY <1>1, <1>2, <1>10, TablesFacts DEF PromoteToTail
    <2>2. \A t \in TailSet(I, p) : t # a => HeadsAbove(J, p, t) = tails[t]
      BY <1>1, <1>10, TablesFacts DEF TailSet
    <2>3. tails' = [t \in TailSet(J, p) |-> HeadsAbove(J, p, t)]
      <3>1. CASE HeadsAbove(J, p, a) = {}
        <4>1. PutOrDrop(tails, a, HeadsAbove(J, p, a)) =
                [t \in TailSet(I, p) \ {a} |-> HeadsAbove(J, p, t)]
          BY <3>1, <2>2, TablesFacts DEF PutOrDrop, Without
        <4>2. tails' = [t \in (TailSet(I, p) \ {a}) \cup {h} |-> HeadsAbove(J, p, t)]
          BY <4>1, <2>1 DEF Put
        <4> QED BY <4>2, <3>1, <1>11, <1>12
      <3>2. CASE HeadsAbove(J, p, a) # {}
        <4>1. PutOrDrop(tails, a, HeadsAbove(J, p, a)) =
                [t \in TailSet(I, p) |-> HeadsAbove(J, p, t)]
          BY <3>2, <2>2, <1>1, TablesFacts DEF PutOrDrop, Put
        <4>2. tails' = [t \in TailSet(I, p) \cup {h} |-> HeadsAbove(J, p, t)]
          BY <4>1, <2>1 DEF Put
        <4> QED BY <4>2, <3>2, <1>1, <1>11, <1>12
      <3> QED BY <3>1, <3>2
    <2> QED BY <2>3, DetachFacts DEF TailsAgree
  <1> QED BY <1>8, <1>13, DetachFacts DEF IInv, TablesAgree

LEMMA RemoveRootIInv ==
  ASSUME IInv, NEW h \in Hash, RemoveRoot(h) \/ RemoveForkedRoot(h)
  PROVE  IInv'
  <1> DEFINE I == items
             p == previous_hash
             a == p[h]
             heirs == {x \in HeadsAbove(I, p, a) : Descends(I, p, h, x)}
  <1>1. Detach(h) /\ h \notin DOMAIN heads /\ a \in DOMAIN tails /\ a \in TailSet(I, p)
    BY TablesFacts DEF RemoveRoot, RemoveForkedRoot, RemoveForkedRootWith
  <1>2. PromoteToTail(h, heirs)
    <2>1. CASE RemoveForkedRoot(h)
      <3>1. Heirs(h) = heirs
        BY <1>1, TablesFacts DEF Heirs, is_child_of
      <3> QED BY <2>1, <3>1 DEF RemoveForkedRoot, RemoveForkedRootWith
    <2>2. CASE RemoveRoot(h)
      <3>1. IsForest(I, p) /\ h \in I /\ a \notin I /\ Children(I, p, a) = {h}
        BY <1>1, <2>2, DetachFacts DEF IInv, RemoveRoot, TailSet
      <3>2. \A x \in HeadsAbove(I, p, a) : Descends(I, p, h, x)
        BY <3>1, OnlyChildIsUnderAll DEF HeadsAbove, HeadSet
      <3>3. tails[a] = heirs
        BY <3>2, <1>1, TablesFacts
      <3> QED BY <2>2, <3>3 DEF RemoveRoot
    <2> QED BY <2>1, <2>2
  <1> QED BY <1>1, <1>2, PromoteIInv

\* The four cases of Tracker.remove and Tracker.add, together.
LEMMA NextIInv == IInv /\ [Next]_vars => IInv'
  <1> SUFFICES ASSUME IInv, [Next]_vars PROVE IInv'
    OBVIOUS
  <1>1. ASSUME NEW h \in Hash, Add(h) PROVE IInv'
    BY <1>1, AddIInv
  <1>2. ASSUME NEW h \in Hash, RemoveLone(h) PROVE IInv'
    BY <1>2, RemoveLoneIInv
  <1>3. ASSUME NEW h \in Hash, RemoveHead(h) PROVE IInv'
    BY <1>3, RemoveHeadIInv
  <1>4. ASSUME NEW h \in Hash, RemoveRoot(h) \/ RemoveForkedRoot(h) PROVE IInv'
    BY <1>4, RemoveRootIInv
  <1>5. CASE UNCHANGED vars
    BY <1>5 DEF vars, IInv, TablesAgree, ReverseAgrees, HeadsAgree, TailsAgree
  <1> QED BY <1>1, <1>2, <1>3, <1>4, <1>5 DEF Next, Remove

\* The invariant holds of every run of adds and removes.
THEOREM Invariance == Spec => []IInv
  <1> QED BY InitIInv, NextIInv, PTL DEF Spec

\* The type invariant: no run of adds and removes leaves a key or an entry that is not
\* a hash in any of the dictionaries.
THEOREM TypeCorrect == Spec => []TypeOK
  <1> QED BY Invariance, IInvTypeOK, PTL

\* The dictionaries Tracker.add and Tracker.remove patch in place are, in every
\* reachable state, the ones the reference implementation computes from the items.
THEOREM TablesCorrect == Spec => []TablesAgree
  <1>1. IInv => TablesAgree
    BY DEF IInv
  <1> QED BY <1>1, Invariance, PTL

\* A step of the dictionaries is a step of the abstract forest: no case of
\* Tracker.remove takes a share out of the middle of a chain.
LEMMA StepRefines ==
  ASSUME IInv, [Next]_vars
  PROVE  [Abstract!Next]_(Abstract!vars)
  <1>1. ASSUME NEW h \in Hash, Add(h) PROVE Abstract!Next
    BY <1>1 DEF Add, Attach, Abstract!Next, Abstract!Add
  <1>2. ASSUME NEW h \in Hash, Remove(h) PROVE Abstract!Next
    <2>1. Detach(h)
      BY <1>2 DEF Remove, RemoveLone, RemoveHead, RemoveRoot, RemoveForkedRoot, RemoveForkedRootWith
    <2>2. h \in HeadSet(items, previous_hash) \/ previous_hash[h] \in TailSet(items, previous_hash)
      BY <1>2, TablesFacts DEF Remove, RemoveLone, RemoveHead, RemoveRoot, RemoveForkedRoot, RemoveForkedRootWith
    <2>3. h \in HeadSet(items, previous_hash) \/ previous_hash[h] \notin items
      BY <2>2 DEF TailSet
    <2>4. Abstract!Remove(h)
      BY <2>1, <2>3 DEF Detach, Abstract!Remove, Abstract!HeadSet, Abstract!Children,
                        HeadSet, Children
    <2> QED BY <2>4 DEF Abstract!Next
  <1>3. CASE UNCHANGED vars
    BY <1>3 DEF vars, Abstract!vars
  <1> QED BY <1>1, <1>2, <1>3 DEF Next

\* Tracker implements Forest, the growing and shrinking set of shares.
THEOREM Refinement == Spec => RefinesForest
  <1>1. Init => Abstract!Init
    BY DEF Init, Abstract!Init, Previous, Abstract!Previous, Node, Abstract!Node,
           None, Abstract!None
  <1>2. IInv /\ [Next]_vars => [Abstract!Next]_(Abstract!vars)
    BY StepRefines
  <1> QED BY <1>1, <1>2, Invariance, PTL DEF Spec, RefinesForest, Abstract!Spec

-----------------------------------------------------------------------------
\* The memo. A delta is the difference of the depths and weights of its two ends, each
\* counted over all the ancestors a hash could ever have: it then adds up whatever shares
\* are present, and only where the path goes depends on them.

\* The work in a set of shares, summed as CacheExact sums it.
Total(S) == FoldSet(LAMBDA x, sum : sum + Work[x], 0, S)

\* The sum over a part of a finite set of hashes, by a recursion over its subsets.
LEMMA TotalInParts ==
  ASSUME NEW D \in SUBSET Hash, IsFiniteSet(D), NEW g,
         Sums(g, [y \in D |-> Work[y]], D), NEW S \in SUBSET D
  PROVE  Total(S) = g[S]
  <1>1. PICK f : f = [y \in D |-> Work[y]]
    OBVIOUS
  <1> DEFINE Is(e) == e = [s \in SUBSET S |->
                             IF s = {} THEN 0
                             ELSE e[s \ {CHOOSE x \in s : TRUE}] + Work[CHOOSE x \in s : TRUE]]
             G == CHOOSE e : Is(e)
  <1>2. Total(S) = G[S]
    BY DEF Total, FoldSet, MapThenFoldSet
  <1>3. f \in [D -> Int] /\ \A y \in D : f[y] = Work[y] /\ Work[y] \in Int
    BY <1>1, WorkAssumption
  <1>4. Sums(g, f, D)
    BY <1>1
  <1>5. f \in [D -> Int]
    BY <1>3
  <1>6. Is([s \in SUBSET S |-> g[s]])
    <2> DEFINE e == [s \in SUBSET S |-> g[s]]
    <2>1. ASSUME NEW s \in SUBSET S
          PROVE  e[s] = IF s = {} THEN 0
                        ELSE e[s \ {CHOOSE x \in s : TRUE}] + Work[CHOOSE x \in s : TRUE]
      <3>1. CASE s = {}
        BY <3>1 DEF Sums
      <3>2. CASE s # {}
        <4> DEFINE y == CHOOSE x \in s : TRUE
        <4>1. y \in s /\ y \in D
          BY <3>2
        <4> HIDE DEF y
        <4>2. g[s] = f[y] + g[s \ {y}] /\ g[s \ {y}] \in Int
          <5>1. s \in SUBSET D /\ s \ {y} \in SUBSET D
            OBVIOUS
          <5> QED BY <1>4, <1>5, <4>1, <5>1, SumTake
        <4>3. e[s] = g[s] /\ e[s \ {y}] = g[s \ {y}]
          OBVIOUS
        <4> HIDE DEF e
        <4>4. e[s] = e[s \ {y}] + Work[y]
          BY <1>3, <4>1, <4>2, <4>3
        <4> QED BY <3>2, <4>4 DEF y
      <3> QED BY <3>1, <3>2
    <2>2. e = [s \in SUBSET S |-> e[s]]
      OBVIOUS
    <2> HIDE DEF e
    <2>3. Is(e)
      BY <2>1, <2>2
    <2> QED BY <2>3 DEF e
  <1>7. Is(G)
    <2> HIDE DEF Is
    <2> QED BY <1>6
  <1> HIDE DEF G
  <1>8. \A s \in SUBSET S : G[s] = IF s = {} THEN 0 ELSE G[s \ {Pick(s)}] + f[Pick(s)]
    <2>1. ASSUME NEW s \in SUBSET S, s # {} PROVE Pick(s) \in D /\ Pick(s) = CHOOSE x \in s : TRUE
      <3>1. Pick(s) \in s
        BY <2>1 DEF Pick
      <3> QED BY <3>1 DEF Pick
    <2> QED BY <1>3, <1>7, <2>1
  <1>9. G[S] = g[S]
    BY ONLY <1>3, <1>8, <1>4, SumOfPart, IsFiniteSet(D), S \in SUBSET D
  <1> QED BY <1>2, <1>9

\* No shares, no work.
LEMMA TotalOfNone == Total({}) = 0
  <1>1. IsFiniteSet({})
    BY FS_EmptySet
  <1>2. [y \in {} |-> Work[y]] \in [{} -> Int]
    OBVIOUS
  <1>3. PICK g : Sums(g, [y \in {} |-> Work[y]], {})
    BY <1>1, <1>2, SumExists
  <1>4. Total({}) = g[{}]
    BY <1>1, <1>3, TotalInParts
  <1> QED BY <1>3, <1>4 DEF Sums

\* One more share adds its work.
LEMMA TotalAdds ==
  ASSUME NEW S \in SUBSET Hash, IsFiniteSet(S), NEW x \in Hash \ S
  PROVE  Total(S \cup {x}) = Total(S) + Work[x] /\ Total(S) \in Int /\ Work[x] \in Int
  <1> DEFINE D == S \cup {x}
             f == [y \in D |-> Work[y]]
  <1>1. D \in SUBSET Hash /\ IsFiniteSet(D) /\ f \in [D -> Int] /\ f[x] = Work[x] /\ Work[x] \in Int
    BY FS_AddElement, WorkAssumption
  <1> HIDE DEF D
  <1>2. PICK g : Sums(g, f, D)
    <2> HIDE DEF f
    <2> QED BY <1>1, SumExists
  <1>3. D \in SUBSET D /\ S \in SUBSET D /\ D \ {x} = S /\ x \in D
    BY DEF D
  <1>4. Total(D) = g[D] /\ Total(S) = g[S]
    BY <1>1, <1>2, <1>3, TotalInParts
  <1>5. g[D] = f[x] + g[S] /\ g[S] \in Int
    <2> HIDE DEF f
    <2> QED BY <1>1, <1>2, <1>3, SumTakes
  <1> QED BY <1>1, <1>4, <1>5 DEF D

-----------------------------------------------------------------------------
\* All the ancestors a share could ever have, how many they are and the work in them: what
\* a delta is the difference of.
Ancestors(p, x) == Chain(Hash, p)[x] \cap Hash
Depth(p, x) == Cardinality(Ancestors(p, x))
Weight(p, x) == Total(Ancestors(p, x))

\* The ancestors of a hash are finitely many, whatever the hashes are.
LEMMA AncestorsFinite ==
  ASSUME NEW p \in Previous, NEW x \in Node
  PROVE  /\ IsForest(Hash, p) /\ Ancestors(p, x) \in SUBSET Hash /\ IsFiniteSet(Ancestors(p, x))
         /\ Depth(p, x) \in Nat
  <1>1. IsForest(Hash, p)
    BY DEF IsForest
  <1>2. x \in Nat
    BY NodeIsNat
  <1>3. Ancestors(p, x) \subseteq 0 .. x
    <2>1. ASSUME NEW y \in Ancestors(p, x) PROVE y \in 0 .. x
      <3>1. y \in Node /\ y <= x
        BY <1>1, ChainBelow DEF Ancestors
      <3>2. y \in Nat
        BY <3>1, NodeIsNat
      <3> QED BY <1>2, <3>1, <3>2
    <2> QED BY <2>1
  <1>4. IsFiniteSet(0 .. x)
    BY <1>2, FS_Interval
  <1>5. IsFiniteSet(Ancestors(p, x))
    BY <1>3, <1>4, FS_Subset
  <1> QED BY <1>1, <1>5, FS_CardinalityType DEF Depth, Ancestors

\* A share is one deeper than its parent, and heavier by its own work.
LEMMA DepthSteps ==
  ASSUME NEW p \in Previous, NEW x \in Node
  PROVE  /\ Depth(p, x) \in Nat /\ Weight(p, x) \in Int
         /\ x \in Hash => /\ Depth(p, x) = Depth(p, p[x]) + 1
                          /\ Weight(p, x) = Weight(p, p[x]) + Work[x]
                          /\ Work[x] \in Int /\ p[x] \in Node
         /\ x \notin Hash => Depth(p, x) = 0
  <1> DEFINE S == {z \in Node : Weight(p, z) \in Int}
  <1>1. \A z \in Node : \A y :
          y \in Chain(Hash, p)[z] <=> (y = z \/ (z \in Hash /\ y \in Chain(Hash, p)[p[z]]))
    BY AncestorsFinite, ChainEq
  <1>2. ASSUME NEW z \in Node, z \notin Hash PROVE Depth(p, z) = 0 /\ Weight(p, z) = 0
    <2>1. Ancestors(p, z) = {}
      BY <1>1, <1>2 DEF Ancestors
    <2> QED BY <2>1, FS_EmptySet, TotalOfNone DEF Depth, Weight
  <1>3. ASSUME NEW z \in Hash
        PROVE  /\ Depth(p, z) = Depth(p, p[z]) + 1
               /\ Weight(p, z) = Weight(p, p[z]) + Work[z]
               /\ Weight(p, p[z]) \in Int /\ Work[z] \in Int /\ p[z] \in Node
    <2>1. p[z] \in Node /\ z \in Node /\ p[z] < z /\ p[z] \in Nat /\ z \in Nat
      BY PreviousIsEarlier
    <2>2. Ancestors(p, z) = Ancestors(p, p[z]) \cup {z}
      BY <1>1, <2>1 DEF Ancestors
    <2>3. z \notin Ancestors(p, p[z])
      <3>1. SUFFICES ASSUME z \in Ancestors(p, p[z]) PROVE FALSE
        OBVIOUS
      <3>2. z <= p[z]
        BY <2>1, <3>1, AncestorsFinite, ChainBelow DEF Ancestors
      <3> QED BY <2>1, <3>2
    <2>4. Ancestors(p, p[z]) \in SUBSET Hash /\ IsFiniteSet(Ancestors(p, p[z]))
      BY <2>1, AncestorsFinite
    <2> QED BY <2>1, <2>2, <2>3, <2>4, TotalAdds, FS_AddElement DEF Depth, Weight
  <1>4. ASSUME NEW z \in Node PROVE Weight(p, z) \in Int
    BY <1>2, <1>3
  <1> QED BY <1>2, <1>3, <1>4, AncestorsFinite

-----------------------------------------------------------------------------
\* nth_parent follows the previous_hash of the share n times.

\* The recursion of nth_parent has a solution.
LEMMA UpExists ==
  ASSUME NEW x, NEW n \in Nat
  PROVE  \E f : f = [k \in 0 .. n |-> IF k = 0 THEN x ELSE previous_hash[f[k - 1]]]
  <1> DEFINE Is(f, m) == f = [k \in 0 .. m |-> IF k = 0 THEN x ELSE previous_hash[f[k - 1]]]
             T == {m \in 0 .. n : \E f : Is(f, m)}
  <1>1. 0 \in T
    <2> DEFINE f == [k \in 0 .. 0 |-> x]
    <2>1. Is(f, 0)
      OBVIOUS
    <2> HIDE DEF Is, f
    <2> QED BY <2>1
  <1>2. ASSUME NEW m \in 1 .. n, m - 1 \in T PROVE m \in T
    <2>1. PICK f : Is(f, m - 1)
      BY <1>2
    <2>2. m \in Nat /\ m - 1 \in 0 .. m - 1
      OBVIOUS
    <2> DEFINE g == [k \in 0 .. m |-> IF k = m THEN previous_hash[f[m - 1]] ELSE f[k]]
    <2>3. ASSUME NEW k \in 0 .. m
          PROVE  g[k] = IF k = 0 THEN x ELSE previous_hash[g[k - 1]]
      <3>1. CASE k = m
        <4>1. g[k] = previous_hash[f[m - 1]] /\ k # 0 /\ k - 1 = m - 1 /\ m - 1 # m /\ m - 1 \in 0 .. m
          BY <3>1
        <4>2. g[m - 1] = f[m - 1]
          BY <4>1
        <4> QED BY <4>1, <4>2
      <3>2. CASE k # m
        <4>1. k \in 0 .. m - 1 /\ g[k] = f[k]
          BY <3>2
        <4>2. f[k] = IF k = 0 THEN x ELSE previous_hash[f[k - 1]]
          BY <2>1, <4>1
        <4>3. k # 0 => g[k - 1] = f[k - 1]
          BY <3>2
        <4> HIDE DEF g
        <4> QED BY <4>1, <4>2, <4>3
      <3> QED BY <3>1, <3>2
    <2>4. g = [k \in 0 .. m |-> g[k]]
      OBVIOUS
    <2> HIDE DEF g
    <2>5. Is(g, m)
      BY <2>3, <2>4
    <2> HIDE DEF Is
    <2> QED BY <2>5
  <1>3. n \in T
    <2> HIDE DEF T
    <2>1. \A m \in 1 .. n : m - 1 \in T => m \in T
      BY <1>2
    <2>2. \A m \in 0 .. n : m \in T
      BY <1>1, <2>1, UpTo
    <2> QED BY <2>2
  <1> QED BY <1>3

\* nth_parent ends a sequence of previous hashes.
LEMMA UpIs ==
  ASSUME NEW x, NEW n \in Nat
  PROVE  \E f : /\ nth_parent(x, n) = f[n] /\ f[0] = x
                /\ \A k \in 1 .. n : f[k] = previous_hash[f[k - 1]]
  <1> DEFINE Is(f) == f = [k \in 0 .. n |-> IF k = 0 THEN x ELSE previous_hash[f[k - 1]]]
             f == CHOOSE g : Is(g)
  <1>1. Is(f)
    <2>1. \E g : Is(g)
      BY UpExists
    <2> HIDE DEF Is
    <2> QED BY <2>1
  <1>2. nth_parent(x, n) = f[n]
    BY DEF nth_parent
  <1> HIDE DEF f
  <1>3. f[0] = x /\ \A k \in 1 .. n : f[k] = previous_hash[f[k - 1]]
    <2>1. 0 \in 0 .. n /\ \A k \in 1 .. n : k \in 0 .. n /\ k # 0
      OBVIOUS
    <2> QED BY <1>1, <2>1
  <1> QED BY <1>2, <1>3

\* Such a sequence is fixed by where it starts.
LEMMA SameUp ==
  ASSUME NEW n \in Nat, NEW f, NEW g, f[0] = g[0],
         \A k \in 1 .. n : f[k] = previous_hash[f[k - 1]],
         \A k \in 1 .. n : g[k] = previous_hash[g[k - 1]]
  PROVE  \A k \in 0 .. n : f[k] = g[k]
  <1> DEFINE T == {k \in 0 .. n : f[k] = g[k]}
  <1>1. 0 \in T /\ \A k \in 1 .. n : k - 1 \in T => k \in T
    OBVIOUS
  <1> HIDE DEF T
  <1>2. \A k \in 0 .. n : k \in T
    BY <1>1, UpTo
  <1> QED BY <1>2 DEF T

\* One step more, taken at the far end or at the near one.
LEMMA UpSteps ==
  ASSUME NEW x, NEW n \in Nat
  PROVE  /\ nth_parent(x, 0) = x
         /\ nth_parent(x, n + 1) = previous_hash[nth_parent(x, n)]
         /\ nth_parent(x, n + 1) = nth_parent(previous_hash[x], n)
  <1>1. 0 \in Nat /\ n + 1 \in Nat
    OBVIOUS
  <1>2. nth_parent(x, 0) = x
    BY ONLY <1>1, UpIs
  <1>3. PICK f : /\ nth_parent(x, n + 1) = f[n + 1] /\ f[0] = x
                 /\ \A k \in 1 .. n + 1 : f[k] = previous_hash[f[k - 1]]
    BY ONLY <1>1, UpIs
  <1>4. PICK g : /\ nth_parent(x, n) = g[n] /\ g[0] = x
                 /\ \A k \in 1 .. n : g[k] = previous_hash[g[k - 1]]
    BY UpIs
  <1>5. PICK e : /\ nth_parent(previous_hash[x], n) = e[n] /\ e[0] = previous_hash[x]
                 /\ \A k \in 1 .. n : e[k] = previous_hash[e[k - 1]]
    BY UpIs
  <1>6. f[n] = g[n]
    <2>1. \A k \in 1 .. n : f[k] = previous_hash[f[k - 1]]
      BY <1>3
    <2>2. \A k \in 0 .. n : f[k] = g[k]
      BY <1>3, <1>4, <2>1, SameUp
    <2> QED BY <2>2
  <1>7. f[n + 1] = e[n]
    <2> DEFINE up == [k \in 0 .. n |-> f[k + 1]]
    <2>1. up[0] = e[0]
      BY <1>3, <1>5
    <2>2. \A k \in 1 .. n : up[k] = previous_hash[up[k - 1]]
      <3>1. ASSUME NEW k \in 1 .. n PROVE up[k] = f[k + 1] /\ up[k - 1] = f[k] /\ k + 1 \in 1 .. n + 1 /\ (k + 1) - 1 = k
        OBVIOUS
      <3> HIDE DEF up
      <3>2. ASSUME NEW k \in 1 .. n PROVE up[k] = previous_hash[up[k - 1]]
        <4>1. /\ up[k] = f[k + 1] /\ up[k - 1] = f[k] /\ k + 1 \in 1 .. n + 1 /\ (k + 1) - 1 = k
          BY <3>1
        <4>2. f[k + 1] = previous_hash[f[(k + 1) - 1]]
          BY ONLY <1>3, <4>1
        <4> QED BY <4>1, <4>2
      <3> QED BY <3>2
    <2>3. up[n] = f[n + 1]
      OBVIOUS
    <2> HIDE DEF up
    <2>4. \A k \in 0 .. n : up[k] = e[k]
      <3> DEFINE T == {k \in 0 .. n : up[k] = e[k]}
      <3>1. 0 \in T
        BY <2>1
      <3>2. \A k \in 1 .. n : k - 1 \in T => k \in T
        BY <1>5, <2>2
      <3> HIDE DEF T
      <3>3. \A k \in 0 .. n : k \in T
        BY <3>1, <3>2, UpTo
      <3> QED BY <3>3 DEF T
    <2> QED BY <2>3, <2>4
  <1>8. n + 1 \in 1 .. n + 1 /\ (n + 1) - 1 = n
    OBVIOUS
  <1> QED BY <1>2, <1>3, <1>4, <1>5, <1>6, <1>7, <1>8

\* A path one share longer is the share and the path from its parent.
LEMMA PathSteps ==
  ASSUME NEW x, NEW m \in Nat
  PROVE  PathOf(x, 0) = {} /\ PathOf(x, m + 1) = PathOf(previous_hash[x], m) \cup {x}
  <1>1. PathOf(x, 0) = {}
    <2>1. 0 .. 0 - 1 = {}
      OBVIOUS
    <2> QED BY <2>1 DEF PathOf
  <1>2. ASSUME NEW k \in 0 .. (m + 1) - 1
        PROVE  nth_parent(x, k) = x \/ \E j \in 0 .. m - 1 : nth_parent(x, k) = nth_parent(previous_hash[x], j)
    <2>1. CASE k = 0
      <3>1. nth_parent(x, 0) = x
        BY UpSteps
      <3> QED BY <2>1, <3>1
    <2>2. CASE k # 0
      <3>1. k - 1 \in 0 .. m - 1 /\ k - 1 \in Nat /\ (k - 1) + 1 = k
        BY <2>2
      <3>2. nth_parent(x, (k - 1) + 1) = nth_parent(previous_hash[x], k - 1)
        BY ONLY <3>1, UpSteps
      <3> QED BY <3>1, <3>2
    <2> QED BY <2>1, <2>2
  <1>3. \E k \in 0 .. (m + 1) - 1 : nth_parent(x, k) = x
    <2>1. nth_parent(x, 0) = x
      BY UpSteps
    <2>2. 0 \in 0 .. (m + 1) - 1
      OBVIOUS
    <2> QED BY <2>1, <2>2
  <1>4. ASSUME NEW j \in 0 .. m - 1
        PROVE  \E k \in 0 .. (m + 1) - 1 : nth_parent(x, k) = nth_parent(previous_hash[x], j)
    <2>1. j + 1 \in 0 .. (m + 1) - 1 /\ j \in Nat
      OBVIOUS
    <2>2. nth_parent(x, j + 1) = nth_parent(previous_hash[x], j)
      BY ONLY <2>1, UpSteps
    <2> QED BY <2>1, <2>2
  <1>5. PathOf(x, m + 1) = PathOf(previous_hash[x], m) \cup {x}
    BY <1>2, <1>3, <1>4 DEF PathOf
  <1> QED BY <1>1, <1>5

\* The hash t that a walk from x meets is as many steps up as x is deeper, and the steps
\* between are over shares that are present, whose work is the difference of the weights.
PathFits(I, x, t) ==
  LET n == Depth(previous_hash, x) - Depth(previous_hash, t)
  IN /\ n \in Nat
     /\ t # x => n > 0
     /\ nth_parent(x, n) = t
     /\ PathOf(x, n) \subseteq I
     /\ IsFiniteSet(PathOf(x, n))
     /\ \A y \in PathOf(x, n) : y <= x
     /\ Total(PathOf(x, n)) = Weight(previous_hash, x) - Weight(previous_hash, t)

\* Every hash that a walk meets fits.
LEMMA PathsFit ==
  ASSUME NEW I, IsForest(I, previous_hash), NEW x \in Node, NEW t \in Chain(I, previous_hash)[x]
  PROVE  PathFits(I, x, t)
  <1> DEFINE p == previous_hash
             S == {z \in Node : \A u \in Chain(I, p)[z] : PathFits(I, z, u)}
  <1>1. \A z \in Node : \A y :
          y \in Chain(I, p)[z] <=> (y = z \/ (z \in I /\ y \in Chain(I, p)[p[z]]))
    BY ChainEq
  <1>2. p \in Previous /\ I \subseteq Hash
    BY DEF IsForest
  <1>3. ASSUME NEW z \in Node PROVE PathFits(I, z, z)
    <2> DEFINE n == Depth(p, z) - Depth(p, z)
    <2>1. n = 0 /\ Weight(p, z) - Weight(p, z) = 0
      BY <1>2, DepthSteps
    <2> HIDE DEF n
    <2>2. nth_parent(z, n) = z
      <3>1. 0 \in Nat
        OBVIOUS
      <3> QED BY ONLY <2>1, <3>1, UpSteps
    <2>3. PathOf(z, n) = {}
      <3>1. 0 \in Nat
        OBVIOUS
      <3> QED BY ONLY <2>1, <3>1, PathSteps
    <2> QED BY <2>1, <2>2, <2>3, FS_EmptySet, TotalOfNone DEF PathFits, n
  <1>4. ASSUME NEW z \in Node, \A y \in Node : y < z => y \in S
        PROVE  z \in S
    <2>1. ASSUME NEW u \in Chain(I, p)[z], u # z PROVE PathFits(I, z, u)
      <3>1. z \in I /\ z \in Hash /\ u \in Chain(I, p)[p[z]]
        BY <1>1, <1>2, <2>1
      <3>2. p[z] \in Node /\ p[z] < z /\ p[z] \in Nat /\ z \in Nat
        BY <1>2, <3>1, PreviousIsEarlier
      <3>3. PathFits(I, p[z], u)
        BY <1>4, <3>1, <3>2
      <3> DEFINE m == Depth(p, p[z]) - Depth(p, u)
                 A == PathOf(p[z], m)
      <3>4. /\ m \in Nat /\ nth_parent(p[z], m) = u /\ A \subseteq I /\ IsFiniteSet(A)
            /\ \A y \in A : y <= p[z]
            /\ Total(A) = Weight(p, p[z]) - Weight(p, u)
        BY <3>3 DEF PathFits
      <3>5. u \in Node
        BY <3>1, <3>2, ChainBelow
      <3>13. z \in Node
        OBVIOUS
      <3>6. Depth(p, z) - Depth(p, u) = m + 1
        <4>1. Depth(p, z) = Depth(p, p[z]) + 1
          BY ONLY <1>2, <3>1, <3>13, DepthSteps
        <4>2. Depth(p, p[z]) \in Nat /\ Depth(p, u) \in Nat
          BY <1>2, <3>2, <3>5, DepthSteps
        <4> QED BY <4>1, <4>2
      <3> HIDE DEF m
      <3>7. nth_parent(z, m + 1) = u
        BY <3>4, UpSteps
      <3>8. PathOf(z, m + 1) = A \cup {z}
        BY <3>4, PathSteps
      <3>9. z \notin A /\ A \in SUBSET Hash
        BY <1>2, <3>2, <3>4
      <3>10. Total(A \cup {z}) = Weight(p, z) - Weight(p, u)
        <4>1. Weight(p, z) = Weight(p, p[z]) + Work[z] /\ Work[z] \in Int
          BY ONLY <1>2, <3>1, <3>13, DepthSteps
        <4>2. Weight(p, p[z]) \in Int /\ Weight(p, u) \in Int
          BY <1>2, <3>2, <3>5, DepthSteps
        <4>3. Total(A \cup {z}) = Total(A) + Work[z]
          <5> HIDE DEF A
          <5> QED BY <3>1, <3>4, <3>9, TotalAdds
        <4> HIDE DEF A
        <4> QED BY <3>4, <4>1, <4>2, <4>3
      <3>11. IsFiniteSet(A \cup {z})
        <4> HIDE DEF A
        <4> QED BY <3>4, FS_AddElement
      <3>12. \A y \in A \cup {z} : y <= z
        <4>1. ASSUME NEW y \in A PROVE y <= z
          <5>1. y \in Nat /\ y <= p[z]
            BY <3>4, <3>9, HashAssumption
          <5> QED BY <3>2, <5>1
        <4> QED BY <3>2, <4>1
      <3>14. A \cup {z} \subseteq I
        BY <3>1, <3>4
      <3> HIDE DEF A
      <3>15. PICK n : n = Depth(p, z) - Depth(p, u)
        OBVIOUS
      <3>16. PICK B : B = A \cup {z}
        OBVIOUS
      <3>17. n \in Nat /\ n > 0 /\ nth_parent(z, n) = u /\ PathOf(z, n) = B
        BY <3>4, <3>6, <3>7, <3>8, <3>15, <3>16
      <3>18. /\ B \subseteq I /\ IsFiniteSet(B) /\ \A y \in B : y <= z
             /\ Total(B) = Weight(p, z) - Weight(p, u)
        BY ONLY <3>10, <3>11, <3>12, <3>14, <3>16
      <3> QED BY ONLY <3>15, <3>17, <3>18 DEF PathFits
    <2> QED BY <1>3, <2>1
  <1>5. Node \subseteq S
    <2> HIDE DEF S
    <2> QED BY <1>4, NodeInduction
  <1> QED BY <1>5

\* Up to its depth, the parents of a share are its ancestors.
LEMMA ParentsAreAncestors ==
  ASSUME previous_hash \in Previous, NEW x \in Node, NEW n \in 0 .. Depth(previous_hash, x)
  PROVE  Descends(Hash, previous_hash, nth_parent(x, n), x)
  <1> DEFINE p == previous_hash
             N == Depth(p, x)
             T == {k \in 0 .. N : /\ nth_parent(x, k) \in Chain(Hash, p)[x]
                                  /\ Depth(p, nth_parent(x, k)) = N - k}
  <1>1. IsForest(Hash, p) /\ N \in Nat
    BY AncestorsFinite
  <1>2. 0 \in T
    <2>1. nth_parent(x, 0) = x
      BY UpSteps
    <2>2. x \in Chain(Hash, p)[x]
      BY <1>1, ChainEq
    <2> QED BY <1>1, <2>1, <2>2
  <1>3. ASSUME NEW k \in 1 .. N, k - 1 \in T PROVE k \in T
    <2> DEFINE y == nth_parent(x, k - 1)
    <2>1. y \in Chain(Hash, p)[x] /\ Depth(p, y) = N - (k - 1)
      BY <1>3
    <2>2. k - 1 \in Nat /\ (k - 1) + 1 = k
      BY <1>1
    <2>3. nth_parent(x, (k - 1) + 1) = p[y]
      BY ONLY <2>2, UpSteps
    <2> HIDE DEF y
    <2>4. y \in Node
      BY <1>1, <2>1, ChainBelow
    <2>5. y \in Hash
      <3>1. Depth(p, y) # 0
        BY <1>1, <2>1
      <3> QED BY <2>4, <3>1, DepthSteps
    <2>6. p[y] \in Chain(Hash, p)[x] /\ Depth(p, p[y]) = N - k
      <3>1. p[y] \in Node /\ Depth(p, y) = Depth(p, p[y]) + 1 /\ Depth(p, p[y]) \in Nat
        <4>1. p[y] \in Node /\ Depth(p, y) = Depth(p, p[y]) + 1
          BY <2>4, <2>5, DepthSteps
        <4> QED BY <4>1, DepthSteps
      <3>2. p[y] \in Chain(Hash, p)[y]
        BY <1>1, <2>4, <2>5, <3>1, ChainEq
      <3>3. p[y] \in Chain(Hash, p)[x]
        BY <1>1, <2>1, <3>2, ChainGoesOn
      <3> QED BY <1>1, <2>1, <3>1, <3>3
    <2> QED BY <1>1, <2>2, <2>3, <2>6
  <1>4. n \in T
    <2> HIDE DEF T
    <2>1. \A k \in 1 .. N : k - 1 \in T => k \in T
      BY <1>3
    <2> HIDE DEF N
    <2>2. \A k \in 0 .. N : k \in T
      BY <1>1, <1>2, <2>1, UpTo
    <2> QED BY <2>2 DEF N
  <1> QED BY <1>4 DEF Descends

-----------------------------------------------------------------------------
\* The delta between two nodes: differences of depth and of weight.
Exact(p, x, t) ==
  [head |-> x, tail |-> t, height |-> Depth(p, x) - Depth(p, t), work |-> Weight(p, x) - Weight(p, t)]

Delta == [head : Node, tail : Node, height : Int, work : Int]

\* A delta between two nodes has its type, and none is the delta of a node to itself.
LEMMA ExactType ==
  ASSUME NEW p \in Previous, NEW x \in Node, NEW t \in Node
  PROVE  /\ Exact(p, x, t) \in Delta /\ Exact(p, x, t).head = x /\ Exact(p, x, t).tail = t
         /\ Exact(p, x, x) = none(x)
  <1>1. /\ Depth(p, x) \in Nat /\ Depth(p, t) \in Nat /\ Weight(p, x) \in Int /\ Weight(p, t) \in Int
    BY DepthSteps
  <1> QED BY <1>1 DEF Exact, Delta, none

\* from_element is the delta of a share to its parent.
LEMMA ElementIsExact ==
  ASSUME previous_hash \in Previous, NEW h \in Hash
  PROVE  from_element(h) = Exact(previous_hash, h, previous_hash[h])
  <1> DEFINE p == previous_hash
  <1>1. h \in Node /\ p[h] \in Node
    BY PreviousIsEarlier
  <1>2. /\ Depth(p, h) = Depth(p, p[h]) + 1 /\ Weight(p, h) = Weight(p, p[h]) + Work[h] /\ Work[h] \in Int
    BY ONLY <1>1, previous_hash \in Previous, h \in Hash, DepthSteps
  <1>3. Depth(p, p[h]) \in Nat /\ Weight(p, p[h]) \in Int
    BY ONLY <1>1, previous_hash \in Previous, DepthSteps
  <1>4. Depth(p, h) - Depth(p, p[h]) = 1 /\ Weight(p, h) - Weight(p, p[h]) = Work[h]
    BY ONLY <1>2, <1>3
  <1> QED BY <1>4 DEF from_element, Exact

\* Two deltas that fit add up to the delta over both.
LEMMA PlusIsExact ==
  ASSUME NEW p \in Previous, NEW x \in Node, NEW t \in Node, NEW u \in Node
  PROVE  Plus(Exact(p, x, t), Exact(p, t, u)) = Exact(p, x, u)
  <1>1. /\ Depth(p, x) \in Nat /\ Depth(p, t) \in Nat /\ Depth(p, u) \in Nat
        /\ Weight(p, x) \in Int /\ Weight(p, t) \in Int /\ Weight(p, u) \in Int
    BY DepthSteps
  <1>2. /\ (Depth(p, x) - Depth(p, t)) + (Depth(p, t) - Depth(p, u)) = Depth(p, x) - Depth(p, u)
        /\ (Weight(p, x) - Weight(p, t)) + (Weight(p, t) - Weight(p, u)) = Weight(p, x) - Weight(p, u)
    BY <1>1
  <1> QED BY <1>2 DEF Plus, Exact

\* Two deltas to one tail differ by the delta between their heads.
LEMMA MinusIsExact ==
  ASSUME NEW p \in Previous, NEW x \in Node, NEW t \in Node, NEW u \in Node, x # u
  PROVE  Minus(Exact(p, x, t), Exact(p, u, t)) = Exact(p, x, u)
  <1>1. /\ Depth(p, x) \in Nat /\ Depth(p, t) \in Nat /\ Depth(p, u) \in Nat
        /\ Weight(p, x) \in Int /\ Weight(p, t) \in Int /\ Weight(p, u) \in Int
    BY DepthSteps
  <1>2. /\ (Depth(p, x) - Depth(p, t)) - (Depth(p, u) - Depth(p, t)) = Depth(p, x) - Depth(p, u)
        /\ (Weight(p, x) - Weight(p, t)) - (Weight(p, u) - Weight(p, t)) = Weight(p, x) - Weight(p, u)
    BY <1>1
  <1> QED BY <1>2 DEF Minus, Exact

-----------------------------------------------------------------------------
\* The dictionaries of a view, and the views they make.
Dict(K, V) == UNION {[A -> V] : A \in SUBSET K}

Views == [deltas : Dict(Node, [delta : Delta, ref : Nat]), reverse_deltas : Dict(Nat, SUBSET Node),
          delta_refs : Dict(Nat, Delta), reverse_delta_refs : Dict(Node, Nat)]

\* A dictionary is a function with keys and values of the right kind.
LEMMA DictFacts ==
  ASSUME NEW K, NEW V, NEW d
  PROVE  d \in Dict(K, V) <=> d = [k \in DOMAIN d |-> d[k]] /\ DOMAIN d \subseteq K /\ \A k \in DOMAIN d : d[k] \in V
  <1>1. ASSUME d \in Dict(K, V)
        PROVE  d = [k \in DOMAIN d |-> d[k]] /\ DOMAIN d \subseteq K /\ \A k \in DOMAIN d : d[k] \in V
    <2>1. PICK A \in SUBSET K : d \in [A -> V]
      BY <1>1 DEF Dict
    <2> QED BY <2>1
  <1>2. ASSUME d = [k \in DOMAIN d |-> d[k]], DOMAIN d \subseteq K, \A k \in DOMAIN d : d[k] \in V
        PROVE  d \in Dict(K, V)
    <2>1. d \in [DOMAIN d -> V]
      BY <1>2
    <2> QED BY <1>2, <2>1 DEF Dict
  <1> QED BY <1>1, <1>2

\* An assignment to one key.
LEMMA PutIsDict ==
  ASSUME NEW K, NEW V, NEW d \in Dict(K, V), NEW k \in K, NEW e \in V
  PROVE  /\ Put(d, k, e) \in Dict(K, V)
         /\ DOMAIN Put(d, k, e) = DOMAIN d \cup {k}
         /\ Put(d, k, e)[k] = e
         /\ \A x \in DOMAIN d : x # k => Put(d, k, e)[x] = d[x]
  <1>1. DOMAIN d \subseteq K /\ \A x \in DOMAIN d : d[x] \in V
    BY DictFacts
  <1> DEFINE q == Put(d, k, e)
  <1>2. q = [x \in DOMAIN q |-> q[x]] /\ DOMAIN q = DOMAIN d \cup {k}
    BY DEF Put
  <1>3. \A x \in DOMAIN q : q[x] = IF x = k THEN e ELSE d[x]
    BY DEF Put
  <1> HIDE DEF q
  <1>4. q \in Dict(K, V)
    BY <1>1, <1>2, <1>3, DictFacts
  <1> QED BY <1>2, <1>3, <1>4 DEF q

\* The deletion of keys.
LEMMA WithoutIsDict ==
  ASSUME NEW K, NEW V, NEW d \in Dict(K, V), NEW X
  PROVE  /\ Without(d, X) \in Dict(K, V)
         /\ DOMAIN Without(d, X) = DOMAIN d \ X
         /\ \A x \in DOMAIN d \ X : Without(d, X)[x] = d[x]
  <1>1. DOMAIN d \subseteq K /\ \A x \in DOMAIN d : d[x] \in V
    BY DictFacts
  <1> DEFINE q == Without(d, X)
  <1>2. q = [x \in DOMAIN q |-> q[x]] /\ DOMAIN q = DOMAIN d \ X
    BY DEF Without
  <1>3. \A x \in DOMAIN q : q[x] = d[x]
    BY DEF Without
  <1> HIDE DEF q
  <1>4. q \in Dict(K, V)
    BY <1>1, <1>2, <1>3, DictFacts
  <1> QED BY <1>2, <1>3, <1>4 DEF q

\* The types of the four dictionaries of a view.
LEMMA ViewFields ==
  ASSUME NEW v \in Views
  PROVE  /\ v.deltas \in Dict(Node, [delta : Delta, ref : Nat])
         /\ v.reverse_deltas \in Dict(Nat, SUBSET Node)
         /\ v.delta_refs \in Dict(Nat, Delta)
         /\ v.reverse_delta_refs \in Dict(Node, Nat)
         /\ DOMAIN v.deltas \subseteq Node /\ DOMAIN v.reverse_delta_refs \subseteq Node
         /\ DOMAIN v.delta_refs \subseteq Nat /\ DOMAIN v.reverse_deltas \subseteq Nat
  <1>1. /\ v.deltas \in Dict(Node, [delta : Delta, ref : Nat])
        /\ v.reverse_deltas \in Dict(Nat, SUBSET Node)
        /\ v.delta_refs \in Dict(Nat, Delta)
        /\ v.reverse_delta_refs \in Dict(Node, Nat)
    BY DEF Views
  <1> QED BY <1>1, DictFacts

-----------------------------------------------------------------------------
\* What holds of the four dictionaries together, whatever shares are present.

\* The hash a cached share's delta goes down to, and the shares that use a reference.
Tail_(v, h) == v.delta_refs[v.deltas[h].ref].tail
Users(v, r) == {h \in DOMAIN v.deltas : v.deltas[h].ref = r}

\* Each cached delta, and each reference, is exact; and a reference is older than its users.
DeltasExact(p, v) ==
  /\ \A h \in DOMAIN v.deltas :
       /\ v.deltas[h].ref \in DOMAIN v.delta_refs
       /\ v.deltas[h].delta = Exact(p, h, v.delta_refs[v.deltas[h].ref].head)
       /\ v.delta_refs[v.deltas[h].ref].head < h
  /\ \A r \in DOMAIN v.delta_refs :
       /\ v.delta_refs[r] = Exact(p, v.delta_refs[r].head, v.delta_refs[r].tail)
       /\ v.delta_refs[r].head <= v.delta_refs[r].tail

\* The dictionaries are each other's inverses.
RefsLinked(v) ==
  /\ DOMAIN v.reverse_deltas = DOMAIN v.delta_refs
  /\ \A r \in DOMAIN v.delta_refs :
       /\ v.reverse_deltas[r] = Users(v, r)
       /\ Users(v, r) # {}
       /\ v.delta_refs[r].tail \in DOMAIN v.reverse_delta_refs
       /\ v.reverse_delta_refs[v.delta_refs[r].tail] = r
  /\ \A t \in DOMAIN v.reverse_delta_refs :
       /\ v.reverse_delta_refs[t] \in DOMAIN v.delta_refs
       /\ v.delta_refs[v.reverse_delta_refs[t]].tail = t

\* The part of the invariant that does not look at the shares present.
MemoSound(p, v) ==
  /\ v \in Views
  /\ IsFiniteSet(DOMAIN v.deltas)
  /\ DeltasExact(p, v)
  /\ RefsLinked(v)

\* A number is left for a new reference.
LEMMA NewRefIsNew ==
  ASSUME NEW v, v \in Views, IsFiniteSet(DOMAIN v.deltas), RefsLinked(v)
  PROVE  NewRef(v) \in Nat /\ NewRef(v) \notin DOMAIN v.delta_refs
  <1> DEFINE D == DOMAIN v.delta_refs
             f == [h \in {x \in DOMAIN v.deltas : v.deltas[x].ref \in D} |-> v.deltas[h].ref]
             H == DOMAIN f
  <1>1. IsFiniteSet(H)
    BY FS_Subset
  <1>2. f \in Surjection(H, D)
    <2>1. f \in [H -> D]
      OBVIOUS
    <2>2. ASSUME NEW r \in D PROVE \E h \in H : f[h] = r
      <3>1. PICK h \in DOMAIN v.deltas : v.deltas[h].ref = r
        BY DEF RefsLinked, Users
      <3> QED BY <3>1
    <2> HIDE DEF f, D
    <2> QED BY <2>1, <2>2 DEF Surjection
  <1>3. IsFiniteSet(D)
    <2> HIDE DEF f, D
    <2> QED BY <1>1, <1>2, FS_Surjection
  <1> DEFINE n == Cardinality(D)
  <1>4. n \in Nat
    BY <1>3, FS_CardinalityType
  <1>5. \E r \in 0 .. n : r \notin D
    <2>1. SUFFICES ASSUME 0 .. n \subseteq D PROVE FALSE
      OBVIOUS
    <2> HIDE DEF D
    <2>2. Cardinality(0 .. n) <= n
      BY <1>3, <2>1, FS_Subset
    <2>3. Cardinality(0 .. n) = n - 0 + 1
      <3>1. 0 \in Int /\ n \in Int /\ ~ (0 > n)
        BY <1>4
      <3> HIDE DEF n
      <3> QED BY <3>1, FS_Interval
    <2> QED BY <1>4, <2>2, <2>3
  <1>6. NewRef(v) \in 0 .. n /\ NewRef(v) \notin D
    BY <1>5 DEF NewRef
  <1> QED BY <1>4, <1>6

\* A reference whose tail is t, there or made.
LEMMA WithRefAtFacts ==
  ASSUME NEW p \in Previous, NEW w, MemoSound(p, w), NEW t \in Node
  PROVE  LET made == WithRefAt(w, t)
             ref  == made.reverse_delta_refs[t]
         IN /\ made \in Views /\ made.deltas = w.deltas /\ made.reverse_deltas = w.reverse_deltas
            /\ t \in DOMAIN made.reverse_delta_refs /\ ref \in Nat
            /\ DOMAIN made.delta_refs = DOMAIN w.delta_refs \cup {ref}
            /\ \A r \in DOMAIN w.delta_refs : made.delta_refs[r] = w.delta_refs[r]
            /\ made.delta_refs[ref].tail = t
            /\ \A r \in DOMAIN made.delta_refs :
                 /\ made.delta_refs[r] = Exact(p, made.delta_refs[r].head, made.delta_refs[r].tail)
                 /\ made.delta_refs[r].head <= made.delta_refs[r].tail
                 /\ made.delta_refs[r].tail \in DOMAIN made.reverse_delta_refs
                 /\ made.reverse_delta_refs[made.delta_refs[r].tail] = r
            /\ \A u \in DOMAIN made.reverse_delta_refs :
                 /\ made.reverse_delta_refs[u] \in DOMAIN made.delta_refs
                 /\ made.delta_refs[made.reverse_delta_refs[u]].tail = u
  <1>1. w \in Views /\ IsFiniteSet(DOMAIN w.deltas) /\ DeltasExact(p, w) /\ RefsLinked(w)
    BY DEF MemoSound
  <1>2. CASE t \in DOMAIN w.reverse_delta_refs
    <2>1. WithRefAt(w, t) = w
      BY <1>2 DEF WithRefAt
    <2>2. w.reverse_delta_refs[t] \in Nat /\ w.reverse_delta_refs[t] \in DOMAIN w.delta_refs
      BY <1>1, <1>2, ViewFields DEF RefsLinked
    <2> QED BY <1>1, <1>2, <2>1, <2>2 DEF DeltasExact, RefsLinked
  <1>3. CASE t \notin DOMAIN w.reverse_delta_refs
    <2> DEFINE n == NewRef(w)
               c == Put(w.delta_refs, n, none(t))
               d == Put(w.reverse_delta_refs, t, n)
               made == WithRefAt(w, t)
    <2>1. n \in Nat /\ n \notin DOMAIN w.delta_refs
      BY <1>1, NewRefIsNew
    <2>2. none(t) = Exact(p, t, t) /\ none(t) \in Delta /\ none(t).head = t /\ none(t).tail = t /\ t <= t
      BY ExactType, NodeIsNat
    <2>3. /\ w.delta_refs \in Dict(Nat, Delta) /\ w.reverse_delta_refs \in Dict(Node, Nat)
          /\ w.deltas \in Dict(Node, [delta : Delta, ref : Nat]) /\ w.reverse_deltas \in Dict(Nat, SUBSET Node)
      BY <1>1, ViewFields
    <2>4. made = [w EXCEPT !.delta_refs = c, !.reverse_delta_refs = d]
      BY <1>3 DEF WithRefAt
    <2> HIDE DEF n
    <2>5. /\ c \in Dict(Nat, Delta) /\ DOMAIN c = DOMAIN w.delta_refs \cup {n} /\ c[n] = none(t)
          /\ \A r \in DOMAIN w.delta_refs : c[r] = w.delta_refs[r]
      <3>1. c \in Dict(Nat, Delta)
        BY ONLY <2>1, <2>2, <2>3, PutIsDict
      <3> QED BY <2>1, <3>1 DEF Put
    <2>6. /\ d \in Dict(Node, Nat) /\ DOMAIN d = DOMAIN w.reverse_delta_refs \cup {t} /\ d[t] = n
          /\ \A u \in DOMAIN w.reverse_delta_refs : d[u] = w.reverse_delta_refs[u]
      <3>1. d \in Dict(Node, Nat)
        BY ONLY <2>1, <2>3, t \in Node, PutIsDict
      <3> QED BY <1>3, <3>1 DEF Put
    <2> HIDE DEF c, d, made
    <2>7. /\ made \in Views /\ made.deltas = w.deltas /\ made.reverse_deltas = w.reverse_deltas
          /\ made.delta_refs = c /\ made.reverse_delta_refs = d
      BY <1>1, <2>4, <2>5, <2>6 DEF Views
    <2>8. ASSUME NEW r \in DOMAIN c
          PROVE  /\ c[r] = Exact(p, c[r].head, c[r].tail) /\ c[r].head <= c[r].tail
                 /\ c[r].tail \in DOMAIN d /\ d[c[r].tail] = r
      <3>1. CASE r = n
        BY <2>2, <2>5, <2>6, <3>1
      <3>2. CASE r # n
        BY <1>1, <2>5, <2>6, <3>2 DEF DeltasExact, RefsLinked
      <3> QED BY <3>1, <3>2
    <2>9. ASSUME NEW u \in DOMAIN d PROVE d[u] \in DOMAIN c /\ c[d[u]].tail = u
      <3>1. CASE u = t
        BY <2>2, <2>5, <2>6, <3>1
      <3>2. CASE u # t
        BY <1>1, <2>5, <2>6, <3>2 DEF RefsLinked
      <3> QED BY <3>1, <3>2
    <2> QED BY <2>1, <2>2, <2>5, <2>6, <2>7, <2>8, <2>9 DEF made
  <1> QED BY <1>2, <1>3

\* What goes when y leaves the reference it used for the reference ref.
Freed(w, y, ref) ==
  {r \in DOMAIN w.delta_refs : y \in Users(w, r) /\ Users(w, r) = {y} /\ r # ref}

\* What stays of a view when y leaves the reference it used.
LEMMA ReleaseFacts ==
  ASSUME NEW w, w \in Views, RefsLinked(w), DOMAIN w.deltas \subseteq Node,
         \A h \in DOMAIN w.deltas : w.deltas[h].ref \in DOMAIN w.delta_refs,
         NEW made, made \in Views, made.deltas = w.deltas, made.reverse_deltas = w.reverse_deltas,
         NEW y \in Node, NEW ref
  PROVE  LET left == Release(made, y, ref)
             gone == Freed(w, y, ref)
             bare == {made.delta_refs[r].tail : r \in gone}
         IN /\ left \in Views /\ left.deltas = w.deltas
            /\ DOMAIN left.reverse_deltas = DOMAIN w.delta_refs \ gone
            /\ \A r \in DOMAIN w.delta_refs \ gone : left.reverse_deltas[r] = Users(w, r) \ {y}
            /\ DOMAIN left.delta_refs = DOMAIN made.delta_refs \ gone
            /\ \A r \in DOMAIN made.delta_refs \ gone : left.delta_refs[r] = made.delta_refs[r]
            /\ DOMAIN left.reverse_delta_refs = DOMAIN made.reverse_delta_refs \ bare
            /\ \A t \in DOMAIN made.reverse_delta_refs \ bare :
                 left.reverse_delta_refs[t] = made.reverse_delta_refs[t]
  <1> DEFINE gone == Freed(w, y, ref)
             bare == {made.delta_refs[r].tail : r \in gone}
             left == Release(made, y, ref)
  <1>1. /\ made.delta_refs \in Dict(Nat, Delta) /\ made.reverse_delta_refs \in Dict(Node, Nat)
        /\ made.deltas \in Dict(Node, [delta : Delta, ref : Nat]) /\ made.reverse_deltas \in Dict(Nat, SUBSET Node)
    BY ViewFields
  <1>2. DOMAIN w.reverse_deltas = DOMAIN w.delta_refs /\ \A r \in DOMAIN w.delta_refs : w.reverse_deltas[r] = Users(w, r)
    BY DEF RefsLinked
  <1>3. CASE y \notin DOMAIN w.deltas
    <2>1. left = made
      BY <1>3 DEF Release
    <2>2. \A r \in DOMAIN w.delta_refs : y \notin Users(w, r)
      BY <1>3 DEF Users
    <2>3. gone = {}
      BY <2>2 DEF Freed
    <2>4. bare = {}
      BY <2>3
    <2> HIDE DEF gone, bare, left
    <2> QED BY <1>2, <2>1, <2>2, <2>3, <2>4 DEF gone, bare, left
  <1>4. CASE y \in DOMAIN w.deltas
    <2> DEFINE old == w.deltas[y].ref
               rest == w.reverse_deltas[old] \ {y}
    <2>1. old \in DOMAIN w.delta_refs /\ rest = Users(w, old) \ {y} /\ y \in Users(w, old)
      BY <1>2, <1>4 DEF Users
    <2>2. \A r \in DOMAIN w.delta_refs : y \in Users(w, r) => r = old
      BY DEF Users
    <2>3. CASE rest = {} /\ old # ref
      <3>1. left = DropRef(made, old)
        BY <1>4, <2>3 DEF Release
      <3>2. gone = {old}
        BY <2>1, <2>2, <2>3 DEF Freed
      <3>3. bare = {made.delta_refs[old].tail}
        BY <3>2
      <3> DEFINE b == Without(made.reverse_deltas, {old})
                 c == Without(made.delta_refs, {old})
                 d == Without(made.reverse_delta_refs, bare)
      <3>4. left = [made EXCEPT !.reverse_deltas = b, !.delta_refs = c, !.reverse_delta_refs = d]
        BY <3>1, <3>3 DEF DropRef
      <3> HIDE DEF old, bare, gone
      <3>5. /\ b \in Dict(Nat, SUBSET Node) /\ DOMAIN b = DOMAIN made.reverse_deltas \ {old}
            /\ \A r \in DOMAIN made.reverse_deltas \ {old} : b[r] = made.reverse_deltas[r]
        <4>1. b \in Dict(Nat, SUBSET Node)
          BY ONLY <1>1, WithoutIsDict
        <4> QED BY <4>1 DEF Without
      <3>6. /\ c \in Dict(Nat, Delta) /\ DOMAIN c = DOMAIN made.delta_refs \ {old}
            /\ \A r \in DOMAIN made.delta_refs \ {old} : c[r] = made.delta_refs[r]
        <4>1. c \in Dict(Nat, Delta)
          BY ONLY <1>1, WithoutIsDict
        <4> QED BY <4>1 DEF Without
      <3>7. /\ d \in Dict(Node, Nat) /\ DOMAIN d = DOMAIN made.reverse_delta_refs \ bare
            /\ \A t \in DOMAIN made.reverse_delta_refs \ bare : d[t] = made.reverse_delta_refs[t]
        <4>1. d \in Dict(Node, Nat)
          BY ONLY <1>1, WithoutIsDict
        <4> QED BY <4>1 DEF Without
      <3> HIDE DEF b, c, d, left
      <3>8. /\ left \in Views /\ left.deltas = made.deltas /\ left.reverse_deltas = b
            /\ left.delta_refs = c /\ left.reverse_delta_refs = d
        BY <3>4, <3>5, <3>6, <3>7 DEF Views
      <3>9. \A r \in DOMAIN w.delta_refs \ {old} : Users(w, r) \ {y} = Users(w, r)
        BY <2>2
      <3> QED BY <1>2, <3>2, <3>5, <3>6, <3>7, <3>8, <3>9 DEF gone, bare, left
    <2>4. CASE ~ (rest = {} /\ old # ref)
      <3> DEFINE b == Put(made.reverse_deltas, old, rest)
      <3>1. left = [made EXCEPT !.reverse_deltas = b]
        BY <1>4, <2>4 DEF Release
      <3>2. gone = {}
        <4>1. SUFFICES ASSUME NEW r \in gone PROVE FALSE
          OBVIOUS
        <4>2. r = old /\ Users(w, r) = {y} /\ r # ref
          BY <2>2 DEF Freed
        <4> HIDE DEF old
        <4>3. rest = {}
          BY <2>1, <4>2
        <4> QED BY <2>4, <4>2, <4>3
      <3>3. bare = {}
        BY <3>2
      <3>4. old \in Nat /\ rest \in SUBSET Node
        <4>1. Users(w, old) \subseteq Node
          BY DEF Users
        <4> QED BY <2>1, <4>1, ViewFields
      <3> HIDE DEF old, bare, gone, rest
      <3>5. /\ b \in Dict(Nat, SUBSET Node) /\ DOMAIN b = DOMAIN made.reverse_deltas \cup {old}
            /\ b[old] = rest
            /\ \A r \in DOMAIN made.reverse_deltas : r # old => b[r] = made.reverse_deltas[r]
        <4>1. b \in Dict(Nat, SUBSET Node)
          BY ONLY <1>1, <3>4, PutIsDict
        <4> QED BY <4>1 DEF Put
      <3> HIDE DEF b, left
      <3>6. /\ left \in Views /\ left.deltas = made.deltas /\ left.reverse_deltas = b
            /\ left.delta_refs = made.delta_refs /\ left.reverse_delta_refs = made.reverse_delta_refs
        BY <3>1, <3>5 DEF Views
      <3>7. \A r \in DOMAIN w.delta_refs : r # old => Users(w, r) \ {y} = Users(w, r)
        BY <2>2
      <3> QED BY <1>2, <2>1, <3>2, <3>3, <3>5, <3>6, <3>7 DEF gone, bare, left
    <2> QED BY <2>3, <2>4
  <1> QED BY <1>3, <1>4

\* The update of one share's delta: the memo stays true, the share is cached down to t, and
\* no other share's tail is disturbed.
LEMMA SetDeltaSound ==
  ASSUME NEW p \in Previous, NEW w, MemoSound(p, w), NEW y \in Node, NEW t \in Node, t < y
  PROVE  LET r == _set_delta(w, y, Exact(p, y, t))
         IN /\ MemoSound(p, r)
            /\ DOMAIN r.deltas = DOMAIN w.deltas \cup {y}
            /\ Tail_(r, y) = t
            /\ \A x \in DOMAIN w.deltas : x # y => Tail_(r, x) = Tail_(w, x)
  <1>1. w \in Views /\ IsFiniteSet(DOMAIN w.deltas) /\ DeltasExact(p, w) /\ RefsLinked(w)
    BY DEF MemoSound
  <1>2. PICK e : e = Exact(p, y, t)
    OBVIOUS
  <1>3. e \in Delta /\ e.tail = t /\ e.head = y
    BY <1>2, ExactType
  <1>4. PICK made : made = WithRefAt(w, t)
    OBVIOUS
  <1>5. PICK ref : ref = made.reverse_delta_refs[t]
    OBVIOUS
  <1>6. /\ made \in Views /\ made.deltas = w.deltas /\ made.reverse_deltas = w.reverse_deltas
        /\ t \in DOMAIN made.reverse_delta_refs /\ ref \in Nat
        /\ DOMAIN made.delta_refs = DOMAIN w.delta_refs \cup {ref}
        /\ \A r \in DOMAIN w.delta_refs : made.delta_refs[r] = w.delta_refs[r]
        /\ made.delta_refs[ref].tail = t
    BY <1>4, <1>5, WithRefAtFacts
  <1>7. \A r \in DOMAIN made.delta_refs :
          /\ made.delta_refs[r] = Exact(p, made.delta_refs[r].head, made.delta_refs[r].tail)
          /\ made.delta_refs[r].head <= made.delta_refs[r].tail
          /\ made.delta_refs[r].tail \in DOMAIN made.reverse_delta_refs
          /\ made.reverse_delta_refs[made.delta_refs[r].tail] = r
    BY <1>4, WithRefAtFacts
  <1>8. \A u \in DOMAIN made.reverse_delta_refs :
          /\ made.reverse_delta_refs[u] \in DOMAIN made.delta_refs
          /\ made.delta_refs[made.reverse_delta_refs[u]].tail = u
    BY <1>4, WithRefAtFacts
  <1>9. DOMAIN w.deltas \subseteq Node /\ \A h \in DOMAIN w.deltas : w.deltas[h].ref \in DOMAIN w.delta_refs
    BY <1>1, ViewFields DEF DeltasExact
  <1>10. PICK gone : gone = Freed(w, y, ref)
    OBVIOUS
  <1>11. PICK bare : bare = {made.delta_refs[r].tail : r \in gone}
    OBVIOUS
  <1>12. PICK left : left = Release(made, y, ref)
    OBVIOUS
  <1>13. /\ left \in Views /\ left.deltas = w.deltas
         /\ DOMAIN left.reverse_deltas = DOMAIN w.delta_refs \ gone
         /\ \A r \in DOMAIN w.delta_refs \ gone : left.reverse_deltas[r] = Users(w, r) \ {y}
         /\ DOMAIN left.delta_refs = DOMAIN made.delta_refs \ gone
         /\ \A r \in DOMAIN made.delta_refs \ gone : left.delta_refs[r] = made.delta_refs[r]
    BY ONLY <1>1, <1>6, <1>9, <1>10, <1>11, <1>12, y \in Node, ReleaseFacts
  <1>14. /\ DOMAIN left.reverse_delta_refs = DOMAIN made.reverse_delta_refs \ bare
         /\ \A u \in DOMAIN made.reverse_delta_refs \ bare :
              left.reverse_delta_refs[u] = made.reverse_delta_refs[u]
    BY ONLY <1>1, <1>6, <1>9, <1>10, <1>11, <1>12, y \in Node, ReleaseFacts
  <1>15. PICK hd : hd = made.delta_refs[ref].head
    OBVIOUS
  <1>16. made.delta_refs[ref] = Exact(p, hd, t) /\ hd \in Node /\ hd <= t /\ hd < y
    <2>1. made.delta_refs[ref] = Exact(p, hd, t) /\ hd <= t
      BY <1>6, <1>7, <1>15
    <2>2. made.delta_refs \in Dict(Nat, Delta)
      BY <1>6, ViewFields
    <2>3. made.delta_refs[ref] \in Delta
      BY <2>2, <1>6, DictFacts
    <2>4. hd \in Node
      BY <2>3, <1>15 DEF Delta
    <2>5. hd \in Nat /\ t \in Nat /\ y \in Nat
      BY <2>4, NodeIsNat
    <2> QED BY <2>1, <2>4, <2>5
  <1>17. PICK own : own = [delta |-> Minus(e, made.delta_refs[ref]), ref |-> ref]
    OBVIOUS
  <1>18. own.delta = Exact(p, y, hd) /\ own.ref = ref /\ own \in [delta : Delta, ref : Nat]
    <2>1. y # hd
      BY <1>16, NodeIsNat
    <2>2. Minus(e, made.delta_refs[ref]) = Exact(p, y, hd)
      BY <1>2, <1>16, <2>1, MinusIsExact
    <2>3. Exact(p, y, hd) \in Delta
      BY <1>16, ExactType
    <2> QED BY <1>6, <1>17, <2>2, <2>3
  <1>19. PICK a : a = Put(left.deltas, y, own)
    OBVIOUS
  <1>20. PICK b : b = Put(left.reverse_deltas, ref, Entry(left.reverse_deltas, ref) \cup {y})
    OBVIOUS
  <1>21. PICK r : r = _set_delta(w, y, Exact(p, y, t))
    OBVIOUS
  <1>22. r = [left EXCEPT !.deltas = a, !.reverse_deltas = b]
    <2>1. r = _set_delta(w, y, e)
      BY <1>2, <1>21
    <2> QED BY <2>1, <1>3, <1>4, <1>5, <1>12, <1>17, <1>19, <1>20 DEF _set_delta
  <1>23. /\ a \in Dict(Node, [delta : Delta, ref : Nat]) /\ DOMAIN a = DOMAIN w.deltas \cup {y} /\ a[y] = own
         /\ \A x \in DOMAIN w.deltas : x # y => a[x] = w.deltas[x]
    <2>1. left.deltas \in Dict(Node, [delta : Delta, ref : Nat])
      BY <1>13, ViewFields
    <2>2. a \in Dict(Node, [delta : Delta, ref : Nat])
      BY ONLY <1>18, <1>19, <2>1, y \in Node, PutIsDict
    <2>3. a = Put(w.deltas, y, own)
      BY <1>13, <1>19
    <2> QED BY <2>2, <2>3 DEF Put
  <1>24. PICK s : s = Entry(left.reverse_deltas, ref) \cup {y}
    OBVIOUS
  <1>25. s = (Users(w, ref) \ {y}) \cup {y}
    <2>1. ref \notin gone
      BY <1>10 DEF Freed
    <2>2. CASE ref \in DOMAIN w.delta_refs
      <3>1. Entry(left.reverse_deltas, ref) = Users(w, ref) \ {y}
        BY <1>13, <2>1, <2>2 DEF Entry
      <3> QED BY <1>24, <3>1
    <2>3. CASE ref \notin DOMAIN w.delta_refs
      <3>1. Entry(left.reverse_deltas, ref) = {}
        BY <1>13, <2>3 DEF Entry
      <3>2. Users(w, ref) = {}
        BY <1>9, <2>3 DEF Users
      <3> QED BY <1>24, <3>1, <3>2
    <2> QED BY <2>2, <2>3
  <1>26. s \in SUBSET Node
    BY <1>9, <1>25 DEF Users
  <1>27. /\ b \in Dict(Nat, SUBSET Node) /\ DOMAIN b = (DOMAIN w.delta_refs \ gone) \cup {ref} /\ b[ref] = s
         /\ \A q \in DOMAIN w.delta_refs \ gone : q # ref => b[q] = Users(w, q) \ {y}
    <2>1. left.reverse_deltas \in Dict(Nat, SUBSET Node)
      BY <1>13, ViewFields
    <2>2. b = Put(left.reverse_deltas, ref, s)
      BY <1>20, <1>24
    <2>3. b \in Dict(Nat, SUBSET Node)
      BY ONLY <1>6, <1>26, <2>1, <2>2, PutIsDict
    <2>4. \A q \in DOMAIN w.delta_refs \ gone : q # ref => b[q] = left.reverse_deltas[q]
      BY <1>13, <2>2 DEF Put
    <2> QED BY <1>13, <2>2, <2>3, <2>4 DEF Put
  <1>28. /\ r \in Views /\ r.deltas = a /\ r.reverse_deltas = b
         /\ r.delta_refs = left.delta_refs /\ r.reverse_delta_refs = left.reverse_delta_refs
    <2>1. left \in Views
      BY <1>13
    <2>2. a \in Dict(Node, [delta : Delta, ref : Nat])
      BY <1>23
    <2>3. b \in Dict(Nat, SUBSET Node)
      BY <1>27
    <2> QED BY ONLY <1>22, <2>1, <2>2, <2>3 DEF Views
  <1>29. ref \notin gone /\ DOMAIN r.delta_refs = (DOMAIN w.delta_refs \ gone) \cup {ref}
    <2>1. ref \notin gone
      BY <1>10 DEF Freed
    <2> QED BY <2>1, <1>6, <1>13, <1>28
  <1>30. \A q \in DOMAIN r.delta_refs : r.delta_refs[q] = made.delta_refs[q] /\ q \in DOMAIN made.delta_refs /\ q \notin gone
    BY <1>6, <1>13, <1>28, <1>29
  <1>31. ASSUME NEW x \in DOMAIN w.deltas, x # y
         PROVE  /\ a[x] = w.deltas[x] /\ w.deltas[x].ref \in DOMAIN r.delta_refs
                /\ r.delta_refs[w.deltas[x].ref] = w.delta_refs[w.deltas[x].ref]
    <2>1. PICK q : q = w.deltas[x].ref
      OBVIOUS
    <2>2. q \in DOMAIN w.delta_refs /\ x \in Users(w, q)
      BY <1>9, <2>1 DEF Users
    <2>3. q \notin gone
      BY <1>10, <1>31, <2>2 DEF Freed
    <2>4. q \in DOMAIN r.delta_refs /\ r.delta_refs[q] = w.delta_refs[q]
      BY <1>6, <1>29, <1>30, <2>2, <2>3
    <2> QED BY <1>23, <1>31, <2>1, <2>4
  <1>32. ref \in DOMAIN r.delta_refs /\ r.delta_refs[ref] = made.delta_refs[ref]
    BY <1>29, <1>30
  <1>33. DeltasExact(p, r)
    <2>1. ASSUME NEW h \in DOMAIN r.deltas
          PROVE  /\ r.deltas[h].ref \in DOMAIN r.delta_refs
                 /\ r.deltas[h].delta = Exact(p, h, r.delta_refs[r.deltas[h].ref].head)
                 /\ r.delta_refs[r.deltas[h].ref].head < h
      <3>1. CASE h = y
        BY <1>15, <1>16, <1>18, <1>23, <1>28, <1>32, <3>1
      <3>2. CASE h # y
        <4>1. h \in DOMAIN w.deltas
          BY <1>23, <1>28, <3>2
        <4>2. /\ w.deltas[h].delta = Exact(p, h, w.delta_refs[w.deltas[h].ref].head)
              /\ w.delta_refs[w.deltas[h].ref].head < h
          BY <1>1, <4>1 DEF DeltasExact
        <4> QED BY <1>28, <1>31, <3>2, <4>1, <4>2
      <3> QED BY <3>1, <3>2
    <2>2. ASSUME NEW q \in DOMAIN r.delta_refs
          PROVE  /\ r.delta_refs[q] = Exact(p, r.delta_refs[q].head, r.delta_refs[q].tail)
                 /\ r.delta_refs[q].head <= r.delta_refs[q].tail
      BY <1>7, <1>30
    <2> QED BY <2>1, <2>2 DEF DeltasExact
  <1>34. ASSUME NEW q \in DOMAIN r.delta_refs
         PROVE  r.reverse_deltas[q] = Users(r, q) /\ Users(r, q) # {}
    <2>1. \A h : h \in Users(r, q) <=> h \in DOMAIN a /\ a[h].ref = q
      BY <1>28 DEF Users
    <2>2. \A h : h \in Users(w, q) <=> h \in DOMAIN w.deltas /\ w.deltas[h].ref = q
      BY DEF Users
    <2>3. CASE q = ref
      <3>1. \A h : h \in Users(r, q) <=> h \in s
        BY <1>18, <1>23, <1>25, <2>1, <2>2, <2>3
      <3>2. r.reverse_deltas[q] = s /\ y \in s
        BY <1>25, <1>27, <1>28, <2>3
      <3> QED BY <3>1, <3>2
    <2>4. CASE q # ref
      <3>1. \A h : h \in Users(r, q) <=> h \in Users(w, q) \ {y}
        BY <1>18, <1>23, <2>1, <2>2, <2>4
      <3>2. q \in DOMAIN w.delta_refs \ gone
        BY <1>29, <2>4
      <3>3. r.reverse_deltas[q] = Users(w, q) \ {y}
        BY <1>27, <1>28, <2>4, <3>2
      <3>4. Users(w, q) # {}
        BY <1>1, <3>2 DEF RefsLinked
      <3>5. Users(w, q) \ {y} # {}
        <4>1. SUFFICES ASSUME Users(w, q) \ {y} = {} PROVE FALSE
          OBVIOUS
        <4>2. Users(w, q) = {y}
          BY <3>4, <4>1
        <4>3. y \in Users(w, q)
          BY <4>2
        <4> QED BY <1>10, <2>4, <3>2, <4>2, <4>3 DEF Freed
      <3> QED BY <3>1, <3>3, <3>5
    <2> QED BY <2>3, <2>4
  <1>35. ASSUME NEW q \in DOMAIN r.delta_refs
         PROVE  /\ r.delta_refs[q].tail \in DOMAIN r.reverse_delta_refs
                /\ r.reverse_delta_refs[r.delta_refs[q].tail] = q
    <2>1. PICK u : u = made.delta_refs[q].tail
      OBVIOUS
    <2>2. r.delta_refs[q].tail = u /\ u \in DOMAIN made.reverse_delta_refs /\ made.reverse_delta_refs[u] = q
      BY <1>7, <1>30, <2>1
    <2>3. u \notin bare
      <3>1. SUFFICES ASSUME u \in bare PROVE FALSE
        OBVIOUS
      <3>2. PICK g \in gone : u = made.delta_refs[g].tail
        BY <1>11, <3>1
      <3>3. g \in DOMAIN made.delta_refs
        BY <1>6, <1>10, <3>2 DEF Freed
      <3>4. g = q
        BY <1>7, <2>2, <3>2, <3>3
      <3> QED BY <1>30, <3>2, <3>4
    <2> QED BY <1>14, <1>28, <2>2, <2>3
  <1>36. ASSUME NEW u \in DOMAIN r.reverse_delta_refs
         PROVE  /\ r.reverse_delta_refs[u] \in DOMAIN r.delta_refs
                /\ r.delta_refs[r.reverse_delta_refs[u]].tail = u
    <2>1. u \in DOMAIN made.reverse_delta_refs /\ u \notin bare
      BY <1>14, <1>28
    <2>2. PICK q : q = made.reverse_delta_refs[u]
      OBVIOUS
    <2>3. q \in DOMAIN made.delta_refs /\ made.delta_refs[q].tail = u
      BY <1>8, <2>1, <2>2
    <2>4. q \notin gone
      BY <1>11, <2>1, <2>3
    <2>5. r.reverse_delta_refs[u] = q
      BY <1>14, <1>28, <2>1, <2>2
    <2>6. q \in DOMAIN r.delta_refs
      BY <1>13, <1>28, <2>3, <2>4
    <2> QED BY <1>30, <2>3, <2>5, <2>6
  <1>37. DOMAIN r.reverse_deltas = DOMAIN r.delta_refs
    BY <1>27, <1>28, <1>29
  <1>38. RefsLinked(r)
    BY ONLY <1>34, <1>35, <1>36, <1>37 DEF RefsLinked
  <1>39. IsFiniteSet(DOMAIN r.deltas) /\ DOMAIN r.deltas = DOMAIN w.deltas \cup {y}
    <2>1. DOMAIN r.deltas = DOMAIN w.deltas \cup {y}
      BY <1>23, <1>28
    <2>2. IsFiniteSet(DOMAIN w.deltas \cup {y})
      BY <1>1, FS_AddElement
    <2> QED BY <2>1, <2>2
  <1>40. Tail_(r, y) = t
    BY <1>6, <1>18, <1>23, <1>28, <1>32 DEF Tail_
  <1>41. ASSUME NEW x \in DOMAIN w.deltas, x # y PROVE Tail_(r, x) = Tail_(w, x)
    BY <1>28, <1>31, <1>41 DEF Tail_
  <1>42. MemoSound(p, r)
    BY ONLY <1>28, <1>33, <1>38, <1>39 DEF MemoSound
  <1> QED BY ONLY <1>21, <1>39, <1>40, <1>41, <1>42

\* The lists of stops of the walks that jump in I from each y down to n[y].
StopLists(I, n, c) ==
  /\ c = [y \in Node |-> c[y]]
  /\ \A y \in Node : c[y] = IF y \in I THEN <<y>> \o c[n[y]] ELSE <<>>

\* The recursion of the stops has a solution, since every jump leads to an older hash.
LEMMA StopsExist ==
  ASSUME NEW I, NEW n, \A y \in Node : y \in I => n[y] \in Node /\ n[y] < y
  PROVE  \E c : StopLists(I, n, c)
  <1> DEFINE Eq(f, z) == f[z] = IF z \in I THEN <<z>> \o f[n[z]] ELSE <<>>
             Part(f, x) == \A z \in Node : z <= x => Eq(f, z)
             F(x) == CHOOSE f : Part(f, x)
  <1>1. ASSUME NEW y \in Node, y \in I, NEW x \in Node, y <= x
        PROVE  n[y] \in Node /\ n[y] < y /\ n[y] <= y /\ n[y] # y /\ n[y] <= x /\ (y # x => n[y] < x /\ n[y] # x)
    <2>1. n[y] \in Node /\ n[y] < y
      BY <1>1
    <2>2. n[y] \in Nat /\ y \in Nat /\ x \in Nat
      BY <2>1, NodeIsNat
    <2> QED BY <1>1, <2>1, <2>2
  <1>2. \A z \in Node : z <= z
    BY NodeIsNat
  <1>3. ASSUME NEW x \in Node, NEW y \in Node, y <= x, NEW f, Part(f, x) PROVE Part(f, y)
    <2>1. ASSUME NEW z \in Node, z <= y PROVE z <= x
      BY <1>3, <2>1, NodeIsNat
    <2> HIDE DEF Eq
    <2> QED BY <1>3, <2>1
  <1>4. ASSUME NEW x \in Node, NEW f, NEW g, Part(f, x), Part(g, x) PROVE f[x] = g[x]
    <2> DEFINE S == {z \in Node : z <= x => f[z] = g[z]}
    <2>1. ASSUME NEW z \in Node, \A y \in Node : y < z => y \in S PROVE z \in S
      <3>1. SUFFICES ASSUME z <= x PROVE f[z] = g[z]
        OBVIOUS
      <3>2. Eq(f, z) /\ Eq(g, z)
        BY <1>4, <3>1
      <3>3. CASE z \in I
        <4>1. n[z] \in Node /\ n[z] < z /\ n[z] <= x
          BY <1>1, <3>1, <3>3
        <4>2. f[n[z]] = g[n[z]]
          BY <2>1, <4>1
        <4> QED BY <3>2, <3>3, <4>2
      <3>4. CASE z \notin I
        BY <3>2, <3>4
      <3> QED BY <3>3, <3>4
    <2>2. Node \subseteq S
      <3> HIDE DEF S
      <3> QED BY <2>1, NodeInduction
    <2>3. x <= x
      BY NodeIsNat
    <2> QED BY <2>2, <2>3
  <1> DEFINE S == {x \in Node : \E f : Part(f, x)}
  <1>5. ASSUME NEW x \in Node, \A y \in Node : y < x => y \in S PROVE x \in S
    <2> DEFINE g == [z \in Node |-> IF z = x THEN (IF x \in I THEN <<x>> \o F(n[x])[n[x]] ELSE <<>>)
                                    ELSE F(z)[z]]
    <2>1. ASSUME NEW y \in Node, y < x PROVE Part(F(y), y)
      <3>1. \E f : Part(f, y)
        BY <1>5, <2>1
      <3> HIDE DEF Part
      <3> QED BY <3>1
    <2> HIDE DEF F
    <2>2. ASSUME NEW z \in Node, z <= x PROVE Eq(g, z)
      <3>1. CASE z = x
        <4>1. CASE x \in I
          <5>1. n[x] \in Node /\ n[x] # x
            BY <1>1, <1>2, <4>1
          <5>2. g[n[x]] = F(n[x])[n[x]]
            BY <5>1
          <5> QED BY <3>1, <4>1, <5>2
        <4>2. CASE x \notin I
          BY <3>1, <4>2
        <4> QED BY <4>1, <4>2
      <3>2. CASE z # x
        <4>1. z < x /\ g[z] = F(z)[z] /\ z <= z
          BY <2>2, <3>2, NodeIsNat
        <4>2. Part(F(z), z)
          BY <2>1, <4>1
        <4>3. Eq(F(z), z)
          BY <4>1, <4>2
        <4>4. CASE z \in I
          <5>1. n[z] \in Node /\ n[z] < z /\ n[z] <= z /\ n[z] < x /\ n[z] # x
            BY <1>1, <1>2, <2>2, <3>2, <4>4
          <5>2. Part(F(n[z]), n[z])
            BY <2>1, <5>1
          <5>3. Part(F(z), n[z])
            <6> HIDE DEF Part
            <6> QED BY <1>3, <4>2, <5>1
          <5>4. F(z)[n[z]] = F(n[z])[n[z]]
            <6> HIDE DEF Part
            <6> QED BY <1>4, <5>1, <5>2, <5>3
          <5>5. g[n[z]] = F(n[z])[n[z]]
            BY <5>1
          <5> HIDE DEF g
          <5> QED BY <4>1, <4>3, <4>4, <5>4, <5>5
        <4>5. CASE z \notin I
          BY <4>1, <4>3, <4>5
        <4> QED BY <4>4, <4>5
      <3> QED BY <3>1, <3>2
    <2>3. Part(g, x)
      <3> HIDE DEF g, Eq
      <3> QED BY <2>2
    <2> HIDE DEF Part, g
    <2> QED BY <2>3
  <1>6. Node \subseteq S
    <2> HIDE DEF S
    <2> QED BY <1>5, NodeInduction
  <1>7. ASSUME NEW x \in Node PROVE Part(F(x), x)
    <2>1. \E f : Part(f, x)
      BY <1>6
    <2> HIDE DEF Part
    <2> QED BY <2>1
  <1> DEFINE c == [z \in Node |-> F(z)[z]]
  <1> HIDE DEF F
  <1>8. ASSUME NEW z \in Node PROVE c[z] = IF z \in I THEN <<z>> \o c[n[z]] ELSE <<>>
    <2>1. Eq(F(z), z)
      <3>1. z <= z
        BY NodeIsNat
      <3> QED BY <1>7, <3>1
    <2>2. CASE z \in I
      <3>1. n[z] \in Node /\ n[z] < z /\ n[z] <= z
        BY <1>1, <1>2, <2>2
      <3>2. Part(F(z), n[z]) /\ Part(F(n[z]), n[z])
        <4> HIDE DEF Part
        <4> QED BY <1>3, <1>7, <3>1
      <3>3. F(z)[n[z]] = F(n[z])[n[z]]
        <4> HIDE DEF Part
        <4> QED BY <1>4, <3>1, <3>2
      <3>4. c[n[z]] = F(n[z])[n[z]] /\ c[z] = F(z)[z]
        BY <3>1
      <3> HIDE DEF c
      <3> QED BY <2>1, <2>2, <3>3, <3>4
    <2>3. CASE z \notin I
      BY <2>1, <2>3
    <2> QED BY <2>2, <2>3
  <1>9. c = [y \in Node |-> c[y]]
    OBVIOUS
  <1> HIDE DEF c
  <1>10. StopLists(I, n, c)
    BY <1>8, <1>9 DEF StopLists
  <1> QED BY <1>10

\* The stops are shares the walk meets, the start among them.
LEMMA StopsAlong ==
  ASSUME NEW I, NEW p, IsForest(I, p), NEW n,
         \A y \in Node : y \in I => n[y] \in Node /\ n[y] < y,
         NEW c, StopLists(I, n, c), NEW x \in Node
  PROVE  /\ c[x] \in Seq(I)
         /\ x \in I => Len(c[x]) \in Nat \ {0} /\ c[x][1] = x
  <1>1. \A z \in Node : c[z] = IF z \in I THEN <<z>> \o c[n[z]] ELSE <<>>
    BY DEF StopLists
  <1> DEFINE S == {z \in Node : c[z] \in Seq(I)}
  <1>2. ASSUME NEW z \in Node, \A y \in Node : y < z => y \in S PROVE z \in S
    <2>1. CASE z \in I
      <3>1. n[z] \in Node /\ n[z] < z
        BY <2>1
      <3>2. c[n[z]] \in Seq(I)
        BY <1>2, <3>1
      <3>3. c[z] = <<z>> \o c[n[z]]
        BY <1>1, <2>1
      <3>4. PICK s : s = c[n[z]]
        OBVIOUS
      <3>5. <<z>> \o s \in Seq(I)
        BY <2>1, <3>2, <3>4
      <3> QED BY <3>3, <3>4, <3>5
    <2>2. CASE z \notin I
      <3>1. c[z] = <<>>
        BY <1>1, <2>2
      <3>2. <<>> \in Seq(I)
        OBVIOUS
      <3> QED BY <3>1, <3>2
    <2> QED BY <2>1, <2>2
  <1>3. Node \subseteq S
    <2> HIDE DEF S
    <2> QED BY <1>2, NodeInduction
  <1>4. ASSUME x \in I PROVE Len(c[x]) \in Nat \ {0} /\ c[x][1] = x
    <2>1. c[x] = <<x>> \o c[n[x]]
      BY <1>1, <1>4
    <2>2. c[n[x]] \in Seq(I)
      BY <1>3, <1>4
    <2> QED BY <1>4, <2>1, <2>2
  <1> QED BY <1>3, <1>4

-----------------------------------------------------------------------------
\* The memo of a forest: what is cached is cached down a path of present shares.
Good(I, p, v) ==
  /\ MemoSound(p, v)
  /\ DOMAIN v.deltas \subseteq I
  /\ \A x \in DOMAIN v.deltas : Tail_(v, x) \in Chain(I, p)[x] /\ Tail_(v, x) # x

\* z is cached down to the end of its chain.
Low(I, p, w, z) == z \in DOMAIN w.deltas /\ Tail_(w, z) = Last(I, p, z)

\* From v to w, shares were only cached, or cached deeper, down to the ends of their chains.
Lowers(I, p, v, w) ==
  /\ Good(I, p, w)
  /\ DOMAIN v.deltas \subseteq DOMAIN w.deltas
  /\ \A z \in DOMAIN w.deltas : Low(I, p, w, z) \/ (z \in DOMAIN v.deltas /\ Tail_(w, z) = Tail_(v, z))

\* Nothing lowered.
LEMMA LowersSelf ==
  ASSUME NEW I, NEW p, NEW v, Good(I, p, v) PROVE Lowers(I, p, v, v)
  BY DEF Lowers

\* A share that is down to the end of its chain stays there.
LEMMA LowStays ==
  ASSUME NEW I, NEW p, NEW v, NEW w, Lowers(I, p, v, w), NEW z, Low(I, p, v, z)
  PROVE  Low(I, p, w, z)
  BY DEF Lowers, Low

\* Lowered twice.
LEMMA LowersTrans ==
  ASSUME NEW I, NEW p, NEW u, NEW v, NEW w, Lowers(I, p, u, v), Lowers(I, p, v, w)
  PROVE  Lowers(I, p, u, w)
  <1>1. ASSUME NEW z \in DOMAIN w.deltas
        PROVE  Low(I, p, w, z) \/ (z \in DOMAIN u.deltas /\ Tail_(w, z) = Tail_(u, z))
    <2>1. CASE z \in DOMAIN v.deltas /\ Tail_(w, z) = Tail_(v, z)
      <3>1. Low(I, p, v, z) \/ (z \in DOMAIN u.deltas /\ Tail_(v, z) = Tail_(u, z))
        BY <2>1 DEF Lowers
      <3> QED BY <2>1, <3>1, LowStays
    <2> QED BY <2>1 DEF Lowers
  <1> QED BY <1>1 DEF Lowers

\* A sequence of views, each made from the one before by lowering one more share.
LEMMA LowersAlong ==
  ASSUME NEW I, NEW p, NEW n \in Nat, NEW f, NEW seq, Good(I, p, f[0]),
         \A k \in 1 .. n : Good(I, p, f[k - 1]) => Lowers(I, p, f[k - 1], f[k]) /\ Low(I, p, f[k], seq[k])
  PROVE  Lowers(I, p, f[0], f[n]) /\ \A k \in 1 .. n : Low(I, p, f[n], seq[k])
  <1> DEFINE Done(i) == Lowers(I, p, f[0], f[i]) /\ \A k \in 1 .. i : Low(I, p, f[i], seq[k])
             T == {i \in 0 .. n : Done(i)}
  <1>1. 0 \in T
    BY LowersSelf
  <1>2. ASSUME NEW i \in 1 .. n, i - 1 \in T PROVE i \in T
    <2>1. Done(i - 1)
      BY <1>2
    <2>2. Good(I, p, f[i - 1])
      BY <2>1 DEF Lowers
    <2>3. Lowers(I, p, f[i - 1], f[i]) /\ Low(I, p, f[i], seq[i])
      BY <2>2
    <2>4. Lowers(I, p, f[0], f[i])
      BY <2>1, <2>3, LowersTrans
    <2>5. ASSUME NEW k \in 1 .. i PROVE Low(I, p, f[i], seq[k])
      <3>1. CASE k = i
        BY <2>3, <3>1
      <3>2. CASE k # i
        <4>1. k \in 1 .. (i - 1)
          BY <3>2
        <4> QED BY <2>1, <2>3, <4>1, LowStays
      <3> QED BY <3>1, <3>2
    <2> QED BY <2>4, <2>5
  <1>3. n \in T
    <2> HIDE DEF T
    <2>1. \A i \in 1 .. n : i - 1 \in T => i \in T
      BY <1>2
    <2>2. \A i \in 0 .. n : i \in T
      BY <1>1, <2>1, UpTo
    <2> QED BY <2>2
  <1> QED BY <1>3

\* Where the walk from a present share ends.
LEMMA LastBelow ==
  ASSUME NEW I, NEW p, IsForest(I, p), NEW y \in I
  PROVE  /\ y \in Node /\ y \in Hash /\ Last(I, p, y) \in Node /\ Last(I, p, y) < y /\ Last(I, p, y) \notin I
         /\ Last(I, p, y) \in Chain(I, p)[y] /\ Last(I, p, y) # y
  <1>1. y \in Hash /\ y \in Node
    BY DEF IsForest, Node
  <1>2. Last(I, p, y) \in Chain(I, p)[y] /\ Last(I, p, y) \notin I
    BY <1>1, LastIsAbsent
  <1>3. Last(I, p, y) \in Node /\ Last(I, p, y) <= y
    BY <1>1, <1>2, ChainBelow
  <1>4. Last(I, p, y) # y
    BY <1>2
  <1>5. Last(I, p, y) \in Nat /\ y \in Nat
    BY <1>1, <1>3, NodeIsNat
  <1> QED BY <1>1, <1>2, <1>3, <1>4, <1>5

\* What is cached for a share, or its own delta: an exact path to a hash its walk meets.
LEMMA GetDelta ==
  ASSUME IsForest(items, previous_hash), NEW v, Good(items, previous_hash, v), NEW y \in items
  PROVE  LET d == _get_delta(v, y)
         IN /\ d = Exact(previous_hash, y, d.tail)
            /\ d.tail \in Node /\ d.tail < y /\ d.tail # y /\ d.tail \in Chain(items, previous_hash)[y]
  <1> DEFINE p == previous_hash
  <1>1. p \in Previous /\ y \in Hash /\ y \in Node /\ y \in Nat
    BY NodeIsNat DEF IsForest, Node
  <1>2. CASE y \in DOMAIN v.deltas
    <2>1. MemoSound(p, v) /\ Tail_(v, y) \in Chain(items, p)[y] /\ Tail_(v, y) # y
      BY <1>2 DEF Good
    <2>2. v \in Views /\ DeltasExact(p, v)
      BY <2>1 DEF MemoSound
    <2>3. PICK r : r = v.deltas[y].ref
      OBVIOUS
    <2>4. PICK hd, t : hd = v.delta_refs[r].head /\ t = v.delta_refs[r].tail
      OBVIOUS
    <2>5. r \in DOMAIN v.delta_refs /\ v.deltas[y].delta = Exact(p, y, hd) /\ v.delta_refs[r] = Exact(p, hd, t)
      BY <1>2, <2>2, <2>3, <2>4 DEF DeltasExact
    <2>6. hd \in Node /\ t \in Node
      <3>1. v.delta_refs \in Dict(Nat, Delta)
        BY <2>2, ViewFields
      <3>2. v.delta_refs[r] \in Delta
        BY <2>5, <3>1, DictFacts
      <3> QED BY <2>4, <3>2 DEF Delta
    <2>7. _get_delta(v, y) = Plus(Exact(p, y, hd), Exact(p, hd, t))
      BY <1>2, <2>3, <2>5 DEF _get_delta
    <2>8. _get_delta(v, y) = Exact(p, y, t)
      BY <1>1, <2>6, <2>7, PlusIsExact
    <2>9. t = Tail_(v, y)
      BY <2>3, <2>4 DEF Tail_
    <2>10. t <= y /\ t # y /\ t \in Nat /\ t \in Chain(items, p)[y]
      BY <1>1, <2>1, <2>6, <2>9, ChainBelow, NodeIsNat
    <2>11. Exact(p, y, t).tail = t
      BY DEF Exact
    <2> QED BY <1>1, <2>6, <2>8, <2>10, <2>11
  <1>3. CASE y \notin DOMAIN v.deltas
    <2>1. _get_delta(v, y) = Exact(p, y, p[y])
      BY <1>1, <1>3, ElementIsExact DEF _get_delta
    <2>2. p[y] \in Node /\ p[y] < y /\ p[y] # y
      BY <1>1, PreviousIsEarlier
    <2>3. p[y] \in Chain(items, p)[y]
      <3>1. p[y] \in Chain(items, p)[p[y]]
        BY <2>2, ChainEq
      <3> QED BY <1>1, <3>1, ChainEq
    <2>4. Exact(p, y, p[y]).tail = p[y]
      BY DEF Exact
    <2> QED BY <2>1, <2>2, <2>3, <2>4
  <1> QED BY <1>2, <1>3

\* Caching one share down to the end of its chain.
LEMMA SetDeltaLowers ==
  ASSUME NEW I, NEW p, IsForest(I, p), NEW v, Good(I, p, v), NEW y \in I
  PROVE  LET w == _set_delta(v, y, Exact(p, y, Last(I, p, y)))
         IN Lowers(I, p, v, w) /\ Low(I, p, w, y)
  <1>1. PICK t : t = Last(I, p, y)
    OBVIOUS
  <1>2. p \in Previous /\ y \in Node /\ t \in Node /\ t < y /\ t \in Chain(I, p)[y] /\ t # y
    BY <1>1, LastBelow DEF IsForest
  <1>3. PICK w : w = _set_delta(v, y, Exact(p, y, t))
    OBVIOUS
  <1>4. /\ MemoSound(p, w)
        /\ DOMAIN w.deltas = DOMAIN v.deltas \cup {y}
        /\ Tail_(w, y) = t
        /\ \A x \in DOMAIN v.deltas : x # y => Tail_(w, x) = Tail_(v, x)
    <2>1. MemoSound(p, v)
      BY DEF Good
    <2> QED BY <1>2, <1>3, <2>1, SetDeltaSound
  <1>5. ASSUME NEW x \in DOMAIN w.deltas
        PROVE  /\ Tail_(w, x) \in Chain(I, p)[x] /\ Tail_(w, x) # x
               /\ Low(I, p, w, x) \/ (x \in DOMAIN v.deltas /\ Tail_(w, x) = Tail_(v, x))
    <2>1. CASE x = y
      BY <1>1, <1>2, <1>4, <2>1 DEF Low
    <2>2. CASE x # y
      BY <1>4, <2>2 DEF Good
    <2> QED BY <2>1, <2>2
  <1>6. Good(I, p, w)
    BY <1>4, <1>5 DEF Good
  <1>7. Lowers(I, p, v, w)
    BY <1>4, <1>5, <1>6 DEF Lowers
  <1>8. Low(I, p, w, y)
    BY <1>1, <1>4 DEF Low
  <1> QED BY <1>1, <1>3, <1>7, <1>8

\* The sums of the walk, as get_delta_to_last computes them.
IsRest(v, f) ==
  f = [y \in Node |-> IF y \in items THEN Plus(_get_delta(v, y), f[_get_delta(v, y).tail]) ELSE none(y)]

IsStops(v, f) ==
  f = [y \in Node |-> IF y \in items THEN <<y>> \o f[_get_delta(v, y).tail] ELSE <<>>]

\* The walk ends where the chain does, with the depth and the weight between.
LEMMA RestIs ==
  ASSUME IsForest(items, previous_hash), NEW v, Good(items, previous_hash, v)
  PROVE  /\ \E f : IsRest(v, f)
         /\ \A f : IsRest(v, f) => \A y \in Node : f[y] = Exact(previous_hash, y, Last(items, previous_hash, y))
  <1> DEFINE p == previous_hash
             L(y) == Last(items, p, y)
             c == [y \in Node |-> Exact(p, y, L(y))]
  <1>1. p \in Previous
    BY DEF IsForest
  <1>2. ASSUME NEW y \in items
        PROVE  LET t == _get_delta(v, y).tail
               IN /\ t \in Node /\ t < y /\ y \in Node
                  /\ Plus(_get_delta(v, y), Exact(p, t, L(t))) = Exact(p, y, L(y))
    <2>1. PICK t : t = _get_delta(v, y).tail
      OBVIOUS
    <2>2. /\ _get_delta(v, y) = Exact(p, y, t)
          /\ t \in Node /\ t < y /\ t \in Chain(items, p)[y]
      BY <2>1, GetDelta
    <2>3. y \in Node /\ L(y) \in Node
      BY LastBelow
    <2>4. L(t) = L(y)
      BY <2>2, <2>3, LastAlong
    <2>5. Plus(Exact(p, y, t), Exact(p, t, L(y))) = Exact(p, y, L(y))
      BY <1>1, <2>2, <2>3, PlusIsExact
    <2> QED BY <2>1, <2>2, <2>3, <2>4, <2>5
  <1>3. ASSUME NEW y \in Node, y \notin items PROVE none(y) = Exact(p, y, L(y))
    <2>1. L(y) = y
      BY <1>3, LastEq
    <2> QED BY <1>1, <2>1, ExactType
  <1>4. IsRest(v, c)
    <2>1. ASSUME NEW y \in Node
          PROVE  c[y] = IF y \in items THEN Plus(_get_delta(v, y), c[_get_delta(v, y).tail]) ELSE none(y)
      <3>1. CASE y \in items
        <4>1. _get_delta(v, y).tail \in Node
          BY <1>2, <3>1
        <4>2. c[_get_delta(v, y).tail] = Exact(p, _get_delta(v, y).tail, L(_get_delta(v, y).tail))
          BY <4>1
        <4> QED BY <1>2, <3>1, <4>2
      <3>2. CASE y \notin items
        BY <1>3, <3>2
      <3> QED BY <3>1, <3>2
    <2>2. c = [y \in Node |-> c[y]]
      OBVIOUS
    <2> HIDE DEF c
    <2> QED BY <2>1, <2>2 DEF IsRest
  <1>5. ASSUME NEW f, IsRest(v, f), NEW x \in Node PROVE f[x] = Exact(p, x, L(x))
    <2> DEFINE S == {y \in Node : f[y] = Exact(p, y, L(y))}
               e == [y \in Node |-> IF y \in items THEN Plus(_get_delta(v, y), f[_get_delta(v, y).tail]) ELSE none(y)]
    <2>0. f = e
      BY <1>5 DEF IsRest
    <2>1. ASSUME NEW y \in Node
          PROVE  f[y] = IF y \in items THEN Plus(_get_delta(v, y), f[_get_delta(v, y).tail]) ELSE none(y)
      <3>1. e[y] = IF y \in items THEN Plus(_get_delta(v, y), f[_get_delta(v, y).tail]) ELSE none(y)
        OBVIOUS
      <3> HIDE DEF e
      <3> QED BY <2>0, <3>1
    <2> HIDE DEF e
    <2>2. ASSUME NEW y \in Node, \A z \in Node : z < y => z \in S PROVE y \in S
      <3>1. CASE y \in items
        BY <1>2, <2>1, <2>2, <3>1
      <3>2. CASE y \notin items
        BY <1>3, <2>1, <3>2
      <3> QED BY <3>1, <3>2
    <2>3. Node \subseteq S
      <3> HIDE DEF S
      <3> QED BY <2>2, NodeInduction
    <2> QED BY <2>3
  <1>6. \E f : IsRest(v, f)
    <2> HIDE DEF c
    <2> QED BY <1>4
  <1> QED BY <1>5, <1>6

\* The stops get_delta_to_last caches are shares of the walk, the first of them its start.
LEMMA StopsAre ==
  ASSUME IsForest(items, previous_hash), NEW v, Good(items, previous_hash, v), NEW x \in Node
  PROVE  /\ \E f : IsStops(v, f)
         /\ \A f : IsStops(v, f) =>
              /\ f[x] \in Seq(items)
              /\ x \in items => Len(f[x]) \in Nat \ {0} /\ f[x][1] = x
  <1>1. PICK n : n = [y \in Node |-> _get_delta(v, y).tail]
    OBVIOUS
  <1>2. ASSUME NEW y \in Node, y \in items PROVE n[y] \in Node /\ n[y] < y
    BY <1>1, <1>2, GetDelta
  <1>3. ASSUME NEW f PROVE IsStops(v, f) <=> StopLists(items, n, f)
    <2> DEFINE e == [y \in Node |-> IF y \in items THEN <<y>> \o f[_get_delta(v, y).tail] ELSE <<>>]
    <2>1. e = [y \in Node |-> e[y]] /\ DOMAIN e = Node
      OBVIOUS
    <2>2. \A y \in Node : e[y] = IF y \in items THEN <<y>> \o f[n[y]] ELSE <<>>
      BY <1>1
    <2>3. IsStops(v, f) <=> f = e
      BY DEF IsStops
    <2> HIDE DEF e
    <2>4. f = e => StopLists(items, n, f)
      BY <2>1, <2>2 DEF StopLists
    <2>5. ASSUME StopLists(items, n, f) PROVE f = e
      <3>1. f = [y \in Node |-> f[y]] /\ \A y \in Node : f[y] = e[y]
        BY <2>2, <2>5 DEF StopLists
      <3> QED BY <2>1, <3>1
    <2> QED BY <2>3, <2>4, <2>5
  <1>4. PICK c : StopLists(items, n, c)
    <2>1. \A y \in Node : y \in items => n[y] \in Node /\ n[y] < y
      BY <1>2
    <2> QED BY ONLY <2>1, StopsExist
  <1>5. \E f : IsStops(v, f)
    BY <1>3, <1>4
  <1>6. ASSUME NEW f, IsStops(v, f)
        PROVE  /\ f[x] \in Seq(items)
               /\ x \in items => Len(f[x]) \in Nat \ {0} /\ f[x][1] = x
    <2>1. StopLists(items, n, f)
      BY <1>3, <1>6
    <2>2. \A y \in Node : y \in items => n[y] \in Node /\ n[y] < y
      BY <1>2
    <2> QED BY ONLY <2>1, <2>2, IsForest(items, previous_hash), x \in Node, StopsAlong
  <1> QED BY <1>5, <1>6

\* get_delta_to_last: the answer, and the memo it leaves.
LEMMA DeltaToLast ==
  ASSUME IsForest(items, previous_hash), NEW v, Good(items, previous_hash, v), NEW x \in Node
  PROVE  LET got == get_delta_to_last(v, x)
         IN /\ got.delta = Exact(previous_hash, x, Last(items, previous_hash, x))
            /\ Lowers(items, previous_hash, v, got.view)
            /\ x \in items => Low(items, previous_hash, got.view, x)
  <1> DEFINE p == previous_hash
             rest == CHOOSE f : IsRest(v, f)
             stops == CHOOSE f : IsStops(v, f)
             order == stops[x]
             To(r, y) == _set_delta(r, y, rest[y])
             R == {w \in Views : Good(items, p, w)}
             step == [q \in R \X items |-> To(q[1], q[2])]
  <1>1. get_delta_to_last(v, x) = [delta |-> rest[x], view |-> Sq!FoldLeft(To, v, order)]
    BY DEF get_delta_to_last, IsRest, IsStops
  <1>2. IsRest(v, rest)
    BY RestIs
  <1>3. IsStops(v, stops)
    BY StopsAre
  <1> HIDE DEF rest, stops
  <1>4. \A y \in Node : rest[y] = Exact(p, y, Last(items, p, y))
    BY <1>2, RestIs
  <1>5. order \in Seq(items) /\ (x \in items => Len(order) \in Nat \ {0} /\ order[1] = x)
    BY <1>3, StopsAre
  <1> HIDE DEF order
  <1>6. ASSUME NEW r \in R, NEW y \in items
        PROVE  To(r, y) \in R /\ Lowers(items, p, r, To(r, y)) /\ Low(items, p, To(r, y), y)
    <2>1. To(r, y) = _set_delta(r, y, Exact(p, y, Last(items, p, y)))
      BY <1>4, LastBelow
    <2> HIDE DEF To
    <2>2. Lowers(items, p, r, To(r, y)) /\ Low(items, p, To(r, y), y)
      BY <2>1, SetDeltaLowers
    <2> QED BY <2>2 DEF Lowers, Good, MemoSound
  <1>7. step \in [R \X items -> R]
    <2> HIDE DEF R, To
    <2> QED BY <1>6
  <1>8. ASSUME NEW r \in R, NEW y \in items PROVE step[r, y] = To(r, y)
    <2> HIDE DEF R, To
    <2> QED OBVIOUS
  <1>9. order \in Seq(items) /\ DOMAIN order = 1 .. Len(order) /\ Len(order) \in Nat
        /\ \A i \in DOMAIN order : order[i] \in items
    BY <1>5
  <1>10. v \in R
    BY DEF Good, MemoSound
  <1> HIDE DEF R, To
  <1>11. ASSUME NEW u \in SUBSET DOMAIN order, u # {}
        PROVE  Sq!Max(u) = Top(u) /\ Top(u) \in DOMAIN order /\ u \ {Top(u)} \in SUBSET DOMAIN order
    <2>1. Sq!Max(u) = Top(u)
      BY DEF Sq!Max, Top
    <2> QED BY <1>9, <1>11, <2>1, TopOfIndices
  <1> DEFINE Is(g) == g = [u \in SUBSET DOMAIN order |->
                             IF u = {} THEN v
                             ELSE To(g[u \ {Sq!Max(u)}], order[Sq!Max(u)])]
             G == CHOOSE g : Is(g)
  <1>12. Sq!FoldLeft(To, v, order) = G[DOMAIN order]
    BY DEF Sq!FoldLeft, Sq!MapThenFoldSet, To
  <1>13. Is(G)
    <2>1. PICK g \in [SUBSET DOMAIN order -> R] : Folds(g, step, v, order)
      <3> HIDE DEF step
      <3> QED BY <1>7, <1>9, <1>10, FoldExists
    <2>2. ASSUME NEW u \in SUBSET DOMAIN order
          PROVE  g[u] = IF u = {} THEN v ELSE To(g[u \ {Sq!Max(u)}], order[Sq!Max(u)])
      <3>1. CASE u = {}
        BY <2>1, <3>1 DEF Folds
      <3>2. CASE u # {}
        <4>1. g[u] = step[g[u \ {Top(u)}], order[Top(u)]]
          BY <2>1, <3>2 DEF Folds
        <4> HIDE DEF step
        <4> QED BY <1>8, <1>9, <1>11, <3>2, <4>1
      <3> QED BY <3>1, <3>2
    <2>3. g = [u \in SUBSET DOMAIN order |-> g[u]]
      OBVIOUS
    <2>4. Is(g)
      BY <2>2, <2>3
    <2> HIDE DEF Is
    <2> QED BY <2>4
  <1>14. FoldsIn(R, G, step, v, order)
    <2>1. ASSUME NEW u \in SUBSET DOMAIN order
          PROVE  G[u] = IF u = {} THEN v ELSE To(G[u \ {Sq!Max(u)}], order[Sq!Max(u)])
      <3> HIDE DEF G
      <3> QED BY <1>13
    <2> HIDE DEF G
    <2>2. G[{}] = v
      BY <2>1
    <2>3. ASSUME NEW u \in SUBSET DOMAIN order, u # {}, G[u \ {Top(u)}] \in R
          PROVE  G[u] = step[G[u \ {Top(u)}], order[Top(u)]]
      <3>1. G[u] = To(G[u \ {Top(u)}], order[Top(u)])
        BY <1>11, <2>1, <2>3
      <3> HIDE DEF step
      <3> QED BY <1>8, <1>9, <1>11, <2>3, <3>1
    <2> HIDE DEF step
    <2> QED BY <2>2, <2>3 DEF FoldsIn
  <1> HIDE DEF G, step
  <1>15. PICK f : Along(f, R, G, step, v, order)
    BY <1>7, <1>9, <1>10, <1>14, FoldSteps
  <1>16. f[0] = v /\ Sq!FoldLeft(To, v, order) = f[Len(order)] /\ \A i \in 0 .. Len(order) : f[i] \in R
    BY <1>12, <1>15 DEF Along
  <1>17. ASSUME NEW i \in 1 .. Len(order)
         PROVE  Lowers(items, p, f[i - 1], f[i]) /\ Low(items, p, f[i], order[i])
    <2>1. f[i] = step[f[i - 1], order[i]] /\ f[i - 1] \in R /\ order[i] \in items
      <3>1. f[i] = step[f[i - 1], order[i]]
        BY <1>15 DEF Along
      <3>2. i - 1 \in 0 .. Len(order) /\ i \in DOMAIN order
        BY <1>9
      <3> QED BY <1>9, <1>16, <3>1, <3>2
    <2> QED BY <1>6, <1>8, <2>1
  <1>18. Good(items, p, f[0])
    BY <1>16
  <1>19. Lowers(items, p, f[0], f[Len(order)]) /\ \A i \in 1 .. Len(order) : Low(items, p, f[Len(order)], order[i])
    BY <1>9, <1>17, <1>18, LowersAlong
  <1>20. PICK w : w = f[Len(order)]
    OBVIOUS
  <1>21. Lowers(items, p, v, w) /\ (x \in items => Low(items, p, w, x))
    <2>1. ASSUME x \in items PROVE Low(items, p, w, x)
      <3>1. 1 \in 1 .. Len(order) /\ order[1] = x
        BY <1>5, <2>1
      <3> QED BY <1>19, <1>20, <3>1
    <2> QED BY <1>16, <1>19, <1>20, <2>1
  <1> QED BY <1>16, <1>20, <1>21, <1>1, <1>4

\* w is v without the shares X, and without the references only they used.
Forgets(v, X, w) ==
  LET gone == {r \in DOMAIN v.delta_refs : Users(v, r) \subseteq X}
      bare == {v.delta_refs[r].tail : r \in gone}
  IN /\ DOMAIN w.deltas = DOMAIN v.deltas \ X
     /\ \A x \in DOMAIN w.deltas : w.deltas[x] = v.deltas[x]
     /\ DOMAIN w.reverse_deltas = DOMAIN v.delta_refs \ gone
     /\ \A r \in DOMAIN w.reverse_deltas : w.reverse_deltas[r] = Users(v, r) \ X
     /\ DOMAIN w.delta_refs = DOMAIN v.delta_refs \ gone
     /\ \A r \in DOMAIN w.delta_refs : w.delta_refs[r] = v.delta_refs[r]
     /\ DOMAIN w.reverse_delta_refs = DOMAIN v.reverse_delta_refs \ bare
     /\ \A t \in DOMAIN w.reverse_delta_refs : w.reverse_delta_refs[t] = v.reverse_delta_refs[t]

\* Forgetting shares leaves the rest of the memo true, each share with the tail it had.
LEMMA ForgetSound ==
  ASSUME NEW p, NEW v, MemoSound(p, v), NEW X, NEW w \in Views, Forgets(v, X, w)
  PROVE  /\ MemoSound(p, w)
         /\ DOMAIN w.deltas = DOMAIN v.deltas \ X
         /\ \A x \in DOMAIN w.deltas : Tail_(w, x) = Tail_(v, x)
  <1>1. v \in Views /\ IsFiniteSet(DOMAIN v.deltas) /\ DeltasExact(p, v) /\ RefsLinked(v)
    BY DEF MemoSound
  <1>2. PICK gone : gone = {r \in DOMAIN v.delta_refs : Users(v, r) \subseteq X}
    OBVIOUS
  <1>3. PICK bare : bare = {v.delta_refs[r].tail : r \in gone}
    OBVIOUS
  <1>4. /\ DOMAIN w.deltas = DOMAIN v.deltas \ X
        /\ \A x \in DOMAIN w.deltas : w.deltas[x] = v.deltas[x]
        /\ DOMAIN w.reverse_deltas = DOMAIN v.delta_refs \ gone
        /\ \A r \in DOMAIN w.reverse_deltas : w.reverse_deltas[r] = Users(v, r) \ X
        /\ DOMAIN w.delta_refs = DOMAIN v.delta_refs \ gone
        /\ \A r \in DOMAIN w.delta_refs : w.delta_refs[r] = v.delta_refs[r]
    BY <1>2 DEF Forgets
  <1>5. /\ DOMAIN w.reverse_delta_refs = DOMAIN v.reverse_delta_refs \ bare
        /\ \A t \in DOMAIN w.reverse_delta_refs : w.reverse_delta_refs[t] = v.reverse_delta_refs[t]
    BY <1>2, <1>3 DEF Forgets
  <1>6. ASSUME NEW x \in DOMAIN w.deltas
        PROVE  /\ x \in DOMAIN v.deltas /\ w.deltas[x] = v.deltas[x] /\ v.deltas[x].ref \in DOMAIN w.delta_refs
               /\ w.delta_refs[v.deltas[x].ref] = v.delta_refs[v.deltas[x].ref]
    <2>1. PICK r : r = v.deltas[x].ref
      OBVIOUS
    <2>2. x \in DOMAIN v.deltas /\ x \notin X /\ w.deltas[x] = v.deltas[x]
      BY <1>4
    <2>3. r \in DOMAIN v.delta_refs
      BY <1>1, <2>1, <2>2 DEF DeltasExact
    <2>4. x \in Users(v, r)
      BY <2>1, <2>2 DEF Users
    <2>5. r \notin gone
      BY <1>2, <2>2, <2>4
    <2> QED BY <1>4, <2>1, <2>2, <2>3, <2>5
  <1>7. DeltasExact(p, w)
    <2>1. ASSUME NEW x \in DOMAIN w.deltas
          PROVE  /\ w.deltas[x].ref \in DOMAIN w.delta_refs
                 /\ w.deltas[x].delta = Exact(p, x, w.delta_refs[w.deltas[x].ref].head)
                 /\ w.delta_refs[w.deltas[x].ref].head < x
      BY <1>1, <1>6 DEF DeltasExact
    <2>2. ASSUME NEW r \in DOMAIN w.delta_refs
          PROVE  /\ w.delta_refs[r] = Exact(p, w.delta_refs[r].head, w.delta_refs[r].tail)
                 /\ w.delta_refs[r].head <= w.delta_refs[r].tail
      <3>1. r \in DOMAIN v.delta_refs /\ w.delta_refs[r] = v.delta_refs[r]
        BY <1>4
      <3> QED BY <1>1, <3>1 DEF DeltasExact
    <2> QED BY <2>1, <2>2 DEF DeltasExact
  <1>8. ASSUME NEW r \in DOMAIN w.delta_refs
        PROVE  /\ w.reverse_deltas[r] = Users(w, r) /\ Users(w, r) # {}
               /\ w.delta_refs[r].tail \in DOMAIN w.reverse_delta_refs
               /\ w.reverse_delta_refs[w.delta_refs[r].tail] = r
    <2>1. r \in DOMAIN v.delta_refs /\ r \notin gone /\ w.delta_refs[r] = v.delta_refs[r]
          /\ w.reverse_deltas[r] = Users(v, r) \ X
      BY <1>4
    <2>2. \A x : x \in Users(w, r) <=> x \in Users(v, r) \ X
      BY <1>4 DEF Users
    <2>3. \E x : x \in Users(v, r) \ X
      BY <1>2, <2>1
    <2>4. PICK t : t = v.delta_refs[r].tail
      OBVIOUS
    <2>5. t \in DOMAIN v.reverse_delta_refs /\ v.reverse_delta_refs[t] = r
      BY <1>1, <2>1, <2>4 DEF RefsLinked
    <2>6. t \notin bare
      <3>1. SUFFICES ASSUME NEW q \in gone, t = v.delta_refs[q].tail PROVE FALSE
        BY <1>3
      <3>2. v.reverse_delta_refs[t] = q
        BY <1>1, <1>2, <3>1 DEF RefsLinked
      <3> QED BY <2>1, <2>5, <3>1, <3>2
    <2> QED BY <1>5, <2>1, <2>2, <2>3, <2>4, <2>5, <2>6
  <1>9. ASSUME NEW t \in DOMAIN w.reverse_delta_refs
        PROVE  w.reverse_delta_refs[t] \in DOMAIN w.delta_refs /\ w.delta_refs[w.reverse_delta_refs[t]].tail = t
    <2>1. PICK r : r = v.reverse_delta_refs[t]
      OBVIOUS
    <2>2. r \in DOMAIN v.delta_refs /\ v.delta_refs[r].tail = t
      BY <1>1, <1>5, <2>1 DEF RefsLinked
    <2>3. r \notin gone
      BY <1>3, <1>5, <2>2
    <2> QED BY <1>4, <1>5, <2>1, <2>2, <2>3
  <1>10. RefsLinked(w)
    BY <1>4, <1>8, <1>9 DEF RefsLinked
  <1>11. IsFiniteSet(DOMAIN w.deltas)
    BY <1>1, <1>4, FS_Subset
  <1>12. MemoSound(p, w)
    BY <1>7, <1>10, <1>11 DEF MemoSound
  <1>13. ASSUME NEW x \in DOMAIN w.deltas PROVE Tail_(w, x) = Tail_(v, x)
    BY <1>6 DEF Tail_
  <1> QED BY <1>4, <1>12, <1>13

\* The event of a removed share.
LEMMA HandleRemoved ==
  ASSUME NEW p, NEW v, MemoSound(p, v), NEW h
  PROVE  LET w == _handle_removed(v, h)
         IN /\ MemoSound(p, w)
            /\ DOMAIN w.deltas = DOMAIN v.deltas \ {h}
            /\ \A x \in DOMAIN w.deltas : Tail_(w, x) = Tail_(v, x)
  <1>1. v \in Views /\ DeltasExact(p, v) /\ RefsLinked(v)
    BY DEF MemoSound
  <1>2. PICK w : w = _handle_removed(v, h)
    OBVIOUS
  <1>3. CASE h \notin DOMAIN v.deltas
    <2>1. w = v
      BY <1>2, <1>3 DEF _handle_removed
    <2> QED BY <1>2, <1>3, <2>1
  <1>4. CASE h \in DOMAIN v.deltas
    <2>1. PICK ref : ref = v.deltas[h].ref
      OBVIOUS
    <2>2. PICK left : left = v.reverse_deltas[ref] \ {h}
      OBVIOUS
    <2>3. /\ ref \in DOMAIN v.delta_refs /\ DOMAIN v.reverse_deltas = DOMAIN v.delta_refs
          /\ left = Users(v, ref) \ {h} /\ h \in Users(v, ref)
          /\ \A r \in DOMAIN v.delta_refs : v.reverse_deltas[r] = Users(v, r)
      BY <1>1, <1>4, <2>1, <2>2 DEF DeltasExact, RefsLinked, Users
    <2>4. \A r \in DOMAIN v.delta_refs : r # ref => h \notin Users(v, r) /\ Users(v, r) # {}
      BY <1>1, <2>1 DEF Users, RefsLinked
    <2>5. /\ v.deltas \in Dict(Node, [delta : Delta, ref : Nat]) /\ v.reverse_deltas \in Dict(Nat, SUBSET Node)
          /\ v.delta_refs \in Dict(Nat, Delta) /\ v.reverse_delta_refs \in Dict(Node, Nat)
          /\ DOMAIN v.deltas \subseteq Node /\ DOMAIN v.delta_refs \subseteq Nat
      BY <1>1, ViewFields
    <2>6. PICK a : a = Without(v.deltas, {h})
      OBVIOUS
    <2>7. /\ a \in Dict(Node, [delta : Delta, ref : Nat]) /\ DOMAIN a = DOMAIN v.deltas \ {h}
          /\ \A x \in DOMAIN a : a[x] = v.deltas[x]
      <3>1. a \in Dict(Node, [delta : Delta, ref : Nat])
        BY ONLY <2>5, <2>6, WithoutIsDict
      <3> QED BY <2>6, <3>1 DEF Without
    <2>8. PICK b : b = [v.reverse_deltas EXCEPT ![ref] = left]
      OBVIOUS
    <2>9. /\ b \in Dict(Nat, SUBSET Node) /\ DOMAIN b = DOMAIN v.delta_refs /\ b[ref] = left
          /\ \A r \in DOMAIN v.delta_refs : b[r] = Users(v, r) \ {h}
      <3>1. DOMAIN b = DOMAIN v.reverse_deltas /\ b = [r \in DOMAIN b |-> b[r]] /\ b[ref] = left
            /\ \A r \in DOMAIN b : r # ref => b[r] = v.reverse_deltas[r]
        BY <2>3, <2>8
      <3>2. left \in SUBSET Node
        BY <2>3, <2>5 DEF Users
      <3>3. DOMAIN v.reverse_deltas \subseteq Nat /\ \A r \in DOMAIN v.reverse_deltas : v.reverse_deltas[r] \in SUBSET Node
        BY <2>5, DictFacts
      <3>4. DOMAIN b \subseteq Nat /\ \A r \in DOMAIN b : b[r] \in SUBSET Node
        BY <3>1, <3>2, <3>3
      <3>5. b \in Dict(Nat, SUBSET Node)
        BY <3>1, <3>4, DictFacts
      <3>6. \A r \in DOMAIN v.delta_refs : b[r] = Users(v, r) \ {h}
        <4> SUFFICES ASSUME NEW r \in DOMAIN v.delta_refs PROVE b[r] = Users(v, r) \ {h}
          OBVIOUS
        <4>1. CASE r = ref
          BY <2>3, <3>1, <4>1
        <4>2. CASE r # ref
          BY <2>3, <2>4, <3>1, <4>2
        <4> QED BY <4>1, <4>2
      <3> QED BY <2>3, <3>1, <3>5, <3>6
    <2>10. PICK u : u = [v EXCEPT !.deltas = a, !.reverse_deltas = b]
      OBVIOUS
    <2>11. /\ u \in Views /\ u.deltas = a /\ u.reverse_deltas = b
           /\ u.delta_refs = v.delta_refs /\ u.reverse_delta_refs = v.reverse_delta_refs
      BY <1>1, <2>7, <2>9, <2>10 DEF Views
    <2>12. w = IF left = {} THEN DropRef(u, ref) ELSE u
      BY <1>2, <1>4, <2>1, <2>2, <2>6, <2>8, <2>10 DEF _handle_removed
    <2>13. PICK gone : gone = {r \in DOMAIN v.delta_refs : Users(v, r) \subseteq {h}}
      OBVIOUS
    <2>14. w \in Views /\ Forgets(v, {h}, w)
      <3>1. CASE left # {}
        <4>1. gone = {}
          BY <2>3, <2>4, <2>13, <3>1
        <4>2. {v.delta_refs[r].tail : r \in gone} = {}
          BY <4>1
        <4>3. w = u
          BY <2>12, <3>1
        <4> QED BY <2>7, <2>9, <2>11, <2>13, <4>1, <4>2, <4>3 DEF Forgets
      <3>2. CASE left = {}
        <4>1. gone = {ref}
          BY <2>3, <2>4, <2>13, <3>2
        <4>2. PICK bare : bare = {v.delta_refs[r].tail : r \in gone}
          OBVIOUS
        <4>3. bare = {v.delta_refs[ref].tail}
          BY <4>1, <4>2
        <4>4. PICK e : e = Without(b, {ref})
          OBVIOUS
        <4>5. PICK c : c = Without(v.delta_refs, {ref})
          OBVIOUS
        <4>6. PICK d : d = Without(v.reverse_delta_refs, bare)
          OBVIOUS
        <4>7. w = [u EXCEPT !.reverse_deltas = e, !.delta_refs = c, !.reverse_delta_refs = d]
          BY <2>11, <2>12, <3>2, <4>3, <4>4, <4>5, <4>6 DEF DropRef
        <4>8. e \in Dict(Nat, SUBSET Node)
          BY ONLY <2>9, <4>4, WithoutIsDict
        <4>9. c \in Dict(Nat, Delta)
          BY ONLY <2>5, <4>5, WithoutIsDict
        <4>10. d \in Dict(Node, Nat)
          BY ONLY <2>5, <4>6, WithoutIsDict
        <4>11. /\ w \in Views /\ w.deltas = a /\ w.reverse_deltas = e /\ w.delta_refs = c
               /\ w.reverse_delta_refs = d
          BY <2>11, <4>7, <4>8, <4>9, <4>10 DEF Views
        <4>12. DOMAIN e = DOMAIN b \ {ref} /\ \A r \in DOMAIN e : e[r] = b[r]
          BY <4>4 DEF Without
        <4>13. DOMAIN c = DOMAIN v.delta_refs \ {ref} /\ \A r \in DOMAIN c : c[r] = v.delta_refs[r]
          BY <4>5 DEF Without
        <4>14. DOMAIN d = DOMAIN v.reverse_delta_refs \ bare /\ \A t \in DOMAIN d : d[t] = v.reverse_delta_refs[t]
          BY <4>6 DEF Without
        <4> QED BY <2>7, <2>9, <2>13, <4>1, <4>2, <4>11, <4>12, <4>13, <4>14 DEF Forgets
      <3> QED BY <3>1, <3>2
    <2>15. /\ MemoSound(p, w)
           /\ DOMAIN w.deltas = DOMAIN v.deltas \ {h}
           /\ \A x \in DOMAIN w.deltas : Tail_(w, x) = Tail_(v, x)
      BY <2>14, ForgetSound
    <2> QED BY <1>2, <2>15
  <1> QED BY <1>3, <1>4

\* The tail of every cached share is listed with the reference the share uses.
LEMMA TailListed ==
  ASSUME NEW p, NEW v, MemoSound(p, v), NEW x \in DOMAIN v.deltas
  PROVE  /\ Tail_(v, x) \in DOMAIN v.reverse_delta_refs
         /\ v.reverse_delta_refs[Tail_(v, x)] = v.deltas[x].ref
         /\ v.deltas[x].ref \in DOMAIN v.delta_refs
  <1>1. DeltasExact(p, v) /\ RefsLinked(v)
    BY DEF MemoSound
  <1>2. v.deltas[x].ref \in DOMAIN v.delta_refs
    BY <1>1 DEF DeltasExact
  <1> QED BY <1>1, <1>2 DEF RefsLinked, Tail_

\* The event of a root that shared its tail: nothing stays cached down to that tail.
LEMMA HandleForkedRoot ==
  ASSUME NEW v, MemoSound(previous_hash, v), NEW h
  PROVE  LET w == _handle_remove_special2(v, h)
         IN /\ MemoSound(previous_hash, w)
            /\ DOMAIN w.deltas \subseteq DOMAIN v.deltas
            /\ \A x \in DOMAIN w.deltas : Tail_(w, x) = Tail_(v, x) /\ Tail_(w, x) # previous_hash[h]
  <1> DEFINE p == previous_hash
  <1>1. v \in Views /\ DeltasExact(p, v) /\ RefsLinked(v)
    BY DEF MemoSound
  <1>2. PICK w : w = _handle_remove_special2(v, h)
    OBVIOUS
  <1>3. PICK a : a = p[h]
    OBVIOUS
  <1>4. CASE a \notin DOMAIN v.reverse_delta_refs
    <2>1. w = v
      BY <1>2, <1>3, <1>4 DEF _handle_remove_special2
    <2>2. \A x \in DOMAIN v.deltas : Tail_(v, x) # a
      BY <1>4, TailListed
    <2> QED BY <1>2, <1>3, <2>1, <2>2
  <1>5. CASE a \in DOMAIN v.reverse_delta_refs
    <2>1. PICK ref : ref = v.reverse_delta_refs[a]
      OBVIOUS
    <2>2. /\ ref \in DOMAIN v.delta_refs /\ v.delta_refs[ref].tail = a
          /\ DOMAIN v.reverse_deltas = DOMAIN v.delta_refs
          /\ v.reverse_deltas[ref] = Users(v, ref)
      BY <1>1, <1>5, <2>1 DEF RefsLinked
    <2>3. PICK X : X = Users(v, ref)
      OBVIOUS
    <2>4. PICK gone : gone = {r \in DOMAIN v.delta_refs : Users(v, r) \subseteq X}
      OBVIOUS
    <2>5. gone = {ref}
      <3>1. ASSUME NEW r \in DOMAIN v.delta_refs, r # ref PROVE \E x \in Users(v, r) : x \notin X
        <4>1. PICK x : x \in Users(v, r)
          BY <1>1 DEF RefsLinked
        <4>2. x \notin X
          BY <2>3, <3>1, <4>1 DEF Users
        <4> QED BY <4>1, <4>2
      <3>2. ref \in gone
        BY <2>2, <2>3, <2>4
      <3>3. \A r \in gone : r = ref
        BY <2>4, <3>1
      <3> QED BY <3>2, <3>3
    <2>6. /\ v.deltas \in Dict(Node, [delta : Delta, ref : Nat]) /\ v.reverse_deltas \in Dict(Nat, SUBSET Node)
          /\ v.delta_refs \in Dict(Nat, Delta) /\ v.reverse_delta_refs \in Dict(Node, Nat)
      BY <1>1, ViewFields
    <2>7. PICK bare : bare = {v.delta_refs[r].tail : r \in gone}
      OBVIOUS
    <2>8. bare = {a}
      BY <2>2, <2>5, <2>7
    <2>9. PICK da : da = Without(v.deltas, X)
      OBVIOUS
    <2>10. PICK db : db = Without(v.reverse_deltas, {ref})
      OBVIOUS
    <2>11. PICK dc : dc = Without(v.delta_refs, {ref})
      OBVIOUS
    <2>12. PICK dd : dd = Without(v.reverse_delta_refs, bare)
      OBVIOUS
    <2>13. w = [v EXCEPT !.deltas = da, !.reverse_deltas = db, !.delta_refs = dc, !.reverse_delta_refs = dd]
      <3>1. w = [DropRef(v, ref) EXCEPT !.deltas = Without(@, X)]
        BY <1>2, <1>3, <1>5, <2>1, <2>2, <2>3 DEF _handle_remove_special2
      <3>2. DropRef(v, ref) = [v EXCEPT !.reverse_deltas = db, !.delta_refs = dc, !.reverse_delta_refs = dd]
        BY <2>2, <2>8, <2>10, <2>11, <2>12 DEF DropRef
      <3> QED BY <1>1, <2>9, <3>1, <3>2 DEF Views
    <2>14. da \in Dict(Node, [delta : Delta, ref : Nat])
      BY ONLY <2>6, <2>9, WithoutIsDict
    <2>15. db \in Dict(Nat, SUBSET Node)
      BY ONLY <2>6, <2>10, WithoutIsDict
    <2>16. dc \in Dict(Nat, Delta)
      BY ONLY <2>6, <2>11, WithoutIsDict
    <2>17. dd \in Dict(Node, Nat)
      BY ONLY <2>6, <2>12, WithoutIsDict
    <2>18. /\ w \in Views /\ w.deltas = da /\ w.reverse_deltas = db /\ w.delta_refs = dc
           /\ w.reverse_delta_refs = dd
      BY <1>1, <2>13, <2>14, <2>15, <2>16, <2>17 DEF Views
    <2>19. DOMAIN da = DOMAIN v.deltas \ X /\ \A x \in DOMAIN da : da[x] = v.deltas[x]
      BY <2>9 DEF Without
    <2>20. DOMAIN db = DOMAIN v.delta_refs \ {ref} /\ \A r \in DOMAIN db : db[r] = Users(v, r) \ X
      <3>1. DOMAIN db = DOMAIN v.delta_refs \ {ref} /\ \A r \in DOMAIN db : db[r] = v.reverse_deltas[r]
        BY <2>2, <2>10 DEF Without
      <3>2. \A r \in DOMAIN db : db[r] = Users(v, r)
        BY <1>1, <3>1 DEF RefsLinked
      <3>3. \A r \in DOMAIN db : Users(v, r) \ X = Users(v, r)
        BY <2>3, <3>1 DEF Users
      <3> QED BY <3>1, <3>2, <3>3
    <2>21. DOMAIN dc = DOMAIN v.delta_refs \ {ref} /\ \A r \in DOMAIN dc : dc[r] = v.delta_refs[r]
      BY <2>11 DEF Without
    <2>22. DOMAIN dd = DOMAIN v.reverse_delta_refs \ bare /\ \A t \in DOMAIN dd : dd[t] = v.reverse_delta_refs[t]
      BY <2>12 DEF Without
    <2>23. Forgets(v, X, w)
      BY <2>4, <2>5, <2>7, <2>18, <2>19, <2>20, <2>21, <2>22 DEF Forgets
    <2>24. /\ MemoSound(p, w)
           /\ DOMAIN w.deltas = DOMAIN v.deltas \ X
           /\ \A x \in DOMAIN w.deltas : Tail_(w, x) = Tail_(v, x)
      BY <2>18, <2>23, ForgetSound
    <2>25. ASSUME NEW x \in DOMAIN w.deltas PROVE Tail_(w, x) # a
      <3>1. x \in DOMAIN v.deltas /\ x \notin X /\ Tail_(w, x) = Tail_(v, x)
        BY <2>24
      <3>2. v.deltas[x].ref # ref
        BY <2>3, <3>1 DEF Users
      <3> QED BY <2>1, <3>1, <3>2, TailListed
    <2> QED BY <1>2, <1>3, <2>24, <2>25
  <1> QED BY <1>4, <1>5

\* What is left cached of a root's descendants once no path goes under it.
LEMMA RootGone ==
  ASSUME NEW I, NEW p, IsForest(I, p), NEW h \in I, p[h] \notin I,
         NEW x \in I, NEW t \in Chain(I, p)[x], t # p[h]
  PROVE  t \in Chain(I \ {h}, p)[x]
  <1>1. x \in Node /\ h \in Node
    BY DEF IsForest, Node
  <1>2. Descends(I, p, h, x) => h <= t
    BY <1>1, UnderRoot
  <1> QED BY <1>1, <1>2, ChainAfterRemove

\* SetToSeq lists a finite set, every element of it.
LEMMA OrderCovers ==
  ASSUME NEW S, IsFiniteSet(S)
  PROVE  /\ Sq!SetToSeq(S) \in Seq(S)
         /\ \A x \in S : \E i \in 1 .. Len(Sq!SetToSeq(S)) : Sq!SetToSeq(S)[i] = x
  <1> DEFINE n == Sq!Cardinality(S)
             Is(f) == f \in [1 .. n -> S] /\ Sq!IsInjective(f)
             order == Sq!SetToSeq(S)
  <1>1. n \in Nat /\ n = Cardinality(S) /\ ExistsBijection(1 .. n, S)
    <2>1. Cardinality(S) = Sq!Cardinality(S)
      BY DEF Sq!Cardinality, Cardinality
    <2>2. PICK m \in Nat : ExistsBijection(1 .. m, S)
      BY FS_NatBijection
    <2>3. Cardinality(S) = m
      BY <2>2, FS_CountingElements
    <2> QED BY <2>1, <2>2, <2>3
  <1> HIDE DEF n
  <1>2. PICK f : Is(f)
    <2>1. PICK f \in Bijection(1 .. n, S) : TRUE
      BY <1>1 DEF ExistsBijection
    <2>2. f \in [1 .. n -> S] /\ \A i, j \in 1 .. n : f[i] = f[j] => i = j
      BY DEF Bijection, Injection, IsInjective
    <2>3. Is(f)
      BY <2>2 DEF Sq!IsInjective
    <2> QED BY <2>3
  <1>3. order = CHOOSE g \in [1 .. n -> S] : Sq!IsInjective(g)
    BY DEF Sq!SetToSeq, n
  <1>4. Is(order)
    <2> HIDE DEF order
    <2> QED BY <1>2, <1>3
  <1> HIDE DEF order
  <1>5. order \in [1 .. n -> S] /\ \A i, j \in 1 .. n : order[i] = order[j] => i = j
    BY <1>4 DEF Sq!IsInjective
  <1>6. order \in Seq(S) /\ Len(order) = n
    BY <1>1, <1>5
  <1>7. order \in Injection(1 .. n, S)
    BY <1>5 DEF Injection, IsInjective
  <1>8. Cardinality(1 .. n) = n
    <2>1. 1 \in Int /\ n \in Int
      BY <1>1
    <2>2. Cardinality(1 .. n) = IF 1 > n THEN 0 ELSE n - 1 + 1
      BY <2>1, FS_Interval
    <2> QED BY <1>1, <2>2
  <1>9. order \in Surjection(1 .. n, S)
    BY <1>1, <1>7, <1>8, FS_Injection
  <1>10. \A x \in S : \E i \in 1 .. n : order[i] = x
    BY <1>9 DEF Surjection
  <1> QED BY <1>6, <1>10 DEF order

\* Every share of a list lowered in turn.
LEMMA LowerAll ==
  ASSUME IsForest(items, previous_hash), NEW v, Good(items, previous_hash, v), NEW order, order \in Seq(items)
  PROVE  LET w == Sq!FoldLeft(LAMBDA u, x : get_delta_to_last(u, x).view, v, order)
         IN /\ Lowers(items, previous_hash, v, w)
            /\ \A i \in 1 .. Len(order) : Low(items, previous_hash, w, order[i])
  <1> DEFINE p == previous_hash
             To(r, y) == get_delta_to_last(r, y).view
             R == {w \in Views : Good(items, p, w)}
             step == [q \in R \X items |-> To(q[1], q[2])]
  <1>1. ASSUME NEW r \in R, NEW y \in items
        PROVE  To(r, y) \in R /\ Lowers(items, p, r, To(r, y)) /\ Low(items, p, To(r, y), y)
    <2>1. y \in Node
      BY LastBelow
    <2>2. Lowers(items, p, r, To(r, y)) /\ Low(items, p, To(r, y), y)
      BY <2>1, DeltaToLast
    <2> HIDE DEF To
    <2> QED BY <2>2 DEF Lowers, Good, MemoSound
  <1>2. step \in [R \X items -> R]
    <2> HIDE DEF R, To
    <2> QED BY <1>1
  <1>3. ASSUME NEW r \in R, NEW y \in items PROVE step[r, y] = To(r, y)
    <2> HIDE DEF R, To
    <2> QED OBVIOUS
  <1>4. order \in Seq(items) /\ DOMAIN order = 1 .. Len(order) /\ Len(order) \in Nat
        /\ \A i \in DOMAIN order : order[i] \in items
    OBVIOUS
  <1>5. v \in R
    BY DEF Good, MemoSound
  <1> HIDE DEF R, To
  <1>6. ASSUME NEW u \in SUBSET DOMAIN order, u # {}
        PROVE  Sq!Max(u) = Top(u) /\ Top(u) \in DOMAIN order /\ u \ {Top(u)} \in SUBSET DOMAIN order
    <2>1. Sq!Max(u) = Top(u)
      BY DEF Sq!Max, Top
    <2> QED BY <1>4, <1>6, <2>1, TopOfIndices
  <1> DEFINE Is(g) == g = [u \in SUBSET DOMAIN order |->
                             IF u = {} THEN v
                             ELSE To(g[u \ {Sq!Max(u)}], order[Sq!Max(u)])]
             G == CHOOSE g : Is(g)
  <1>7. Sq!FoldLeft(LAMBDA u, x : get_delta_to_last(u, x).view, v, order) = G[DOMAIN order]
    BY DEF Sq!FoldLeft, Sq!MapThenFoldSet, To
  <1>8. Is(G)
    <2>1. PICK g \in [SUBSET DOMAIN order -> R] : Folds(g, step, v, order)
      <3> HIDE DEF step
      <3> QED BY <1>2, <1>4, <1>5, FoldExists
    <2>2. ASSUME NEW u \in SUBSET DOMAIN order
          PROVE  g[u] = IF u = {} THEN v ELSE To(g[u \ {Sq!Max(u)}], order[Sq!Max(u)])
      <3>1. CASE u = {}
        BY <2>1, <3>1 DEF Folds
      <3>2. CASE u # {}
        <4>1. g[u] = step[g[u \ {Top(u)}], order[Top(u)]]
          BY <2>1, <3>2 DEF Folds
        <4> HIDE DEF step
        <4> QED BY <1>3, <1>4, <1>6, <3>2, <4>1
      <3> QED BY <3>1, <3>2
    <2>3. g = [u \in SUBSET DOMAIN order |-> g[u]]
      OBVIOUS
    <2>4. Is(g)
      BY <2>2, <2>3
    <2> HIDE DEF Is
    <2> QED BY <2>4
  <1>9. FoldsIn(R, G, step, v, order)
    <2>1. ASSUME NEW u \in SUBSET DOMAIN order
          PROVE  G[u] = IF u = {} THEN v ELSE To(G[u \ {Sq!Max(u)}], order[Sq!Max(u)])
      <3> HIDE DEF G
      <3> QED BY <1>8
    <2> HIDE DEF G
    <2>2. G[{}] = v
      BY <2>1
    <2>3. ASSUME NEW u \in SUBSET DOMAIN order, u # {}, G[u \ {Top(u)}] \in R
          PROVE  G[u] = step[G[u \ {Top(u)}], order[Top(u)]]
      <3>1. G[u] = To(G[u \ {Top(u)}], order[Top(u)])
        BY <1>6, <2>1, <2>3
      <3> HIDE DEF step
      <3> QED BY <1>3, <1>4, <1>6, <2>3, <3>1
    <2> HIDE DEF step
    <2> QED BY <2>2, <2>3 DEF FoldsIn
  <1> HIDE DEF G, step
  <1>10. PICK f : Along(f, R, G, step, v, order)
    BY <1>2, <1>4, <1>5, <1>9, FoldSteps
  <1>11. f[0] = v /\ G[DOMAIN order] = f[Len(order)] /\ \A i \in 0 .. Len(order) : f[i] \in R
    BY <1>10 DEF Along
  <1>12. ASSUME NEW i \in 1 .. Len(order)
         PROVE  Lowers(items, p, f[i - 1], f[i]) /\ Low(items, p, f[i], order[i])
    <2>1. f[i] = step[f[i - 1], order[i]] /\ f[i - 1] \in R /\ order[i] \in items
      <3>1. f[i] = step[f[i - 1], order[i]]
        BY <1>10 DEF Along
      <3>2. i - 1 \in 0 .. Len(order) /\ i \in DOMAIN order
        BY <1>4
      <3> QED BY <1>4, <1>11, <3>1, <3>2
    <2> QED BY <1>1, <1>3, <2>1
  <1>13. Good(items, p, f[0])
    BY <1>11
  <1>14. Lowers(items, p, f[0], f[Len(order)]) /\ \A i \in 1 .. Len(order) : Low(items, p, f[Len(order)], order[i])
    BY <1>4, <1>12, <1>13, LowersAlong
  <1>15. PICK w : w = f[Len(order)]
    OBVIOUS
  <1>16. Lowers(items, p, v, w) /\ \A i \in 1 .. Len(order) : Low(items, p, w, order[i])
    BY <1>11, <1>14, <1>15
  <1>17. Sq!FoldLeft(LAMBDA u, x : get_delta_to_last(u, x).view, v, order) = w
    BY <1>7, <1>11, <1>15
  <1> HIDE DEF p
  <1> QED BY ONLY <1>16, <1>17 DEF p

\* Before a root goes: every share cached down to it is cached deeper, to the end of its chain.
LEMMA NothingDownTo ==
  ASSUME IsForest(items, previous_hash), NEW v, Good(items, previous_hash, v), NEW h \in items
  PROVE  LET users == IF h \in DOMAIN v.reverse_delta_refs
                      THEN Entry(v.reverse_deltas, v.reverse_delta_refs[h]) ELSE {}
             low == Sq!FoldLeft(LAMBDA w, x : get_delta_to_last(w, x).view, v, Sq!SetToSeq(users))
         IN Good(items, previous_hash, low) /\ h \notin DOMAIN low.reverse_delta_refs
  <1> DEFINE p == previous_hash
  <1>1. PICK users : users = IF h \in DOMAIN v.reverse_delta_refs
                             THEN Entry(v.reverse_deltas, v.reverse_delta_refs[h]) ELSE {}
    OBVIOUS
  <1>2. PICK order : order = Sq!SetToSeq(users)
    OBVIOUS
  <1>3. PICK low : low = Sq!FoldLeft(LAMBDA w, x : get_delta_to_last(w, x).view, v, order)
    OBVIOUS
  <1>4. MemoSound(p, v) /\ DOMAIN v.deltas \subseteq items
    BY DEF Good
  <1>5. v \in Views /\ IsFiniteSet(DOMAIN v.deltas) /\ DeltasExact(p, v) /\ RefsLinked(v)
    BY <1>4 DEF MemoSound
  <1>6. users \subseteq DOMAIN v.deltas /\ \A x \in DOMAIN v.deltas : Tail_(v, x) = h => x \in users
    <2>1. CASE h \in DOMAIN v.reverse_delta_refs
      <3>1. PICK r : r = v.reverse_delta_refs[h]
        OBVIOUS
      <3>2. r \in DOMAIN v.delta_refs /\ r \in DOMAIN v.reverse_deltas /\ v.reverse_deltas[r] = Users(v, r)
        BY <1>5, <2>1, <3>1 DEF RefsLinked
      <3>3. users = Users(v, r)
        BY <1>1, <2>1, <3>1, <3>2 DEF Entry
      <3>4. \A x \in DOMAIN v.deltas : Tail_(v, x) = h => v.deltas[x].ref = r
        BY <1>4, <3>1, TailListed
      <3> QED BY <3>3, <3>4 DEF Users
    <2>2. CASE h \notin DOMAIN v.reverse_delta_refs
      <3>1. \A x \in DOMAIN v.deltas : Tail_(v, x) # h
        BY <1>4, <2>2, TailListed
      <3> QED BY <1>1, <2>2, <3>1
    <2> QED BY <2>1, <2>2
  <1>7. IsFiniteSet(users)
    BY <1>5, <1>6, FS_Subset
  <1>8. order \in Seq(users) /\ \A x \in users : \E i \in 1 .. Len(order) : order[i] = x
    BY <1>2, <1>7, OrderCovers
  <1>9. order \in Seq(items)
    <2>1. users \subseteq items
      BY <1>4, <1>6
    <2> QED BY <1>8, <2>1
  <1>10. Lowers(items, p, v, low) /\ \A i \in 1 .. Len(order) : Low(items, p, low, order[i])
    BY <1>3, <1>9, LowerAll
  <1>11. Good(items, p, low)
    BY <1>10 DEF Lowers
  <1>12. MemoSound(p, low) /\ DOMAIN low.deltas \subseteq items
    BY <1>11 DEF Good
  <1>13. ASSUME h \in DOMAIN low.reverse_delta_refs PROVE FALSE
    <2>1. PICK r : r = low.reverse_delta_refs[h]
      OBVIOUS
    <2>2. RefsLinked(low)
      BY <1>12 DEF MemoSound
    <2>3. r \in DOMAIN low.delta_refs /\ low.delta_refs[r].tail = h
      BY <1>13, <2>1, <2>2 DEF RefsLinked
    <2>4. PICK z : z \in Users(low, r)
      BY <2>2, <2>3 DEF RefsLinked
    <2>5. z \in DOMAIN low.deltas /\ z \in items /\ Tail_(low, z) = h
      BY <1>12, <2>3, <2>4 DEF Users, Tail_
    <2>6. ~ Low(items, p, low, z)
      <3>1. Last(items, p, z) \notin items
        BY <2>5, LastBelow
      <3> QED BY <2>5, <3>1 DEF Low
    <2>7. z \in DOMAIN v.deltas /\ Tail_(v, z) = h
      BY <1>10, <2>5, <2>6 DEF Lowers
    <2>8. PICK i \in 1 .. Len(order) : order[i] = z
      BY <1>6, <1>8, <2>7
    <2> QED BY <1>10, <2>6, <2>8
  <1> QED BY <1>1, <1>2, <1>3, <1>11, <1>13

\* The view low with its reference at the tail a, the previous_hash of h, moved up to h.
MovedUp(low, h) ==
  [low EXCEPT !.delta_refs[low.reverse_delta_refs[previous_hash[h]]] = Minus(@, from_element(h)),
              !.reverse_delta_refs = Put(Without(@, {previous_hash[h]}), h,
                                         low.reverse_delta_refs[previous_hash[h]])]

\* The reference at the tail a, whose walks all go through h, is moved up to h.
LEMMA RefMoves ==
  ASSUME IsForest(items, previous_hash), NEW low, Good(items, previous_hash, low), NEW h \in items,
         h \notin DOMAIN low.reverse_delta_refs,
         previous_hash[h] \in DOMAIN low.reverse_delta_refs
  PROVE  LET w == MovedUp(low, h)
         IN /\ MemoSound(previous_hash, w)
            /\ DOMAIN w.deltas = DOMAIN low.deltas
            /\ \A x \in DOMAIN w.deltas :
                 Tail_(w, x) = IF Tail_(low, x) = previous_hash[h] THEN h ELSE Tail_(low, x)
  <1> DEFINE p == previous_hash
  <1>1. PICK a : a = p[h]
    OBVIOUS
  <1>2. PICK ref : ref = low.reverse_delta_refs[a]
    OBVIOUS
  <1>3. PICK w : w = MovedUp(low, h)
    OBVIOUS
  <1>4. w = [low EXCEPT !.delta_refs[ref] = Minus(@, from_element(h)),
                         !.reverse_delta_refs = Put(Without(@, {a}), h, ref)]
    BY <1>1, <1>2, <1>3 DEF MovedUp
  <1>5. a = previous_hash[h] /\ a \in DOMAIN low.reverse_delta_refs
    BY <1>1
  <1>6. MemoSound(p, low) /\ p \in Previous /\ h \in Hash /\ h \in Node /\ h \in Nat
    BY NodeIsNat DEF Good, IsForest, Node
  <1>7. low \in Views /\ IsFiniteSet(DOMAIN low.deltas) /\ DeltasExact(p, low) /\ RefsLinked(low)
    BY <1>6 DEF MemoSound
  <1>8. /\ low.delta_refs \in Dict(Nat, Delta) /\ low.reverse_delta_refs \in Dict(Node, Nat)
        /\ DOMAIN low.delta_refs \subseteq Nat
    BY <1>7, ViewFields
  <1>9. ref \in DOMAIN low.delta_refs /\ ref \in Nat /\ low.delta_refs[ref].tail = a
    BY <1>7, <1>8, <1>2, <1>5 DEF RefsLinked
  <1>10. PICK hd : hd = low.delta_refs[ref].head
    OBVIOUS
  <1>11. hd \in Node /\ a \in Node /\ hd <= a /\ a < h /\ hd < h /\ hd <= h /\ hd # h /\ a # h
    <2>1. low.delta_refs[ref] \in Delta
      BY <1>8, <1>9, DictFacts
    <2>2. hd \in Node /\ a \in Node /\ hd <= a
      BY <1>6, <1>7, <1>9, <1>10, <1>5, <2>1, PreviousIsEarlier DEF Delta, DeltasExact
    <2>3. a < h /\ a \in Nat /\ hd \in Nat
      BY <1>6, <1>5, <2>2, PreviousIsEarlier, NodeIsNat
    <2> QED BY <1>6, <2>2, <2>3
  <1>12. low.delta_refs[ref] = Exact(p, hd, a)
    BY <1>7, <1>9, <1>10 DEF DeltasExact
  <1>13. PICK e : e = Minus(low.delta_refs[ref], from_element(h))
    OBVIOUS
  <1>14. e = Exact(p, hd, h)
    <2>1. from_element(h) = Exact(p, h, a)
      BY <1>6, <1>5, ElementIsExact
    <2>2. Minus(Exact(p, hd, a), Exact(p, h, a)) = Exact(p, hd, h)
      BY <1>6, <1>11, MinusIsExact
    <2> QED BY <1>12, <1>13, <2>1, <2>2
  <1>15. e \in Delta /\ e.head = hd /\ e.tail = h
    BY <1>6, <1>11, <1>14, ExactType
  <1>16. PICK c : c = [low.delta_refs EXCEPT ![ref] = e]
    OBVIOUS
  <1>17. PICK k : k = Without(low.reverse_delta_refs, {a})
    OBVIOUS
  <1>18. PICK d : d = Put(k, h, ref)
    OBVIOUS
  <1>19. /\ c \in Dict(Nat, Delta) /\ DOMAIN c = DOMAIN low.delta_refs /\ c[ref] = e
         /\ \A r \in DOMAIN c : r # ref => c[r] = low.delta_refs[r]
    <2>1. /\ DOMAIN c = DOMAIN low.delta_refs /\ c = [r \in DOMAIN c |-> c[r]] /\ c[ref] = e
          /\ \A r \in DOMAIN c : r # ref => c[r] = low.delta_refs[r]
      BY <1>9, <1>16
    <2>2. \A r \in DOMAIN low.delta_refs : low.delta_refs[r] \in Delta
      BY <1>8, DictFacts
    <2>3. DOMAIN c \subseteq Nat /\ \A r \in DOMAIN c : c[r] \in Delta
      BY <1>8, <1>15, <2>1, <2>2
    <2>4. c \in Dict(Nat, Delta)
      BY <2>1, <2>3, DictFacts
    <2> QED BY <2>1, <2>4
  <1>20. /\ d \in Dict(Node, Nat) /\ DOMAIN d = (DOMAIN low.reverse_delta_refs \ {a}) \cup {h} /\ d[h] = ref
         /\ \A t \in DOMAIN low.reverse_delta_refs : t # a => d[t] = low.reverse_delta_refs[t]
    <2>1. k \in Dict(Node, Nat)
      BY ONLY <1>8, <1>17, WithoutIsDict
    <2>2. d \in Dict(Node, Nat)
      BY ONLY <1>6, <1>9, <1>18, <2>1, PutIsDict
    <2>3. DOMAIN k = DOMAIN low.reverse_delta_refs \ {a} /\ \A t \in DOMAIN k : k[t] = low.reverse_delta_refs[t]
      BY <1>17 DEF Without
    <2>4. DOMAIN d = DOMAIN k \cup {h} /\ d[h] = ref /\ \A t \in DOMAIN k : t # h => d[t] = k[t]
      BY <1>18 DEF Put
    <2> QED BY <2>2, <2>3, <2>4
  <1>21. w = [low EXCEPT !.delta_refs = c, !.reverse_delta_refs = d]
    BY <1>7, <1>13, <1>16, <1>17, <1>18, <1>4 DEF Views
  <1>22. /\ w \in Views /\ w.deltas = low.deltas /\ w.reverse_deltas = low.reverse_deltas
         /\ w.delta_refs = c /\ w.reverse_delta_refs = d
    BY <1>7, <1>19, <1>20, <1>21 DEF Views
  <1>23. \A r \in DOMAIN c : c[r].head = low.delta_refs[r].head
    BY <1>10, <1>15, <1>19
  <1>24. DeltasExact(p, w)
    <2>1. ASSUME NEW x \in DOMAIN w.deltas
          PROVE  /\ w.deltas[x].ref \in DOMAIN w.delta_refs
                 /\ w.deltas[x].delta = Exact(p, x, w.delta_refs[w.deltas[x].ref].head)
                 /\ w.delta_refs[w.deltas[x].ref].head < x
      BY <1>7, <1>19, <1>22, <1>23 DEF DeltasExact
    <2>2. ASSUME NEW r \in DOMAIN w.delta_refs
          PROVE  /\ w.delta_refs[r] = Exact(p, w.delta_refs[r].head, w.delta_refs[r].tail)
                 /\ w.delta_refs[r].head <= w.delta_refs[r].tail
      <3>1. CASE r = ref
        BY <1>11, <1>14, <1>15, <1>19, <1>22, <3>1
      <3>2. CASE r # ref
        BY <1>7, <1>19, <1>22, <3>2 DEF DeltasExact
      <3> QED BY <3>1, <3>2
    <2> QED BY <2>1, <2>2 DEF DeltasExact
  <1>25. ASSUME NEW r \in DOMAIN w.delta_refs
         PROVE  /\ w.reverse_deltas[r] = Users(w, r) /\ Users(w, r) # {}
                /\ w.delta_refs[r].tail \in DOMAIN w.reverse_delta_refs
                /\ w.reverse_delta_refs[w.delta_refs[r].tail] = r
    <2>1. r \in DOMAIN low.delta_refs
      BY <1>19, <1>22
    <2>2. Users(w, r) = Users(low, r)
      BY <1>22 DEF Users
    <2>3. w.reverse_deltas[r] = Users(w, r) /\ Users(w, r) # {}
      BY <1>7, <1>22, <2>1, <2>2 DEF RefsLinked
    <2>4. CASE r = ref
      BY <1>15, <1>19, <1>20, <1>22, <2>3, <2>4
    <2>5. CASE r # ref
      <3>1. PICK t : t = low.delta_refs[r].tail
        OBVIOUS
      <3>2. t \in DOMAIN low.reverse_delta_refs /\ low.reverse_delta_refs[t] = r
        BY <1>7, <2>1, <3>1 DEF RefsLinked
      <3>3. t # a
        BY <1>2, <2>5, <3>2
      <3>4. w.delta_refs[r].tail = t
        BY <1>19, <1>22, <2>1, <2>5, <3>1
      <3> QED BY <1>20, <1>22, <2>3, <3>2, <3>3, <3>4
    <2> QED BY <2>4, <2>5
  <1>26. ASSUME NEW t \in DOMAIN w.reverse_delta_refs
         PROVE  w.reverse_delta_refs[t] \in DOMAIN w.delta_refs /\ w.delta_refs[w.reverse_delta_refs[t]].tail = t
    <2>1. CASE t = h
      BY <1>9, <1>15, <1>19, <1>20, <1>22, <2>1
    <2>2. CASE t # h
      <3>1. t \in DOMAIN low.reverse_delta_refs /\ t # a /\ w.reverse_delta_refs[t] = low.reverse_delta_refs[t]
        BY <1>20, <1>22, <2>2
      <3>2. PICK r : r = low.reverse_delta_refs[t]
        OBVIOUS
      <3>3. r \in DOMAIN low.delta_refs /\ low.delta_refs[r].tail = t
        BY <1>7, <3>1, <3>2 DEF RefsLinked
      <3>4. r # ref
        BY <1>9, <3>1, <3>3
      <3> QED BY <1>19, <1>22, <3>1, <3>2, <3>3, <3>4
    <2> QED BY <2>1, <2>2
  <1>27. DOMAIN w.reverse_deltas = DOMAIN w.delta_refs
    BY <1>7, <1>19, <1>22 DEF RefsLinked
  <1>28. RefsLinked(w)
    BY ONLY <1>25, <1>26, <1>27 DEF RefsLinked
  <1>29. MemoSound(p, w)
    BY <1>7, <1>22, <1>24, <1>28 DEF MemoSound
  <1>30. ASSUME NEW x \in DOMAIN w.deltas
         PROVE  Tail_(w, x) = IF Tail_(low, x) = a THEN h ELSE Tail_(low, x)
    <2>1. PICK r : r = low.deltas[x].ref
      OBVIOUS
    <2>2. x \in DOMAIN low.deltas /\ r \in DOMAIN low.delta_refs /\ low.reverse_delta_refs[Tail_(low, x)] = r
      BY <1>6, <1>22, <2>1, TailListed
    <2>3. Tail_(w, x) = c[r].tail /\ Tail_(low, x) = low.delta_refs[r].tail
      BY <1>22, <2>1 DEF Tail_
    <2>4. CASE r = ref
      BY <1>9, <1>15, <1>19, <2>3, <2>4
    <2>5. CASE r # ref
      <3>1. Tail_(low, x) # a
        BY <1>2, <2>2, <2>5
      <3> QED BY <1>19, <2>2, <2>3, <2>5, <3>1
    <2> QED BY <2>4, <2>5
  <1> QED BY <1>22, <1>29, <1>30, <1>1, <1>3

\* The event of a root that is alone on its tail: what was cached down to the tail now ends
\* at the root, and every cached path but the root's own is a path of the shares left.
LEMMA HandleRoot ==
  ASSUME IsForest(items, previous_hash), NEW v, Good(items, previous_hash, v), NEW h \in items,
         previous_hash[h] \notin items, Children(items, previous_hash, previous_hash[h]) = {h}
  PROVE  LET w == _handle_remove_special(v, h)
         IN /\ MemoSound(previous_hash, w)
            /\ DOMAIN w.deltas \subseteq items
            /\ \A x \in DOMAIN w.deltas \ {h} :
                 Tail_(w, x) \in Chain(items \ {h}, previous_hash)[x] /\ Tail_(w, x) # x
  <1> DEFINE p == previous_hash
             Left(w) == /\ MemoSound(p, w)
                        /\ DOMAIN w.deltas \subseteq items
                        /\ \A x \in DOMAIN w.deltas \ {h} :
                             Tail_(w, x) \in Chain(items \ {h}, p)[x] /\ Tail_(w, x) # x
  <1>1. PICK a : a = p[h]
    OBVIOUS
  <1>2. PICK users : users = IF h \in DOMAIN v.reverse_delta_refs
                             THEN Entry(v.reverse_deltas, v.reverse_delta_refs[h]) ELSE {}
    OBVIOUS
  <1>3. PICK low : low = Sq!FoldLeft(LAMBDA w, x : get_delta_to_last(w, x).view, v, Sq!SetToSeq(users))
    OBVIOUS
  <1>4. Good(items, p, low) /\ h \notin DOMAIN low.reverse_delta_refs
    BY <1>2, <1>3, NothingDownTo
  <1>5. PICK moved : moved = MovedUp(low, h)
    OBVIOUS
  <1>6. _handle_remove_special(v, h) = IF a \notin DOMAIN v.reverse_delta_refs THEN v
                                       ELSE IF a \notin DOMAIN low.reverse_delta_refs THEN low ELSE moved
    BY <1>1, <1>2, <1>3, <1>4, <1>5 DEF _handle_remove_special, MovedUp
  <1>7. ASSUME NEW w, Good(items, p, w), a \notin DOMAIN w.reverse_delta_refs
        PROVE  Left(w)
    <2>1. MemoSound(p, w) /\ DOMAIN w.deltas \subseteq items
      BY <1>7 DEF Good
    <2>2. ASSUME NEW x \in DOMAIN w.deltas
          PROVE  Tail_(w, x) \in Chain(items \ {h}, p)[x] /\ Tail_(w, x) # x
      <3>1. x \in items /\ Tail_(w, x) \in Chain(items, p)[x] /\ Tail_(w, x) # x
        BY <1>7 DEF Good
      <3>2. Tail_(w, x) # p[h]
        BY <1>1, <1>7, <2>1, TailListed
      <3> QED BY <3>1, <3>2, RootGone
    <2> QED BY <2>1, <2>2
  <1>8. ASSUME a \in DOMAIN low.reverse_delta_refs PROVE Left(moved)
    <2>1. /\ MemoSound(p, moved)
          /\ DOMAIN moved.deltas = DOMAIN low.deltas
          /\ \A x \in DOMAIN moved.deltas : Tail_(moved, x) = IF Tail_(low, x) = a THEN h ELSE Tail_(low, x)
      BY <1>1, <1>4, <1>5, <1>8, RefMoves
    <2>2. DOMAIN low.deltas \subseteq items
      BY <1>4 DEF Good
    <2>3. ASSUME NEW x \in DOMAIN moved.deltas \ {h}
          PROVE  Tail_(moved, x) \in Chain(items \ {h}, p)[x] /\ Tail_(moved, x) # x
      <3>1. x \in items /\ x \in Node /\ h \in Node /\ Tail_(low, x) \in Chain(items, p)[x] /\ Tail_(low, x) # x
        BY <1>4, <2>1, LastBelow DEF Good
      <3>2. CASE Tail_(low, x) # a
        BY <1>1, <2>1, <3>1, <3>2, RootGone
      <3>3. CASE Tail_(low, x) = a
        <4>1. Last(items, p, x) = p[h]
          BY <1>1, <3>1, <3>3, LastIsAbsent
        <4>2. Descends(items, p, h, x)
          BY <3>1, <4>1, OnlyChildIsUnderAll
        <4>3. h \in Chain(items, p)[x] /\ h <= h
          BY <3>1, <4>2, NodeIsNat DEF Descends
        <4>4. h \in Chain(items \ {h}, p)[x]
          BY <3>1, <4>3, ChainAfterRemove
        <4> QED BY <2>1, <3>3, <4>4
      <3> QED BY <3>2, <3>3
    <2> QED BY <2>1, <2>2, <2>3
  <1>9. Left(_handle_remove_special(v, h))
    <2> HIDE DEF Left
    <2> QED BY <1>4, <1>6, <1>7, <1>8
  <1> QED BY <1>9

\* Tracker.is_child_of with the memo gives the walk's answer, and leaves the memo good.
LEMMA IsChildOfIsWalk ==
  ASSUME IsForest(items, previous_hash), NEW v, Good(items, previous_hash, v), NEW x \in items, NEW y \in items
  PROVE  LET got == IsChildOf(v, x, y)
         IN /\ got.answer <=> is_child_of(x, y)
            /\ got.answer \in BOOLEAN
            /\ Good(items, previous_hash, got.view)
  <1> DEFINE p == previous_hash
             L(z) == Last(items, p, z)
  <1>1. PICK under : under = get_delta_to_last(v, x)
    OBVIOUS
  <1>2. PICK over : over = get_delta_to_last(under.view, y)
    OBVIOUS
  <1>3. p \in Previous /\ x \in Node /\ y \in Node /\ x \in Hash /\ x \in Nat /\ L(x) < x
    BY LastBelow, NodeIsNat DEF IsForest
  <1>4. under.delta = Exact(p, x, L(x)) /\ Good(items, p, under.view)
    BY <1>1, <1>3, DeltaToLast DEF Lowers
  <1>5. over.delta = Exact(p, y, L(y)) /\ Good(items, p, over.view)
    BY <1>2, <1>3, <1>4, DeltaToLast DEF Lowers
  <1>6. PICK up : up = over.delta.height - under.delta.height
    OBVIOUS
  <1>7. PICK answer : answer = (/\ over.delta.tail = under.delta.tail
                                /\ up >= 0
                                /\ nth_parent(y, up) = x)
    OBVIOUS
  <1>8. IsChildOf(v, x, y) = [answer |-> answer, view |-> over.view]
    BY <1>1, <1>2, <1>6, <1>7 DEF IsChildOf
  <1>9. /\ over.delta.tail = L(y) /\ under.delta.tail = L(x)
        /\ over.delta.height = Depth(p, y) - Depth(p, L(y))
        /\ under.delta.height = Depth(p, x) - Depth(p, L(x))
    BY <1>4, <1>5 DEF Exact
  <1>10. Depth(p, x) \in Nat /\ Depth(p, y) \in Nat /\ Depth(p, L(x)) \in Nat
    BY <1>3, LastBelow, DepthSteps
  <1>11. L(y) = L(x) => up = Depth(p, y) - Depth(p, x)
    BY <1>6, <1>9, <1>10
  <1>12. ASSUME answer PROVE Descends(items, p, x, y)
    <2>1. L(y) = L(x) /\ up >= 0 /\ nth_parent(y, up) = x
      BY <1>7, <1>9, <1>12
    <2>2. up \in 0 .. Depth(p, y)
      BY <1>10, <1>11, <2>1
    <2>3. Descends(Hash, p, x, y)
      BY <1>3, <2>1, <2>2, ParentsAreAncestors
    <2> QED BY <1>3, <2>1, <2>3, ThroughAncestor
  <1>13. ASSUME Descends(items, p, x, y) PROVE answer
    <2>1. x \in Chain(items, p)[y]
      BY <1>13 DEF Descends
    <2>2. L(y) = L(x)
      BY <1>3, <2>1, LastAlong
    <2>3. PathFits(items, y, x)
      BY <1>3, <2>1, PathsFit
    <2>4. up \in Nat /\ nth_parent(y, up) = x
      BY <1>11, <2>2, <2>3 DEF PathFits
    <2> QED BY <1>7, <1>9, <2>2, <2>4
  <1>14. answer \in BOOLEAN
    BY <1>7
  <1> QED BY <1>5, <1>8, <1>12, <1>13, <1>14 DEF is_child_of

\* One head asked whether it is built on h.
Ask(h, got, x) ==
  LET child == IsChildOf(got.view, h, x)
  IN [heirs |-> got.heirs \cup (IF child.answer THEN {x} ELSE {}), view |-> child.view]

\* The heads S asked in turn.
Asked(v, h, S) ==
  Sq!FoldLeft(LAMBDA r, x : Ask(h, r, x), [heirs |-> {}, view |-> v], Sq!SetToSeq(S))

\* The heads over a tail asked in turn: the ones the walk finds on h, and a good memo.
LEMMA AskAll ==
  ASSUME IsForest(items, previous_hash), NEW v, Good(items, previous_hash, v), NEW h \in items,
         NEW S, S \subseteq items, IsFiniteSet(S)
  PROVE  LET got == Asked(v, h, S)
         IN /\ got.heirs = {x \in S : is_child_of(h, x)}
            /\ Good(items, previous_hash, got.view)
  <1> DEFINE p == previous_hash
             base == [heirs |-> {}, view |-> v]
             order == Sq!SetToSeq(S)
             To(r, y) == Ask(h, r, y)
             R == [heirs : SUBSET items, view : {w \in Views : Good(items, p, w)}]
             step == [q \in R \X items |-> To(q[1], q[2])]
             new(y) == IF is_child_of(h, y) THEN {y} ELSE {}
  <1>1. ASSUME NEW r \in R, NEW y \in items
        PROVE  To(r, y) \in R /\ To(r, y).heirs = r.heirs \cup new(y)
    <2>1. Good(items, p, r.view)
      OBVIOUS
    <2>2. PICK child : child = IsChildOf(r.view, h, y)
      OBVIOUS
    <2>3. (child.answer <=> is_child_of(h, y)) /\ Good(items, p, child.view)
      BY <2>1, <2>2, IsChildOfIsWalk
    <2>4. child.view \in Views
      BY <2>3 DEF Good, MemoSound
    <2>5. To(r, y) = [heirs |-> r.heirs \cup (IF child.answer THEN {y} ELSE {}), view |-> child.view]
      BY <2>2 DEF Ask
    <2>6. (IF child.answer THEN {y} ELSE {}) = new(y)
      BY <2>3
    <2> HIDE DEF To
    <2> QED BY <2>3, <2>4, <2>5, <2>6
  <1>2. step \in [R \X items -> R]
    <2> HIDE DEF R, To
    <2> QED BY <1>1
  <1>3. ASSUME NEW r \in R, NEW y \in items PROVE step[r, y] = To(r, y)
    <2> HIDE DEF R, To
    <2> QED OBVIOUS
  <1>4. /\ order \in Seq(items) /\ DOMAIN order = 1 .. Len(order) /\ Len(order) \in Nat
        /\ \A i \in DOMAIN order : order[i] \in items /\ order[i] \in S
        /\ \A x \in S : \E i \in 1 .. Len(order) : order[i] = x
    <2>1. order \in Seq(S) /\ \A x \in S : \E i \in 1 .. Len(order) : order[i] = x
      BY OrderCovers
    <2> HIDE DEF order
    <2> QED BY <2>1
  <1>5. base \in R
    BY DEF Good, MemoSound
  <1> HIDE DEF R, To, order
  <1>6. ASSUME NEW u \in SUBSET DOMAIN order, u # {}
        PROVE  Sq!Max(u) = Top(u) /\ Top(u) \in DOMAIN order /\ u \ {Top(u)} \in SUBSET DOMAIN order
    <2>1. Sq!Max(u) = Top(u)
      BY DEF Sq!Max, Top
    <2> QED BY <1>4, <1>6, <2>1, TopOfIndices
  <1> DEFINE Is(g) == g = [u \in SUBSET DOMAIN order |->
                             IF u = {} THEN base
                             ELSE To(g[u \ {Sq!Max(u)}], order[Sq!Max(u)])]
             G == CHOOSE g : Is(g)
  <1>7. Sq!FoldLeft(LAMBDA r, x : Ask(h, r, x), base, order) = G[DOMAIN order]
    BY DEF Sq!FoldLeft, Sq!MapThenFoldSet, To
  <1> HIDE DEF base
  <1>8. Is(G)
    <2>1. PICK g \in [SUBSET DOMAIN order -> R] : Folds(g, step, base, order)
      <3> HIDE DEF step
      <3> QED BY <1>2, <1>4, <1>5, FoldExists
    <2>2. ASSUME NEW u \in SUBSET DOMAIN order
          PROVE  g[u] = IF u = {} THEN base ELSE To(g[u \ {Sq!Max(u)}], order[Sq!Max(u)])
      <3>1. CASE u = {}
        BY <2>1, <3>1 DEF Folds
      <3>2. CASE u # {}
        <4>1. g[u] = step[g[u \ {Top(u)}], order[Top(u)]]
          BY <2>1, <3>2 DEF Folds
        <4> HIDE DEF step
        <4> QED BY <1>3, <1>4, <1>6, <3>2, <4>1
      <3> QED BY <3>1, <3>2
    <2>3. g = [u \in SUBSET DOMAIN order |-> g[u]]
      OBVIOUS
    <2>4. Is(g)
      BY <2>2, <2>3
    <2> HIDE DEF Is
    <2> QED BY <2>4
  <1>9. FoldsIn(R, G, step, base, order)
    <2>1. ASSUME NEW u \in SUBSET DOMAIN order
          PROVE  G[u] = IF u = {} THEN base ELSE To(G[u \ {Sq!Max(u)}], order[Sq!Max(u)])
      <3> HIDE DEF G
      <3> QED BY <1>8
    <2> HIDE DEF G
    <2>2. G[{}] = base
      BY <2>1
    <2>3. ASSUME NEW u \in SUBSET DOMAIN order, u # {}, G[u \ {Top(u)}] \in R
          PROVE  G[u] = step[G[u \ {Top(u)}], order[Top(u)]]
      <3>1. G[u] = To(G[u \ {Top(u)}], order[Top(u)])
        BY <1>6, <2>1, <2>3
      <3> HIDE DEF step
      <3> QED BY <1>3, <1>4, <1>6, <2>3, <3>1
    <2> HIDE DEF step
    <2> QED BY <2>2, <2>3 DEF FoldsIn
  <1> HIDE DEF G, step
  <1>10. PICK f : Along(f, R, G, step, base, order)
    BY <1>2, <1>4, <1>5, <1>9, FoldSteps
  <1>11. f[0] = base /\ G[DOMAIN order] = f[Len(order)] /\ \A i \in 0 .. Len(order) : f[i] \in R
    BY <1>10 DEF Along
  <1>12. ASSUME NEW i \in 1 .. Len(order)
         PROVE  f[i].heirs = f[i - 1].heirs \cup new(order[i])
    <2>1. f[i] = step[f[i - 1], order[i]] /\ f[i - 1] \in R /\ order[i] \in items
      <3>1. f[i] = step[f[i - 1], order[i]]
        BY <1>10 DEF Along
      <3>2. i - 1 \in 0 .. Len(order) /\ i \in DOMAIN order
        BY <1>4
      <3> QED BY <1>4, <1>11, <3>1, <3>2
    <2> HIDE DEF new, p
    <2>2. f[i] = To(f[i - 1], order[i])
      BY <1>3, <2>1
    <2> QED BY <1>1, <2>1, <2>2
  <1> DEFINE Told(i) == \A z : z \in f[i].heirs <=> \E j \in 1 .. i : order[j] = z /\ is_child_of(h, z)
             T == {i \in 0 .. Len(order) : Told(i)}
  <1>13. 0 \in T
    BY <1>4, <1>11 DEF base
  <1>14. ASSUME NEW i \in 1 .. Len(order), i - 1 \in T PROVE i \in T
    <2>1. ASSUME NEW z PROVE z \in f[i].heirs <=> \E j \in 1 .. i : order[j] = z /\ is_child_of(h, z)
      <3>1. z \in f[i].heirs <=> z \in f[i - 1].heirs \/ (z = order[i] /\ is_child_of(h, z))
        BY <1>12
      <3>2. z \in f[i - 1].heirs <=> \E j \in 1 .. i - 1 : order[j] = z /\ is_child_of(h, z)
        BY <1>14
      <3>3. \A j : j \in 1 .. i <=> j \in 1 .. i - 1 \/ j = i
        BY <1>4
      <3> QED BY <3>1, <3>2, <3>3
    <2> QED BY <2>1
  <1>15. Told(Len(order))
    <2>1. \A i \in 1 .. Len(order) : i - 1 \in T => i \in T
      BY <1>14
    <2> HIDE DEF T
    <2>2. \A i \in 0 .. Len(order) : i \in T
      BY <1>4, <1>13, <2>1, UpTo
    <2>3. Len(order) \in T
      BY <1>4, <2>2
    <2> QED BY <2>3 DEF T
  <1>16. PICK got : got = f[Len(order)]
    OBVIOUS
  <1>17. got \in R
    BY <1>4, <1>11, <1>16
  <1>18. Good(items, p, got.view)
    BY <1>17 DEF R
  <1>19. got.heirs = {x \in S : is_child_of(h, x)}
    <2>1. \A z : z \in got.heirs <=> z \in S /\ is_child_of(h, z)
      BY <1>4, <1>15, <1>16
    <2> QED BY <2>1
  <1>20. Sq!FoldLeft(LAMBDA r, x : Ask(h, r, x), base, order) = got
    BY <1>7, <1>11, <1>16
  <1> HIDE DEF p
  <1> QED BY ONLY <1>18, <1>19, <1>20 DEF p, base, order, Asked

\* The inductive invariant of TrackerView: the tables agree with the items, the cached
\* deltas are exact and linked to their references, and each goes down to a hash its
\* share's walk meets.
ViewIInv == IInv /\ Good(items, previous_hash, view)

\* The empty memo caches nothing, and nothing wrong.
LEMMA InitViewIInv == ViewInit => ViewIInv
  <1> SUFFICES ASSUME ViewInit PROVE ViewIInv
    OBVIOUS
  <1>1. IInv
    BY InitIInv DEF ViewInit
  <1>2. view = EmptyView /\ DOMAIN <<>> = {}
    BY DEF ViewInit
  <1>3. \A K, V : <<>> \in Dict(K, V)
    <2> TAKE K, V
    <2>1. <<>> = [k \in {} |-> <<>>[k]]
      OBVIOUS
    <2> QED BY <1>2, <2>1, DictFacts
  <1>4. /\ view \in Views
        /\ view.deltas = <<>> /\ view.reverse_deltas = <<>>
        /\ view.delta_refs = <<>> /\ view.reverse_delta_refs = <<>>
    BY <1>2, <1>3 DEF EmptyView, Views
  <1>5. /\ DOMAIN view.deltas = {} /\ DOMAIN view.reverse_deltas = {}
        /\ DOMAIN view.delta_refs = {} /\ DOMAIN view.reverse_delta_refs = {}
    BY <1>2, <1>4
  <1>6. IsFiniteSet(DOMAIN view.deltas)
    BY <1>5, FS_EmptySet
  <1>7. MemoSound(previous_hash, view)
    BY <1>4, <1>5, <1>6 DEF MemoSound, DeltasExact, RefsLinked
  <1> QED BY <1>1, <1>5, <1>7 DEF ViewIInv, Good

\* A walk answered from the memo changes no share and keeps the memo good.
LEMMA QueryStep ==
  ASSUME ViewIInv, NEW x \in Hash, Query(x)
  PROVE  UNCHANGED vars /\ Good(items', previous_hash', view')
  <1>1. IsForest(items, previous_hash) /\ x \in Node /\ UNCHANGED vars
    BY DEF ViewIInv, IInv, Query, Node
  <1>2. items' = items /\ previous_hash' = previous_hash
    BY <1>1 DEF vars
  <1>3. Lowers(items, previous_hash, view, view')
    BY <1>1, DeltaToLast DEF ViewIInv, Query
  <1> QED BY <1>1, <1>2, <1>3 DEF Lowers

\* The tail the memo gives is the one the walk gives, and a new share cuts no cached path.
LEMMA ViewAddStep ==
  ASSUME ViewIInv, NEW h \in Hash, ViewAdd(h)
  PROVE  Add(h) /\ Good(items', previous_hash', view')
  <1> DEFINE p == previous_hash
  <1>1. IInv /\ IsForest(items, p) /\ Good(items, p, view)
    BY DEF ViewIInv, IInv
  <1>2. p[h] \in Node
    BY <1>1, PreviousIsEarlier DEF IsForest
  <1>3. PICK under : under = get_delta_to_last(view, p[h])
    OBVIOUS
  <1>4. under.delta = Exact(p, p[h], get_last(p[h])) /\ Good(items, p, under.view)
    BY <1>1, <1>2, <1>3, DeltaToLast DEF Lowers, get_last
  <1>5. under.delta.tail = get_last(p[h])
    BY <1>4 DEF Exact
  <1>6. Add(h) /\ Good(items, p, view')
    <2>1. CASE p[h] \in DOMAIN heads
      BY <1>1, <2>1 DEF ViewAdd, Add, TailUnder
    <2>2. CASE p[h] \notin DOMAIN heads
      BY <1>3, <1>4, <1>5, <2>2 DEF ViewAdd, Add, TailUnder
    <2> QED BY <2>1, <2>2
  <1>7. items' = items \cup {h} /\ previous_hash' = p /\ IsForest(items \cup {h}, p)
    BY <1>1, <1>6 DEF Add, Attach, IsForest
  <1>8. ASSUME NEW x \in DOMAIN view'.deltas
        PROVE  Tail_(view', x) \in Chain(items \cup {h}, p)[x]
    <2>1. x \in Node /\ Tail_(view', x) \in Chain(items, p)[x]
      BY <1>1, <1>6, LastBelow DEF Good
    <2> QED BY <1>1, <1>7, <2>1, ChainGrows
  <1> QED BY <1>6, <1>7, <1>8 DEF Good

\* What the removal of a share leaves: paths of the shares that stay, once those under the
\* share are gone from the memo.
LEMMA ForgottenIsGood ==
  ASSUME NEW I, NEW p, NEW h, NEW v, MemoSound(p, v), DOMAIN v.deltas \subseteq I,
         \A x \in DOMAIN v.deltas \ {h} : Tail_(v, x) \in Chain(I \ {h}, p)[x] /\ Tail_(v, x) # x
  PROVE  Good(I \ {h}, p, _handle_removed(v, h))
  <1>1. PICK w : w = _handle_removed(v, h)
    OBVIOUS
  <1>2. /\ MemoSound(p, w) /\ DOMAIN w.deltas = DOMAIN v.deltas \ {h}
        /\ \A x \in DOMAIN w.deltas : Tail_(w, x) = Tail_(v, x)
    BY <1>1, HandleRemoved
  <1> QED BY <1>1, <1>2 DEF Good

\* A head is under no other share, so its removal cuts no other cached path.
LEMMA ViewRemoveHeadStep ==
  ASSUME ViewIInv, NEW h \in Hash, ViewRemoveHead(h)
  PROVE  Remove(h) /\ Good(items', previous_hash', view')
  <1> DEFINE p == previous_hash
  <1>1. IInv /\ IsForest(items, p) /\ Good(items, p, view)
    BY DEF ViewIInv, IInv
  <1>2. Remove(h) /\ Detach(h) /\ h \in HeadSet(items, p) /\ view' = _handle_removed(view, h)
    BY <1>1, TablesFacts DEF ViewRemoveHead, Remove, RemoveLone, RemoveHead
  <1>3. h \in items /\ items' = items \ {h} /\ previous_hash' = p
    BY <1>1, <1>2, DetachFacts
  <1>4. ASSUME NEW x \in DOMAIN view.deltas \ {h}
        PROVE  Tail_(view, x) \in Chain(items \ {h}, p)[x] /\ Tail_(view, x) # x
    <2>1. x \in Node /\ Tail_(view, x) \in Chain(items, p)[x] /\ Tail_(view, x) # x
      BY <1>1, LastBelow DEF Good
    <2>2. ~ Descends(items, p, h, x)
      BY <1>1, <1>2, <2>1, HeadHasNoHeirs
    <2> QED BY <1>1, <1>3, <2>1, <2>2, ChainAfterRemove
  <1>5. MemoSound(p, view) /\ DOMAIN view.deltas \subseteq items
    BY <1>1 DEF Good
  <1>6. Good(items \ {h}, p, _handle_removed(view, h))
    BY <1>4, <1>5, ForgottenIsGood
  <1> QED BY <1>2, <1>3, <1>6

\* The references at the tail of a lone root are moved up to the root before it goes.
LEMMA ViewRemoveRootStep ==
  ASSUME ViewIInv, NEW h \in Hash, ViewRemoveRoot(h)
  PROVE  Remove(h) /\ Good(items', previous_hash', view')
  <1> DEFINE p == previous_hash
  <1>1. IInv /\ IsForest(items, p) /\ Good(items, p, view)
    BY DEF ViewIInv, IInv
  <1>2. Remove(h) /\ Detach(h) /\ OnlyChild(h) /\ p[h] \in TailSet(items, p)
        /\ view' = _handle_removed(_handle_remove_special(view, h), h)
    BY <1>1, TablesFacts DEF ViewRemoveRoot, Remove, RemoveRoot
  <1>3. h \in items /\ items' = items \ {h} /\ previous_hash' = p /\ Children(items, p, p[h]) = {h}
        /\ p[h] \notin items
    BY <1>1, <1>2, DetachFacts DEF TailSet
  <1>4. PICK w : w = _handle_remove_special(view, h)
    OBVIOUS
  <1>5. /\ MemoSound(p, w) /\ DOMAIN w.deltas \subseteq items
        /\ \A x \in DOMAIN w.deltas \ {h} : Tail_(w, x) \in Chain(items \ {h}, p)[x] /\ Tail_(w, x) # x
    BY <1>1, <1>3, <1>4, HandleRoot
  <1>6. Good(items \ {h}, p, _handle_removed(w, h))
    BY <1>5, ForgottenIsGood
  <1> QED BY <1>2, <1>3, <1>4, <1>6

\* The heads that move are the ones on the root, and no cached path goes on under it.
LEMMA ViewRemoveForkedRootStep ==
  ASSUME ViewIInv, NEW h \in Hash, ViewRemoveForkedRoot(h)
  PROVE  Remove(h) /\ Good(items', previous_hash', view')
  <1> DEFINE p == previous_hash
  <1>1. IInv /\ IsForest(items, p) /\ Good(items, p, view) /\ IsFiniteSet(items)
    BY DEF ViewIInv, IInv
  <1>2. PICK S : S = tails[p[h]]
    OBVIOUS
  <1>3. PICK asked : asked = Asked(view, h, S)
    OBVIOUS
  <1>4. /\ p[h] \in DOMAIN tails /\ RemoveForkedRootWith(h, asked.heirs)
        /\ view' = _handle_removed(_handle_remove_special2(asked.view, h), h)
    BY <1>2, <1>3 DEF ViewRemoveForkedRoot, Ask, Asked
  <1>5. p[h] \in TailSet(items, p) /\ S = HeadsAbove(items, p, p[h])
    BY <1>1, <1>2, <1>4, TablesFacts
  <1>6. S \subseteq items /\ IsFiniteSet(S)
    <2>1. S \subseteq items
      BY <1>5 DEF HeadsAbove, HeadSet
    <2> QED BY <1>1, <2>1, FS_Subset
  <1>7. Detach(h) /\ h \in items /\ p[h] \notin items /\ items' = items \ {h} /\ previous_hash' = p
    <2>1. Detach(h)
      BY <1>4 DEF RemoveForkedRootWith
    <2>2. h \in items /\ items' = items \ {h} /\ previous_hash' = p
      BY <1>1, <2>1, DetachFacts
    <2> QED BY <1>5, <2>1, <2>2 DEF TailSet
  <1>8. asked.heirs = {x \in S : is_child_of(h, x)} /\ Good(items, p, asked.view)
    BY <1>1, <1>3, <1>6, <1>7, AskAll
  <1>9. Remove(h)
    BY <1>2, <1>4, <1>8 DEF Remove, RemoveForkedRoot, Heirs
  <1>10. PICK w : w = _handle_remove_special2(asked.view, h)
    OBVIOUS
  <1>11. MemoSound(p, asked.view) /\ DOMAIN asked.view.deltas \subseteq items
    BY <1>8 DEF Good
  <1>12. /\ MemoSound(p, w) /\ DOMAIN w.deltas \subseteq DOMAIN asked.view.deltas
         /\ \A x \in DOMAIN w.deltas : Tail_(w, x) = Tail_(asked.view, x) /\ Tail_(w, x) # p[h]
    BY <1>10, <1>11, HandleForkedRoot
  <1>13. ASSUME NEW x \in DOMAIN w.deltas \ {h}
         PROVE  Tail_(w, x) \in Chain(items \ {h}, p)[x] /\ Tail_(w, x) # x
    <2>1. x \in items /\ Tail_(w, x) \in Chain(items, p)[x] /\ Tail_(w, x) # x /\ Tail_(w, x) # p[h]
      BY <1>8, <1>11, <1>12 DEF Good
    <2> QED BY <1>1, <1>7, <2>1, RootGone
  <1>14. Good(items \ {h}, p, _handle_removed(w, h))
    BY <1>11, <1>12, <1>13, ForgottenIsGood
  <1> QED BY <1>4, <1>7, <1>9, <1>10, <1>14

\* Every step of the Tracker that reads its memo is a step of the one that walks, or none.
LEMMA ViewStep ==
  ASSUME ViewIInv, [ViewNext]_viewVars
  PROVE  [Next]_vars /\ ViewIInv'
  <1>1. [Next]_vars /\ Good(items', previous_hash', view')
    <2>1. ASSUME NEW h \in Hash, Query(h) PROVE [Next]_vars /\ Good(items', previous_hash', view')
      BY <2>1, QueryStep
    <2>2. ASSUME NEW h \in Hash, ViewAdd(h) PROVE [Next]_vars /\ Good(items', previous_hash', view')
      BY <2>2, ViewAddStep DEF Next
    <2>3. ASSUME NEW h \in Hash, ViewRemoveHead(h) PROVE [Next]_vars /\ Good(items', previous_hash', view')
      BY <2>3, ViewRemoveHeadStep DEF Next
    <2>4. ASSUME NEW h \in Hash, ViewRemoveRoot(h) PROVE [Next]_vars /\ Good(items', previous_hash', view')
      BY <2>4, ViewRemoveRootStep DEF Next
    <2>5. ASSUME NEW h \in Hash, ViewRemoveForkedRoot(h) PROVE [Next]_vars /\ Good(items', previous_hash', view')
      BY <2>5, ViewRemoveForkedRootStep DEF Next
    <2>6. ASSUME UNCHANGED viewVars PROVE [Next]_vars /\ Good(items', previous_hash', view')
      BY <2>6 DEF viewVars, vars, ViewIInv
    <2> QED BY <2>1, <2>2, <2>3, <2>4, <2>5, <2>6 DEF ViewNext
  <1>2. IInv'
    BY <1>1, NextIInv DEF ViewIInv
  <1> QED BY <1>1, <1>2 DEF ViewIInv

\* The memo stays good, and the tables agree with the items, whatever is asked, added or removed.
THEOREM ViewInvariance == ViewSpec => []ViewIInv
  <1>1. ViewIInv /\ [ViewNext]_viewVars => ViewIInv'
    BY ViewStep
  <1> QED BY <1>1, InitViewIInv, PTL DEF ViewSpec

\* The four dictionaries of the view (TrackerView in util/forest.py) always agree with each
\* other and cache only shares that are present.
THEOREM RefsAreConsistent == ViewSpec => []RefsConsistent
  <1>1. ASSUME ViewIInv PROVE RefsConsistent
    <2>1. MemoSound(previous_hash, view) /\ DOMAIN view.deltas \subseteq items
      BY <1>1 DEF ViewIInv, Good
    <2>2. DOMAIN view.reverse_delta_refs \subseteq Node /\ DeltasExact(previous_hash, view) /\ RefsLinked(view)
      BY <2>1, ViewFields DEF MemoSound
    <2> QED BY <2>1, <2>2 DEF RefsConsistent, DeltasExact, RefsLinked, Users
  <1>2. ViewIInv => RefsConsistent
    BY <1>1
  <1> QED BY <1>2, ViewInvariance, PTL

\* Whatever was added and removed since a delta was cached, get_height and get_work read back
\* the exact height and work of a path of present shares.
THEOREM CacheIsExact == ViewSpec => []CacheExact
  <1>1. ASSUME ViewIInv, NEW h \in DOMAIN view.deltas
        PROVE  LET d    == _get_delta(view, h)
                   path == PathOf(h, d.height)
               IN /\ d.head = h
                  /\ d.height > 0
                  /\ path \subseteq items
                  /\ d.tail = nth_parent(h, d.height)
                  /\ d.work = Total(path)
    <2>1. IsForest(items, previous_hash) /\ Good(items, previous_hash, view) /\ h \in items
      BY <1>1 DEF ViewIInv, IInv, Good
    <2>2. h \in Node
      BY <2>1, LastBelow
    <2>3. PICK d : d = _get_delta(view, h)
      OBVIOUS
    <2>4. d = Exact(previous_hash, h, d.tail) /\ d.tail # h /\ d.tail \in Chain(items, previous_hash)[h]
      BY <2>1, <2>3, GetDelta
    <2>5. PathFits(items, h, d.tail)
      BY <2>1, <2>2, <2>4, PathsFit
    <2>6. /\ d.head = h /\ d.height = Depth(previous_hash, h) - Depth(previous_hash, d.tail)
          /\ d.work = Weight(previous_hash, h) - Weight(previous_hash, d.tail)
      BY <2>4 DEF Exact
    <2> QED BY <2>3, <2>4, <2>5, <2>6 DEF PathFits
  <1>2. ViewIInv => CacheExact
    BY <1>1 DEF CacheExact, Total
  <1> QED BY <1>2, ViewInvariance, PTL

\* The Tracker whose add and remove read the memo does what the Tracker that walks does: the
\* memo never files a share over a wrong tail nor moves a wrong head (Tracker.add and
\* Tracker.remove in util/forest.py).
THEOREM ViewRefinement == ViewSpec => RefinesTracker
  <1>1. ViewInit => Init
    BY DEF ViewInit
  <1>2. ViewIInv /\ [ViewNext]_viewVars => [Next]_vars
    BY ViewStep
  <1> QED BY <1>1, <1>2, ViewInvariance, PTL DEF ViewSpec, RefinesTracker, Spec
=============================================================================
