------------------------------- MODULE Tracker -------------------------------
(***************************************************************************)
(* forest.Tracker (util/forest.py): the shares by hash, and three          *)
(* dictionaries every add and remove updates in place: the children of     *)
(* each hash, the tail under each head, the heads above each tail.         *)
(*                                                                         *)
(* get_last and is_child_of are the walks of ForestShape here; the module  *)
(* TrackerView replaces them by the memoized walks of forest.TrackerView.  *)
(* A dictionary is a function whose DOMAIN is its set of keys.             *)
(***************************************************************************)
EXTENDS ForestShape

VARIABLES items,           \* Tracker.items: the shares present
          previous_hash,   \* the previous_hash inside each share
          reverse,         \* Tracker.reverse: previous_hash -> children
          heads,           \* Tracker.heads: head -> its tail
          tails            \* Tracker.tails: tail -> its heads

vars == <<items, previous_hash, reverse, heads, tails>>

\* d.setdefault(k, set()) before an update of d[k].
Entry(d, k) == IF k \in DOMAIN d THEN d[k] ELSE {}

\* d[k] = v
Put(d, k, v) == [x \in DOMAIN d \cup {k} |-> IF x = k THEN v ELSE d[x]]

\* d without the keys K.
Without(d, K) == [x \in DOMAIN d \ K |-> d[x]]

\* d[k] = v, and the key deleted when the set v is empty.
PutOrDrop(d, k, v) == IF v = {} THEN Without(d, {k}) ELSE Put(d, k, v)

get_last(x) == Last(items, previous_hash, x)
is_child_of(x, y) == Descends(items, previous_hash, x, y)

-----------------------------------------------------------------------------
Init ==
  /\ items = {}
  /\ previous_hash \in Previous
  /\ reverse = <<>>
  /\ heads = <<>>
  /\ tails = <<>>

\* The heads that now stand over the new share's tail.
HeadsOver(h) == IF h \in DOMAIN tails THEN tails[h] ELSE {h}

\* A slip: the new share's parent stays listed as a head of its tail.
AddTailsKeepsParent(h, tail) ==
  LET kept == Without(tails, {h})
  IN Put(kept, tail, Entry(kept, tail) \cup HeadsOver(h))

\* A slip: the new share's own entry is read and not popped.
AddTailsKeepsTail(h, tail) ==
  Put(tails, tail, (Entry(tails, tail) \cup HeadsOver(h)) \ {previous_hash[h]})

AddTails(h, tail) ==
  LET kept == Without(tails, {h})
  IN Put(kept, tail, (Entry(kept, tail) \cup HeadsOver(h)) \ {previous_hash[h]})

AddHeads(h, tail) ==
  [x \in (DOMAIN heads \ {previous_hash[h]}) \cup HeadsOver(h) |->
     IF x \in HeadsOver(h) THEN tail ELSE heads[x]]

\* Tracker.add, once the tail under the new share is known.
Attach(h, tail) ==
  /\ h \notin items
  /\ items' = items \cup {h}
  /\ reverse' = Put(reverse, previous_hash[h], Entry(reverse, previous_hash[h]) \cup {h})
  /\ tails' = AddTails(h, tail)
  /\ heads' = AddHeads(h, tail)
  /\ UNCHANGED previous_hash

TailUnder(h) ==
  IF previous_hash[h] \in DOMAIN heads THEN heads[previous_hash[h]]
  ELSE get_last(previous_hash[h])

Add(h) == Attach(h, TailUnder(h))

-----------------------------------------------------------------------------
\* The end of Tracker.remove, common to its cases.
Detach(h) ==
  /\ h \in items
  /\ items' = items \ {h}
  /\ reverse' = PutOrDrop(reverse, previous_hash[h], reverse[previous_hash[h]] \ {h})
  /\ UNCHANGED previous_hash

OnlyChild(h) == reverse[previous_hash[h]] = {h}

\* A slip: the parent takes the head's place without a look at whether it is present.
RemoveLoneToParent(h) ==
  /\ h \in DOMAIN heads
  /\ previous_hash[h] \in DOMAIN tails
  /\ heads' = Put(Without(heads, {h}), previous_hash[h], heads[h])
  /\ tails' = PutOrDrop(tails, heads[h], tails[heads[h]] \ {h})
  /\ Detach(h)

\* A head whose previous share is absent: a chain of one share, or a lone root
\* beside other chains with the same tail.
RemoveLone(h) ==
  /\ h \in DOMAIN heads
  /\ previous_hash[h] \in DOMAIN tails
  /\ heads' = Without(heads, {h})
  /\ tails' = PutOrDrop(tails, heads[h], tails[heads[h]] \ {h})
  /\ Detach(h)

\* A head with its previous share present, which becomes a head when it has no
\* other child.
RemoveHead(h) ==
  LET parent == previous_hash[h]
      tail   == heads[h]
      rest   == Without(heads, {h})
  IN /\ h \in DOMAIN heads
     /\ parent \notin DOMAIN tails
     /\ IF OnlyChild(h)
        THEN /\ heads' = Put(rest, parent, tail)
             /\ tails' = Put(tails, tail, (tails[tail] \ {h}) \cup {parent})
        ELSE /\ heads' = rest
             /\ tails' = Put(tails, tail, tails[tail] \ {h})
     /\ Detach(h)

\* Moves the heads in heirs from the tail under h to the tail h becomes.
PromoteToTail(h, heirs) ==
  LET old == previous_hash[h]
  IN /\ heads' = [x \in DOMAIN heads |-> IF x \in heirs THEN h ELSE heads[x]]
     /\ tails' = Put(PutOrDrop(tails, old, tails[old] \ heirs), h, heirs)

\* The only share on its tail: every head over that tail is over it.
RemoveRoot(h) ==
  /\ h \in items \ DOMAIN heads
  /\ previous_hash[h] \in DOMAIN tails
  /\ OnlyChild(h)
  /\ PromoteToTail(h, tails[previous_hash[h]])
  /\ Detach(h)

\* One of several shares on one tail: only the heads built on it move.
Heirs(h) == {x \in tails[previous_hash[h]] : is_child_of(h, x)}

RemoveForkedRootWith(h, heirs) ==
  /\ h \in items \ DOMAIN heads
  /\ previous_hash[h] \in DOMAIN tails
  /\ ~OnlyChild(h)
  /\ PromoteToTail(h, heirs)
  /\ Detach(h)

RemoveForkedRoot(h) ==
  /\ previous_hash[h] \in DOMAIN tails
  /\ RemoveForkedRootWith(h, Heirs(h))

\* Tracker.remove; a share in the middle of a chain is refused (NotImplementedError).
Remove(h) ==
  \/ RemoveLone(h)
  \/ RemoveHead(h)
  \/ RemoveRoot(h)
  \/ RemoveForkedRoot(h)

Next == \E h \in Hash : Add(h) \/ Remove(h)

Spec == Init /\ [][Next]_vars

-----------------------------------------------------------------------------
\* Every variable has its type: no dictionary has a key or a value that is not a hash.
TypeOK ==
  /\ items \in SUBSET Hash
  /\ previous_hash \in Previous
  /\ DOMAIN reverse \subseteq Node /\ reverse \in [DOMAIN reverse -> SUBSET Hash]
  /\ DOMAIN heads \subseteq Hash /\ heads \in [DOMAIN heads -> Node]
  /\ DOMAIN tails \subseteq Node /\ tails \in [DOMAIN tails -> SUBSET Hash]

ReverseAgrees ==
  reverse = [x \in {previous_hash[i] : i \in items} |-> Children(items, previous_hash, x)]

\* Tracker.heads, patched by each add and remove, is what DumbTracker computes from
\* the items: every share nothing is built on, with the hash its chain ends at.
HeadsAgree ==
  heads = [h \in HeadSet(items, previous_hash) |-> Last(items, previous_hash, h)]

\* Tracker.tails is what DumbTracker computes: every missing hash a share names, with
\* exactly the heads whose chains end there.
TailsAgree ==
  tails = [t \in TailSet(items, previous_hash) |-> HeadsAbove(items, previous_hash, t)]

\* The dictionaries add and remove maintain are the ones recomputed from the items.
TablesAgree == ReverseAgrees /\ HeadsAgree /\ TailsAgree

Abstract == INSTANCE Forest WITH items <- items, previous_hash <- previous_hash

\* Every add and remove of the dictionaries is an add or a removal of the abstract
\* forest: in particular none of the four cases of remove takes a share out of the
\* middle of a chain.
RefinesForest == Abstract!Spec
=============================================================================
