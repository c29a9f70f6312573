----------------------------- MODULE TrackerView -----------------------------
(***************************************************************************)
(* forest.TrackerView (util/forest.py): the memo behind get_height,        *)
(* get_work, get_last and is_child_of. A share's cached delta is the sum   *)
(* of the path from it to some older hash; deltas are stored relative to a *)
(* shared reference, so that removing a root moves one reference instead   *)
(* of every share above it. The memo survives adds under and over the      *)
(* cached paths, and the three removal events keep it true.                *)
(*                                                                         *)
(* The Tracker's own add and remove read this memo (add through get_last,  *)
(* remove through is_child_of), so the actions here are Tracker's with the *)
(* memoized answers in place of the walks of ForestShape.                  *)
(***************************************************************************)
EXTENDS Tracker, Integers, Sequences, FiniteSetsExt

Sq == INSTANCE SequencesExt

CONSTANT Work     \* the work in each share, the attribute summed along a path

ASSUME WorkAssumption == Work \in [Hash -> Nat]

VARIABLE view     \* the four dictionaries of the Tracker's default view

viewVars == <<vars, view>>

-----------------------------------------------------------------------------
\* Deltas (forest.get_attributedelta_type): a path, and the sums over its shares.
\* An operand that does not fit is an AssertionError: no value.

none(x) == [head |-> x, tail |-> x, height |-> 0, work |-> 0]

from_element(h) ==
  [head |-> h, tail |-> previous_hash[h], height |-> 1, work |-> Work[h]]

Plus(d, e) ==
  CASE d.tail = e.head ->
    [head |-> d.head, tail |-> e.tail, height |-> d.height + e.height, work |-> d.work + e.work]

Minus(d, e) ==
  LET sums(from, to) == [head |-> from, tail |-> to,
                         height |-> d.height - e.height, work |-> d.work - e.work]
  IN CASE d.head = e.head -> sums(e.tail, d.tail)
       [] d.head # e.head /\ d.tail = e.tail -> sums(d.head, e.head)

-----------------------------------------------------------------------------
\* The dictionaries of a view, by their names in the code:
\*   deltas              share -> its delta down to its reference, and the reference
\*   reverse_deltas      reference -> the shares that use it
\*   delta_refs          reference -> its own delta
\*   reverse_delta_refs  tail of a reference's delta -> the reference

EmptyView == [deltas |-> <<>>, reverse_deltas |-> <<>>,
              delta_refs |-> <<>>, reverse_delta_refs |-> <<>>]

\* The reference counter never repeats a number; numbers no longer in use are reused
\* here, which no dictionary can tell once RefsConsistent holds.
NewRef(v) == CHOOSE r \in 0 .. Cardinality(DOMAIN v.delta_refs) : r \notin DOMAIN v.delta_refs

DropRef(v, ref) ==
  [v EXCEPT !.reverse_deltas = Without(@, {ref}),
            !.delta_refs = Without(@, {ref}),
            !.reverse_delta_refs = Without(@, {v.delta_refs[ref].tail})]

\* A share's own delta when nothing is cached for it.
_get_delta(v, h) ==
  IF h \in DOMAIN v.deltas
  THEN Plus(v.deltas[h].delta, v.delta_refs[v.deltas[h].ref])
  ELSE from_element(h)

WithRefAt(v, tail) ==
  IF tail \in DOMAIN v.reverse_delta_refs THEN v
  ELSE [v EXCEPT !.delta_refs = Put(@, NewRef(v), none(tail)),
                 !.reverse_delta_refs = Put(@, tail, NewRef(v))]

\* A slip: the share stays among the users of the reference it used.
ReleaseKeepsUser(v, h, ref) ==
  IF h \notin DOMAIN v.deltas THEN v
  ELSE LET old == v.deltas[h].ref
       IN IF v.reverse_deltas[old] = {h} /\ old # ref THEN DropRef(v, old) ELSE v

\* Takes a share off the reference it used, which goes with its last user.
Release(v, h, ref) ==
  IF h \notin DOMAIN v.deltas THEN v
  ELSE LET old  == v.deltas[h].ref
           left == v.reverse_deltas[old] \ {h}
       IN IF left = {} /\ old # ref THEN DropRef(v, old)
          ELSE [v EXCEPT !.reverse_deltas = Put(@, old, left)]

_set_delta(v, h, delta) ==
  LET made == WithRefAt(v, delta.tail)
      ref  == made.reverse_delta_refs[delta.tail]
      own  == [delta |-> Minus(delta, made.delta_refs[ref]), ref |-> ref]
  IN [Release(made, h, ref) EXCEPT
        !.deltas = Put(@, h, own),
        !.reverse_deltas = Put(@, ref, Entry(@, ref) \cup {h})]

\* The walk: from cached path to cached path to the first absent hash, and then every
\* stop on the way cached down to that hash.
get_delta_to_last(v, x) ==
  LET rest[y \in Node] ==
        IF y \in items THEN Plus(_get_delta(v, y), rest[_get_delta(v, y).tail]) ELSE none(y)
      stops[y \in Node] ==
        IF y \in items THEN <<y>> \o stops[_get_delta(v, y).tail] ELSE <<>>
  IN [delta |-> rest[x],
      view  |-> Sq!FoldLeft(LAMBDA w, y : _set_delta(w, y, rest[y]), v, stops[x])]

nth_parent(x, n) ==
  LET up[k \in 0 .. n] == IF k = 0 THEN x ELSE previous_hash[up[k - 1]]
  IN up[n]

\* A slip: a share of the same tail and no lower height is taken for a child.
IsChildOfByHeight(v, x, y) ==
  LET under == get_delta_to_last(v, x)
      over  == get_delta_to_last(under.view, y)
  IN [answer |-> /\ over.delta.tail = under.delta.tail
                 /\ over.delta.height >= under.delta.height,
      view   |-> over.view]

\* Tracker.is_child_of with the heights and tails of the memo.
IsChildOf(v, x, y) ==
  LET under == get_delta_to_last(v, x)
      over  == get_delta_to_last(under.view, y)
      up    == over.delta.height - under.delta.height
  IN [answer |-> /\ over.delta.tail = under.delta.tail
                 /\ up >= 0
                 /\ nth_parent(y, up) = x,
      view   |-> over.view]

-----------------------------------------------------------------------------
\* A slip: the event of a removed root is missed.
_handle_remove_special_missed(v, h) == v

\* The only share on its tail goes: what was cached down to that tail now ends at it.
_handle_remove_special(v, h) ==
  LET tail  == previous_hash[h]
      users == IF h \in DOMAIN v.reverse_delta_refs
               THEN Entry(v.reverse_deltas, v.reverse_delta_refs[h]) ELSE {}
      low   == Sq!FoldLeft(LAMBDA w, x : get_delta_to_last(w, x).view, v, Sq!SetToSeq(users))
      ref   == low.reverse_delta_refs[tail]
  IN CASE tail \notin DOMAIN v.reverse_delta_refs -> v
       [] tail \in DOMAIN v.reverse_delta_refs /\ h \notin DOMAIN low.reverse_delta_refs ->
            IF tail \notin DOMAIN low.reverse_delta_refs THEN low
            ELSE [low EXCEPT
                    !.delta_refs[ref] = Minus(@, from_element(h)),
                    !.reverse_delta_refs = Put(Without(@, {tail}), h, ref)]

\* One of several shares on a tail goes: everything cached down to that tail is forgotten.
_handle_remove_special2(v, h) ==
  LET tail == previous_hash[h]
      ref  == v.reverse_delta_refs[tail]
  IN IF tail \notin DOMAIN v.reverse_delta_refs THEN v
     ELSE [DropRef(v, ref) EXCEPT !.deltas = Without(@, v.reverse_deltas[ref])]

\* A slip: the entry of the removed share stays when others use its reference.
_handle_removed_last(v, h) ==
  IF h \notin DOMAIN v.deltas THEN v
  ELSE LET ref == v.deltas[h].ref
       IN IF v.reverse_deltas[ref] # {h} THEN v
          ELSE DropRef([v EXCEPT !.deltas = Without(@, {h})], ref)

_handle_removed(v, h) ==
  IF h \notin DOMAIN v.deltas THEN v
  ELSE LET ref  == v.deltas[h].ref
           left == v.reverse_deltas[ref] \ {h}
           w    == [v EXCEPT !.deltas = Without(@, {h}), !.reverse_deltas[ref] = left]
       IN IF left = {} THEN DropRef(w, ref) ELSE w

-----------------------------------------------------------------------------
ViewInit == Init /\ view = EmptyView

\* get_height, get_work, get_last, get_height_and_last of a share.
Query(x) ==
  /\ x \in items
  /\ view' = get_delta_to_last(view, x).view
  /\ UNCHANGED vars

ViewAdd(h) ==
  LET parent == previous_hash[h]
      under  == get_delta_to_last(view, parent)
  IN IF parent \in DOMAIN heads
     THEN Attach(h, heads[parent]) /\ UNCHANGED view
     ELSE Attach(h, under.delta.tail) /\ view' = under.view

ViewRemoveHead(h) ==
  /\ RemoveLone(h) \/ RemoveHead(h)
  /\ view' = _handle_removed(view, h)

ViewRemoveRoot(h) ==
  /\ RemoveRoot(h)
  /\ view' = _handle_removed(_handle_remove_special(view, h), h)

\* Every head over the tail is asked whether it is built on h.
ViewRemoveForkedRoot(h) ==
  /\ previous_hash[h] \in DOMAIN tails
  /\ LET ask(got, x) == LET child == IsChildOf(got.view, h, x)
                        IN [heirs |-> got.heirs \cup (IF child.answer THEN {x} ELSE {}),
                            view  |-> child.view]
         asked == Sq!FoldLeft(ask, [heirs |-> {}, view |-> view],
                           Sq!SetToSeq(tails[previous_hash[h]]))
     IN /\ RemoveForkedRootWith(h, asked.heirs)
        /\ view' = _handle_removed(_handle_remove_special2(asked.view, h), h)

ViewNext ==
  \E h \in Hash :
    \/ Query(h)
    \/ ViewAdd(h)
    \/ ViewRemoveHead(h)
    \/ ViewRemoveRoot(h)
    \/ ViewRemoveForkedRoot(h)

ViewSpec == ViewInit /\ [][ViewNext]_viewVars

-----------------------------------------------------------------------------
\* The shares on the path of n shares that starts at h.
PathOf(h, n) == {nth_parent(h, k) : k \in 0 .. n - 1}

\* Only shares that are present are cached, each down to a reference that exists; and the
\* four dictionaries are each other's inverses: a reference is listed under the tail of
\* its delta, has at least one user, and its users are the shares that name it.
RefsConsistent ==
  /\ DOMAIN view.deltas \subseteq items
  /\ \A h \in DOMAIN view.deltas : view.deltas[h].ref \in DOMAIN view.delta_refs
  /\ DOMAIN view.reverse_delta_refs \subseteq Node
  /\ DOMAIN view.reverse_deltas = DOMAIN view.delta_refs
  /\ \A ref \in DOMAIN view.delta_refs :
       /\ view.reverse_deltas[ref] # {}
       /\ view.reverse_deltas[ref] = {h \in DOMAIN view.deltas : view.deltas[h].ref = ref}
       /\ view.delta_refs[ref].tail \in DOMAIN view.reverse_delta_refs
       /\ view.reverse_delta_refs[view.delta_refs[ref].tail] = ref
  /\ \A t \in DOMAIN view.reverse_delta_refs : view.reverse_delta_refs[t] \in DOMAIN view.delta_refs

\* Whatever was cached, and whatever was added or removed since, the path read back for
\* a share is a path of the present forest with exactly its height and work.
CacheExact ==
  \A h \in DOMAIN view.deltas :
    LET d    == _get_delta(view, h)
        path == PathOf(h, d.height)
    IN /\ d.head = h
       /\ d.height > 0
       /\ path \subseteq items
       /\ d.tail = nth_parent(h, d.height)
       /\ d.work = FoldSet(LAMBDA x, sum : sum + Work[x], 0, path)

\* A Tracker that reads its memo behaves as one that walks: each add files the share over
\* the right tail, and each removal of a forked root moves exactly the heads built on it.
RefinesTracker == Spec
=============================================================================
