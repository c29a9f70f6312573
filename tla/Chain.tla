-------------------------------- MODULE Chain --------------------------------
(***************************************************************************)
(* The tracker seen as chains of shares (util/forest.py), for the modules  *)
(* in which its memo and its events do not matter: share holds every share *)
(* there ever was, items the numbers of those the tracker has now.         *)
(***************************************************************************)
EXTENDS Naturals, Sequences, FiniteSets

Sq == INSTANCE SequencesExt

CONSTANTS Keep,            \* 2*CHAIN_LENGTH + 10: the height above which tails are dropped
          MaxShares        \* bound: the most shares made

VARIABLES share,      \* every share made, the first made first; a share's number is its hash
          items       \* tracker.items

None == 0
Hash == 1 .. MaxShares

\* The shares from h down to the last that is there, h first; and down to the first of all.
PathIn(S, h) ==
  LET path[x \in 0 .. Len(share)] == IF x \in S THEN <<x>> \o path[share[x].previous] ELSE <<>>
  IN path[h]
Path(h) == PathIn(items, h)
FullPath(h) == PathIn(DOMAIN share, h)

Heads(S) == {h \in S : \A x \in S : share[x].previous # h}

get_height(h) == Len(Path(h))
get_nth_parent_hash(h, n) == IF n = 0 THEN h ELSE share[Path(h)[n]].previous
get_last(h) == IF h \in items THEN share[Sq!Last(Path(h))].previous ELSE h

\* get_chain: the n shares from h on.
get_chain(h, n) == SubSeq(Path(h), 1, n)

\* What the end of clean_tracker leaves: the first shares go, again and again, over every tail
\* all of whose heads are high above it.
Pruned ==
  LET tail(S, h) == share[Sq!Last(PathIn(S, h))].previous
      roots(S) == {r \in S : LET t == share[r].previous IN
                             t \notin S /\ \A h \in Heads(S) : tail(S, h) = t => Len(PathIn(S, h)) >= Keep}
      left[n \in 0 .. MaxShares] ==
        IF n = 0 THEN items ELSE LET S == left[n - 1] IN S \ roots(S)
  IN left[MaxShares]
=============================================================================
