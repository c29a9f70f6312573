----------------------------- MODULE ExpiringDict -----------------------------
(***************************************************************************)
(* util/expiring_dict.py: a dictionary whose entries leave it some time    *)
(* after they were set, or when newer ones need their place. It is kept    *)
(* here as its expiry_deque: a sequence of entries, the oldest first, each *)
(* with the time it has left. The loop that calls expire() every second,   *)
(* and the calls before a dictionary is read, are Elapsed.                 *)
(***************************************************************************)
EXTENDS Naturals, Sequences

Sq == INSTANCE SequencesExt

Keys(d) == {d[i].key : i \in DOMAIN d}

\* The node of key.
Node(d, key) == CHOOSE i \in DOMAIN d : d[i].key = key

\* d[key] and get, neither of which touches the entry (get_touches=False).
At(d, key) == d[Node(d, key)].value
Get(d, key, default) == IF key \in Keys(d) THEN At(d, key) ELSE default

Delete(d, key) == IF key \in Keys(d) THEN Sq!RemoveAt(d, Node(d, key)) ELSE d

\* d[key] = value: the entry gets a whole life again, and when the key is new and the
\* dictionary full the oldest entry goes.
touch(d, key, value, life, max_len) ==
  LET full == key \notin Keys(d) /\ Len(d) >= max_len
  IN Append(IF full THEN Tail(d) ELSE Delete(d, key), [key |-> key, value |-> value, left |-> life])

\* What expire() leaves: the entries from the oldest that is not due.
expire(d) ==
  LET due == CHOOSE n \in 0 .. Len(d) : /\ \A i \in 1 .. n : d[i].left = 0
                                        /\ n < Len(d) => d[n + 1].left > 0
  IN SubSeq(d, due + 1, Len(d))

\* A unit of time passes.
Elapsed(d) == expire([i \in DOMAIN d |-> [d[i] EXCEPT !.left = @ - 1]])
=============================================================================
