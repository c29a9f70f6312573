------------------------------ MODULE ShareStore ------------------------------
(***************************************************************************)
(* data.ShareStore, the files the node keeps its shares in, and what main  *)
(* does with it: load everything at start, forget what the tracker no      *)
(* longer has, and once a minute save the best chain.                      *)
(*                                                                         *)
(* A handler runs in one turn, but the process may die between two lines   *)
(* it writes or two files it removes, so each line saved and each line     *)
(* forgotten is a step, and only a crash comes between the steps of one    *)
(* handler. The tracker is reduced to the shares it holds and which of     *)
(* those are verified.                                                     *)
(***************************************************************************)
EXTENDS ForestShape, FiniteSetsExt

CONSTANTS previous_hash,   \* the previous_hash inside each share
          Keep,            \* 2*CHAIN_LENGTH: how much of the best chain is saved
          MaxLines,        \* the lines that fill a file up to 10e6 bytes
          MaxSuffix,       \* bound: the last file name in use
          MaxTears         \* bound: how often a write stops halfway: the disk is full, the process stops

ASSUME ShareStoreAssumption ==
  /\ previous_hash \in Previous
  /\ {Keep, MaxLines} \subseteq Nat \ {0}
  /\ {MaxSuffix, MaxTears} \subseteq Nat

\* A line of type 5, a share, or of type 2, the hash of a verified share.
Entry == {"share", "verified"} \X Hash

File == [whole : SUBSET Entry,    \* the lines that can be read back
         tail : SUBSET Entry,     \* the last line, when only its newline is missing
         open : BOOLEAN,          \* whether the last line has no newline
         lines : 0 .. MaxLines]

VARIABLES disk,            \* the files, by suffix
          known,           \* ShareStore.known: by file, what it holds
          known_desired,   \* and what is still wanted of that
          up,              \* whether the node runs
          items, verified, \* the tracker's shares, and the verified ones
          to_save,         \* the lines the running save_shares has yet to save
          to_forget,       \* the lines the running handler has yet to forget
          saved,           \* history: what has been saved and not been given up since
          tears            \* history: how many writes stopped halfway

tracker   == <<items, verified>>
jobs      == <<to_save, to_forget>>
storeVars == <<disk, known, known_desired, up, tracker, jobs, saved, tears>>

readable(f) == disk[f].whole \cup disk[f].tail
Stored      == UNION {readable(f) : f \in DOMAIN disk}

Drop(g, S)   == [f \in DOMAIN g \ S |-> g[f]]
Put(g, f, x) == [k \in DOMAIN g \cup {f} |-> IF k = f THEN x ELSE g[k]]

Idle == up /\ to_save = {} /\ to_forget = {}

-----------------------------------------------------------------------------
\* Mutant: a full file takes one line more.
filename_late ==
  IF DOMAIN disk = {} THEN 0
  ELSE LET last == Max(DOMAIN disk) IN IF disk[last].lines <= MaxLines THEN last ELSE last + 1

\* The file the next line goes to: the last, or when that is full a new one.
filename ==
  IF DOMAIN disk = {} THEN 0
  ELSE LET last == Max(DOMAIN disk) IN IF disk[last].lines < MaxLines THEN last ELSE last + 1

contents(f) ==
  IF f \in DOMAIN disk THEN disk[f] ELSE [whole |-> {}, tail |-> {}, open |-> FALSE, lines |-> 0]

\* Mutant: a line that was joined to another has no newline either.
_add_line_unended(e) ==
  LET c == contents(filename)
  IN disk' = Put(disk, filename,
               IF c.open THEN [c EXCEPT !.tail = {}, !.lines = @ + 1]
               ELSE [c EXCEPT !.whole = @ \cup {e}, !.lines = @ + 1])

\* A line that follows one without a newline is part of it, and neither can be read.
_add_line(e) ==
  LET c == contents(filename)
  IN disk' = Put(disk, filename,
               IF c.open THEN [c EXCEPT !.tail = {}, !.open = FALSE, !.lines = @ + 1]
               ELSE [c EXCEPT !.whole = @ \cup {e}, !.lines = @ + 1])

Holds(e) == {f \in DOMAIN known : e \in known[f]}

\* A write that stops halfway, or just before the newline.
TornLine(e) ==
  LET c == contents(filename)
  IN /\ tears < MaxTears /\ tears' = tears + 1
     /\ filename <= MaxSuffix /\ Holds(e) = {}
     /\ \E kept \in {{}, {e}} :
          disk' = Put(disk, filename,
                    [c EXCEPT !.tail = IF c.open THEN {} ELSE kept, !.open = TRUE, !.lines = @ + 1])

\* The chain is saved from its newest share on, a share before its verified hash.
NextToSave(e) ==
  /\ e \in to_save
  /\ \A d \in to_save : d[2] < e[2] \/ (d[2] = e[2] /\ (d[1] = "verified" \/ e[1] = "share"))

\* add_share and add_verified_hash: a line already in a file is wanted again there, one
\* in no file is added to the last.
Save(e) ==
  /\ NextToSave(e)
  /\ IF Holds(e) # {}
     THEN /\ \E f \in Holds(e) : known_desired' = [known_desired EXCEPT ![f] = @ \cup {e}]
          /\ UNCHANGED <<disk, known>>
     ELSE /\ filename <= MaxSuffix
          /\ _add_line(e)
          /\ LET of(g) == IF filename \in DOMAIN g THEN g[filename] ELSE {}
             IN /\ known' = Put(known, filename, of(known) \cup {e})
                /\ known_desired' = Put(known_desired, filename, of(known_desired) \cup {e})
  /\ saved' = saved \cup {e}
  /\ to_save' = to_save \ {e}
  /\ UNCHANGED <<up, tracker, to_forget, tears>>

\* The write fails: the rest of the pass is given up, and the next one tries again.
SaveFails(e) ==
  /\ NextToSave(e)
  /\ TornLine(e)
  /\ to_save' = {}
  /\ UNCHANGED <<known, known_desired, up, tracker, to_forget, saved>>

Without(e) == [f \in DOMAIN known_desired |-> known_desired[f] \ {e}]

\* Mutant: verified hashes keep no file.
check_remove_shares(desired) ==
  {f \in DOMAIN desired : \A e \in desired[f] : e[1] # "share"}

\* check_remove: the files of which nothing is wanted any more.
check_remove(desired) == {f \in DOMAIN desired : desired[f] = {}}

\* Mutant: what a removed file held is still believed to be there.
ForgetOnDisk(e) ==
  /\ e \in to_forget
  /\ known_desired' = Without(e)
  /\ disk' = Drop(disk, check_remove(Without(e)))
  /\ saved' = saved \ {e}
  /\ to_forget' = to_forget \ {e}
  /\ UNCHANGED <<known, up, tracker, to_save, tears>>

\* forget_share and forget_verified_share.
Forget(e) ==
  /\ e \in to_forget
  /\ LET gone == check_remove(Without(e)) IN
     /\ known_desired' = Drop(Without(e), gone)
     /\ known' = Drop(known, gone)
     /\ disk' = Drop(disk, gone)
  /\ saved' = saved \ {e}
  /\ to_forget' = to_forget \ {e}
  /\ UNCHANGED <<up, tracker, to_save, tears>>

-----------------------------------------------------------------------------
\* The tracker gets a share, verifies one, and lets one go: out of the verified first.

Added(h) ==
  /\ Idle /\ h \notin items
  /\ items' = items \cup {h}
  /\ UNCHANGED <<disk, known, known_desired, up, verified, jobs, saved, tears>>

Verified(h) ==
  /\ Idle /\ h \in items \ verified
  /\ verified' = verified \cup {h}
  /\ UNCHANGED <<disk, known, known_desired, up, items, jobs, saved, tears>>

VerifiedRemoved(h) ==
  /\ Idle /\ h \in verified
  /\ verified' = verified \ {h}
  /\ to_forget' = {<<"verified", h>>}
  /\ UNCHANGED <<disk, known, known_desired, up, items, to_save, saved, tears>>

Removed(h) ==
  /\ Idle /\ h \in items \ verified
  /\ items' = items \ {h}
  /\ to_forget' = {<<"share", h>>}
  /\ UNCHANGED <<disk, known, known_desired, up, verified, to_save, saved, tears>>

\* Mutant: every share of the chain is saved as verified.
LinesOfAll(I, V) == {"share", "verified"} \X I

\* The lines about the shares I and the verified V.
Lines(I, V) == ({"share"} \X I) \cup ({"verified"} \X V)

\* The newest Keep shares of the chain at a share.
best_chain(best) ==
  LET line == Chain(items, previous_hash)[best] \cap items
  IN {h \in line : Cardinality({g \in line : g > h}) < Keep}

\* save_shares, whichever share is best.
save_shares ==
  /\ Idle
  /\ \E best \in items : to_save' = Lines(best_chain(best), best_chain(best) \cap verified)
  /\ UNCHANGED <<disk, known, known_desired, up, tracker, to_forget, saved, tears>>

-----------------------------------------------------------------------------
\* The process dies: between two steps, in a write, or with only some of the files removed.
Crash ==
  /\ up /\ up' = FALSE
  /\ known' = <<>> /\ known_desired' = <<>>
  /\ items' = {} /\ verified' = {} /\ to_save' = {} /\ to_forget' = {}
  /\ \/ UNCHANGED <<disk, saved, tears>>
     \/ /\ \E e \in to_save : NextToSave(e) /\ TornLine(e)
        /\ UNCHANGED saved
     \/ /\ \E e \in to_forget :
             /\ \E some \in SUBSET check_remove(Without(e)) : disk' = Drop(disk, some)
             /\ saved' = saved \ {e}
        /\ UNCHANGED tears

\* ShareStore.__init__ reads the files; Node takes the shares, and its first think() and
\* clean_tracker() may verify some and drop some; what it did not keep is forgotten.
Restart ==
  /\ ~up /\ up' = TRUE
  /\ known' = [f \in DOMAIN disk |-> readable(f)]
  /\ known_desired' = known'
  /\ \E I \in SUBSET {h \in Hash : <<"share", h>> \in Stored} : \E V \in SUBSET I :
       /\ items' = I /\ verified' = V
       /\ to_forget' = Stored \ Lines(I, V)
  /\ UNCHANGED <<disk, to_save, saved, tears>>

StoreInit ==
  /\ disk = <<>> /\ known = <<>> /\ known_desired = <<>>
  /\ up = FALSE
  /\ items = {} /\ verified = {} /\ to_save = {} /\ to_forget = {}
  /\ saved = {} /\ tears = 0

StoreNext ==
  \/ \E e \in Entry : Save(e) \/ SaveFails(e) \/ Forget(e)
  \/ save_shares
  \/ \E h \in Hash : Added(h) \/ Verified(h) \/ VerifiedRemoved(h) \/ Removed(h)
  \/ Crash \/ Restart

StoreSpec == StoreInit /\ [][StoreNext]_storeVars

-----------------------------------------------------------------------------
\* The types of the variables; no file has more lines than it may, and a verified share is
\* one of the tracker's.
StoreTypeOK ==
  /\ DOMAIN disk \subseteq 0 .. MaxSuffix /\ \A f \in DOMAIN disk : disk[f] \in File
  /\ DOMAIN known_desired = DOMAIN known
  /\ \A f \in DOMAIN known : known[f] \subseteq Entry /\ known_desired[f] \subseteq Entry
  /\ up \in BOOLEAN
  /\ verified \subseteq items /\ items \subseteq Hash
  /\ to_save \subseteq Entry /\ to_forget \subseteq Entry
  /\ saved \subseteq Entry /\ tears \in 0 .. MaxTears

\* While every write is whole, what has been saved and not been given up can be read back
\* after a crash, whenever that comes: no file goes that holds it.
SavedSurvives == tears = 0 => saved \subseteq Stored

\* A write that stops halfway, as the disk is full or the process stops, spoils two saved lines
\* at most: its own, when that lacked only the newline, and the next. (What the system itself
\* had not yet put on the disk when the power fails is another matter: nothing calls fsync.)
LossBounded == Cardinality(saved \ Stored) <= 2 * tears

\* While every write is whole, the store believes of each file what is in it, and wants
\* nothing that is not.
KnownIsStored ==
  tears = 0 =>
    \A f \in DOMAIN known :
      /\ f \in DOMAIN disk /\ known[f] \subseteq readable(f)
      /\ known_desired[f] \subseteq known[f]

\* Nothing is wanted for ever: what keeps a file from removal is a share the tracker
\* holds, or holds as verified.
DesiredIsTracked ==
  Idle =>
    \A f \in DOMAIN known_desired : \A e \in known_desired[f] :
      e[2] \in (IF e[1] = "share" THEN items ELSE verified)
=============================================================================
