------------------------------- MODULE Promise -------------------------------
(***************************************************************************)
(* What the deferreds of util/deferral.py promise to whoever asks: a       *)
(* request that was made ends, and it ends once, be it with an answer, a   *)
(* refusal, a timeout or the loss of the connection.                       *)
(***************************************************************************)
CONSTANT Req                \* the requests there may be at one time

VARIABLE outcome            \* how far each has come

Init == outcome = [r \in Req |-> "none"]

\* Where a request may go from x in one turn, which may end it at once; after its end its
\* name is free again.
After(x) ==
  CASE x = "none"  -> {"none", "out", "ended"}
    [] x = "out"   -> {"out", "ended"}
    [] x = "ended" -> {"ended", "none"}

\* One turn of the reactor may end several requests and make others.
Next ==
  /\ outcome' = [r \in Req |-> outcome'[r]]
  /\ \A r \in Req : outcome'[r] \in After(outcome[r])

Ends(r) == outcome[r] = "out" /\ outcome' = [outcome EXCEPT ![r] = "ended"]

Spec == Init /\ [][Next]_outcome /\ \A r \in Req : WF_outcome(Ends(r))
=============================================================================
