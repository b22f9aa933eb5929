--------------------------- MODULE QueryAnswers ----------------------------
(***************************************************************************)
(* What a client is promised: every result of a query is written once to   *)
(* its file, and a query is reported as ended only with all its results,   *)
(* unless the system has given the client up.                              *)
(***************************************************************************)
EXTENDS Naturals, FiniteSets

CONSTANTS Results   \* records with the field query

VARIABLES
  written,  \* how many times each result is in the client's files
  ended,    \* the queries the client has reported as ended
  given_up  \* the client died, or its state was cleaned up

vars == <<written, ended, given_up>>

Queries      == {r.query : r \in Results}
ResultsOf(q) == {r \in Results : r.query = q}
Complete(q)  == \A r \in ResultsOf(q) : written[r] = 1

Init ==
  /\ written = [r \in Results |-> 0]
  /\ ended = {} /\ given_up = FALSE

Write(r) ==
  /\ written[r] = 0
  /\ written' = [written EXCEPT ![r] = 1]
  /\ ended' \in {ended, ended \cup {r.query}}
  /\ given_up \/ \A q \in ended' : \A x \in ResultsOf(q) : written'[x] = 1
  /\ UNCHANGED given_up

End(q) ==
  /\ q \notin ended
  /\ Complete(q) \/ given_up
  /\ ended' = ended \cup {q}
  /\ UNCHANGED <<written, given_up>>

GiveUp ==
  /\ ~given_up
  /\ given_up' = TRUE
  /\ UNCHANGED <<written, ended>>

Serve == (\E r \in Results : Write(r)) \/ (\E q \in Queries : End(q))

Next == GiveUp \/ Serve

Spec == Init /\ [][Next]_vars

\* A client that is not given up is served to the end.
FairSpec == Spec /\ WF_vars(~given_up /\ Serve)
=============================================================================
