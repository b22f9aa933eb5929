---------------------------- MODULE StreamStage ----------------------------
(***************************************************************************)
(* What a replicated stateful stage promises for one client's stream: the  *)
(* messages that the stream's EOF announces are taken in any order; a      *)
(* result that depends on the whole stream is emitted only when all of     *)
(* them have been taken; and the stage's own EOF, sent once with one       *)
(* count, announces exactly the results that were emitted.                 *)
(*                                                                         *)
(* StatefulRing is the detailed specification.                             *)
(***************************************************************************)
EXTENDS Naturals, FiniteSets

CONSTANTS
  Data,     \* the messages of the stream
  Results   \* the messages that yield a result

VARIABLES
  eager,    \* results are emitted message by message, not at the end
  taken, emitted, announced

vars == <<eager, taken, emitted, announced>>

Init == eager \in BOOLEAN /\ taken = {} /\ emitted = {} /\ announced = {}

Take(d) ==
  /\ d \notin taken
  /\ taken' = taken \cup {d}
  /\ UNCHANGED <<emitted, announced>>

Emit(S) ==
  /\ S \subseteq Results \ emitted /\ S # {}
  /\ eager \/ taken = Data
  /\ announced = {}
  /\ emitted' = emitted \cup S
  /\ UNCHANGED <<taken, announced>>

\* The count of the EOF is the number of results, all of them out.
Announce ==
  /\ taken = Data /\ emitted = Results
  /\ announced' = {Cardinality(Results)}
  /\ UNCHANGED <<taken, emitted>>

Next ==
  /\ \/ \E d \in Data : Take(d)
     \/ \E S \in SUBSET Results : Emit(S)
     \/ Announce
  /\ UNCHANGED eager

Spec == Init /\ [][Next]_vars

FairSpec == Spec /\ WF_vars(Next)
=============================================================================
