---------------------------- MODULE ExactlyOnce ----------------------------
(***************************************************************************)
(* What a worker with a state directory promises about the messages of one *)
(* channel and one client: however often a message is delivered, and       *)
(* however often the worker is killed and restarted, the message takes     *)
(* effect on the worker's state exactly once, in one indivisible step.     *)
(*                                                                         *)
(* This is the promise of Worker._handle_message together with the log of  *)
(* StateLog and StateStore.  DurableWorker is the detailed specification.  *)
(***************************************************************************)
EXTENDS Naturals

CONSTANT Mids    \* the message identifiers of the flow

VARIABLES submitted,  \* identifiers some upstream node has published
          done,       \* identifiers whose effect has been taken
          effect      \* how many times each message changed the state

vars == <<submitted, done, effect>>

TypeOK ==
  /\ submitted \subseteq Mids
  /\ done \subseteq Mids
  /\ effect \in [Mids -> Nat]

Init ==
  /\ submitted = {}
  /\ done = {}
  /\ effect = [m \in Mids |-> 0]

Submit(m) ==
  /\ submitted' = submitted \cup {m}
  /\ UNCHANGED <<done, effect>>

Commit(m) ==
  /\ m \in submitted \ done
  /\ done' = done \cup {m}
  /\ effect' = [effect EXCEPT ![m] = @ + 1]
  /\ UNCHANGED submitted

Next == \E m \in Mids : Submit(m) \/ Commit(m)

Spec == Init /\ [][Next]_vars

FairSpec == Spec /\ \A m \in Mids : WF_vars(Commit(m))
=============================================================================
