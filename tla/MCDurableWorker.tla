-------------------------- MODULE MCDurableWorker --------------------------
(* An instance of DurableWorker for model checking. *)
EXTENDS DurableWorker

CONSTANTS m1, m2, m3, none, garbled

MCMids == {m1, m2, m3}
=============================================================================
