----------------------------- MODULE MCSession -----------------------------
(* Session on one query with one result. *)
EXTENDS Session

MCResults == {[query |-> "q1", id |-> "r1"]}
=============================================================================
