--------------------------- MODULE MCStatefulRing ---------------------------
(* Instances of StatefulRing for model checking. *)
EXTENDS StatefulRing

CONSTANTS d1, d2, d3, eof

MCData    == {d1, d2}
MCData3   == {d1, d2, d3}
MCShards  == (d1 :> 0) @@ (d2 :> 1)
MCShards3 == (d1 :> 0) @@ (d2 :> 2) @@ (d3 :> 0)
MCResults == {d1, d2}

\* Where a crash is harmless: anywhere but between the sending of a count
\* token and the append that records it.
SafePoints == {"free", "data", "eof_logged", "elect", "flush", "passed"}

\* ... after the EOF's handler sent the token, and before its control record.
StartPoints == {"eof"}

\* ... after a count token was forwarded, and before its record.
ForwardPoints == {"count"}
=============================================================================
