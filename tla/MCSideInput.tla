---------------------------- MODULE MCSideInput ----------------------------
(* Instances of SideInput for model checking. *)
EXTENDS SideInput

CONSTANTS b1, b2, b3, s1, s2, eof, none, garbled

MCBatches  == {b1, b2}
MCBatches3 == {b1, b2, b3}
MCSide     == {s1, s2}
=============================================================================
