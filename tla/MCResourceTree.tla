--------------------------- MODULE MCResourceTree ---------------------------
(***************************************************************************)
(* ResourceTree for TLC: two EndDevices with an FSA each, whose program    *)
(* lists may name the same programs.                                       *)
(***************************************************************************)
EXTENDS ResourceTree
CONSTANTS a, b, d1, d2
MCOwner == [f \in {a, b} |-> IF f = a THEN d1 ELSE d2]
MCPosition == [x \in {a, b, d1, d2} |-> IF x \in {a, d1} THEN 0 ELSE 1]
=============================================================================
