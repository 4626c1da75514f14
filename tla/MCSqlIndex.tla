------------------------------ MODULE MCSqlIndex ------------------------------
(* Two removals at once of one file or one xorb, among all other writes. *)
EXTENDS SqlIndex

CONSTANTS x1, c1, c2

MCChunks == [x \in {x1} |-> {c1, c2}]
=============================================================================
