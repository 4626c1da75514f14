---------------------------- MODULE MCUploadSession ----------------------------
(* Files of up to four chunks; the server knows two xorbs that share chunks, *)
(* one of them with a chunk twice.                                           *)
EXTENDS UploadSession

CONSTANTS c1, c2, c3

ChunkSizes == [c \in Chunks |-> IF c = c3 THEN 3 ELSE 1]

ShortFiles == UNION {[1..n -> Chunks] : n \in 1..4}

TwoKnown == {<<c1, c2>>, <<c2, c3, c2, c1>>}
=============================================================================
