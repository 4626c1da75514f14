------------------------------ MODULE MCDownload ------------------------------
(* Two xorbs that share a chunk, so that a file has several descriptions and *)
(* a description several terms in one xorb, apart, touching or overlapping.  *)
EXTENDS Download

CONSTANTS x1, x2, c1, c2, c3

ChunkSizes == [c \in Chunks |-> IF c = c2 THEN 2 ELSE 1]

TwoXorbs ==
    [x \in Xorbs |->
        IF x = x1
          THEN <<[chunk |-> c1, packed |-> 2], [chunk |-> c2, packed |-> 1],
                 [chunk |-> c3, packed |-> 3]>>
          ELSE <<[chunk |-> c2, packed |-> 1], [chunk |-> c1, packed |-> 2]>>]

SomeFiles == {<<c1, c2, c3, c2>>, <<c2, c1>>, <<c2, c3, c2>>, <<c1, c3>>}
=============================================================================
