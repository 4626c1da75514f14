--------------------------- MODULE MCXetFileSystem ---------------------------
(* The empty file, and one the forge does not send inline; the bounds reach *)
(* before, to and past the ends of both.  One call writes at a time through *)
(* this library; Push stands for everyone else who writes.                  *)
EXTENDS XetFileSystem

MCData == {<<>>, <<1, 2, 3>>}
MCLarge == {<<1, 2, 3>>}
MCBounds == {NoBound, -4, -1, 0, 1, 3}
=============================================================================
