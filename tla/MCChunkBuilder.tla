--------------------------- MODULE MCChunkBuilder ---------------------------
(* ChunkBuilder with chunks of two bytes. *)
EXTENDS ChunkBuilder, TLC

CONSTANTS x, y   \* the bytes

NoChunks == {}
Alternating == {[k \in 0..1 |-> IF k = 0 THEN x ELSE y]}

(* No action tells the bytes apart. *)
Symmetry == Permutations(Bytes)
=============================================================================
