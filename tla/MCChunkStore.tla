---------------------------- MODULE MCChunkStore ----------------------------
(* ChunkStore on a small instance. *)
EXTENDS ChunkStore, TLC

(* Threads are interchangeable; chunks are not, the constructor orders them. *)
Symmetry == Permutations(Threads)
=============================================================================
