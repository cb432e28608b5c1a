------------------------------ MODULE MCChunkGC ------------------------------
(* Model-checking instance of ChunkGC: pauses and hashes are interchangeable. *)
EXTENDS ChunkGC, TLC

Symmetry == Permutations(Pauses) \cup Permutations(Chunks)
==============================================================================
