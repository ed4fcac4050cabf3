------------------------------ MODULE MCBuffers ------------------------------
(* Both stores on small instances; the cfg file gives the bounds.           *)
EXTENDS Buffers, TLC

Symmetry == Permutations(Ids) \cup Permutations(Threads)
=============================================================================
