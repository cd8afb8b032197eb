---------------------------- MODULE MCBufferPool ----------------------------
(* TLC instance of BufferPool: buffers and threads are interchangeable.     *)
EXTENDS BufferPool, TLC

Symmetry == Permutations(Buffers) \cup Permutations(Threads)
=============================================================================
