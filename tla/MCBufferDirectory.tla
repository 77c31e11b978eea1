------------------------- MODULE MCBufferDirectory -------------------------
(* An instance of BufferDirectory: a piece of memory of two addresses, so  *)
(* that a buffer may grow and shrink in it, and one of one address.        *)
EXTENDS BufferDirectory, TLC
CONSTANTS t1, t2

TwoRanges == {<<0, 2>>, <<2, 1>>}
ThreadSymmetry == Permutations(Threads)
ThreeBuffers == {<<0, 1>>, <<0, 2>>, <<2, 1>>}
=============================================================================
