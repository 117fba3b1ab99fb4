--------------------------- MODULE MCBufferCache ----------------------------
(* Model checking of BufferCache: two processes and three buffers, so that *)
(* the available list runs empty and no read-ahead can wait for ever.      *)
EXTENDS BufferCache, TLC

CONSTANTS p1, p2, b1, b2, b3, k1, k2

MCProc == {p1, p2}
MCBuf  == {b1, b2, b3}
MCBlk  == {k1, k2}

(* For liveness: two buffers and one block, which leaves no read-ahead.    *)
LiveBuf == {b1, b2}
LiveBlk == {k1}

Alike == Permutations(MCProc) \cup Permutations(MCBuf) \cup Permutations(MCBlk)
=============================================================================
