----------------------------- MODULE MCFreeList -----------------------------
(* Model checking of FreeList: two processes, batches of two numbers and   *)
(* four blocks, so that the list runs empty and two batches are chained.   *)
EXTENDS FreeList, TLC

CONSTANTS p1, p2

MCProc == {p1, p2}
=============================================================================
