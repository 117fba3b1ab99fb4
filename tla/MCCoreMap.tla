----------------------------- MODULE MCCoreMap ------------------------------
(* Model checking of CoreMap: four processes, eight clicks of memory and  *)
(* images of one to three clicks, so that memory fragments and runs out.   *)
EXTENDS CoreMap, TLC

CONSTANTS p1, p2, p3, p4

MCProc      == {p1, p2, p3, p4}
MCExecSizes == {2, 3}

(* All processes but the first are alike.                                  *)
Alike == Permutations({p2, p3, p4})
=============================================================================
