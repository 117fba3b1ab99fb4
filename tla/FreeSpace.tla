------------------------------ MODULE FreeSpace ------------------------------
(***************************************************************************)
(* What the block allocator promises the rest of the file system: a set of *)
(* free blocks, from which alloc takes any one and to which bfree returns  *)
(* one that is not in it.  FreeList is shown to implement this.            *)
(***************************************************************************)
CONSTANTS
  Block,      (* the data blocks                                           *)
  Boot        (* the ones that are free when the system starts             *)

VARIABLE free

SpaceInit == free = Boot

Take(b) == b \in free /\ free' = free \ {b}

Return(b) == b \notin free /\ free' = free \cup {b}

SpaceNext == \E b \in Block : Take(b) \/ Return(b)

SpaceSpec == SpaceInit /\ [][SpaceNext]_free
=============================================================================
