------------------------------ MODULE CoreSpace ------------------------------
(***************************************************************************)
(* What the core allocator promises, without its map: memory is a set of   *)
(* clicks, a process image is a run of clicks taken from the free ones,    *)
(* and a click is free, part of one image, or lost.  Which free run is     *)
(* taken is not said.  CoreMap is shown to implement this.                 *)
(***************************************************************************)
EXTENDS Integers

CONSTANTS
  Proc,       (* process table slots                                       *)
  InitProc,   (* the process created at boot, which is never reaped        *)
  NoSeg,      (* "has no image"                                            *)
  Start,      (* first click above the kernel                              *)
  MemSize,    (* number of clicks                                          *)
  USIZE,      (* clicks of the u-area, the smallest image                  *)
  ExecSizes   (* the image sizes exec asks for                             *)

VARIABLES
  free,       (* the free clicks                                           *)
  seg,        (* the image of each process: NoSeg or [addr, size]          *)
  lost        (* clicks no process owns and that are not free              *)

svars == <<free, seg, lost>>

Clicks(a, n) == a..(a + n - 1)

SpaceInit ==
  /\ free = Clicks(Start + USIZE, MemSize - USIZE)
  /\ seg = [p \in Proc |-> IF p = InitProc THEN [addr |-> Start, size |-> USIZE]
                                           ELSE NoSeg]
  /\ lost = {}

(* fork: an image as large as the parent's.                                *)
Fork(p, q, a) ==
  /\ seg[p] # NoSeg /\ seg[q] = NoSeg
  /\ Clicks(a, seg[p].size) \subseteq free
  /\ free' = free \ Clicks(a, seg[p].size)
  /\ seg' = [seg EXCEPT ![q] = [addr |-> a, size |-> seg[p].size]]
  /\ UNCHANGED lost

(* exec drops all of the image but the u-area; what it drops is lost.      *)
Drop(p) ==
  /\ seg[p] # NoSeg
  /\ lost' = lost \cup Clicks(seg[p].addr + USIZE, seg[p].size - USIZE)
  /\ seg' = [seg EXCEPT ![p] = [addr |-> seg[p].addr, size |-> USIZE]]
  /\ UNCHANGED free

(* exec exchanges the u-area that is left for an image of n clicks.        *)
Exchange(p, n, a) ==
  /\ seg[p] # NoSeg
  /\ Clicks(a, n) \subseteq free
  /\ free' = (free \ Clicks(a, n)) \cup Clicks(seg[p].addr, seg[p].size)
  /\ seg' = [seg EXCEPT ![p] = [addr |-> a, size |-> n]]
  /\ UNCHANGED lost

(* exit and wait: the image goes back to the free clicks.                  *)
Reap(p) ==
  /\ p # InitProc /\ seg[p] # NoSeg
  /\ free' = free \cup Clicks(seg[p].addr, seg[p].size)
  /\ seg' = [seg EXCEPT ![p] = NoSeg]
  /\ UNCHANGED lost

Core == Clicks(Start, MemSize)

SpaceNext ==
  \/ \E p, q \in Proc, a \in Core : Fork(p, q, a)
  \/ \E p \in Proc, n \in ExecSizes, a \in Core : Exchange(p, n, a)
  \/ \E p \in Proc : Drop(p) \/ Reap(p)

SpaceSpec == SpaceInit /\ [][SpaceNext]_svars
=============================================================================
