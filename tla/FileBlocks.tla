----------------------------- MODULE FileBlocks -----------------------------
(***************************************************************************)
(* The blocks of files: bmap and itrunc of fs/iget.c, readi and writei of  *)
(* fs/rdwri.c, and ftruncate of sys.c.                                     *)
(*                                                                         *)
(* One call runs at a time: plain files are not locked, but neither block  *)
(* driver of the repository sleeps, so that no other process runs between  *)
(* the steps of a call.  Data are counted in cells of the size of a block  *)
(* number, of which a block holds NINDIR; what is written into a cell is   *)
(* a tag of its file and offset and of how it came there.  A bad user      *)
(* address falls between two cells.                                        *)
(*                                                                         *)
(* bmap does not look at B_ERROR after bread of an indirect block and      *)
(* follows whatever the buffer holds; here such a read succeeds.           *)
(***************************************************************************)
EXTENDS Integers, FiniteSetsExt

CONSTANTS
  NFILES,     (* number of files                                           *)
  Dirs,       (* the files among them that are directories                 *)
  NBLK,       (* number of data blocks                                     *)
  NADDR,      (* addresses in an inode: 8 in the code                      *)
  NINDIR,     (* block numbers in a block                                  *)
  Starts,     (* bound: the offsets at which transfers start, in cells     *)
  MaxCount    (* bound: the largest transfer, in cells                     *)

File     == 1..NFILES
Block    == 1..NBLK
Slot     == 0..NADDR - 1
Cell     == 0..NINDIR - 1
Double   == NADDR - 1          (* the slot of the doubly indirect block    *)

(* The blocks that addresses can reach; bmap does not test for more.       *)
MaxBlocks == NINDIR * Double + NINDIR * NINDIR
Offset    == 0..NINDIR * MaxBlocks - 1

ASSUME FileBlocksAssumption ==
  /\ NFILES \in Nat \ {0} /\ NBLK \in Nat /\ Dirs \subseteq File
  /\ NADDR \in Nat /\ NADDR >= 2
  /\ NINDIR \in Nat /\ NINDIR >= NADDR
  /\ Starts \subseteq Offset
  /\ MaxCount \in Nat /\ MaxCount > 0

VARIABLES
  i_addr,     (* the addresses of an inode; 0 is no block                  *)
  ilarg,      (* ILARG of its i_mode                                       *)
  i_size,
  disk,       (* the cells of each block                                   *)
  free,       (* the set of free blocks                                    *)
  call,       (* the call in progress or last returned                     *)
  written,    (* history: the offsets of a file whose cells were stored    *)
              (* and counted                                               *)
  spilled     (* history: those that were last stored by a copy that met   *)
              (* a bad address and counted nothing                         *)

vars == <<i_addr, ilarg, i_size, disk, free, call, written, spilled>>

Zero      == [k \in Cell |-> 0]
Counted   == 0
Spilled   == 1
Tag(f, o, how) == NBLK + 1 + f + NFILES * (2 * o + how)

(* What a free block holds: old data, or numbers that bfree put there.     *)
Junk      == [k \in Cell |-> NBLK + 1]

Idle      == [pc |-> "idle", f |-> 1, rw |-> "read", off |-> 0, count |-> 0,
              nb |-> 0, fault |-> FALSE]

-----------------------------------------------------------------------------
(* A reference definition of the map from the blocks of a file to those of *)
(* the disk, 0 for a hole.                                                 *)
Entry(b, k) == IF b = 0 THEN 0 ELSE disk[b][k]

Lookup(f, n) ==
  LET m == n - NINDIR * Double
  IN IF ~ilarg[f] THEN IF n < NADDR THEN i_addr[f][n] ELSE 0
     ELSE IF m < 0 THEN Entry(i_addr[f][n \div NINDIR], n % NINDIR)
     ELSE Entry(Entry(i_addr[f][Double], m \div NINDIR), m % NINDIR)

-----------------------------------------------------------------------------
(* Files start empty and all blocks are free.                              *)
Init ==
  /\ i_addr = [f \in File |-> [j \in Slot |-> 0]]
  /\ ilarg = [f \in File |-> FALSE]
  /\ i_size = [f \in File |-> 0]
  /\ disk = [b \in Block |-> Junk]
  /\ free = Block
  /\ call = Idle
  /\ written = [f \in File |-> {}]
  /\ spilled = [f \in File |-> {}]

Returned == call.pc = "return"
Writing  == call.rw = "write"
Lbn      == call.off \div NINDIR

(* Mutant: the boundary between single and double indirection is off by 1. *)
InDoubleLate == Lbn > NINDIR * Double

InDouble == Lbn >= NINDIR * Double

(* alloc hands out a cleared block.  Which one does not matter here, as no *)
(* part of this module compares block numbers.                             *)
NewBlock  == CHOOSE b \in free : TRUE
Alloc(pc) ==
  /\ free # {}
  /\ free' = free \ {NewBlock}
  /\ call' = [call EXCEPT !.pc = pc, !.nb = NewBlock]

Return == call' = [call EXCEPT !.pc = "return", !.nb = 0]

(* alloc finds nothing: bmap returns -1 and so does the call.              *)
NoSpace ==
  /\ Writing /\ free = {}
  /\ Return /\ UNCHANGED free

-----------------------------------------------------------------------------
(* read and write enter with the offset of the open file; the offset of a  *)
(* write is also that of O_APPEND.  Directories are written by the kernel. *)
Rdwr(f, rw, off, n) ==
  /\ call = Idle
  /\ off + n - 1 \in Offset
  /\ call' = [pc |-> "loop", f |-> f, rw |-> rw, off |-> off, count |-> n,
              nb |-> 0, fault |-> FALSE]
  /\ UNCHANGED <<i_addr, ilarg, i_size, disk, free, written, spilled>>

(* Mutant: readi stops one cell before the end of the file.                *)
LoopEarly ==
  /\ call.pc = "loop"
  /\ LET f == call.f
     IN call' = [call EXCEPT !.pc =
          IF ~Writing /\ call.off >= i_size[f] - 1 THEN "return"
          ELSE IF ilarg[f] THEN "inode"
          ELSE IF Lbn < NADDR THEN "direct"
          ELSE IF Writing THEN "convert" ELSE "return"]
  /\ UNCHANGED <<i_addr, ilarg, i_size, disk, free, written, spilled>>

(* One turn of the loop of readi or writei, up to bmap's first decision.   *)
Loop ==
  /\ call.pc = "loop"
  /\ LET f == call.f
     IN call' = [call EXCEPT !.pc =
          IF ~Writing /\ call.off >= i_size[f] THEN "return"
          ELSE IF ilarg[f] THEN "inode"
          ELSE IF Lbn < NADDR THEN "direct"
          ELSE IF Writing THEN "convert" ELSE "return"]
  /\ UNCHANGED <<i_addr, ilarg, i_size, disk, free, written, spilled>>

(* bmap: a direct block.                                                   *)
Direct ==
  /\ call.pc = "direct"
  /\ LET f == call.f
         nb == i_addr[f][Lbn]
     IN \/ /\ nb # 0
           /\ call' = [call EXCEPT !.pc = "move", !.nb = nb]
           /\ UNCHANGED <<i_addr, disk, free>>
        \/ /\ nb = 0 /\ ~Writing
           /\ Return /\ UNCHANGED <<i_addr, disk, free>>
        \/ /\ nb = 0 /\ NoSpace
           /\ UNCHANGED <<i_addr, disk>>
        \/ /\ nb = 0 /\ Writing
           /\ Alloc("move")
           /\ disk' = [disk EXCEPT ![NewBlock] = Zero]
           /\ i_addr' = [i_addr EXCEPT ![f][Lbn] = NewBlock]
  /\ UNCHANGED <<ilarg, i_size, written, spilled>>

(* bmap: the first block beyond the direct ones makes the file a large     *)
(* one; its addresses move into an indirect block.                         *)
Convert ==
  /\ call.pc = "convert"
  /\ LET f == call.f
     IN \/ /\ NoSpace
           /\ UNCHANGED <<i_addr, ilarg, disk>>
        \/ /\ Alloc("inode")
           /\ disk' = [disk EXCEPT ![NewBlock] =
                 [k \in Cell |-> IF k \in Slot THEN i_addr[f][k] ELSE 0]]
           /\ i_addr' = [i_addr EXCEPT ![f] =
                 [j \in Slot |-> IF j = 0 THEN NewBlock ELSE 0]]
           /\ ilarg' = [ilarg EXCEPT ![f] = TRUE]
  /\ UNCHANGED <<i_size, written, spilled>>

(* bmap: the indirect block that the inode names.                          *)
IndirectSlot == IF InDouble THEN Double ELSE Lbn \div NINDIR

Inode ==
  /\ call.pc = "inode"
  /\ LET f == call.f
         j == IndirectSlot
         nb == i_addr[f][j]
         next == IF InDouble THEN "double" ELSE "indirect"
     IN \/ /\ nb # 0
           /\ call' = [call EXCEPT !.pc = next, !.nb = nb]
           /\ UNCHANGED <<i_addr, disk, free>>
        \/ /\ nb = 0 /\ ~Writing
           /\ Return /\ UNCHANGED <<i_addr, disk, free>>
        \/ /\ nb = 0 /\ NoSpace
           /\ UNCHANGED <<i_addr, disk>>
        \/ /\ nb = 0 /\ Writing
           /\ Alloc(next)
           /\ disk' = [disk EXCEPT ![NewBlock] = Zero]
           /\ i_addr' = [i_addr EXCEPT ![f][j] = NewBlock]
  /\ UNCHANGED <<ilarg, i_size, written, spilled>>

(* bmap: follow or fill entry k of the block read last.                    *)
Follow(k, next) ==
  LET nb == disk[call.nb][k]
  IN \/ /\ nb # 0
        /\ call' = [call EXCEPT !.pc = next, !.nb = nb]
        /\ UNCHANGED <<disk, free>>
     \/ /\ nb = 0 /\ ~Writing
        /\ Return /\ UNCHANGED <<disk, free>>
     \/ /\ nb = 0 /\ NoSpace
        /\ UNCHANGED disk
     \/ /\ nb = 0 /\ Writing
        /\ Alloc(next)
        /\ disk' = [disk EXCEPT ![NewBlock] = Zero, ![call.nb][k] = NewBlock]

DoubleEntry   == (Lbn - NINDIR * Double) \div NINDIR
IndirectEntry == IF InDouble THEN (Lbn - NINDIR * Double) % NINDIR
                 ELSE Lbn % NINDIR

DoubleIndirect ==
  /\ call.pc = "double"
  /\ Follow(DoubleEntry, "indirect")
  /\ UNCHANGED <<i_addr, ilarg, i_size, written, spilled>>

Indirect ==
  /\ call.pc = "indirect"
  /\ Follow(IndirectEntry, "move")
  /\ UNCHANGED <<i_addr, ilarg, i_size, written, spilled>>

-----------------------------------------------------------------------------
(* iomove moves up to the end of the block, of the request or, for a read, *)
(* of the file, and moves less when it meets a bad user address.           *)
Chunk ==
  LET on == call.off % NINDIR
      n  == Min({NINDIR - on, call.count})
  IN IF Writing THEN n ELSE Min({n, i_size[call.f] - call.off})

(* The offset after k cells: the call ends, or the loop goes on.           *)
Moved(k) ==
  call' = [call EXCEPT !.nb = 0, !.off = @ + k, !.count = @ - k, !.fault = k < Chunk,
             !.pc = IF k < Chunk \/ call.count = k THEN "return" ELSE "loop"]

Iomove(k) == call.off..call.off + k - 1

(* writei enlarges the file, but for types that share a bit with IFBLK and *)
(* IFCHR, to which directories belong.                                     *)
Grow(f, k) ==
  i_size' = [i_size EXCEPT ![f] =
               IF f \in Dirs THEN @ ELSE Max({@, call.off + k})]

(* The cells of k offsets get their tags.                                  *)
Put(f, k, how) ==
  disk' = [disk EXCEPT ![call.nb] =
     [c \in Cell |-> LET o == Lbn * NINDIR + c
                     IN IF o \in Iomove(k) THEN Tag(f, o, how) ELSE @[c]]]

Store(f, k) ==
  /\ Put(f, k, Counted)
  /\ written' = [written EXCEPT ![f] = @ \cup Iomove(k)]
  /\ spilled' = [spilled EXCEPT ![f] = @ \ Iomove(k)]

Spill(f, k) ==
  /\ Put(f, k, Spilled)
  /\ spilled' = [spilled EXCEPT ![f] = @ \cup Iomove(k)]
  /\ UNCHANGED written

WriteMove ==
  /\ call.pc = "move" /\ Writing
  /\ Store(call.f, Chunk)
  /\ Grow(call.f, Chunk)
  /\ Moved(Chunk)
  /\ UNCHANGED <<i_addr, ilarg, free>>

(* A bad user address after k cells.  The buffer is released, not marked   *)
(* for writing: what was moved into it reaches the disk with other changes *)
(* to it, or is lost with it; the model decides at once which.  Writes to  *)
(* directories come from the kernel's own memory.                          *)
WriteFault(k) ==
  /\ call.pc = "move" /\ Writing /\ call.f \notin Dirs
  /\ k < Chunk
  /\ UNCHANGED <<i_addr, ilarg, free>>

(* Byte by byte: cpass has counted what was moved.                         *)
CpassFault(k) ==
  /\ WriteFault(k)
  /\ Store(call.f, k) \/ UNCHANGED <<disk, written, spilled>>
  /\ Grow(call.f, k)
  /\ Moved(k)

(* Aligned: iomove counts nothing unless all of copyin succeeds, but the   *)
(* cells before the bad address are in the buffer.                         *)
CopyinFault(k) ==
  /\ WriteFault(k)
  /\ Spill(call.f, k) \/ UNCHANGED <<disk, written, spilled>>
  /\ Grow(call.f, 0)
  /\ Moved(0)

(* The device fails to read the block: the call ends without moving.       *)
MoveError ==
  /\ call.pc = "move"
  /\ call' = [call EXCEPT !.pc = "return", !.nb = 0, !.fault = TRUE]
  /\ UNCHANGED <<i_addr, ilarg, i_size, disk, free, written, spilled>>

(* A bad address ends a read after the cells that passc has counted, or,   *)
(* if it was aligned, with nothing counted.                                *)
ReadMove(k) ==
  /\ call.pc = "move" /\ ~Writing
  /\ k <= Chunk
  /\ Moved(k)
  /\ UNCHANGED <<i_addr, ilarg, i_size, disk, free, written, spilled>>

-----------------------------------------------------------------------------
(* The blocks itrunc frees: those of each address, those an indirect block *)
(* names and the indirect block itself.  The order, from the last address  *)
(* to the first, shows only in the free list and not in a set.             *)
Entries(b) == {disk[b][k] : k \in Cell} \ {0}

Named(j, b) ==
  IF j = Double THEN UNION {Entries(d) \cup {d} : d \in Entries(b)} ELSE Entries(b)

(* Mutant: the indirect block itself is not freed.                         *)
FreedOfNamed(f, j) ==
  LET b == i_addr[f][j]
  IN IF b = 0 THEN {}
     ELSE IF ilarg[f] THEN Named(j, b) ELSE {b}

FreedOf(f, j) ==
  LET b == i_addr[f][j]
  IN IF b = 0 THEN {}
     ELSE IF ilarg[f] THEN Named(j, b) \cup {b} ELSE {b}

Freed(f) == UNION {FreedOf(f, j) : j \in Slot}

Itrunc(f) ==
  /\ free' = free \cup Freed(f)
  /\ disk' = [b \in Block |-> IF b \in Freed(f) THEN Junk ELSE disk[b]]
  /\ i_addr' = [i_addr EXCEPT ![f] = [j \in Slot |-> 0]]
  /\ ilarg' = [ilarg EXCEPT ![f] = FALSE]
  /\ i_size' = [i_size EXCEPT ![f] = 0]
  /\ written' = [written EXCEPT ![f] = {}]
  /\ spilled' = [spilled EXCEPT ![f] = {}]

(* ftruncate to n cells: the size it sets is overwritten by itrunc.  The   *)
(* itrunc of creat and of the last iput is the case n = 0.                 *)
Ftruncate(f, n) ==
  /\ call = Idle
  /\ n > 0 => f \notin Dirs
  /\ Itrunc(f)
  /\ call' = [pc |-> "return", f |-> f, rw |-> "truncate", off |-> n,
              count |-> 0, nb |-> 0, fault |-> FALSE]

(* The call goes back to the user.                                         *)
Exit ==
  /\ Returned
  /\ call' = Idle
  /\ UNCHANGED <<i_addr, ilarg, i_size, disk, free, written, spilled>>

Next ==
  \/ \E f \in File, rw \in {"read", "write"}, off \in Starts,
        n \in 1..MaxCount : Rdwr(f, rw, off, n)
  \/ Loop \/ Direct \/ Convert \/ Inode \/ DoubleIndirect \/ Indirect
  \/ WriteMove \/ MoveError
  \/ \E k \in 0..MaxCount : CpassFault(k) \/ CopyinFault(k) \/ ReadMove(k)
  \/ \E f \in File, n \in {0} \cup Starts : Ftruncate(f, n)
  \/ Exit

Spec == Init /\ [][Next]_vars

-----------------------------------------------------------------------------
(* The places where a file names a block: an address of the inode, an      *)
(* entry k of the block that address names, an entry l of the block which  *)
(* that entry names.                                                       *)
Here  == -1
Place == [f : File, j : Slot, k : Cell \cup {Here}, l : Cell \cup {Here}]

(* The block named at a place, 0 for none.                                 *)
At(x) ==
  LET top == i_addr[x.f][x.j]
      mid == Entry(top, x.k)
  IN IF x.k = Here THEN IF x.l = Here THEN top ELSE 0
     ELSE IF ~ilarg[x.f] THEN 0
     ELSE IF x.l = Here THEN mid
     ELSE IF x.j = Double THEN Entry(mid, x.l) ELSE 0

(* The blocks bmap uses and those itrunc gives back are the same: a block  *)
(* is free or named at one place of one file, so that itrunc, which frees  *)
(* what the places of its file name, frees it once; and no call, failed or *)
(* in progress, leaves a block that is neither free nor named.             *)
OneOwner ==
  LET used == {x \in Place : At(x) # 0}
  IN /\ \A x, y \in used : At(x) = At(y) => x = y
     /\ \A f \in File : Freed(f) = {At(x) : x \in {y \in used : y.f = f}}
     /\ {At(x) : x \in used} = Block \ free

(* What readi finds at an offset is what the last store there left, also   *)
(* after the file has become a large one: the cell of a write that counted *)
(* it, unless an aligned write has met a bad address since and changed the *)
(* cell although it counted nothing; other cells are zero or in a hole.    *)
(* Between calls all that was written and counted in a plain file lies     *)
(* below its size, where readi looks.                                      *)
Holds(f, o) ==
  IF o \in spilled[f] THEN Tag(f, o, Spilled)
  ELSE IF o \in written[f] THEN Tag(f, o, Counted) ELSE 0

ReadBack ==
  /\ \A f \in File, n \in 0..MaxBlocks - 1 :
       LET b == Lookup(f, n)
       IN \A k \in Cell :
            LET o == n * NINDIR + k
            IN IF b = 0 THEN o \notin written[f] \cup spilled[f]
               ELSE disk[b][k] = Holds(f, o)
  /\ call = Idle => \A f \in File \ Dirs : \A o \in written[f] : o < i_size[f]

(* A transfer that meets no bad address and no device error stops short    *)
(* only where it must: a write when no block is free, a read at the end of *)
(* the file or at a hole.                                                  *)
ShortTransfer ==
  Returned /\ call.count > 0 /\ ~call.fault =>
    IF Writing THEN free = {}
    ELSE \/ call.off >= i_size[call.f]
         \/ Lookup(call.f, Lbn) = 0
=============================================================================
