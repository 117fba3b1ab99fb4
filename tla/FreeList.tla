------------------------------ MODULE FreeList -------------------------------
(***************************************************************************)
(* The free list of fs/alloc.c: alloc, bfree and update's copying of the   *)
(* superblock.  At most NICFREE numbers are in core, in s_free; when they  *)
(* do not suffice, the first of them names a block that holds the next     *)
(* batch, and so on to the end of the chain.                               *)
(*                                                                         *)
(* A process runs in one step up to the block I/O in which it may sleep:   *)
(* bread in alloc and getblk/bwrite in bfree, both with s_flock set,       *)
(* getblk in alloc after that, and getblk in update.  Blocks are read back *)
(* as they were written, which is what BufferCache shows.                  *)
(***************************************************************************)
EXTENDS Integers, Sequences, FiniteSets, SequencesExt

CONSTANTS
  Proc,       (* processes                                                 *)
  NBLK,       (* number of data blocks; badblock holds of all other numbers *)
  NICFREE,    (* room in s_free                                            *)
  NoBlk       (* no block                                                  *)

ASSUME FreeListAssumption ==
  /\ NICFREE \in Nat /\ NICFREE >= 2
  /\ NBLK \in Nat /\ NBLK >= NICFREE
  /\ NoBlk \notin 0..NBLK

Block == 1..NBLK
End   == 0                     (* the number that ends the list            *)

(* The data of a file, read as a batch, may name anything.                 *)
Data == <<NBLK + 1>>

VARIABLES
  s_free,     (* the numbers in core: s_free[0..s_nfree-1]                 *)
  s_flock, s_fmod,
  super,      (* s_free of the superblock on disk                          *)
  content,    (* what a block holds, read as a batch                       *)
  updlock,
  used,       (* the blocks of files                                       *)
  pc, blk     (* where each process is, and the block it is busy with      *)

fs   == <<s_free, s_flock, s_fmod, super, content, updlock>>
vars == <<fs, used, pc, blk>>

-----------------------------------------------------------------------------
(* The free blocks: the numbers of the batch l, and those of the batches   *)
(* that hang from its first number when the blocks hold c.                 *)
Listed(l) == ToSet(l) \ {End}

Hanging(l) == IF l = <<>> THEN {} ELSE {l[1]} \cap Block

(* The smallest set of blocks that has the one that hangs from l and, with *)
(* a block, the one that hangs from what it holds.                         *)
Chain(l, c) ==
  {b \in Block : \A S \in SUBSET Block :
     Hanging(l) \subseteq S /\ (\A d \in S : Hanging(c[d]) \subseteq S) => b \in S}

FreeFrom(l, c) == Listed(l) \cup UNION {Listed(c[b]) : b \in Chain(l, c)}

Refilling == {p \in Proc : pc[p] = "refill"}

(* While alloc reads the next batch it hangs from the block just taken.    *)
FreeBlocks == FreeFrom(s_free, content) \cup
              UNION {FreeFrom(content[blk[p]], content) : p \in Refilling}

-----------------------------------------------------------------------------
(* rd_mkfs puts the NICFREE blocks after those of the files on the list;   *)
(* what is beyond them is never listed and is left out here.               *)
MkfsFree == [i \in 1..NICFREE |-> i]

(* iinit copies the superblock into core and clears its locks.             *)
Init ==
  /\ s_free = MkfsFree
  /\ s_flock = FALSE /\ s_fmod = FALSE
  /\ super = MkfsFree
  /\ content = [b \in Block |-> IF b <= NICFREE THEN <<>> ELSE Data]
  /\ updlock = FALSE
  /\ used = (NICFREE + 1)..NBLK
  /\ pc = [p \in Proc |-> "idle"]
  /\ blk = [p \in Proc |-> NoBlk]

(* p goes to "to" with block b; woken processes look at s_flock again.     *)
Goto(p, to, b, woken) ==
  /\ pc' = [q \in Proc |-> IF q = p THEN to
                           ELSE IF q \in woken THEN
                             (IF pc[q] = "allocwait" THEN "alloc" ELSE "bfree")
                           ELSE pc[q]]
  /\ blk' = [blk EXCEPT ![p] = b]

FlockWaiters == {q \in Proc : pc[q] \in {"allocwait", "bfreewait"}}

-----------------------------------------------------------------------------
(* bmap calls alloc.                                                       *)
Alloc(p) ==
  /\ pc[p] = "idle"
  /\ Goto(p, "alloc", NoBlk, {})
  /\ UNCHANGED <<fs, used>>

(* s_flock is set: sleep on it.                                            *)
FlockSleep(p) ==
  /\ pc[p] \in {"alloc", "bfree"} /\ s_flock
  /\ Goto(p, IF pc[p] = "alloc" THEN "allocwait" ELSE "bfreewait", blk[p], {})
  /\ UNCHANGED <<fs, used>>

InAlloc(p) == pc[p] = "alloc" /\ ~s_flock

(* The number alloc takes: End also when there is none.                    *)
Top == IF s_free = <<>> THEN End ELSE Last(s_free)

(* Mutant: the last number counts as none.                                 *)
AllocNospaceEarly(p) ==
  /\ InAlloc(p) /\ Len(s_free) <= 1
  /\ s_free' = <<>>
  /\ Goto(p, "idle", NoBlk, {})
  /\ UNCHANGED <<s_flock, s_fmod, super, content, updlock, used>>

(* Nothing, or only the end mark, is left: ENOSPC.                         *)
AllocNospace(p) ==
  /\ InAlloc(p) /\ Top = End
  /\ s_free' = <<>>
  /\ Goto(p, "idle", NoBlk, {})
  /\ UNCHANGED <<s_flock, s_fmod, super, content, updlock, used>>

(* A number is taken, and others are left.                                 *)
AllocPop(p) ==
  /\ InAlloc(p) /\ Len(s_free) > 1 /\ Top # End
  /\ s_free' = Front(s_free)
  /\ Goto(p, "getblk", Top, {})
  /\ UNCHANGED <<s_flock, s_fmod, super, content, updlock, used>>

(* The last number is taken: its block has the next batch.                 *)
AllocLast(p) ==
  /\ InAlloc(p) /\ Len(s_free) = 1 /\ Top # End
  /\ s_free' = <<>>
  /\ s_flock' = TRUE
  /\ Goto(p, "refill", Top, {})
  /\ UNCHANGED <<s_fmod, super, content, updlock, used>>

(* Mutant: nobody is woken.                                                *)
AllocRefillSilent(p) ==
  /\ pc[p] = "refill"
  /\ s_free' = content[blk[p]]
  /\ s_flock' = FALSE
  /\ Goto(p, "getblk", blk[p], {})
  /\ UNCHANGED <<s_fmod, super, content, updlock, used>>

AllocRefill(p) ==
  /\ pc[p] = "refill"
  /\ s_free' = content[blk[p]]
  /\ s_flock' = FALSE
  /\ Goto(p, "getblk", blk[p], FlockWaiters)
  /\ UNCHANGED <<s_fmod, super, content, updlock, used>>

(* Mutant: the superblock is not marked modified.                          *)
AllocDoneUnmarked(p) ==
  /\ pc[p] = "getblk"
  /\ content' = [content EXCEPT ![blk[p]] = Data]
  /\ used' = used \cup {blk[p]}
  /\ Goto(p, "idle", NoBlk, {})
  /\ UNCHANGED <<s_free, s_flock, s_fmod, super, updlock>>

(* The block is cleared and becomes part of a file, which fills it.        *)
AllocDone(p) ==
  /\ pc[p] = "getblk"
  /\ content' = [content EXCEPT ![blk[p]] = Data]
  /\ s_fmod' = TRUE
  /\ used' = used \cup {blk[p]}
  /\ Goto(p, "idle", NoBlk, {})
  /\ UNCHANGED <<s_free, s_flock, super, updlock>>

-----------------------------------------------------------------------------
(* itrunc calls bfree for a block of a file.                               *)
Bfree(p, b) ==
  /\ pc[p] = "idle" /\ b \in used
  /\ used' = used \ {b}
  /\ s_fmod' = TRUE
  /\ Goto(p, "bfree", b, {})
  /\ UNCHANGED <<s_free, s_flock, super, content, updlock>>

InBfree(p) == pc[p] = "bfree" /\ ~s_flock

(* Mutant: the test for room is off by one.                                *)
BfreePushOver(p) ==
  /\ InBfree(p) /\ Len(s_free) <= NICFREE
  /\ s_free' = Append(IF s_free = <<>> THEN <<End>> ELSE s_free, blk[p])
  /\ s_fmod' = TRUE
  /\ Goto(p, "idle", NoBlk, {})
  /\ UNCHANGED <<s_flock, super, content, updlock, used>>

(* Mutant: an empty list gets no end mark.                                 *)
BfreePushNoEnd(p) ==
  /\ InBfree(p) /\ Len(s_free) < NICFREE
  /\ s_free' = Append(s_free, blk[p])
  /\ s_fmod' = TRUE
  /\ Goto(p, "idle", NoBlk, {})
  /\ UNCHANGED <<s_flock, super, content, updlock, used>>

(* There is room; an empty list gets its end mark first.                   *)
BfreePush(p) ==
  /\ InBfree(p) /\ Len(s_free) < NICFREE
  /\ s_free' = Append(IF s_free = <<>> THEN <<End>> ELSE s_free, blk[p])
  /\ s_fmod' = TRUE
  /\ Goto(p, "idle", NoBlk, {})
  /\ UNCHANGED <<s_flock, super, content, updlock, used>>

(* There is no room: the batch is written into the block being freed.      *)
BfreeFull(p) ==
  /\ InBfree(p) /\ Len(s_free) >= NICFREE
  /\ s_flock' = TRUE
  /\ Goto(p, "spill", blk[p], {})
  /\ UNCHANGED <<s_free, s_fmod, super, content, updlock, used>>

(* Mutant: the batch is not written.                                       *)
BfreeSpillDrops(p) ==
  /\ pc[p] = "spill"
  /\ s_free' = <<blk[p]>>
  /\ s_flock' = FALSE /\ s_fmod' = TRUE
  /\ Goto(p, "idle", NoBlk, FlockWaiters)
  /\ UNCHANGED <<super, content, updlock, used>>

BfreeSpill(p) ==
  /\ pc[p] = "spill"
  /\ content' = [content EXCEPT ![blk[p]] = s_free]
  /\ s_free' = <<blk[p]>>
  /\ s_flock' = FALSE /\ s_fmod' = TRUE
  /\ Goto(p, "idle", NoBlk, FlockWaiters)
  /\ UNCHANGED <<super, updlock, used>>

-----------------------------------------------------------------------------
(* update looks at the flags, gets the superblock's buffer, in which it    *)
(* may sleep, and copies the superblock without looking again.  A second   *)
(* update meanwhile returns at once.                                       *)
Update(p) ==
  /\ pc[p] = "idle" /\ ~updlock /\ s_fmod /\ ~s_flock
  /\ updlock' = TRUE
  /\ Goto(p, "sync", NoBlk, {})
  /\ UNCHANGED <<s_free, s_flock, s_fmod, super, content, used>>

UpdateCopy(p) ==
  /\ pc[p] = "sync"
  /\ s_fmod' = FALSE
  /\ super' = s_free
  /\ updlock' = FALSE
  /\ Goto(p, "idle", NoBlk, {})
  /\ UNCHANGED <<s_free, s_flock, content, used>>

-----------------------------------------------------------------------------
Step(p) ==
  \/ FlockSleep(p) \/ AllocNospace(p) \/ AllocPop(p) \/ AllocLast(p)
  \/ AllocRefill(p) \/ AllocDone(p)
  \/ BfreePush(p) \/ BfreeFull(p) \/ BfreeSpill(p) \/ UpdateCopy(p)

Next ==
  \E p \in Proc :
    \/ Step(p) \/ Alloc(p) \/ Update(p)
    \/ \E b \in Block : Bfree(p, b)

Spec == Init /\ [][Next]_vars

(* A process inside alloc, bfree or update that is not asleep goes on, and *)
(* block I/O completes; calling them is up to the programs.                *)
FairSpec == Spec /\ \A p \in Proc : WF_vars(Step(p))

-----------------------------------------------------------------------------
Labels == {"idle", "alloc", "allocwait", "refill", "getblk",
           "bfree", "bfreewait", "spill", "sync"}

Batch == UNION {[1..n -> 0..NBLK] : n \in 0..NICFREE}

TypeOK ==
  /\ s_free \in Batch /\ super \in Batch
  /\ s_flock \in BOOLEAN /\ s_fmod \in BOOLEAN /\ updlock \in BOOLEAN
  /\ content \in [Block -> Batch \cup {Data}]
  /\ used \subseteq Block
  /\ pc \in [Proc -> Labels] /\ blk \in [Proc -> Block \cup {NoBlk}]

InHand == {blk[p] : p \in Proc} \ {NoBlk}

(* Every block is in exactly one place: free, in one file, or in the hands *)
(* of one process in alloc or bfree.  None is handed out twice and none    *)
(* drops out when a batch is spilled or refilled.                          *)
OnePlace ==
  /\ FreeBlocks \cup used \cup InHand = Block
  /\ FreeBlocks \cap (used \cup InHand) = {}
  /\ used \cap InHand = {}
  /\ \A p, q \in Proc : blk[p] = blk[q] /\ blk[p] # NoBlk => p = q

(* ENOSPC is reported only when no block is free, wherever in the chain.   *)
NospaceMeansNone ==
  [][\A p \in Proc : AllocNospace(p) => FreeBlocks = {}]_vars

(* A clean superblock is a saved one: when s_fmod is off and nobody is in  *)
(* the middle of alloc or bfree, the list on disk has the same free blocks *)
(* as the one in core, although update copies it without a second look at  *)
(* s_flock.                                                                *)
CleanMeansSaved ==
  ~s_fmod /\ (\A p \in Proc : pc[p] \notin {"refill", "getblk", "spill"})
    => FreeFrom(super, content) = FreeFrom(s_free, content)

(* A process that sleeps on s_flock is woken.                              *)
FlockWaitEnds ==
  \A p \in Proc : p \in FlockWaiters ~> p \notin FlockWaiters

(* The chained batches implement a set of free blocks.                     *)
Space == INSTANCE FreeSpace WITH free <- FreeBlocks, Boot <- 1..NICFREE

SpaceRefined == Space!SpaceSpec
=============================================================================
