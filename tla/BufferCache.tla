----------------------------- MODULE BufferCache -----------------------------
(***************************************************************************)
(* The buffer cache of kernel/fs/bio.c for one block device: processes     *)
(* that read blocks (bread, breada), take them to be overwritten (getblk), *)
(* and give them back (brelse, bwrite, bawrite, bdwrite), bflush, and a    *)
(* device that finishes requests in any order and may fail.                *)
(*                                                                         *)
(* The kernel is not preemptive, so a process step runs up to the next     *)
(* sleep, or up to a point where the device may finish something.  The     *)
(* drivers of this port call iodone inside d_strategy; that is the case in *)
(* which Iodone directly follows the step that started the request.        *)
(***************************************************************************)
EXTENDS Naturals, Sequences, FiniteSets, SequencesExt

CONSTANTS
  Proc,        (* processes                                                *)
  Buf,         (* buffer headers, NBUF of them                             *)
  Blk,         (* block numbers of the device                              *)
  NoBlk,       (* b_dev = NODEV: the buffer belongs to no block            *)
  NoBuf,       (* a NULL buffer pointer                                    *)
  FreeList,    (* the address of bfreelist, as a sleep channel             *)
  NoChan,      (* p_wchan = 0                                              *)
  MaxVersion   (* bound: number of times a block is modified               *)

ASSUME CacheAssumption ==
  /\ IsFiniteSet(Buf)
  /\ NoBlk \notin Blk /\ NoBuf \notin Buf
  /\ FreeList \notin Buf /\ NoChan \notin Buf \cup {FreeList}
  /\ MaxVersion \in Nat

VARIABLES
  b_blkno,     (* block of each buffer                                     *)
  b_flags,     (* set of flags of each buffer                              *)
  b_data,      (* content: the version of the block it holds               *)
  av,          (* the available list, oldest first                         *)
  flwanted,    (* B_WANTED of bfreelist                                    *)
  io,          (* buffers handed to d_strategy and not done                *)
  disk,        (* content of each block on the device                      *)
  pc, op, bp,  (* of each process: where it is, its request, its buffer    *)
  wchan,       (* what each process sleeps on                              *)
  latest,      (* history: the version last written into each block        *)
  failed       (* history: blocks one of whose writes failed               *)

bufVars  == <<b_blkno, b_flags, b_data, av, flwanted, io>>
procVars == <<pc, op, bp>>
vars     == <<bufVars, disk, procVars, wchan, latest, failed>>

Flags == {"READ", "DONE", "ERROR", "BUSY", "WANTED", "ASYNC", "DELWRI"}

Chan == Buf \cup {FreeList, NoChan}

(* "bread" and "breada" want the content, "getblk" only the buffer.        *)
Request == [kind : {"bread", "breada", "getblk"},
            blk : Blk \cup {NoBlk}, ra : Blk \cup {NoBlk}]

Idle == [kind |-> "bread", blk |-> NoBlk, ra |-> NoBlk]

Busy(b)      == "BUSY" \in b_flags[b]
Awake(p)     == wchan[p] = NoChan

(* notavail: b is unlinked from the available list.                        *)
Without(b) == RemoveAt(av, CHOOSE i \in DOMAIN av : av[i] = b)

(* The buffers of list are in the order in which the available list has    *)
(* them.                                                                   *)
SameOrder(list) ==
  \A i, j \in DOMAIN list : i < j =>
    \E m, n \in DOMAIN av : m < n /\ av[m] = list[i] /\ av[n] = list[j]

(* Mutant: only buffers that are not busy are searched.                    *)
IncoreIdle(blk) == \E b \in Buf : b_blkno[b] = blk /\ ~Busy(b)

Incore(blk) == \E b \in Buf : b_blkno[b] = blk

Init ==
  /\ b_blkno = [b \in Buf |-> NoBlk]
  /\ b_flags = [b \in Buf |-> {}]
  /\ b_data = [b \in Buf |-> 0]
  /\ av \in SetToSeqs(Buf)
  /\ flwanted = FALSE
  /\ io = {}
  /\ disk = [k \in Blk |-> 0]
  /\ pc = [p \in Proc |-> "idle"]
  /\ op = [p \in Proc |-> Idle]
  /\ bp = [p \in Proc |-> NoBuf]
  /\ wchan = [p \in Proc |-> NoChan]
  /\ latest = [k \in Blk |-> 0]
  /\ failed = {}

-----------------------------------------------------------------------------
(* Parts of operations.                                                    *)

(* wakeup(b) when B_WANTED, and wakeup(&bfreelist) when it is wanted.      *)
BrelseWakes(b) ==
  {p \in Proc : \/ wchan[p] = b /\ "WANTED" \in b_flags[b]
                \/ wchan[p] = FreeList /\ flwanted}

Wake(ps) == wchan' = [p \in Proc |-> IF p \in ps THEN NoChan ELSE wchan[p]]

(* brelse of b, whose flags are f by now, to the end of the list.          *)
Release(b, f, list) ==
  /\ Wake(BrelseWakes(b))
  /\ flwanted' = FALSE
  /\ b_blkno' = [b_blkno EXCEPT ![b] = IF "ERROR" \in f THEN NoBlk ELSE @]
  /\ b_flags' = [b_flags EXCEPT ![b] = f \ {"WANTED", "BUSY", "ASYNC"}]
  /\ av' = Append(list, b)

(* bwrite up to d_strategy, with the flags more.                           *)
StartWrite(b, more) ==
  /\ b_flags' = [b_flags EXCEPT ![b] =
                   (@ \ {"READ", "DONE", "ERROR", "DELWRI"}) \cup more]
  /\ io' = io \cup {b}

Goto(p, l) == pc' = [pc EXCEPT ![p] = l]

(* A process holding b goes on as its request says.                        *)
Obtain(p, b, f) ==
  /\ bp' = [bp EXCEPT ![p] = b]
  /\ IF op[p].kind = "getblk" \/ "DONE" \in f
     THEN b_flags' = [b_flags EXCEPT ![b] = f] /\ UNCHANGED io
     ELSE b_flags' = [b_flags EXCEPT ![b] = f \cup {"READ"}] /\ io' = io \cup {b}
  /\ Goto(p, IF op[p].kind = "breada" THEN "ahead"
             ELSE IF op[p].kind = "getblk" \/ "DONE" \in f THEN "held" ELSE "iowait")

(* The block getblk is looking for.                                        *)
Target(p) == IF pc[p] = "getra" THEN op[p].ra ELSE op[p].blk

InGetblk(p) == pc[p] \in {"getblk", "getra"} /\ Awake(p)

Missing(p) == Target(p) = NoBlk \/ ~Incore(Target(p))

-----------------------------------------------------------------------------
(* Calls.                                                                  *)
Bread(p, k) ==
  /\ pc[p] = "idle"
  /\ op' = [op EXCEPT ![p] = [kind |-> "bread", blk |-> k, ra |-> NoBlk]]
  /\ Goto(p, "getblk")
  /\ UNCHANGED <<bufVars, disk, bp, wchan, latest, failed>>

(* getblk for a block that will be overwritten, or for NODEV.              *)
Getblk(p, k) ==
  /\ pc[p] = "idle"
  /\ op' = [op EXCEPT ![p] = [kind |-> "getblk", blk |-> k, ra |-> NoBlk]]
  /\ Goto(p, "getblk")
  /\ UNCHANGED <<bufVars, disk, bp, wchan, latest, failed>>

(* breada: a block that is in core is left to bread, after the read-ahead. *)
Breada(p, k, r) ==
  /\ pc[p] = "idle" /\ k # r
  /\ IF Incore(k)
     THEN /\ op' = [op EXCEPT ![p] = [kind |-> "bread", blk |-> k, ra |-> r]]
          /\ Goto(p, "ahead")
     ELSE /\ op' = [op EXCEPT ![p] = [kind |-> "breada", blk |-> k, ra |-> r]]
          /\ Goto(p, "getblk")
  /\ UNCHANGED <<bufVars, disk, bp, wchan, latest, failed>>

-----------------------------------------------------------------------------
(* getblk, one round of its loop.                                          *)

(* Mutant: the sleeper does not mark the buffer wanted.                    *)
GetblkBusyUnwanted(p) ==
  /\ InGetblk(p) /\ Target(p) # NoBlk
  /\ \E b \in Buf :
       /\ b_blkno[b] = Target(p) /\ Busy(b)
       /\ wchan' = [wchan EXCEPT ![p] = b]
  /\ UNCHANGED <<bufVars, disk, procVars, latest, failed>>

(* The block is in core and busy: sleep on its buffer.                     *)
GetblkBusy(p) ==
  /\ InGetblk(p) /\ Target(p) # NoBlk
  /\ \E b \in Buf :
       /\ b_blkno[b] = Target(p) /\ Busy(b)
       /\ b_flags' = [b_flags EXCEPT ![b] = @ \cup {"WANTED"}]
       /\ wchan' = [wchan EXCEPT ![p] = b]
  /\ UNCHANGED <<b_blkno, b_data, av, flwanted, io, disk, procVars, latest, failed>>

(* Mutant: the buffer stays on the available list.                         *)
GetblkHitStays(p) ==
  /\ InGetblk(p) /\ pc[p] = "getblk" /\ Target(p) # NoBlk
  /\ \E b \in Buf :
       /\ b_blkno[b] = Target(p) /\ ~Busy(b)
       /\ Obtain(p, b, b_flags[b] \cup {"BUSY"})
  /\ UNCHANGED <<b_blkno, b_data, av, flwanted, disk, op, wchan, latest, failed>>

(* The block is in core: notavail.                                         *)
GetblkHit(p) ==
  /\ InGetblk(p) /\ pc[p] = "getblk" /\ Target(p) # NoBlk
  /\ \E b \in Buf :
       /\ b_blkno[b] = Target(p) /\ ~Busy(b)
       /\ av' = Without(b)
       /\ Obtain(p, b, b_flags[b] \cup {"BUSY"})
  /\ UNCHANGED <<b_blkno, b_data, flwanted, disk, op, wchan, latest, failed>>

(* No buffer is available: sleep on the list.                              *)
GetblkEmpty(p) ==
  /\ InGetblk(p) /\ Missing(p) /\ av = <<>>
  /\ flwanted' = TRUE
  /\ wchan' = [wchan EXCEPT ![p] = FreeList]
  /\ UNCHANGED <<b_blkno, b_flags, b_data, av, io, disk, procVars, latest, failed>>

(* The oldest buffer has a delayed write: start it and look again.         *)
GetblkFlush(p) ==
  /\ InGetblk(p) /\ Missing(p) /\ av # <<>>
  /\ "DELWRI" \in b_flags[Head(av)]
  /\ av' = Tail(av)
  /\ StartWrite(Head(av), {"BUSY", "ASYNC"})
  /\ UNCHANGED <<b_blkno, b_data, flwanted, disk, procVars, wchan, latest, failed>>

(* Mutant: a delayed write is not looked at.                               *)
GetblkNewDrops(p) ==
  /\ InGetblk(p) /\ pc[p] = "getblk" /\ Missing(p) /\ av # <<>>
  /\ av' = Tail(av)
  /\ b_blkno' = [b_blkno EXCEPT ![Head(av)] = Target(p)]
  /\ Obtain(p, Head(av), {"BUSY"})
  /\ UNCHANGED <<b_data, flwanted, disk, op, wchan, latest, failed>>

(* The oldest buffer is reassigned.                                        *)
GetblkNew(p) ==
  /\ InGetblk(p) /\ pc[p] = "getblk" /\ Missing(p) /\ av # <<>>
  /\ "DELWRI" \notin b_flags[Head(av)]
  /\ av' = Tail(av)
  /\ b_blkno' = [b_blkno EXCEPT ![Head(av)] = Target(p)]
  /\ Obtain(p, Head(av), {"BUSY"})
  /\ UNCHANGED <<b_data, flwanted, disk, op, wchan, latest, failed>>

-----------------------------------------------------------------------------
(* The read-ahead half of breada.                                          *)

(* breada goes on with its own block: iowait, or bread if it was in core.  *)
AfterAhead(p) == IF bp[p] = NoBuf THEN "getblk" ELSE "iowait"

Ahead(p) ==
  /\ pc[p] = "ahead"
  /\ Goto(p, IF Incore(op[p].ra) THEN AfterAhead(p) ELSE "getra")
  /\ UNCHANGED <<bufVars, disk, op, bp, wchan, latest, failed>>

(* The block came in while this process slept: released, or read again.    *)
GetraHit(p) ==
  /\ InGetblk(p) /\ pc[p] = "getra"
  /\ \E b \in Buf :
       /\ b_blkno[b] = op[p].ra /\ ~Busy(b)
       /\ IF "DONE" \in b_flags[b]
          THEN Release(b, b_flags[b], Without(b)) /\ UNCHANGED io
          ELSE /\ av' = Without(b)
               /\ b_flags' = [b_flags EXCEPT ![b] = @ \cup {"BUSY", "READ", "ASYNC"}]
               /\ io' = io \cup {b}
               /\ UNCHANGED <<b_blkno, flwanted, wchan>>
  /\ Goto(p, AfterAhead(p))
  /\ UNCHANGED <<b_data, disk, op, bp, latest, failed>>

GetraNew(p) ==
  /\ InGetblk(p) /\ pc[p] = "getra" /\ Missing(p) /\ av # <<>>
  /\ "DELWRI" \notin b_flags[Head(av)]
  /\ av' = Tail(av)
  /\ b_blkno' = [b_blkno EXCEPT ![Head(av)] = op[p].ra]
  /\ b_flags' = [b_flags EXCEPT ![Head(av)] = {"BUSY", "READ", "ASYNC"}]
  /\ io' = io \cup {Head(av)}
  /\ Goto(p, AfterAhead(p))
  /\ UNCHANGED <<b_data, flwanted, disk, op, bp, wchan, latest, failed>>

-----------------------------------------------------------------------------
(* iowait of bread and breada.                                             *)
Iowait(p) ==
  /\ pc[p] = "iowait" /\ Awake(p)
  /\ IF "DONE" \in b_flags[bp[p]]
     THEN Goto(p, "held") /\ UNCHANGED wchan
     ELSE wchan' = [wchan EXCEPT ![p] = bp[p]] /\ UNCHANGED pc
  /\ UNCHANGED <<bufVars, disk, op, bp, latest, failed>>

(* The process changes the content; it must write the buffer after that.   *)
Modify(p) ==
  LET b == bp[p]  k == op[p].blk IN
  /\ pc[p] = "held" /\ k # NoBlk /\ "ERROR" \notin b_flags[b]
  /\ latest[k] < MaxVersion
  /\ latest' = [latest EXCEPT ![k] = @ + 1]
  /\ b_data' = [b_data EXCEPT ![b] = latest[k] + 1]
  /\ Goto(p, "dirty")
  /\ UNCHANGED <<b_blkno, b_flags, av, flwanted, io, disk, op, bp, wchan, failed>>

Done(p) ==
  /\ Goto(p, "idle")
  /\ op' = [op EXCEPT ![p] = Idle]
  /\ bp' = [bp EXCEPT ![p] = NoBuf]

Brelse(p) ==
  /\ pc[p] = "held"
  /\ Release(bp[p], b_flags[bp[p]], av)
  /\ Done(p)
  /\ UNCHANGED <<b_data, io, disk, latest, failed>>

(* Mutant: bdwrite does not mark the content valid.                        *)
BdwriteNotDone(p) ==
  /\ pc[p] = "dirty"
  /\ Release(bp[p], b_flags[bp[p]] \cup {"DELWRI"}, av)
  /\ Done(p)
  /\ UNCHANGED <<b_data, io, disk, latest, failed>>

Bdwrite(p) ==
  /\ pc[p] = "dirty"
  /\ Release(bp[p], b_flags[bp[p]] \cup {"DELWRI", "DONE"}, av)
  /\ Done(p)
  /\ UNCHANGED <<b_data, io, disk, latest, failed>>

(* Mutant: bawrite releases the buffer and leaves it to iodone too.        *)
BawriteReleases(p) ==
  /\ pc[p] = "dirty"
  /\ Release(bp[p], b_flags[bp[p]], av)
  /\ io' = io \cup {bp[p]}
  /\ Done(p)
  /\ UNCHANGED <<b_data, disk, latest, failed>>

Bawrite(p) ==
  /\ pc[p] = "dirty"
  /\ StartWrite(bp[p], {"ASYNC"})
  /\ Done(p)
  /\ UNCHANGED <<b_blkno, b_data, av, flwanted, disk, wchan, latest, failed>>

Bwrite(p) ==
  /\ pc[p] = "dirty"
  /\ StartWrite(bp[p], {})
  /\ Goto(p, "writing")
  /\ UNCHANGED <<b_blkno, b_data, av, flwanted, disk, op, bp, wchan, latest, failed>>

(* The iowait and the brelse of bwrite.                                    *)
BwriteWait(p) ==
  /\ pc[p] = "writing" /\ Awake(p)
  /\ IF "DONE" \in b_flags[bp[p]]
     THEN Release(bp[p], b_flags[bp[p]], av) /\ Done(p)
     ELSE /\ wchan' = [wchan EXCEPT ![p] = bp[p]]
          /\ UNCHANGED <<b_blkno, b_flags, av, flwanted, procVars>>
  /\ UNCHANGED <<b_data, io, disk, latest, failed>>

(* bflush starts every delayed write on the available list; the other      *)
(* buffers stay on it.                                                     *)
Bflush ==
  LET delayed == {b \in ToSet(av) : "DELWRI" \in b_flags[b]} IN
  /\ delayed # {}
  /\ \E list \in SetToSeqs(ToSet(av) \ delayed) :
       SameOrder(list) /\ av' = list
  /\ b_flags' = [b \in Buf |->
       IF b \in delayed
       THEN (b_flags[b] \ {"READ", "DONE", "ERROR", "DELWRI"}) \cup {"BUSY", "ASYNC"}
       ELSE b_flags[b]]
  /\ io' = io \cup delayed
  /\ UNCHANGED <<b_blkno, b_data, flwanted, disk, procVars, wchan, latest, failed>>

-----------------------------------------------------------------------------
(* The device transfers the block, or fails, and calls iodone, which       *)
(* releases the buffer if nobody waits for it.                             *)
Transfer(b) ==
  /\ IF "READ" \in b_flags[b]
     THEN b_data' = [b_data EXCEPT ![b] = disk[b_blkno[b]]] /\ UNCHANGED disk
     ELSE disk' = [disk EXCEPT ![b_blkno[b]] = b_data[b]] /\ UNCHANGED b_data
  /\ UNCHANGED failed

Fails(b) ==
  /\ failed' = IF "READ" \in b_flags[b] THEN failed ELSE failed \cup {b_blkno[b]}
  /\ UNCHANGED <<b_data, disk>>

(* Mutant: iodone does not wake who waits for the request.                 *)
FinishSilent(b, f) ==
  /\ io' = io \ {b}
  /\ IF "ASYNC" \in f
     THEN Release(b, f, av)
     ELSE /\ b_flags' = [b_flags EXCEPT ![b] = f \ {"WANTED"}]
          /\ UNCHANGED <<b_blkno, av, flwanted, wchan>>

Finish(b, f) ==
  /\ io' = io \ {b}
  /\ IF "ASYNC" \in f
     THEN Release(b, f, av)
     ELSE /\ b_flags' = [b_flags EXCEPT ![b] = f \ {"WANTED"}]
          /\ Wake({p \in Proc : wchan[p] = b})
          /\ UNCHANGED <<b_blkno, av, flwanted>>

Iodone(b) ==
  /\ b \in io
  /\ \/ Transfer(b) /\ Finish(b, b_flags[b] \cup {"DONE"})
     \/ Fails(b) /\ Finish(b, b_flags[b] \cup {"DONE", "ERROR"})
  /\ UNCHANGED <<procVars, latest>>

Step(p) ==
  \/ GetblkBusy(p) \/ GetblkHit(p) \/ GetblkEmpty(p) \/ GetblkFlush(p)
  \/ GetblkNew(p) \/ Ahead(p) \/ GetraHit(p) \/ GetraNew(p) \/ Iowait(p)
  \/ Brelse(p) \/ Bdwrite(p) \/ Bawrite(p) \/ Bwrite(p) \/ BwriteWait(p)

Next ==
  \/ \E p \in Proc, k \in Blk : Bread(p, k)
  \/ \E p \in Proc, k \in Blk \cup {NoBlk} : Getblk(p, k)
  \/ \E p \in Proc, k, r \in Blk : Breada(p, k, r)
  \/ \E p \in Proc : Step(p) \/ Modify(p)
  \/ Bflush
  \/ \E b \in Buf : Iodone(b)

Spec == Init /\ [][Next]_vars

(* A runnable process is scheduled, and the device finishes requests.      *)
FairSpec ==
  /\ Spec
  /\ \A p \in Proc : WF_vars(Step(p))
  /\ \A b \in Buf : WF_vars(Iodone(b))

-----------------------------------------------------------------------------
Labels == {"idle", "getblk", "getra", "ahead", "iowait", "held", "dirty", "writing"}

TypeOK ==
  /\ b_blkno \in [Buf -> Blk \cup {NoBlk}]
  /\ b_flags \in [Buf -> SUBSET Flags]
  /\ b_data \in [Buf -> Nat]
  /\ av \in Seq(Buf) /\ Len(av) <= Cardinality(Buf)
  /\ flwanted \in BOOLEAN /\ io \subseteq Buf
  /\ disk \in [Blk -> Nat]
  /\ pc \in [Proc -> Labels] /\ op \in [Proc -> Request]
  /\ bp \in [Proc -> Buf \cup {NoBuf}] /\ wchan \in [Proc -> Chan]
  /\ latest \in [Blk -> Nat] /\ failed \subseteq Blk

Holder(p, b) == bp[p] = b /\ pc[p] # "idle"

(* buf.h: a buffer is on the available list, and liable to be reassigned,  *)
(* if and only if it is not marked BUSY; and a busy buffer is one          *)
(* process's, or the device's to release.                                  *)
AvailIffNotBusy ==
  /\ \A b \in Buf : Busy(b) <=> b \notin ToSet(av)
  /\ Len(av) = Cardinality(ToSet(av))
  /\ \A b \in Buf : Busy(b) <=> (\E p \in Proc : Holder(p, b))
                                 # (b \in io /\ "ASYNC" \in b_flags[b])
  /\ \A p, q \in Proc : bp[p] = bp[q] /\ bp[p] # NoBuf => p = q

(* A block is in at most one buffer, though getblk sleeps between its      *)
(* search of the device list and its use of the available list.            *)
OneBufferPerBlock ==
  \A b, c \in Buf : b_blkno[b] = b_blkno[c] /\ b_blkno[b] # NoBlk => b = c

(* What a process reads is what was last written into the block, whether   *)
(* it comes from a buffer, from a delayed write or from the disk, unless   *)
(* a write of the block failed.                                            *)
ReadsLatest ==
  \A p \in Proc :
    pc[p] = "held" /\ op[p].kind # "getblk" /\ "ERROR" \notin b_flags[bp[p]]
      /\ op[p].blk \notin failed
    => b_blkno[bp[p]] = op[p].blk /\ b_data[bp[p]] = latest[op[p].blk]

(* A written block is on the disk, or still in a buffer that will be       *)
(* written before it is reassigned.                                        *)
NothingLost ==
  \A k \in Blk \ failed :
    \/ disk[k] = latest[k]
    \/ \E b \in Buf :
         /\ b_blkno[b] = k /\ b_data[b] = latest[k]
         /\ \/ "DELWRI" \in b_flags[b]
            \/ b \in io /\ "READ" \notin b_flags[b]
            \/ \E p \in Proc : bp[p] = b /\ pc[p] = "dirty"

(* A sleeper will be woken: on a buffer, because the buffer is busy and    *)
(* wanted or its request is with the device; on the list, because the list *)
(* is empty and wanted.                                                    *)
SleepersWoken ==
  \A p \in Proc :
    /\ wchan[p] \in Buf =>
         IF pc[p] \in {"getblk", "getra"}
         THEN {"BUSY", "WANTED"} \subseteq b_flags[wchan[p]]
         ELSE wchan[p] = bp[p] /\ bp[p] \in io /\ "ASYNC" \notin b_flags[bp[p]]
    /\ wchan[p] = FreeList => av = <<>> /\ flwanted

(* A buffer does not stay busy: its holder releases it, whatever it waits  *)
(* for, and the device releases what nobody waits for.  Read-ahead is left *)
(* out of this: breada holds one buffer while it waits for another, and if *)
(* every buffer is held like that nobody moves.                            *)
BusyEnds == \A b \in Buf : Busy(b) ~> ~Busy(b)
=============================================================================
