-------------------------------- MODULE Pipe --------------------------------
(***************************************************************************)
(* One pipe: kernel/pipe.c (readp, writep, plock, syspipe) with the parts  *)
(* of the file and inode code it runs through: rdwr, closef/closei, iput,  *)
(* prele, readi and writei.                                                *)
(*                                                                         *)
(* The kernel is not preemptive, so a process runs in one step from the    *)
(* point where it gets the processor to the next point where it may give   *)
(* it up: a sleep(), the return to user mode, or the block I/O inside      *)
(* readi/writei (bread -> iowait -> sleep), during which it holds ILOCK.   *)
(*                                                                         *)
(* Bytes are abstracted to stamps: the n-th byte ever stored in the pipe   *)
(* has stamp n.  The pipe is used after fork: several processes may hold   *)
(* the read end and several the write end.                                 *)
(***************************************************************************)
EXTENDS Integers

CONSTANTS
  Readers,   (* processes that hold the read descriptor at the start       *)
  Writers,   (* processes that hold the write descriptor at the start      *)
  PIPSIZ,    (* capacity of the pipe in bytes                              *)
  MaxReq,    (* bound: the largest count of one read or write call         *)
  MaxSent    (* bound: no new write is started beyond this many bytes      *)

ASSUME PipeAssumption ==
  /\ Readers # {} /\ Writers # {}
  /\ Readers \cap Writers = {}
  /\ PIPSIZ \in Nat \ {0}
  /\ MaxReq \in Nat \ {0}
  /\ MaxSent \in Nat

Procs == Readers \cup Writers
End   == {"r", "w"}
EndOf(p) == IF p \in Readers THEN "r" ELSE "w"

VARIABLES
  ilock, iwant,    (* i_flag & ILOCK, i_flag & IWANT of the pipe's inode   *)
  iread, iwrite,   (* i_mode & IREAD, & IWRITE: someone sleeps on ip+2/+1  *)
  icount,          (* i_count: one reference per open end                  *)
  size,            (* i_size1: the tail, where the next byte is written    *)
  offset,          (* f_offset[1] of the read end: the head                *)
  nonblock,        (* f_flag & FNONBLOCK of each end                       *)
  holders,         (* who has the end open; f_count is their number        *)
  data,            (* the stamps stored in the pipe's file                 *)
  pc,              (* where each process is                                *)
  left,            (* c of writep, u_count of readp: still to be moved     *)
  uoff, ucnt,      (* u_offset[1] and the bytes of the transfer under way  *)
                   (* (these three are 0 where the code does not read them) *)
  sent, rcvd,      (* history: bytes stored and bytes delivered so far     *)
  fifo             (* history: every byte was delivered in stamp order     *)

inode   == <<ilock, iwant, iread, iwrite, icount, size>>
files   == <<nonblock, holders>>
uarea   == <<left, uoff, ucnt>>
history == <<sent, rcvd, fifo>>
vars    == <<inode, offset, files, data, pc, uarea, history>>

(***************************************************************************)
(* "user": outside the pipe code; "loop": runnable at label loop, about to *)
(* plock; "want": asleep in plock on ip; "asleep": asleep on ip+2 (reader) *)
(* or ip+1 (writer); "io": inside readi/writei with the lock taken.        *)
(***************************************************************************)
PcValues == {"user", "loop", "want", "asleep", "io"}

(* Mutant: the transfer is not clipped to the room in the pipe.             *)
MinimumUnclipped(a, b) == a

Minimum(a, b) == IF a < b THEN a ELSE b

(* readi stops at the size of the file, also when the head is beyond it.   *)
Readable(n) == IF offset < size THEN Minimum(n, size - offset) ELSE 0

LockWaiters  == {q \in Procs : pc[q] = "want"}
ReadWaiters  == {q \in Readers : pc[q] = "asleep"}
WriteWaiters == {q \in Writers : pc[q] = "asleep"}

(* Process p goes to "to"; the processes in woken become runnable.         *)
Goto(p, to, woken) ==
  pc' = [q \in Procs |-> IF q = p THEN to
                         ELSE IF q \in woken THEN "loop" ELSE pc[q]]

(* Mutant: prele clears IWANT and forgets the wakeup.                       *)
PreleWakesNobody == {}

(* What prele wakes: the sleepers on ip, if IWANT says there are any.      *)
PreleWakes == IF iwant THEN LockWaiters ELSE {}

Prele == ilock' = FALSE /\ iwant' = FALSE

-----------------------------------------------------------------------------
(* syspipe, followed by the forks and closes that give each process its    *)
(* one end.                                                                *)
Init ==
  /\ ilock = FALSE /\ iwant = FALSE /\ iread = FALSE /\ iwrite = FALSE
  /\ icount = 2 /\ size = 0 /\ offset = 0
  /\ nonblock = [e \in End |-> FALSE]
  /\ holders = [e \in End |-> IF e = "r" THEN Readers ELSE Writers]
  /\ data = [i \in 0..(PIPSIZ - 1) |-> 0]
  /\ pc = [p \in Procs |-> "user"]
  /\ left = [p \in Procs |-> 0]
  /\ uoff = [p \in Procs |-> 0]
  /\ ucnt = [p \in Procs |-> 0]
  /\ sent = 0 /\ rcvd = 0 /\ fifo = TRUE

(* rdwr: a process calls read or write with a count.                       *)
Enter(p, n) ==
  /\ pc[p] = "user" /\ p \in holders[EndOf(p)]
  /\ p \in Writers => sent + n <= MaxSent
  /\ left' = [left EXCEPT ![p] = n]
  /\ Goto(p, "loop", {})
  /\ UNCHANGED <<inode, offset, files, data, uoff, ucnt, history>>

(* plock finds ILOCK set: sleep(ip).                                       *)
PlockSleep(p) ==
  /\ pc[p] = "loop" /\ ilock
  /\ iwant' = TRUE
  /\ Goto(p, "want", {})
  /\ UNCHANGED <<ilock, iread, iwrite, icount, size, offset, files, data,
                 uarea, history>>

-----------------------------------------------------------------------------
(* Mutant: readp resets the head and forgets the tail.                      *)
ReadEmptyKeepsTail(r, to) ==
  /\ pc[r] = "loop" /\ ~ilock /\ offset = size
  /\ offset' = 0 /\ iwrite' = (iwrite /\ offset = 0)
  /\ Prele
  /\ Goto(r, to, PreleWakes)
  /\ left' = [left EXCEPT ![r] = IF to = "user" THEN 0 ELSE @]
  /\ UNCHANGED <<size, icount, files, data, uoff, ucnt, history>>

(* readp with head = tail: both are reset, the writers that slept on a     *)
(* full pipe are woken, the lock is released.                              *)
ReadEmpty(r, to) ==
  /\ pc[r] = "loop" /\ ~ilock /\ offset = size
  /\ offset' = 0 /\ size' = 0
  /\ iwrite' = (iwrite /\ offset = 0)
  /\ Prele
  /\ Goto(r, to, PreleWakes \cup
                 IF iwrite /\ offset # 0 THEN WriteWaiters ELSE {})
  /\ left' = [left EXCEPT ![r] = IF to = "user" THEN 0 ELSE @]
  /\ UNCHANGED <<icount, files, data, uoff, ucnt, history>>

(* Mutant: the test for a missing writer comes before the test for bytes.   *)
ReadEofEarly(r) ==
  /\ icount < 2 /\ pc[r] = "loop" /\ ~ilock
  /\ Goto(r, "user", {}) /\ left' = [left EXCEPT ![r] = 0]
  /\ UNCHANGED <<inode, offset, files, data, uoff, ucnt, history>>

ReadEof(r)      == icount < 2 /\ ReadEmpty(r, "user") /\ UNCHANGED iread

ReadEagain(r)   == /\ icount >= 2 /\ nonblock["r"]
                   /\ ReadEmpty(r, "user") /\ UNCHANGED iread

(* Mutant: readp sleeps without setting IREAD.                              *)
ReadSleepUnflagged(r) ==
  /\ icount >= 2 /\ ~nonblock["r"]
  /\ ReadEmpty(r, "asleep") /\ UNCHANGED iread

ReadSleep(r)    == /\ icount >= 2 /\ ~nonblock["r"]
                   /\ ReadEmpty(r, "asleep") /\ iread' = TRUE

(* Mutant: readp goes to readi without plock.                               *)
ReadLockUnlocked(r) ==
  /\ pc[r] = "loop" /\ offset # size
  /\ uoff' = [uoff EXCEPT ![r] = offset]
  /\ ucnt' = [ucnt EXCEPT ![r] = Readable(left[r])]
  /\ left' = [left EXCEPT ![r] = 0]
  /\ Goto(r, "io", {})
  /\ UNCHANGED <<inode, offset, files, data, history>>

(* readp finds bytes: plock, then readi from the head.                     *)
ReadLock(r) ==
  /\ pc[r] = "loop" /\ ~ilock /\ offset # size
  /\ ilock' = TRUE
  /\ uoff' = [uoff EXCEPT ![r] = offset]
  /\ ucnt' = [ucnt EXCEPT ![r] = Readable(left[r])]
  /\ left' = [left EXCEPT ![r] = 0]
  /\ Goto(r, "io", {})
  /\ UNCHANGED <<iwant, iread, iwrite, icount, size, offset, files, data,
                 history>>

(* readi has copied k bytes (fewer than asked for when bread or the copy   *)
(* to user space fails); the head moves, the lock is released.             *)
ReadIo(r, k) ==
  /\ pc[r] = "io" /\ k <= ucnt[r]
  /\ offset' = uoff[r] + k
  /\ fifo' = (fifo /\ \A i \in 0..(k - 1) : data[uoff[r] + i] = rcvd + 1 + i)
  /\ rcvd' = rcvd + k
  /\ Prele
  /\ Goto(r, "user", PreleWakes)
  /\ uoff' = [uoff EXCEPT ![r] = 0] /\ ucnt' = [ucnt EXCEPT ![r] = 0]
  /\ UNCHANGED <<iread, iwrite, icount, size, files, data, left, sent>>

-----------------------------------------------------------------------------
(* writep from plock with the lock free (or just released by this process) *)
(* to its next sleep or return: c bytes are left, the tail is at s, rd is  *)
(* IREAD, wt is IWANT and woken has been woken on the way.                 *)
WriteLoop(w, c, s, rd, wt, woken) ==
  LET Leave(to, c1) ==
        /\ Prele
        /\ Goto(w, to, woken \cup IF wt THEN LockWaiters ELSE {})
        /\ left' = [left EXCEPT ![w] = c1]
        /\ uoff' = [uoff EXCEPT ![w] = 0] /\ ucnt' = [ucnt EXCEPT ![w] = 0]
  IN
  /\ iread' = rd
  /\ \/ (* all written: return *)
        /\ c = 0
        /\ Leave("user", 0)
        /\ UNCHANGED iwrite
     \/ (* no reader: EPIPE and SIGPIPE; full and FNONBLOCK: EAGAIN *)
        /\ c # 0 /\ (icount < 2 \/ (s = PIPSIZ /\ nonblock["w"]))
        /\ Leave("user", 0)
        /\ UNCHANGED iwrite
     \/ (* full: sleep(ip+1) *)
        /\ c # 0 /\ icount >= 2 /\ s = PIPSIZ /\ ~nonblock["w"]
        /\ iwrite' = TRUE
        /\ Leave("asleep", c)
     \/ (* room: writei as much as fits at the tail, keeping the lock *)
        /\ c # 0 /\ icount >= 2 /\ s # PIPSIZ
        /\ ilock' = TRUE /\ iwant' = wt /\ Goto(w, "io", woken)
        /\ uoff' = [uoff EXCEPT ![w] = s]
        /\ ucnt' = [ucnt EXCEPT ![w] = Minimum(c, PIPSIZ - s)]
        /\ left' = [left EXCEPT ![w] = c - Minimum(c, PIPSIZ - s)]
        /\ UNCHANGED iwrite

WriteLock(w) ==
  /\ pc[w] = "loop" /\ ~ilock
  /\ WriteLoop(w, left[w], size, iread, iwant, {})
  /\ UNCHANGED <<icount, size, offset, files, data, history>>

(* writei has stored k bytes at u_offset (fewer when bmap or bread fails); *)
(* prele, wakeup(ip+2) if a reader asked for it, and round the loop.       *)
WriteIo(w, k) ==
  /\ pc[w] = "io" /\ k <= ucnt[w]
  /\ LET end == uoff[w] + k
         s   == IF end > size THEN end ELSE size
     IN /\ data' = [i \in 0..(PIPSIZ - 1) |->
                      IF i \in uoff[w]..(end - 1) THEN sent + 1 + i - uoff[w]
                                                  ELSE data[i]]
        /\ size' = s
        /\ sent' = sent + k
        /\ WriteLoop(w, left[w], s, FALSE, FALSE,
                     PreleWakes \cup IF iread THEN ReadWaiters ELSE {})
  /\ UNCHANGED <<icount, offset, files, rcvd, fifo>>

-----------------------------------------------------------------------------
(* sysclose -> closef -> closei -> iput.  closef clears IREAD and IWRITE   *)
(* and calls wakeup on the byte addresses (caddr_t)ip + 1 and + 2, where   *)
(* nobody sleeps: the sleepers of readp and writep are on the inode        *)
(* addresses ip + 2 and ip + 1.  On the last close of the end, iput drops  *)
(* one reference and releases ILOCK, whoever holds it.                     *)
Close(p) ==
  LET e == EndOf(p) IN
  /\ pc[p] = "user" /\ p \in holders[e]
  /\ holders' = [holders EXCEPT ![e] = @ \ {p}]
  /\ iread' = FALSE /\ iwrite' = FALSE
  /\ IF holders[e] = {p}
     THEN /\ icount' = icount - 1
          /\ Prele
          /\ Goto(p, "user", PreleWakes)
     ELSE UNCHANGED <<icount, ilock, iwant, pc>>
  /\ UNCHANGED <<size, offset, nonblock, data, uarea, history>>

(* sys_fcntl(F_SETFL) sets or clears FNONBLOCK in the shared file.         *)
SetFl(p, b) ==
  /\ pc[p] = "user" /\ p \in holders[EndOf(p)]
  /\ nonblock' = [nonblock EXCEPT ![EndOf(p)] = b]
  /\ UNCHANGED <<inode, offset, holders, data, pc, uarea, history>>

(* A signal ends a sleep in the pipe code, whose priority PPIPE is not     *)
(* negative: the call is given up, and the flags that ask for a wakeup     *)
(* stay.  (Where aretu lands is undefined in the optimised build: this is  *)
(* the intention.)                                                         *)
Interrupt(p) ==
  /\ pc[p] \in {"want", "asleep"}
  /\ Goto(p, "user", {})
  /\ left' = [left EXCEPT ![p] = 0]
  /\ UNCHANGED <<inode, offset, files, data, uoff, ucnt, history>>

(* ip+1 and ip+2 are the addresses of the next two inodes of the table:    *)
(* prele on one of them (or a neighbouring pipe) wakes our sleepers too.   *)
AliasedWakeup(e) ==
  LET W == IF e = "r" THEN ReadWaiters ELSE WriteWaiters IN
  /\ W # {}
  /\ pc' = [q \in Procs |-> IF q \in W THEN "loop" ELSE pc[q]]
  /\ UNCHANGED <<inode, offset, files, data, uarea, history>>

-----------------------------------------------------------------------------
ReadStep(r) ==
  \/ PlockSleep(r) \/ ReadEof(r) \/ ReadEagain(r) \/ ReadSleep(r)
  \/ ReadLock(r) \/ \E k \in 0..PIPSIZ : ReadIo(r, k)

WriteStep(w) ==
  \/ PlockSleep(w) \/ WriteLock(w) \/ \E k \in 0..PIPSIZ : WriteIo(w, k)

UserStep(p) ==
  \/ \E n \in 1..MaxReq : Enter(p, n)
  \/ Close(p)
  \/ \E b \in BOOLEAN : SetFl(p, b)

Next ==
  \/ \E r \in Readers : ReadStep(r)
  \/ \E w \in Writers : WriteStep(w)
  \/ \E p \in Procs : UserStep(p) \/ Interrupt(p)
  \/ \E e \in End : AliasedWakeup(e)

(* A process inside the kernel that is not asleep keeps running: the       *)
(* scheduler ages priorities, and block I/O completes.  When a process     *)
(* reads, writes or closes is up to the program, and signals need not come. *)
Fairness ==
  /\ \A r \in Readers : WF_vars(ReadStep(r))
  /\ \A w \in Writers : WF_vars(WriteStep(w))

Spec     == Init /\ [][Next]_vars
FairSpec == Spec /\ Fairness

-----------------------------------------------------------------------------
TypeOK ==
  /\ ilock \in BOOLEAN /\ iwant \in BOOLEAN
  /\ iread \in BOOLEAN /\ iwrite \in BOOLEAN
  /\ icount \in 0..2
  /\ size \in 0..PIPSIZ /\ offset \in 0..PIPSIZ
  /\ nonblock \in [End -> BOOLEAN]
  /\ holders \in [End -> SUBSET Procs]
  /\ data \in [0..(PIPSIZ - 1) -> Nat]
  /\ pc \in [Procs -> PcValues]
  /\ left \in [Procs -> 0..MaxReq]
  /\ uoff \in [Procs -> 0..PIPSIZ] /\ ucnt \in [Procs -> 0..PIPSIZ]
  /\ sent \in Nat /\ rcvd \in Nat /\ fifo \in BOOLEAN

SoleReader == \A r1, r2 \in Readers : r1 = r2

(* Readers that share the read end are only kept apart by ILOCK, and iput  *)
(* releases ILOCK on the last close of the other end.  The stream is       *)
(* therefore claimed while both ends are open, and for a sole reader       *)
(* always.                                                                 *)
Protected == icount = 2 \/ SoleReader

(* While both ends are open, at most one process is inside readi/writei on *)
(* the pipe, and the pipe is locked while one is (plock / prele).          *)
LockExclusion ==
  icount = 2 =>
    /\ \A p, q \in Procs : pc[p] = "io" /\ pc[q] = "io" => p = q
    /\ ilock <=> \E p \in Procs : pc[p] = "io"

(* Bytes are delivered in the order in which writei stored them: none is   *)
(* lost, repeated or overtaken, whatever the resets of head and tail, the  *)
(* partial transfers and the interleaving of readers, writers and closes.  *)
InOrder == Protected => fifo

(* A read that returns end of file leaves nothing behind: every byte that  *)
(* was stored has been delivered.                                          *)
EofMeansDrained ==
  [][\A r \in Readers : ReadEof(r) /\ Protected => rcvd = sent]_vars

(* Before the first close no wakeup is lost: a reader asleep on ip+2 has   *)
(* nothing to read, and a writer asleep on ip+1 has no room to write.      *)
NoLostWakeup ==
  holders = [e \in End |-> IF e = "r" THEN Readers ELSE Writers] =>
    /\ ReadWaiters # {} => offset = size
    /\ WriteWaiters # {} => size = PIPSIZ

(* A process asleep in plock is woken: prele never forgets IWANT.          *)
LockWaitEnds == \A p \in Procs : pc[p] = "want" ~> pc[p] # "want"

(* The comment at closef ("make sure the pipe protocol does not            *)
(* constipate"): a reader asleep while there are bytes to read, or while   *)
(* the last writer has closed, gets to run again.                          *)
NotConstipated ==
  \A r \in Readers :
    (pc[r] = "asleep" /\ (offset # size \/ holders["w"] = {}))
      ~> pc[r] # "asleep"

=============================================================================
