----------------------------- MODULE PipeProofs -----------------------------
(***************************************************************************)
(* Proofs about Pipe for any number of readers and writers, any capacity   *)
(* and any request size.  The inductive invariant ties i_count to the      *)
(* processes that hold each end, the lock to the process inside            *)
(* readi/writei, and head, tail and contents to the bytes sent and         *)
(* received.                                                               *)
(***************************************************************************)
EXTENDS Pipe, TLAPS

(* i_count counts the open ends, and a process inside the pipe code holds  *)
(* its end, so that closef cannot release the inode under it.              *)
RefInv ==
  /\ holders["r"] \subseteq Readers /\ holders["w"] \subseteq Writers
  /\ icount = (IF holders["r"] = {} THEN 0 ELSE 1)
              + (IF holders["w"] = {} THEN 0 ELSE 1)
  /\ \A p \in Procs : pc[p] # "user" => p \in holders[EndOf(p)]
  /\ \A p \in Procs : pc[p] = "io" => uoff[p] + ucnt[p] <= PIPSIZ

(* The states in which the byte stream is well formed: both ends open, or  *)
(* the sole reader draining the pipe after the last writer has closed.     *)
Live == icount = 2 \/ (SoleReader /\ holders["r"] # {})

(* The file holds, from head to tail, exactly the bytes sent and not yet   *)
(* received; a transfer under way starts where head or tail still is.      *)
StreamInv ==
  Live =>
    /\ offset <= size
    /\ sent = rcvd + (size - offset)
    /\ \A i \in 0..(PIPSIZ - 1) :
         offset <= i /\ i < size => data[i] = rcvd + 1 + i - offset
    /\ \A r \in Readers :
         pc[r] = "io" => uoff[r] = offset /\ ucnt[r] <= size - offset
    /\ \A w \in Writers : pc[w] = "io" => uoff[w] = size

AllOpen == holders = [e \in End |-> IF e = "r" THEN Readers ELSE Writers]

(* The flags that promise a wakeup are set while someone sleeps.           *)
WakeInv ==
  AllOpen =>
    /\ ReadWaiters # {} => iread /\ offset = size
    /\ WriteWaiters # {} => iwrite /\ size = PIPSIZ

IInv == TypeOK /\ RefInv /\ LockExclusion /\ StreamInv /\ InOrder /\ WakeInv

-----------------------------------------------------------------------------
(* Goto moves one process and wakes sleepers; nobody else enters or leaves *)
(* readi/writei, enters or leaves the kernel, or falls asleep.             *)
LEMMA GotoFacts ==
  ASSUME TypeOK, NEW p \in Procs, NEW to \in PcValues, NEW woken,
         \A q \in woken : q \in Procs => pc[q] \in {"want", "asleep"},
         Goto(p, to, woken)
  PROVE  /\ pc' \in [Procs -> PcValues]
         /\ pc'[p] = to
         /\ \A q \in Procs : q # p => 
              /\ pc'[q] = "io" <=> pc[q] = "io"
              /\ pc'[q] = "user" <=> pc[q] = "user"
              /\ pc'[q] = "asleep" => pc[q] = "asleep" /\ q \notin woken
BY DEF Goto, TypeOK, PcValues

(* Init establishes the invariant.                                         *)
LEMMA InitInv == Init => IInv
<1> SUFFICES ASSUME Init PROVE IInv
  OBVIOUS
<1>0. /\ icount = 2 /\ size = 0 /\ offset = 0 /\ sent = 0 /\ rcvd = 0
      /\ ilock = FALSE /\ fifo = TRUE
      /\ holders["r"] = Readers /\ holders["w"] = Writers
      /\ \A p \in Procs : pc[p] = "user"
  BY DEF Init, End
<1>1. TypeOK
  <2>1. /\ ilock \in BOOLEAN /\ iwant \in BOOLEAN /\ fifo \in BOOLEAN
        /\ iread \in BOOLEAN /\ iwrite \in BOOLEAN
    BY Zenon DEF Init
  <2>2. nonblock \in [End -> BOOLEAN]
    BY Zenon DEF Init
  <2>3. /\ icount \in 0..2 /\ size \in 0..PIPSIZ /\ offset \in 0..PIPSIZ
        /\ sent \in Nat /\ rcvd \in Nat
        /\ data \in [0..(PIPSIZ - 1) -> Nat]
        /\ holders \in [End -> SUBSET Procs]
    BY PipeAssumption DEF Init, End, Procs
  <2>4. /\ pc \in [Procs -> PcValues] /\ left \in [Procs -> 0..MaxReq]
        /\ uoff \in [Procs -> 0..PIPSIZ] /\ ucnt \in [Procs -> 0..PIPSIZ]
    BY PipeAssumption DEF Init, PcValues
  <2> QED
    BY <2>1, <2>2, <2>3, <2>4 DEF TypeOK
<1>2. RefInv
  BY <1>0, PipeAssumption DEF RefInv
<1>3. LockExclusion /\ StreamInv /\ InOrder
  BY <1>0, PipeAssumption DEF LockExclusion, StreamInv, InOrder, Procs
<1>4. WakeInv
  BY <1>0 DEF WakeInv, ReadWaiters, WriteWaiters, Procs
<1> QED
  BY <1>1, <1>2, <1>3, <1>4 DEF IInv

-----------------------------------------------------------------------------
(* A step that leaves head, tail, contents, references and the transfers   *)
(* alone, and lets nobody into or out of readi/writei, keeps the stream.   *)
LEMMA QuietStep ==
  ASSUME IInv,
         UNCHANGED <<icount, holders, size, offset, data, uoff, ucnt, history>>,
         pc' \in [Procs -> PcValues],
         \A q \in Procs : pc'[q] = "io" <=> pc[q] = "io"
  PROVE  StreamInv' /\ InOrder'
<1> USE DEF IInv, history
<1>1. Live' <=> Live
  BY DEF Live
<1>2. StreamInv'
  BY <1>1 DEF StreamInv, Procs
<1>3. InOrder'
  BY DEF InOrder, Protected
<1> QED
  BY <1>2, <1>3

LEMMA EnterInv ==
  ASSUME IInv, NEW p \in Procs, NEW n \in 1..MaxReq, Enter(p, n)
  PROVE  IInv'
<1> USE DEF IInv, Enter, inode, files, history
<1>0. /\ pc' \in [Procs -> PcValues]
      /\ pc'[p] = "loop" /\ pc[p] = "user"
      /\ \A q \in Procs : q # p => pc'[q] = pc[q]
  BY DEF PcValues, Goto, TypeOK
<1>1. TypeOK'
  <2>1. left' \in [Procs -> 0..MaxReq]
    BY PipeAssumption DEF TypeOK
  <2> QED
    BY <1>0, <2>1 DEF TypeOK
<1>2. RefInv'
  BY <1>0 DEF RefInv, TypeOK
<1>3. LockExclusion'
  BY <1>0 DEF LockExclusion
<1>4. StreamInv' /\ InOrder'
  BY <1>0, QuietStep
<1>5. WakeInv'
  BY <1>0 DEF WakeInv, AllOpen, ReadWaiters, WriteWaiters, Procs
<1> QED
  BY <1>1, <1>2, <1>3, <1>4, <1>5

LEMMA InterruptInv ==
  ASSUME IInv, NEW p \in Procs, Interrupt(p)
  PROVE  IInv'
<1> USE DEF IInv, Interrupt, inode, files, history
<1>0. /\ pc' \in [Procs -> PcValues]
      /\ pc'[p] = "user" /\ pc[p] \in {"want", "asleep"}
      /\ \A q \in Procs : q # p => pc'[q] = pc[q]
  BY DEF PcValues, Goto, TypeOK
<1>1. TypeOK'
  <2>1. left' \in [Procs -> 0..MaxReq]
    BY PipeAssumption DEF TypeOK
  <2> QED
    BY <1>0, <2>1 DEF TypeOK
<1>2. RefInv'
  BY <1>0 DEF RefInv, TypeOK
<1>3. LockExclusion'
  BY <1>0 DEF LockExclusion
<1>4. StreamInv' /\ InOrder'
  BY <1>0, QuietStep
<1>5. WakeInv'
  BY <1>0 DEF WakeInv, AllOpen, ReadWaiters, WriteWaiters, Procs
<1> QED
  BY <1>1, <1>2, <1>3, <1>4, <1>5

LEMMA PlockSleepInv ==
  ASSUME IInv, NEW p \in Procs, PlockSleep(p)
  PROVE  IInv'
<1> USE DEF IInv, PlockSleep, files, uarea, history
<1>0. /\ pc' \in [Procs -> PcValues]
      /\ pc'[p] = "want" /\ pc[p] = "loop"
      /\ \A q \in Procs : q # p => pc'[q] = pc[q]
  BY DEF PcValues, Goto, TypeOK
<1>1. TypeOK'
  BY <1>0 DEF TypeOK
<1>2. RefInv'
  BY <1>0 DEF RefInv
<1>3. LockExclusion'
  BY <1>0 DEF LockExclusion
<1>4. StreamInv' /\ InOrder'
  BY <1>0, QuietStep
<1>5. WakeInv'
  BY <1>0 DEF WakeInv, AllOpen, ReadWaiters, WriteWaiters, Procs
<1> QED
  BY <1>1, <1>2, <1>3, <1>4, <1>5

LEMMA SetFlInv ==
  ASSUME IInv, NEW p \in Procs, NEW b \in BOOLEAN, SetFl(p, b)
  PROVE  IInv'
<1> USE DEF IInv, SetFl, inode, uarea, history
<1>1. TypeOK'
  <2>1. nonblock' \in [End -> BOOLEAN]
    BY DEF TypeOK
  <2> QED
    BY <2>1 DEF TypeOK
<1>2. RefInv' /\ LockExclusion'
  BY DEF RefInv, LockExclusion
<1>4. StreamInv' /\ InOrder'
  BY QuietStep DEF TypeOK
<1>5. WakeInv'
  BY DEF WakeInv, AllOpen, ReadWaiters, WriteWaiters
<1> QED
  BY <1>1, <1>2, <1>4, <1>5

LEMMA AliasedWakeupInv ==
  ASSUME IInv, NEW e \in End, AliasedWakeup(e)
  PROVE  IInv'
<1> USE DEF IInv, AliasedWakeup, inode, files, uarea, history
<1>0. /\ pc' \in [Procs -> PcValues]
      /\ \A q \in Procs : /\ pc'[q] = "io" <=> pc[q] = "io"
                          /\ pc'[q] = "user" <=> pc[q] = "user"
                          /\ pc'[q] = "asleep" => pc[q] = "asleep"
  BY DEF ReadWaiters, WriteWaiters, PcValues, TypeOK, Procs
<1>1. TypeOK'
  BY <1>0 DEF TypeOK
<1>2. RefInv' /\ LockExclusion'
  BY <1>0 DEF RefInv, LockExclusion
<1>4. StreamInv' /\ InOrder'
  BY <1>0, QuietStep
<1>5. WakeInv'
  BY <1>0 DEF WakeInv, AllOpen, ReadWaiters, WriteWaiters, Procs
<1> QED
  BY <1>1, <1>2, <1>4, <1>5

(* In a live pipe that is not locked nobody is inside readi/writei, unless *)
(* it is the process itself.                                               *)
LEMMA NobodyElseInIo ==
  ASSUME IInv, Live, NEW p \in Procs, NEW q \in Procs, q # p, pc[q] = "io",
         pc[p] # "user", pc[p] = "io" \/ ~ilock
  PROVE  FALSE
<1> USE DEF IInv
<1>1. CASE icount = 2
  BY <1>1 DEF LockExclusion
<1>2. CASE icount # 2
  <2>1. SoleReader /\ holders["r"] # {}
    BY <1>2 DEF Live
  <2>2. holders["w"] = {}
    BY <1>2, <2>1 DEF RefInv
  <2>3. p \in holders[EndOf(p)] /\ q \in holders[EndOf(q)]
    BY DEF RefInv
  <2> QED
    BY <2>1, <2>2, <2>3 DEF EndOf, SoleReader, Procs
<1> QED
  BY <1>1, <1>2

(* readp on an empty pipe: it returns, or sleeps with IREAD set.           *)
LEMMA ReadEmptyInv ==
  ASSUME IInv, NEW r \in Readers, NEW to \in {"user", "asleep"},
         ReadEmpty(r, to), iread' \in BOOLEAN, iread => iread',
         to = "asleep" => iread'
  PROVE  IInv'
<1> USE DEF IInv, ReadEmpty, files, history
<1> r \in Procs
  BY DEF Procs
<1> DEFINE woken == PreleWakes \cup
                    IF iwrite /\ offset # 0 THEN WriteWaiters ELSE {}
<1>a. \A q \in woken : q \in Procs => pc[q] \in {"want", "asleep"}
  BY DEF PreleWakes, LockWaiters, WriteWaiters
<1>b. Goto(r, to, woken)
  OBVIOUS
<1>0. /\ pc' \in [Procs -> PcValues]
      /\ pc'[r] = to /\ pc[r] = "loop"
      /\ \A q \in Procs : q # r =>
              /\ pc'[q] = "io" <=> pc[q] = "io"
              /\ pc'[q] = "user" <=> pc[q] = "user"
              /\ pc'[q] = "asleep" => pc[q] = "asleep" /\ q \notin woken
  <2> HIDE DEF woken
  <2>1. to \in PcValues
    BY DEF PcValues
  <2> QED
    BY <1>a, <1>b, <2>1, GotoFacts
<1>1. TypeOK'
  <2>1. iwrite' \in BOOLEAN /\ ilock' \in BOOLEAN /\ iwant' \in BOOLEAN
    BY Zenon DEF Prele
  <2>2. left' \in [Procs -> 0..MaxReq]
    BY PipeAssumption DEF TypeOK
  <2> QED
    BY <1>0, <2>1, <2>2, PipeAssumption DEF TypeOK
<1>2. RefInv'
  BY <1>0 DEF RefInv, TypeOK
<1>3. LockExclusion'
  BY <1>0 DEF LockExclusion, Prele
<1>4. StreamInv'
  <2>1. Live' <=> Live
    BY DEF Live
  <2>2. Live => \A q \in Procs : pc'[q] # "io"
    BY <1>0, NobodyElseInIo
  <2> QED
    BY <2>1, <2>2 DEF StreamInv, Procs, TypeOK
<1>5. InOrder'
  BY DEF InOrder, Protected
<1>6. WakeInv'
  <2> SUFFICES ASSUME AllOpen PROVE WakeInv'
    BY DEF WakeInv, AllOpen
  <2>1. ReadWaiters' # {} => iread' /\ offset' = size'
    BY <1>0 DEF WakeInv, ReadWaiters, Procs
  <2>2. WriteWaiters' # {} => iwrite' /\ size' = PIPSIZ
    <3> SUFFICES ASSUME NEW w \in Writers, pc'[w] = "asleep"
                 PROVE  iwrite' /\ size' = PIPSIZ
      BY DEF WriteWaiters
    <3>1. w \in Procs /\ w # r
      BY PipeAssumption DEF Procs
    <3>2. pc[w] = "asleep" /\ w \in WriteWaiters /\ w \notin woken
      BY <3>1, <1>0 DEF WriteWaiters
    <3>3. iwrite /\ size = PIPSIZ
      BY <3>2 DEF WakeInv
    <3> QED
      BY <3>2, <3>3, PipeAssumption
  <2> QED
    BY <2>1, <2>2 DEF WakeInv
<1> QED
  BY <1>1, <1>2, <1>3, <1>4, <1>5, <1>6

LEMMA ReadLockInv ==
  ASSUME IInv, NEW r \in Readers, ReadLock(r)
  PROVE  IInv'
<1> USE DEF IInv, ReadLock, files, history
<1> r \in Procs
  BY DEF Procs
<1>0. /\ pc' \in [Procs -> PcValues]
      /\ pc'[r] = "io" /\ pc[r] = "loop"
      /\ \A q \in Procs : q # r => pc'[q] = pc[q]
  BY DEF PcValues, Goto, TypeOK
<1>1. Readable(left[r]) \in 0..PIPSIZ /\ Readable(left[r]) + offset <= PIPSIZ
  BY PipeAssumption DEF Readable, Minimum, TypeOK
<1>2. TypeOK'
  <2>1. /\ left' \in [Procs -> 0..MaxReq] /\ uoff' \in [Procs -> 0..PIPSIZ]
        /\ ucnt' \in [Procs -> 0..PIPSIZ]
    BY <1>1, PipeAssumption DEF TypeOK
  <2> QED
    BY <1>0, <2>1 DEF TypeOK
<1>3. RefInv'
  BY <1>0, <1>1 DEF RefInv, TypeOK
<1>4. LockExclusion'
  BY <1>0 DEF LockExclusion
<1>5. StreamInv'
  <2> SUFFICES ASSUME Live PROVE StreamInv'
    BY DEF StreamInv, Live
  <2>1. \A q \in Procs : q # r => pc'[q] # "io"
    BY <1>0, NobodyElseInIo
  <2>2. uoff'[r] = offset /\ ucnt'[r] <= size - offset
    BY DEF Readable, Minimum, TypeOK, StreamInv
  <2>3. \A w \in Writers : w \in Procs /\ w # r
    BY PipeAssumption DEF Procs
  <2> QED
    BY <2>1, <2>2, <2>3 DEF StreamInv, Procs
<1>6. InOrder'
  BY DEF InOrder, Protected
<1>7. WakeInv'
  BY <1>0 DEF WakeInv, AllOpen, ReadWaiters, WriteWaiters, Procs
<1> QED
  BY <1>2, <1>3, <1>4, <1>5, <1>6, <1>7

LEMMA ReadIoInv ==
  ASSUME IInv, NEW r \in Readers, NEW k \in 0..PIPSIZ, ReadIo(r, k)
  PROVE  IInv'
<1> USE DEF IInv, ReadIo, files, history
<1> r \in Procs
  BY DEF Procs
<1>a. \A q \in PreleWakes : q \in Procs => pc[q] \in {"want", "asleep"}
  BY DEF PreleWakes, LockWaiters
<1>0. /\ pc' \in [Procs -> PcValues]
      /\ pc'[r] = "user" /\ pc[r] = "io"
      /\ \A q \in Procs : q # r =>
              /\ pc'[q] = "io" <=> pc[q] = "io"
              /\ pc'[q] = "user" <=> pc[q] = "user"
              /\ pc'[q] = "asleep" => pc[q] = "asleep"
  BY <1>a, GotoFacts DEF PcValues
<1>1. TypeOK'
  <2>1. offset' \in 0..PIPSIZ /\ rcvd' \in Nat
    <3>1. uoff[r] + ucnt[r] <= PIPSIZ
      BY <1>0 DEF RefInv
    <3>2. uoff[r] \in 0..PIPSIZ /\ ucnt[r] \in 0..PIPSIZ /\ rcvd \in Nat
      BY DEF TypeOK
    <3> QED
      BY <3>1, <3>2, PipeAssumption
  <2>2. fifo' \in BOOLEAN /\ ilock' \in BOOLEAN /\ iwant' \in BOOLEAN
    BY Zenon DEF Prele
  <2>3. uoff' \in [Procs -> 0..PIPSIZ] /\ ucnt' \in [Procs -> 0..PIPSIZ]
    BY PipeAssumption DEF TypeOK
  <2> QED
    BY <1>0, <2>1, <2>2, <2>3 DEF TypeOK
<1>2. RefInv'
  BY <1>0 DEF RefInv, TypeOK
<1>3. LockExclusion'
  BY <1>0 DEF LockExclusion, Prele
<1>4. Live => \A q \in Procs : pc'[q] # "io"
  BY <1>0, NobodyElseInIo
<1>5. StreamInv'
  <2> SUFFICES ASSUME Live PROVE StreamInv'
    BY DEF StreamInv, Live
  <2>1. uoff[r] = offset /\ k <= size - offset
    BY <1>0 DEF StreamInv, TypeOK
  <2>2. offset' = offset + k /\ rcvd' = rcvd + k /\ offset' <= size
    BY <2>1 DEF TypeOK
  <2>3. sent' = rcvd' + (size' - offset')
    BY <2>1, <2>2 DEF StreamInv, TypeOK
  <2>4. ASSUME NEW i \in 0..(PIPSIZ - 1), offset' <= i, i < size'
        PROVE  data'[i] = rcvd' + 1 + i - offset'
    BY <2>1, <2>2, <2>4 DEF StreamInv, TypeOK
  <2> QED
    BY <2>2, <2>3, <2>4, <1>4 DEF StreamInv, Procs
<1>6. InOrder'
  <2> SUFFICES ASSUME Protected PROVE fifo'
    BY DEF InOrder, Protected
  <2>1. Live
    BY <1>0 DEF Protected, Live, RefInv, EndOf
  <2>2. fifo
    BY DEF InOrder
  <2>3. ASSUME NEW i \in 0..(k - 1)
        PROVE  data[uoff[r] + i] = rcvd + 1 + i
    <3>1. uoff[r] = offset /\ k <= size - offset
      BY <2>1, <1>0 DEF StreamInv, TypeOK
    <3>2. offset + i \in 0..(PIPSIZ - 1) /\ offset <= offset + i /\ offset + i < size
      BY <3>1, PipeAssumption DEF TypeOK
    <3>3. data[offset + i] = rcvd + 1 + (offset + i) - offset
      BY <2>1, <3>2 DEF StreamInv
    <3> QED
      BY <3>1, <3>3 DEF TypeOK
  <2> QED
    BY <2>2, <2>3
<1>7. WakeInv'
  <2> SUFFICES ASSUME AllOpen PROVE WakeInv'
    BY DEF WakeInv, AllOpen
  <2>1. ReadWaiters' # {} => ReadWaiters # {}
    BY <1>0 DEF ReadWaiters, Procs
  <2>2. WriteWaiters' # {} => WriteWaiters # {}
    BY <1>0 DEF WriteWaiters, Procs
  <2>3. Live
    BY PipeAssumption DEF AllOpen, Live, RefInv, End
  <2>4. ReadWaiters # {} => offset' = size'
    BY <2>3, <1>0 DEF WakeInv, StreamInv, TypeOK
  <2> QED
    BY <2>1, <2>2, <2>4 DEF WakeInv
<1> QED
  BY <1>1, <1>2, <1>3, <1>5, <1>6, <1>7

(* What one pass of the loop of writep does, whatever branch it takes.     *)
LEMMA WriteLoopFacts ==
  ASSUME TypeOK, NEW w \in Writers, NEW c \in 0..MaxReq, NEW s \in 0..PIPSIZ,
         NEW rd \in BOOLEAN, NEW wt \in BOOLEAN, NEW woken,
         \A q \in woken : q \in Procs => pc[q] \in {"want", "asleep"},
         WriteLoop(w, c, s, rd, wt, woken)
  PROVE  /\ pc' \in [Procs -> PcValues] /\ left' \in [Procs -> 0..MaxReq]
         /\ uoff' \in [Procs -> 0..PIPSIZ] /\ ucnt' \in [Procs -> 0..PIPSIZ]
         /\ ilock' \in BOOLEAN /\ iwant' \in BOOLEAN /\ iwrite' \in BOOLEAN
         /\ iread' = rd
         /\ ilock' <=> pc'[w] = "io"
         /\ iwrite => iwrite'
         /\ pc'[w] = "io" => uoff'[w] = s /\ uoff'[w] + ucnt'[w] <= PIPSIZ
         /\ pc'[w] = "asleep" => s = PIPSIZ /\ iwrite'
         /\ \A q \in Procs : q # w =>
              /\ uoff'[q] = uoff[q] /\ ucnt'[q] = ucnt[q]
              /\ pc'[q] = "io" <=> pc[q] = "io"
              /\ pc'[q] = "user" <=> pc[q] = "user"
              /\ pc'[q] = "asleep" => pc[q] = "asleep" /\ q \notin woken
<1> w \in Procs
  BY DEF Procs
<1> DEFINE woken2 == woken \cup IF wt THEN LockWaiters ELSE {}
<1>1. \A q \in woken2 : q \in Procs => pc[q] \in {"want", "asleep"}
  BY DEF LockWaiters
<1>2. woken \subseteq woken2
  OBVIOUS
<1> DEFINE Leave(to, c1) ==
        /\ Prele
        /\ Goto(w, to, woken2)
        /\ left' = [left EXCEPT ![w] = c1]
        /\ uoff' = [uoff EXCEPT ![w] = 0] /\ ucnt' = [ucnt EXCEPT ![w] = 0]
<1>3. ASSUME NEW to \in {"user", "asleep"}, NEW c1 \in 0..MaxReq, Leave(to, c1)
      PROVE  /\ pc' \in [Procs -> PcValues] /\ left' \in [Procs -> 0..MaxReq]
             /\ uoff' \in [Procs -> 0..PIPSIZ] /\ ucnt' \in [Procs -> 0..PIPSIZ]
             /\ ilock' = FALSE /\ iwant' = FALSE /\ pc'[w] = to
             /\ \A q \in Procs : q # w =>
                  /\ uoff'[q] = uoff[q] /\ ucnt'[q] = ucnt[q]
                  /\ pc'[q] = "io" <=> pc[q] = "io"
                  /\ pc'[q] = "user" <=> pc[q] = "user"
                  /\ pc'[q] = "asleep" => pc[q] = "asleep" /\ q \notin woken
  <2> HIDE DEF woken2
  <2>1. to \in PcValues
    BY DEF PcValues
  <2>2. /\ pc' \in [Procs -> PcValues] /\ pc'[w] = to
        /\ \A q \in Procs : q # w =>
                  /\ pc'[q] = "io" <=> pc[q] = "io"
                  /\ pc'[q] = "user" <=> pc[q] = "user"
                  /\ pc'[q] = "asleep" => pc[q] = "asleep" /\ q \notin woken2
    BY <1>1, <1>3, <2>1, GotoFacts
  <2>3. /\ left' \in [Procs -> 0..MaxReq]
        /\ uoff' \in [Procs -> 0..PIPSIZ] /\ ucnt' \in [Procs -> 0..PIPSIZ]
        /\ \A q \in Procs : q # w => uoff'[q] = uoff[q] /\ ucnt'[q] = ucnt[q]
    BY <1>3, PipeAssumption DEF TypeOK
  <2> QED
    BY <1>2, <1>3, <2>2, <2>3 DEF Prele
<1>4. iread' = rd
  BY DEF WriteLoop
<1>6. CASE c = 0 \/ icount < 2 \/ (s = PIPSIZ /\ nonblock["w"])
  <2>1. Leave("user", 0) /\ UNCHANGED iwrite
    BY <1>6 DEF WriteLoop, TypeOK
  <2>2. 0 \in 0..MaxReq
    BY PipeAssumption
  <2> HIDE DEF Leave, woken2
  <2>3. /\ pc' \in [Procs -> PcValues] /\ left' \in [Procs -> 0..MaxReq]
        /\ uoff' \in [Procs -> 0..PIPSIZ] /\ ucnt' \in [Procs -> 0..PIPSIZ]
        /\ ilock' = FALSE /\ iwant' = FALSE /\ pc'[w] = "user"
        /\ \A q \in Procs : q # w =>
                  /\ uoff'[q] = uoff[q] /\ ucnt'[q] = ucnt[q]
                  /\ pc'[q] = "io" <=> pc[q] = "io"
                  /\ pc'[q] = "user" <=> pc[q] = "user"
                  /\ pc'[q] = "asleep" => pc[q] = "asleep" /\ q \notin woken
    BY <1>3, <2>1, <2>2
  <2> QED
    BY <1>4, <2>1, <2>3 DEF TypeOK
<1>7. CASE c # 0 /\ icount >= 2 /\ s = PIPSIZ /\ ~nonblock["w"]
  <2>1. Leave("asleep", c) /\ iwrite' = TRUE
    BY <1>7 DEF WriteLoop, TypeOK
  <2> HIDE DEF Leave, woken2
  <2> QED
    BY <1>3, <1>4, <1>7, <2>1, PipeAssumption DEF TypeOK
<1>8. CASE c # 0 /\ icount >= 2 /\ s # PIPSIZ
  <2>1. /\ ilock' = TRUE /\ iwant' = wt /\ Goto(w, "io", woken)
        /\ uoff' = [uoff EXCEPT ![w] = s]
        /\ ucnt' = [ucnt EXCEPT ![w] = Minimum(c, PIPSIZ - s)]
        /\ left' = [left EXCEPT ![w] = c - Minimum(c, PIPSIZ - s)]
        /\ UNCHANGED iwrite
    BY <1>8 DEF WriteLoop, TypeOK
  <2>2. /\ Minimum(c, PIPSIZ - s) \in 0..PIPSIZ
        /\ c - Minimum(c, PIPSIZ - s) \in 0..MaxReq
        /\ s + Minimum(c, PIPSIZ - s) <= PIPSIZ
    BY PipeAssumption DEF Minimum
  <2>3. /\ left' \in [Procs -> 0..MaxReq]
        /\ uoff' \in [Procs -> 0..PIPSIZ] /\ ucnt' \in [Procs -> 0..PIPSIZ]
        /\ uoff'[w] = s /\ uoff'[w] + ucnt'[w] <= PIPSIZ
        /\ \A q \in Procs : q # w => uoff'[q] = uoff[q] /\ ucnt'[q] = ucnt[q]
    BY <2>1, <2>2 DEF TypeOK
  <2>4. "io" \in PcValues
    BY DEF PcValues
  <2>5. /\ pc' \in [Procs -> PcValues] /\ pc'[w] = "io"
        /\ \A q \in Procs : q # w =>
                  /\ pc'[q] = "io" <=> pc[q] = "io"
                  /\ pc'[q] = "user" <=> pc[q] = "user"
                  /\ pc'[q] = "asleep" => pc[q] = "asleep" /\ q \notin woken
    BY <2>1, <2>4, GotoFacts
  <2> QED
    BY <1>4, <2>1, <2>3, <2>5 DEF TypeOK
<1> QED
  BY <1>6, <1>7, <1>8 DEF TypeOK

LEMMA WriteLockInv ==
  ASSUME IInv, NEW w \in Writers, WriteLock(w)
  PROVE  IInv'
<1> USE DEF IInv, WriteLock, files, history
<1> w \in Procs
  BY DEF Procs
<1>0. /\ pc[w] = "loop" /\ ~ilock
      /\ WriteLoop(w, left[w], size, iread, iwant, {})
      /\ left[w] \in 0..MaxReq /\ size \in 0..PIPSIZ
      /\ iread \in BOOLEAN /\ iwant \in BOOLEAN /\ TypeOK
  BY DEF TypeOK
<1> DEFINE Facts ==
      /\ pc' \in [Procs -> PcValues] /\ left' \in [Procs -> 0..MaxReq]
      /\ uoff' \in [Procs -> 0..PIPSIZ] /\ ucnt' \in [Procs -> 0..PIPSIZ]
      /\ ilock' \in BOOLEAN /\ iwant' \in BOOLEAN /\ iwrite' \in BOOLEAN
      /\ iread' = iread
      /\ ilock' <=> pc'[w] = "io"
      /\ iwrite => iwrite'
      /\ pc'[w] = "io" => uoff'[w] = size /\ uoff'[w] + ucnt'[w] <= PIPSIZ
      /\ pc'[w] = "asleep" => size = PIPSIZ /\ iwrite'
      /\ \A q \in Procs : q # w =>
              /\ uoff'[q] = uoff[q] /\ ucnt'[q] = ucnt[q]
              /\ pc'[q] = "io" <=> pc[q] = "io"
              /\ pc'[q] = "user" <=> pc[q] = "user"
              /\ pc'[q] = "asleep" => pc[q] = "asleep"
<1>1. Facts
  BY <1>0, WriteLoopFacts
<1>2. TypeOK'
  BY <1>0, <1>1 DEF TypeOK
<1>3. RefInv'
  BY <1>0, <1>1 DEF RefInv, TypeOK
<1>4. LockExclusion'
  BY <1>0, <1>1 DEF LockExclusion
<1>5. StreamInv'
  <2> SUFFICES ASSUME Live PROVE StreamInv'
    BY DEF StreamInv, Live
  <2>1. \A q \in Procs : q # w => pc'[q] # "io"
    BY <1>0, <1>1, NobodyElseInIo
  <2>2. \A r \in Readers : r \in Procs /\ r # w
    BY PipeAssumption DEF Procs
  <2> QED
    BY <1>1, <2>1, <2>2 DEF StreamInv, Procs
<1>6. InOrder'
  BY DEF InOrder, Protected
<1>7. WakeInv'
  <2> SUFFICES ASSUME AllOpen PROVE WakeInv'
    BY DEF WakeInv, AllOpen
  <2>1. ReadWaiters' # {} => ReadWaiters # {}
    BY <1>1, PipeAssumption DEF ReadWaiters, Procs
  <2>2. WriteWaiters' # {} => iwrite' /\ size = PIPSIZ
    BY <1>1 DEF WriteWaiters, Procs, WakeInv
  <2> QED
    BY <1>1, <2>1, <2>2 DEF WakeInv
<1> QED
  BY <1>2, <1>3, <1>4, <1>5, <1>6, <1>7

LEMMA WriteIoInv ==
  ASSUME IInv, NEW w \in Writers, NEW k \in 0..PIPSIZ, WriteIo(w, k)
  PROVE  IInv'
<1> USE DEF IInv, files, history
<1> w \in Procs
  BY DEF Procs
<1> DEFINE end   == uoff[w] + k
           s     == IF end > size THEN end ELSE size
           woken == PreleWakes \cup IF iread THEN ReadWaiters ELSE {}
<1>a. /\ pc[w] = "io" /\ k <= ucnt[w] /\ size' = s /\ sent' = sent + k
      /\ data' = [i \in 0..(PIPSIZ - 1) |->
                      IF i \in uoff[w]..(end - 1) THEN sent + 1 + i - uoff[w]
                                                  ELSE data[i]]
      /\ WriteLoop(w, left[w], s, FALSE, FALSE, woken)
      /\ UNCHANGED <<icount, offset, nonblock, holders, rcvd, fifo>>
  BY DEF WriteIo
<1>b. /\ end \in 0..PIPSIZ /\ s \in 0..PIPSIZ /\ left[w] \in 0..MaxReq
      /\ uoff[w] \in 0..PIPSIZ /\ ucnt[w] \in 0..PIPSIZ
      /\ size \in 0..PIPSIZ /\ offset \in 0..PIPSIZ /\ sent \in Nat
  <2>1. uoff[w] + ucnt[w] <= PIPSIZ
    BY <1>a DEF RefInv
  <2> QED
    BY <1>a, <2>1, PipeAssumption DEF TypeOK
<1>c. \A q \in woken : q \in Procs => pc[q] \in {"want", "asleep"}
  BY DEF PreleWakes, LockWaiters, ReadWaiters
<1> DEFINE Facts ==
      /\ pc' \in [Procs -> PcValues] /\ left' \in [Procs -> 0..MaxReq]
      /\ uoff' \in [Procs -> 0..PIPSIZ] /\ ucnt' \in [Procs -> 0..PIPSIZ]
      /\ ilock' \in BOOLEAN /\ iwant' \in BOOLEAN /\ iwrite' \in BOOLEAN
      /\ iread' = FALSE
      /\ ilock' <=> pc'[w] = "io"
      /\ iwrite => iwrite'
      /\ pc'[w] = "io" => uoff'[w] = s /\ uoff'[w] + ucnt'[w] <= PIPSIZ
      /\ pc'[w] = "asleep" => s = PIPSIZ /\ iwrite'
      /\ \A q \in Procs : q # w =>
              /\ uoff'[q] = uoff[q] /\ ucnt'[q] = ucnt[q]
              /\ pc'[q] = "io" <=> pc[q] = "io"
              /\ pc'[q] = "user" <=> pc[q] = "user"
              /\ pc'[q] = "asleep" => pc[q] = "asleep" /\ q \notin woken
<1>1. Facts
  <2> HIDE DEF s, woken
  <2> QED
    BY <1>a, <1>b, <1>c, WriteLoopFacts
<1>2. TypeOK'
  <2>1. data' \in [0..(PIPSIZ - 1) -> Nat] /\ sent' \in Nat /\ size' \in 0..PIPSIZ
    BY <1>a, <1>b DEF TypeOK
  <2> QED
    BY <1>a, <1>1, <2>1 DEF TypeOK
<1>3. RefInv'
  <2>1. \A q \in Procs : pc'[q] # "user" => pc[q] # "user"
    BY <1>a, <1>1
  <2>2. \A q \in Procs : pc'[q] = "io" => uoff'[q] + ucnt'[q] <= PIPSIZ
    BY <1>1 DEF RefInv
  <2> QED
    BY <1>a, <2>1, <2>2 DEF RefInv
<1>4. LockExclusion'
  <2> SUFFICES ASSUME icount = 2 PROVE LockExclusion'
    BY <1>a DEF LockExclusion
  <2>1. \A q \in Procs : q # w => pc'[q] # "io"
    BY <1>a, <1>1 DEF LockExclusion
  <2> QED
    BY <1>1, <2>1 DEF LockExclusion
<1>5. StreamInv'
  <2> SUFFICES ASSUME Live PROVE StreamInv'
    BY <1>a DEF StreamInv, Live
  <2>1. \A q \in Procs : q # w => pc'[q] # "io"
    BY <1>a, <1>1, NobodyElseInIo
  <2>2. \A r \in Readers : r \in Procs /\ r # w
    BY PipeAssumption DEF Procs
  <2>3. uoff[w] = size /\ size' = size + k /\ offset' = offset /\ offset <= size
    BY <1>a, <1>b DEF StreamInv
  <2>4. sent' = rcvd' + (size' - offset')
    BY <1>a, <1>b, <2>3 DEF StreamInv, TypeOK
  <2>5. ASSUME NEW i \in 0..(PIPSIZ - 1), offset' <= i, i < size'
        PROVE  data'[i] = rcvd' + 1 + i - offset'
    <3>1. sent = rcvd + (size - offset) /\ rcvd \in Nat
      BY DEF StreamInv, TypeOK
    <3>2. CASE i < size
      BY <1>a, <1>b, <2>3, <2>5, <3>1, <3>2 DEF StreamInv
    <3>3. CASE ~(i < size)
      BY <1>a, <1>b, <2>3, <2>5, <3>1, <3>3
    <3> QED
      BY <3>2, <3>3
  <2>6. offset' <= size'
    BY <1>b, <2>3
  <2>7. \A x \in Writers : pc'[x] = "io" => uoff'[x] = size'
    BY <1>a, <1>1, <2>1 DEF Procs
  <2> QED
    BY <2>1, <2>2, <2>4, <2>5, <2>6, <2>7 DEF StreamInv
<1>6. InOrder'
  BY <1>a DEF InOrder, Protected
<1>7. WakeInv'
  <2> SUFFICES ASSUME AllOpen PROVE WakeInv'
    BY <1>a DEF WakeInv, AllOpen
  <2>1. ReadWaiters' = {}
    <3> SUFFICES ASSUME NEW r \in Readers, pc'[r] = "asleep" PROVE FALSE
      BY DEF ReadWaiters
    <3>1. r \in Procs /\ r # w
      BY PipeAssumption DEF Procs
    <3>2. pc[r] = "asleep" /\ r \notin woken
      BY <1>1, <3>1
    <3>3. r \in ReadWaiters
      BY <3>2 DEF ReadWaiters
    <3> QED
      BY <3>2, <3>3 DEF WakeInv
  <2>2. WriteWaiters' # {} => iwrite' /\ size' = PIPSIZ
    <3> SUFFICES ASSUME NEW x \in Writers, pc'[x] = "asleep"
                 PROVE  iwrite' /\ size' = PIPSIZ
      BY DEF WriteWaiters
    <3>1. CASE x = w
      BY <1>a, <1>1, <3>1
    <3>2. CASE x # w
      <4>1. x \in WriteWaiters
        BY <1>1, <3>2 DEF WriteWaiters, Procs
      <4>2. iwrite /\ size = PIPSIZ
        BY <4>1 DEF WakeInv
      <4> QED
        BY <1>a, <1>b, <1>1, <4>2
    <3> QED
      BY <3>1, <3>2
  <2> QED
    BY <2>1, <2>2 DEF WakeInv
<1> QED
  BY <1>2, <1>3, <1>4, <1>5, <1>6, <1>7

LEMMA CloseInv ==
  ASSUME IInv, NEW p \in Procs, Close(p)
  PROVE  IInv'
<1> USE DEF IInv, uarea, history
<1> DEFINE e == EndOf(p)
<1>a. /\ e \in End /\ pc[p] = "user" /\ p \in holders[e]
      /\ holders' = [holders EXCEPT ![e] = @ \ {p}]
      /\ iread' = FALSE /\ iwrite' = FALSE
      /\ UNCHANGED <<size, offset, nonblock, data, left, uoff, ucnt,
                     sent, rcvd, fifo>>
  BY DEF Close, EndOf, End
<1>b. /\ holders'["r"] \subseteq holders["r"] /\ holders'["w"] \subseteq holders["w"]
      /\ \A q \in Procs : q # p /\ q \in holders[EndOf(q)] => q \in holders'[EndOf(q)]
  BY <1>a DEF TypeOK, End, EndOf
<1>c. /\ pc' \in [Procs -> PcValues]
      /\ \A q \in Procs : /\ pc'[q] = "io" <=> pc[q] = "io"
                          /\ pc'[q] = "user" <=> pc[q] = "user"
                          /\ pc'[q] = "asleep" => pc[q] = "asleep"
  <2>1. CASE holders[e] = {p}
    <3>1. Goto(p, "user", PreleWakes)
      BY <2>1 DEF Close
    <3>2. \A q \in PreleWakes : q \in Procs => pc[q] \in {"want", "asleep"}
      BY DEF PreleWakes, LockWaiters
    <3> QED
      BY <1>a, <3>1, <3>2, GotoFacts DEF PcValues
  <2>2. CASE holders[e] # {p}
    BY <2>2 DEF Close, TypeOK
  <2> QED
    BY <2>1, <2>2
<1>d. CASE holders[e] = {p}
  <2>1. icount' = icount - 1 /\ ilock' = FALSE /\ iwant' = FALSE
    BY <1>d DEF Close, Prele
  <2>2. icount' = (IF holders'["r"] = {} THEN 0 ELSE 1)
                  + (IF holders'["w"] = {} THEN 0 ELSE 1)
    <3>1. holders'[e] = {} /\ holders[e] # {}
      BY <1>a, <1>d DEF TypeOK
    <3>2. \A f \in End : f # e => holders'[f] = holders[f]
      BY <1>a DEF TypeOK
    <3>3. CASE e = "r"
      BY <3>1, <3>2, <3>3, <2>1 DEF RefInv, End
    <3>4. CASE e = "w"
      BY <3>1, <3>2, <3>4, <2>1 DEF RefInv, End
    <3> QED
      BY <1>a, <3>3, <3>4 DEF End
  <2>3. TypeOK'
    <3>1. holders' \in [End -> SUBSET Procs]
      BY <1>a DEF TypeOK
    <3>2. icount' \in 0..2
      BY <2>2
    <3> QED
      BY <1>a, <1>c, <2>1, <3>1, <3>2 DEF TypeOK
  <2>4. RefInv'
    BY <1>a, <1>b, <1>c, <2>2 DEF RefInv
  <2>5. icount' # 2
    BY <2>1 DEF TypeOK
  <2>6. LockExclusion'
    BY <2>5 DEF LockExclusion
  <2>7. StreamInv'
    <3>1. Live' => Live
      BY <1>a, <1>b, <2>5 DEF Live, TypeOK, End
    <3> QED
      BY <1>a, <1>c, <3>1 DEF StreamInv, Procs
  <2>8. InOrder'
    BY <1>a, <2>5 DEF InOrder, Protected
  <2>9. ~AllOpen'
    <3>1. p \notin holders'[e] /\ p \in (IF e = "r" THEN Readers ELSE Writers)
      BY <1>a DEF TypeOK, EndOf, Procs, End
    <3> QED
      BY <1>a, <3>1 DEF AllOpen
  <2> QED
    BY <2>3, <2>4, <2>6, <2>7, <2>8, <2>9 DEF WakeInv
<1>e. CASE holders[e] # {p}
  <2>1. UNCHANGED <<icount, ilock, iwant, pc>>
    BY <1>e DEF Close
  <2>2. holders'["r"] = {} <=> holders["r"] = {}
    BY <1>a, <1>e DEF TypeOK, End
  <2>3. holders'["w"] = {} <=> holders["w"] = {}
    BY <1>a, <1>e DEF TypeOK, End
  <2>4. TypeOK'
    <3>1. holders' \in [End -> SUBSET Procs]
      BY <1>a DEF TypeOK
    <3> QED
      BY <1>a, <2>1, <3>1 DEF TypeOK
  <2>5. RefInv'
    <3>1. \A q \in Procs : pc'[q] # "user" => q \in holders'[EndOf(q)]
      BY <1>a, <1>b, <1>c DEF RefInv
    <3> QED
      BY <1>a, <1>b, <2>1, <2>2, <2>3, <3>1 DEF RefInv
  <2>6. LockExclusion'
    BY <2>1 DEF LockExclusion
  <2>7. StreamInv'
    <3>1. Live' => Live
      BY <2>1, <2>2 DEF Live
    <3> QED
      BY <1>a, <2>1, <3>1 DEF StreamInv
  <2>8. InOrder'
    BY <1>a, <2>1 DEF InOrder, Protected
  <2>9. ~AllOpen'
    <3>1. p \notin holders'[e] /\ p \in (IF e = "r" THEN Readers ELSE Writers)
      BY <1>a DEF TypeOK, EndOf, Procs, End
    <3> QED
      BY <1>a, <3>1 DEF AllOpen
  <2> QED
    BY <2>4, <2>5, <2>6, <2>7, <2>8, <2>9 DEF WakeInv
<1> QED
  BY <1>d, <1>e

-----------------------------------------------------------------------------
(* Every step keeps the invariant.                                         *)
LEMMA NextInv == IInv /\ [Next]_vars => IInv'
<1> SUFFICES ASSUME IInv, [Next]_vars PROVE IInv'
  OBVIOUS
<1>1. CASE UNCHANGED vars
  BY <1>1 DEF vars, inode, files, uarea, history, IInv, TypeOK, RefInv,
     LockExclusion, StreamInv, Live, InOrder, Protected, WakeInv, AllOpen,
     ReadWaiters, WriteWaiters
<1>2. ASSUME NEW r \in Readers, ReadStep(r) PROVE IInv'
  <2>1. r \in Procs
    BY DEF Procs
  <2>2. CASE PlockSleep(r)
    BY <2>1, <2>2, PlockSleepInv
  <2>3. CASE ReadEof(r) \/ ReadEagain(r)
    <3>1. ReadEmpty(r, "user") /\ UNCHANGED iread
      BY <2>3 DEF ReadEof, ReadEagain
    <3>2. iread \in BOOLEAN
      BY DEF IInv, TypeOK
    <3> QED
      BY <3>1, <3>2, ReadEmptyInv
  <2>4. CASE ReadSleep(r)
    BY <2>4, ReadEmptyInv DEF ReadSleep
  <2>5. CASE ReadLock(r)
    BY <2>5, ReadLockInv
  <2>6. CASE \E k \in 0..PIPSIZ : ReadIo(r, k)
    BY <2>6, ReadIoInv
  <2> QED
    BY <1>2, <2>2, <2>3, <2>4, <2>5, <2>6 DEF ReadStep
<1>3. ASSUME NEW w \in Writers, WriteStep(w) PROVE IInv'
  <2>1. w \in Procs
    BY DEF Procs
  <2> QED
    BY <1>3, <2>1, PlockSleepInv, WriteLockInv, WriteIoInv DEF WriteStep
<1>4. ASSUME NEW p \in Procs, UserStep(p) PROVE IInv'
  BY <1>4, EnterInv, CloseInv, SetFlInv DEF UserStep
<1>5. ASSUME NEW e \in End, AliasedWakeup(e) PROVE IInv'
  BY <1>5, AliasedWakeupInv
<1>6. ASSUME NEW p \in Procs, Interrupt(p) PROVE IInv'
  BY <1>6, InterruptInv
<1> QED
  BY <1>1, <1>2, <1>3, <1>4, <1>5, <1>6 DEF Next

LEMMA PipeInvariant == Spec => []IInv
<1> QED
  BY InitInv, NextInv, PTL DEF Spec

(* The pipe's state stays in its types: head and tail never leave the      *)
(* pipe's PIPSIZ bytes, the reference count never leaves 0..2.             *)
THEOREM PipeTypeCorrect == Spec => []TypeOK
<1>1. IInv => TypeOK
  BY DEF IInv
<1> QED
  BY <1>1, PipeInvariant, PTL

(* plock and prele give mutual exclusion on the pipe while both of its     *)
(* ends are open.                                                          *)
THEOREM PipeLockExclusion == Spec => []LockExclusion
<1>1. IInv => LockExclusion
  BY DEF IInv
<1> QED
  BY <1>1, PipeInvariant, PTL

(* readp delivers the bytes in the order writep stored them.               *)
THEOREM PipeInOrder == Spec => []InOrder
<1>1. IInv => InOrder
  BY DEF IInv
<1> QED
  BY <1>1, PipeInvariant, PTL

(* As long as nobody has closed, no sleeping reader or writer is forgotten. *)
THEOREM PipeNoLostWakeup == Spec => []NoLostWakeup
<1>1. IInv => NoLostWakeup
  BY DEF IInv, WakeInv, AllOpen, NoLostWakeup
<1> QED
  BY <1>1, PipeInvariant, PTL

(* A read returns end of file only when everything sent was received.      *)
THEOREM PipeEofMeansDrained == Spec => EofMeansDrained
<1>1. IInv /\ [Next]_vars =>
        [\A r \in Readers : ReadEof(r) /\ Protected => rcvd = sent]_vars
  <2> SUFFICES ASSUME IInv, NEW r \in Readers, ReadEof(r), Protected
               PROVE  rcvd = sent
    OBVIOUS
  <2>1. pc[r] = "loop" /\ offset = size /\ r \in Procs
    BY DEF ReadEof, ReadEmpty, Procs
  <2>2. r \in holders["r"]
    BY <2>1 DEF IInv, RefInv, EndOf
  <2>3. Live
    BY <2>2 DEF Live, Protected
  <2> QED
    BY <2>1, <2>3 DEF IInv, StreamInv, TypeOK
<1> QED
  BY <1>1, PipeInvariant, PTL DEF Spec, EofMeansDrained

=============================================================================
