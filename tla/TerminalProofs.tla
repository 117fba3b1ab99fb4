--------------------------- MODULE TerminalProofs ---------------------------
(***************************************************************************)
(* Theorems about the console, the calls that wait and the signals, for    *)
(* any number of processes, any size of the ring and of the serial port's  *)
(* buffer, any settings and any keys.                                      *)
(***************************************************************************)
EXTENDS Terminal, SequenceTheorems, TLAPS

Pcs   == {"user", "read", "call", "asleep", "woken", "return", "preempted", "dead"}
Calls == {"", "poll", "sleep", "pause", "suspend", "fault", "flush"}
Tios  == [canon : BOOLEAN, isig : BOOLEAN, cr : {"icrnl", "igncr", "inlcr", "as is"}]
Times == [hi : 0..MaxHigh, lo : 0..TimeWord - 1, lbolt : 0..HZ - 1]
Cells == 0..KBD_BUF_SIZE - 1
ProcRecs == [pc : Pcs, call : Calls, target : Int, count : Nat,
             line : Seq(Char), oldmask : BOOLEAN, taken : Seq(Char)]

(* The ring, the port and the rest of the driver's and the clock's state.  *)
RingOK ==
  /\ kbd_buffer \in [Cells -> Char \cup {"stale"}]
  /\ kbd_read_ptr \in Cells /\ kbd_write_ptr \in Cells
  /\ uart \in Seq(Char) /\ Len(uart) <= FIFO

RestOK ==
  /\ shift_state \in 0..1
  /\ con_termios \in Tios /\ time \in Times
  /\ cur \in 0..NPROC
  /\ p_sig \in [Proc -> BOOLEAN] /\ p_sigmask \in [Proc -> BOOLEAN]

(* A process in user mode keeps nothing of its last call; a read in        *)
(* progress has room for one more character.                               *)
Sound(r) ==
  /\ r \in ProcRecs
  /\ r.pc = "user" => r = Idle
  /\ r.pc = "read" => r.call # "flush" /\ Len(r.line) < r.count
  /\ r.count <= MaxCount /\ Len(r.line) <= MaxCount

ProcsOK == proc = [p \in Proc |-> proc[p]] /\ \A p \in Proc : Sound(proc[p])

IInv == RingOK /\ RestOK /\ ProcsOK /\ NoSignalMissed

-----------------------------------------------------------------------------
LEMMA Sizes ==
  /\ NPROC \in Nat \ {0} /\ KBD_BUF_SIZE \in Nat \ {0, 1}
  /\ FIFO \in Nat \ {0} /\ HZ \in Nat \ {0} /\ TimeWord \in Nat \ {0}
  /\ MaxHigh \in Nat /\ MaxCount \in Nat \ {0}
  BY TerminalAssumption

LEMMA IdleSound ==
  /\ Sound(Idle)
  /\ \A c \in Pcs \ {"read", "user"} : Sound([Idle EXCEPT !.pc = c])
<1>1. Idle \in ProcRecs
  BY EmptySeq DEF Idle, ProcRecs, Pcs, Calls
<1>2. MaxCount \in Nat \ {0}
  BY TerminalAssumption
<1>3. Idle.pc = "user" /\ Idle.line = <<>> /\ Idle.count = 0
  BY DEF Idle
<1>4. Sound(Idle)
  BY <1>1, <1>2, <1>3 DEF Sound
<1>5. ASSUME NEW c \in Pcs \ {"read", "user"}
      PROVE  Sound([Idle EXCEPT !.pc = c])
  BY <1>1, <1>2, <1>3 DEF Sound, ProcRecs
<1> QED
  BY <1>4, <1>5

(* Another pc leaves a record sound, if it is not "user" or "read".        *)
LEMMA PcSound ==
  ASSUME NEW r, Sound(r), NEW c \in Pcs \ {"read", "user"}
  PROVE  /\ Sound([r EXCEPT !.pc = c])
         /\ [r EXCEPT !.pc = c].pc = c
  BY DEF Sound, ProcRecs

(* A step that gives one process a new record, and perhaps changes its     *)
(* signals.                                                                *)
LEMMA OneProc ==
  ASSUME ProcsOK, NoSignalMissed, NEW p \in Proc, NEW r, Sound(r),
         proc' = [proc EXCEPT ![p] = r],
         r.pc = "asleep" => ~Issig(p)',
         \A q \in Proc \ {p} : p_sig'[q] = p_sig[q] /\ p_sigmask'[q] = p_sigmask[q]
  PROVE  ProcsOK' /\ NoSignalMissed'
<1>1. proc' = [q \in Proc |-> IF q = p THEN r ELSE proc[q]]
  BY DEF ProcsOK
<1>2. ProcsOK'
  BY <1>1 DEF ProcsOK
<1>3. NoSignalMissed'
  BY <1>1 DEF NoSignalMissed, Issig
<1> QED
  BY <1>2, <1>3

-----------------------------------------------------------------------------
(* The remainder, where the ring's indices need it.                        *)
LEMMA ModRing ==
  ASSUME NEW k \in Nat \ {0}, NEW a \in Int
  PROVE  /\ a % k \in 0..k - 1
         /\ a \in 0..k - 1 => a % k = a
         /\ a \in k..k + k - 1 => a % k = a - k
         /\ a \in -k..-1 => a % k = a + k
  OBVIOUS

LEMMA SuccIs ==
  ASSUME NEW i \in Cells
  PROVE  /\ Succ(i) \in Cells
         /\ Succ(i) = IF i = KBD_BUF_SIZE - 1 THEN 0 ELSE i + 1
<1>1. KBD_BUF_SIZE \in Nat \ {0, 1}
  BY Sizes
<1>2. i \in 0..KBD_BUF_SIZE - 1
  BY DEF Cells
<1>3. i + 1 \in Int /\ KBD_BUF_SIZE \in Nat \ {0}
  BY <1>1, <1>2
<1>4. PICK k \in Nat \ {0} : k = KBD_BUF_SIZE
  BY <1>3
<1>5. PICK a \in Int : a = i + 1
  BY <1>3
<1>6. /\ a \in 0..k - 1 => a % k = a
      /\ a \in k..k + k - 1 => a % k = a - k
  BY ModRing
<1>7. Succ(i) = a % k
  BY <1>4, <1>5 DEF Succ
<1> QED
  BY <1>1, <1>2, <1>4, <1>5, <1>6, <1>7 DEF Cells

LEMMA PutcOK ==
  ASSUME RingOK, NEW c \in Char, KbdPutc(c)
  PROVE  /\ kbd_buffer' \in [Cells -> Char \cup {"stale"}]
         /\ kbd_read_ptr' \in Cells /\ kbd_write_ptr' \in Cells
  BY SuccIs DEF RingOK, KbdPutc, ring

LEMMA GetcOK ==
  ASSUME RingOK, NEW c \in Char, KbdGetc(c)
  PROVE  RingOK'
<1>1. ASSUME uart # <<>>
      PROVE  Tail(uart) \in Seq(Char) /\ Len(Tail(uart)) <= FIFO
  <2>1. /\ Tail(uart) \in Seq(Char) /\ Len(Tail(uart)) = Len(uart) - 1
        /\ Len(uart) \in Nat /\ FIFO \in Nat
    BY <1>1, Sizes, HeadTailProperties, LenProperties DEF RingOK
  <2> QED
    BY <2>1 DEF RingOK
<1> QED
  BY <1>1, SuccIs DEF RingOK, KbdGetc

-----------------------------------------------------------------------------
(* The initial states, and the steps one by one.                           *)
LEMMA InitInv == Init => IInv
<1> SUFFICES ASSUME Init PROVE IInv
  OBVIOUS
<1>1. RingOK
  <2>1. <<>> \in Seq(Char) /\ Len(<<>>) = 0 /\ 0 \in Cells
    BY Sizes, EmptySeq DEF Cells
  <2>2. kbd_buffer \in [Cells -> Char \cup {"stale"}]
    BY DEF Init, Cells
  <2> QED
    BY <2>1, <2>2, Sizes DEF Init, RingOK
<1>2. RestOK
  <2>1. con_termios \in Tios
    BY DEF Init, Tios
  <2>2. time \in Times
    BY Sizes DEF Init, Times
  <2>3. p_sig \in [Proc -> BOOLEAN] /\ p_sigmask \in [Proc -> BOOLEAN]
    BY DEF Init
  <2> QED
    BY <2>1, <2>2, <2>3, Sizes DEF Init, RestOK
<1>3. ProcsOK
  BY IdleSound DEF Init, ProcsOK
<1>4. NoSignalMissed
  BY DEF Init, NoSignalMissed, Issig
<1> QED
  BY <1>1, <1>2, <1>3, <1>4 DEF IInv

LEMMA OutsideInv == ASSUME IInv, Outside PROVE IInv'
<1>1. ASSUME NEW c \in Typed, SerialArrives(c)
      PROVE  RingOK'
  <2>1. c \in Char /\ FIFO \in Nat
    BY TerminalAssumption
  <2>2. uart \in Seq(Char) /\ Len(uart) < FIFO /\ uart' = Append(uart, c)
    BY <1>1 DEF SerialArrives, IInv, RingOK
  <2>3. uart' \in Seq(Char) /\ Len(uart') = Len(uart) + 1 /\ Len(uart) \in Nat
    BY <2>1, <2>2, AppendProperties, LenProperties
  <2>4. Len(uart') <= FIFO
    BY <2>1, <2>2, <2>3
  <2> QED
    BY <1>1, <2>3, <2>4 DEF SerialArrives, IInv, RingOK, ring
<1>2. ASSUME NEW c \in Codes, KeyArrives(c)
      PROVE  RingOK'
  BY <1>2 DEF KeyArrives, IInv, RingOK, ring
<1>3. RingOK'
  BY <1>1, <1>2 DEF Outside
<1>4. UNCHANGED <<shift_state, con_termios, time, cur, proc, sigs>>
  BY DEF Outside, SerialArrives, KeyArrives
<1>5. RestOK' /\ ProcsOK' /\ NoSignalMissed'
  BY <1>4 DEF IInv, RestOK, ProcsOK, NoSignalMissed, Issig, sigs
<1> QED
  BY <1>3, <1>5 DEF IInv

LEMMA InterruptInv ==
  ASSUME IInv, Interrupt, UNCHANGED sigs
  PROVE  /\ ProcsOK' /\ NoSignalMissed'
         /\ \A p \in Proc : proc'[p].taken = proc[p].taken /\ proc'[p].call = proc[p].call
<1>1. CASE UNCHANGED proc
  BY <1>1 DEF IInv, ProcsOK, NoSignalMissed, Issig, sigs
<1>2. CASE cur # 0 /\ proc' = [proc EXCEPT ![cur].pc = "return"]
  <2>1. PICK p \in Proc : p = cur
    BY <1>2, Sizes DEF IInv, RestOK, Proc
  <2>2. PICK r : r = [proc[p] EXCEPT !.pc = "return"]
    OBVIOUS
  <2>3. Sound(proc[p]) /\ ProcsOK /\ NoSignalMissed
    BY DEF IInv, ProcsOK
  <2>4. "return" \in Pcs \ {"read", "user"}
    BY DEF Pcs
  <2>5. Sound(r) /\ r.pc = "return"
    BY <2>2, <2>3, <2>4, PcSound
  <2>6. proc' = [proc EXCEPT ![p] = r]
    BY <1>2, <2>1, <2>2
  <2>7. ProcsOK' /\ NoSignalMissed'
    BY <2>3, <2>5, <2>6, OneProc DEF sigs
  <2>8. r.taken = proc[p].taken /\ r.call = proc[p].call
    BY <2>2, <2>3 DEF Sound, ProcRecs
  <2> QED
    BY <2>3, <2>6, <2>7, <2>8 DEF ProcsOK
<1> QED
  BY <1>1, <1>2 DEF Interrupt

LEMMA SerialInv == ASSUME IInv, serial_intr PROVE IInv'
<1>1. Head(uart) \in Char /\ Tail(uart) \in Seq(Char) /\ Len(Tail(uart)) = Len(uart) - 1
      /\ Len(uart) \in Nat /\ FIFO \in Nat
  BY HeadTailProperties, LenProperties, Sizes DEF serial_intr, IInv, RingOK
<1>2. PICK c \in Char : c = Head(uart)
  BY <1>1
<1>3. RingOK /\ KbdPutc(c) /\ uart' = Tail(uart)
  BY <1>2 DEF serial_intr, IInv
<1>4. RingOK'
  <2>1. Len(uart') <= FIFO /\ uart' \in Seq(Char)
    BY <1>1, <1>3 DEF RingOK
  <2> QED
    BY <1>3, <2>1, PutcOK DEF RingOK
<1>5. RestOK'
  BY DEF serial_intr, IInv, RestOK, sigs
<1> QED
  BY <1>4, <1>5, InterruptInv DEF IInv, serial_intr

LEMMA KeyChar ==
  ASSUME IInv, kbd_intr
  PROVE  /\ \/ Keyed = <<>> /\ UNCHANGED ring
            \/ \E c \in Char : Keyed = <<c>> /\ KbdPutc(c)
         /\ shift_state' \in 0..1
<1>1. CASE Head(scan) \notin Keys
  BY <1>1 DEF kbd_intr, IInv, RestOK, Keyed
<1>2. CASE Head(scan) \in Keys
  <2>1. PICK c : c = CharOf(Head(scan))
    OBVIOUS
  <2>2. c \in Char
    BY <1>2, <2>1, TerminalAssumption DEF CharOf
  <2>3. KbdPutc(c) /\ UNCHANGED shift_state /\ Keyed = <<c>>
    BY <1>2, <2>1 DEF kbd_intr, Keyed
  <2> QED
    BY <2>2, <2>3 DEF IInv, RestOK
<1> QED
  BY <1>1, <1>2

LEMMA KbdInv == ASSUME IInv, kbd_intr PROVE IInv'
<1>1. RingOK /\ UNCHANGED uart
  BY DEF kbd_intr, IInv
<1>2. RingOK'
  <2>1. CASE UNCHANGED ring
    BY <2>1, <1>1 DEF RingOK, ring
  <2>2. ASSUME NEW c \in Char, KbdPutc(c)
        PROVE  RingOK'
    BY <2>2, <1>1, PutcOK DEF RingOK
  <2> QED
    BY <2>1, <2>2, KeyChar
<1>3. RestOK'
  BY KeyChar DEF kbd_intr, IInv, RestOK, sigs
<1> QED
  BY <1>2, <1>3, InterruptInv DEF IInv, kbd_intr

LEMMA ClockInv == ASSUME IInv, clock PROVE IInv'
<1>1. RingOK'
  BY DEF clock, IInv, RingOK, ring, port
<1>2. /\ time \in Times /\ MaxHigh \in Nat /\ HZ \in Nat \ {0}
      /\ TimeWord \in Nat \ {0}
  BY Sizes DEF IInv, RestOK
<1>3. time' \in Times
  <2>1. /\ time.hi \in 0..MaxHigh /\ time.lo \in 0..TimeWord - 1
        /\ time.lbolt \in 0..HZ - 1
    BY <1>2 DEF Times
  <2>2. PICK lo : lo = (time.lo + 1) % TimeWord
    OBVIOUS
  <2>3. lo \in 0..TimeWord - 1
    BY <1>2, <2>1, <2>2
  <2>4. CASE ~(time.lbolt + 1 >= HZ)
    <3>1. time' = [time EXCEPT !.lbolt = time.lbolt + 1]
      BY <2>4 DEF clock
    <3>2. time.lbolt + 1 \in 0..HZ - 1
      BY <1>2, <2>1, <2>4
    <3> QED
      BY <1>2, <3>1, <3>2 DEF Times
  <2>5. CASE time.lbolt + 1 >= HZ
    <3>1. time' = [hi |-> IF lo = 0 THEN time.hi + 1 ELSE time.hi,
                   lo |-> lo, lbolt |-> 0]
      BY <2>2, <2>5 DEF clock
    <3>2. time.hi = MaxHigh => lo # 0
      BY <2>2, <2>5 DEF clock
    <3>3. (IF lo = 0 THEN time.hi + 1 ELSE time.hi) \in 0..MaxHigh /\ 0 \in 0..HZ - 1
      BY <1>2, <2>1, <3>2
    <3> QED
      BY <2>3, <3>1, <3>3 DEF Times
  <2> QED
    BY <2>4, <2>5
<1>4. RestOK'
  BY <1>3 DEF clock, IInv, RestOK, port, sigs
<1> QED
  BY <1>1, <1>4, InterruptInv DEF IInv, clock

-----------------------------------------------------------------------------
(* The way back to user mode.                                              *)
LEMMA ReturnsInv ==
  ASSUME IInv, NEW p \in Proc, Returns(p),
         \A q \in Proc \ {p} : p_sig'[q] = p_sig[q] /\ p_sigmask'[q] = p_sigmask[q]
  PROVE  ProcsOK' /\ NoSignalMissed'
<1>1. PICK r : r = [Idle EXCEPT !.pc = "return"]
  OBVIOUS
<1>2. Sound(r) /\ r.pc = "return"
  BY <1>1, IdleSound DEF Pcs, Idle
<1>3. proc' = [proc EXCEPT ![p] = r]
  BY <1>1 DEF Returns
<1> QED
  BY <1>2, <1>3, OneProc DEF IInv

LEMMA PreemptInv == ASSUME IInv, NEW p \in Proc, Preempt(p) PROVE IInv'
<1>1. PICK r : r = [Idle EXCEPT !.pc = "preempted"]
  OBVIOUS
<1>2. Sound(r) /\ r.pc = "preempted"
  BY <1>1, IdleSound DEF Pcs, Idle
<1>3. proc' = [proc EXCEPT ![p] = r] /\ UNCHANGED sigs
  BY <1>1 DEF Preempt
<1>4. ProcsOK' /\ NoSignalMissed'
  BY <1>2, <1>3, OneProc DEF IInv, sigs
<1>5. RingOK' /\ RestOK'
  BY Sizes DEF IInv, Preempt, RingOK, RestOK, ring, port, sigs
<1> QED
  BY <1>4, <1>5 DEF IInv

(* exit changes the records of two processes, of which none sleeps after.  *)
LEMMA ExitInv ==
  ASSUME IInv, NEW p \in Proc, Exit(p), UNCHANGED p_sigmask,
         p_sig' = [p_sig EXCEPT ![p] = FALSE]
  PROVE  ProcsOK' /\ NoSignalMissed' /\ cur' \in 0..NPROC
<1>1. PICK d : d = [Idle EXCEPT !.pc = "dead"]
  OBVIOUS
<1>2. Sound(d) /\ d.pc = "dead"
  BY <1>1, IdleSound DEF Pcs, Idle
<1>3. ASSUME NEW q \in Proc
      PROVE  /\ Sound(proc'[q])
             /\ proc'[q].pc = "asleep" => q # p /\ proc[q].pc = "asleep"
  <2>1. CASE q = p
    BY <1>1, <1>2, <2>1 DEF Exit
  <2>2. CASE q # p /\ q = 1 /\ proc[q].pc = "asleep"
    <3>1. PICK r : r = [proc[q] EXCEPT !.pc = "woken"]
      OBVIOUS
    <3>2. Sound(proc[q]) /\ "woken" \in Pcs \ {"read", "user"}
      BY DEF IInv, ProcsOK, Pcs
    <3>3. Sound(r) /\ r.pc = "woken"
      BY <3>1, <3>2, PcSound
    <3> QED
      BY <2>2, <3>1, <3>3 DEF Exit
  <2>3. CASE q # p /\ ~(q = 1 /\ proc[q].pc = "asleep")
    BY <2>3 DEF Exit, IInv, ProcsOK
  <2> QED
    BY <2>1, <2>2, <2>3
<1>4. ProcsOK'
  BY <1>3 DEF ProcsOK, Exit
<1>5. NoSignalMissed'
  BY <1>3 DEF IInv, RestOK, NoSignalMissed, Issig
<1> QED
  BY <1>4, <1>5, Sizes DEF Exit

LEMMA UserretInv == ASSUME IInv, NEW p \in Proc, Userret(p) PROVE IInv'
<1>1. RingOK'
  BY DEF IInv, Userret, RingOK, ring, port
<1>2. p_sig' \in [Proc -> BOOLEAN] /\ p_sigmask' = p_sigmask
      /\ \A q \in Proc \ {p} : p_sig'[q] = p_sig[q]
  BY DEF IInv, RestOK, Userret, sigs
<1>3. ASSUME proc' = [proc EXCEPT ![p] = Idle], UNCHANGED cur
      PROVE  ProcsOK' /\ NoSignalMissed' /\ cur' \in 0..NPROC
  <2>1. PICK r : r = Idle
    OBVIOUS
  <2>2. Sound(r) /\ r.pc = "user"
    BY <2>1, IdleSound DEF Idle
  <2>3. ProcsOK' /\ NoSignalMissed'
    BY <1>2, <1>3, <2>1, <2>2, OneProc DEF IInv
  <2> QED
    BY <1>3, <2>3 DEF IInv, RestOK
<1>4. ASSUME Exit(p), p_sig' = [p_sig EXCEPT ![p] = FALSE]
      PROVE  ProcsOK' /\ NoSignalMissed' /\ cur' \in 0..NPROC
  BY <1>2, <1>4, ExitInv
<1>5. ProcsOK' /\ NoSignalMissed' /\ cur' \in 0..NPROC
  BY <1>3, <1>4 DEF Userret
<1>6. RestOK'
  BY <1>2, <1>5 DEF IInv, RestOK, Userret, port
<1> QED
  BY <1>1, <1>5, <1>6 DEF IInv

LEMMA SwtchInv == ASSUME IInv, NEW p \in Proc, Swtch(p) PROVE IInv'
<1>1. RingOK'
  BY DEF IInv, Swtch, RingOK, ring, port
<1>2. cur' \in 0..NPROC
  BY Sizes DEF Swtch, Proc
<1>3. RestOK'
  BY <1>2 DEF IInv, Swtch, RestOK, port, sigs
<1>4. ProcsOK' /\ NoSignalMissed'
  BY DEF IInv, Swtch, ProcsOK, NoSignalMissed, Issig, sigs
<1> QED
  BY <1>1, <1>3, <1>4 DEF IInv

-----------------------------------------------------------------------------
(* The calls that read and set the terminal.                               *)
LEMMA UserIdle ==
  ASSUME IInv, NEW p \in Proc, User(p)
  PROVE  proc[p] = Idle
  BY DEF IInv, ProcsOK, Sound, User

LEMMA ReadInv ==
  ASSUME IInv, NEW p \in Proc, NEW n \in 1..MaxCount, Read(p, n) PROVE IInv'
<1>1. PICK r : r = [Idle EXCEPT !.pc = "read", !.count = n]
  OBVIOUS
<1>2. proc' = [proc EXCEPT ![p] = r]
  BY <1>1, UserIdle DEF Read
<1>3. Sound(r) /\ r.pc = "read"
  <2>1. Idle \in ProcRecs /\ Idle.line = <<>> /\ Idle.call = ""
    BY IdleSound DEF Sound, Idle
  <2>2. n \in Nat /\ 0 < n /\ n <= MaxCount /\ 0 <= MaxCount /\ Len(<<>>) = 0
    BY Sizes
  <2>3. /\ r \in ProcRecs /\ r.pc = "read" /\ r.line = <<>> /\ r.call = ""
        /\ r.count = n
    BY <1>1, <2>1, <2>2 DEF ProcRecs, Pcs
  <2> QED
    BY <2>2, <2>3 DEF Sound
<1>4. ProcsOK' /\ NoSignalMissed'
  BY <1>2, <1>3, OneProc DEF IInv, Read, sigs
<1>5. RingOK' /\ RestOK'
  BY DEF IInv, Read, RingOK, RestOK, ring, port, sigs
<1> QED
  BY <1>4, <1>5 DEF IInv

LEMMA TcsetattrInv ==
  ASSUME IInv, NEW p \in Proc, NEW tio \in Settings, Tcsetattr(p, tio) PROVE IInv'
<1>1. tio \in Tios
  BY TerminalAssumption DEF Tios
<1>2. RingOK' /\ RestOK'
  BY <1>1 DEF IInv, Tcsetattr, RingOK, RestOK, ring, port, sigs
<1> QED
  BY <1>2, ReturnsInv DEF IInv, Tcsetattr, sigs

LEMMA TcflushInv == ASSUME IInv, NEW p \in Proc, Tcflush(p) PROVE IInv'
<1>1. PICK r : r = [Idle EXCEPT !.pc = "return", !.call = "flush"]
  OBVIOUS
<1>2. proc' = [proc EXCEPT ![p] = r]
  BY <1>1, UserIdle DEF Tcflush
<1>3. Sound(r) /\ r.pc = "return"
  <2>1. Idle \in ProcRecs /\ Idle.line = <<>> /\ Idle.count = 0
    BY IdleSound DEF Sound, Idle
  <2>2. r \in ProcRecs /\ r.pc = "return" /\ r.line = <<>> /\ r.count = 0
    BY <1>1, <2>1 DEF ProcRecs, Pcs, Calls
  <2> QED
    BY <2>2, Sizes, EmptySeq DEF Sound
<1>4. ProcsOK' /\ NoSignalMissed'
  BY <1>2, <1>3, OneProc DEF IInv, Tcflush, sigs
<1>5. 0 \in Cells
  BY Sizes DEF Cells
<1>6. kbd_buffer' \in [Cells -> Char \cup {"stale"}]
  BY DEF IInv, RingOK, Tcflush
<1>7. RingOK' /\ RestOK'
  BY <1>5, <1>6 DEF IInv, Tcflush, RingOK, RestOK, port, sigs
<1> QED
  BY <1>4, <1>7 DEF IInv

LEMMA ReadingInv == ASSUME IInv, NEW p \in Proc, Reading(p) PROVE IInv'
<1>1. ASSUME NEW g \in Groups, Tiocspgrp(p, g)
      PROVE  IInv'
  <2>1. RingOK' /\ RestOK'
    BY <1>1 DEF IInv, Tiocspgrp, RingOK, RestOK, ring, port, sigs
  <2> QED
    BY <1>1, <2>1, ReturnsInv DEF IInv, Tiocspgrp, sigs
<1> QED
  BY <1>1, ReadInv, TcsetattrInv, TcflushInv DEF Reading

-----------------------------------------------------------------------------
(* The calls that wait.                                                    *)
LEMMA CallSound ==
  ASSUME NEW c \in Calls, NEW t \in Int,
         NEW r, r = [Idle EXCEPT !.pc = "call", !.call = c, !.target = t]
  PROVE  Sound(r) /\ r.pc = "call"
<1>1. Idle \in ProcRecs /\ Idle.line = <<>> /\ Idle.count = 0
  BY IdleSound DEF Sound, Idle
<1>2. r \in ProcRecs /\ r.pc = "call" /\ r.line = <<>> /\ r.count = 0
  BY <1>1 DEF ProcRecs, Pcs
<1>3. 0 <= MaxCount /\ Len(<<>>) = 0
  BY Sizes
<1> QED
  BY <1>2, <1>3 DEF Sound

LEMMA CallInv ==
  ASSUME IInv, NEW p \in Proc, NEW r, Sound(r), r.pc = "call",
         proc' = [proc EXCEPT ![p] = r],
         \A q \in Proc \ {p} : p_sig'[q] = p_sig[q] /\ p_sigmask'[q] = p_sigmask[q]
  PROVE  ProcsOK' /\ NoSignalMissed'
  BY OneProc DEF IInv

LEMMA WaitingInv == ASSUME IInv, NEW p \in Proc, Waiting(p) PROVE IInv'
<1>0. time.hi \in Nat /\ p_sigmask[p] \in BOOLEAN
      /\ {"poll", "sleep", "pause", "suspend"} \subseteq Calls
  BY Sizes DEF IInv, RestOK, Times, Calls
<1>1. ASSUME NEW limit \in {NoLimit, 1}, Poll(p, limit)
      PROVE  IInv'
  <2>1. PICK t \in Int : t = IF limit = NoLimit THEN NoLimit ELSE time.hi + limit
    BY <1>0 DEF NoLimit
  <2>2. User(p) /\ UNCHANGED sigs
        /\ proc' = [proc EXCEPT ![p].pc = "call", ![p].call = "poll", ![p].target = t]
    BY <1>1, <2>1 DEF Poll
  <2>3. PICK r : r = [Idle EXCEPT !.pc = "call", !.call = "poll", !.target = t]
    OBVIOUS
  <2>4. Sound(r) /\ r.pc = "call"
    BY <1>0, <2>3, CallSound
  <2>5. proc' = [proc EXCEPT ![p] = r]
    BY <2>2, <2>3, UserIdle
  <2>6. ProcsOK' /\ NoSignalMissed'
    BY <2>2, <2>4, <2>5, CallInv DEF sigs
  <2> QED
    BY <1>1, <2>6 DEF Poll, IInv, RingOK, RestOK, ring, port, sigs
<1>2. ASSUME Sleep(p, 1)
      PROVE  IInv'
  <2>1. PICK t \in Int : t = time.hi + 1
    BY <1>0
  <2>2. User(p) /\ UNCHANGED sigs
        /\ proc' = [proc EXCEPT ![p].pc = "call", ![p].call = "sleep", ![p].target = t]
    BY <1>2, <2>1 DEF Sleep
  <2>3. PICK r : r = [Idle EXCEPT !.pc = "call", !.call = "sleep", !.target = t]
    OBVIOUS
  <2>4. Sound(r) /\ r.pc = "call"
    BY <1>0, <2>3, CallSound
  <2>5. proc' = [proc EXCEPT ![p] = r]
    BY <2>2, <2>3, UserIdle
  <2>6. ProcsOK' /\ NoSignalMissed'
    BY <2>2, <2>4, <2>5, CallInv DEF sigs
  <2> QED
    BY <1>2, <2>6 DEF Sleep, IInv, RingOK, RestOK, ring, port, sigs
<1>3. ASSUME Pause(p)
      PROVE  IInv'
  <2>1. PICK t \in Int : t = NoLimit
    BY DEF NoLimit
  <2>2. User(p) /\ UNCHANGED sigs
        /\ proc' = [proc EXCEPT ![p].pc = "call", ![p].call = "pause", ![p].target = t]
    BY <1>3, <2>1 DEF Pause
  <2>3. PICK r : r = [Idle EXCEPT !.pc = "call", !.call = "pause", !.target = t]
    OBVIOUS
  <2>4. Sound(r) /\ r.pc = "call"
    BY <1>0, <2>3, CallSound
  <2>5. proc' = [proc EXCEPT ![p] = r]
    BY <2>2, <2>3, UserIdle
  <2>6. ProcsOK' /\ NoSignalMissed'
    BY <2>2, <2>4, <2>5, CallInv DEF sigs
  <2> QED
    BY <1>3, <2>6 DEF Pause, IInv, RingOK, RestOK, ring, port, sigs
<1>4. ASSUME NEW mask \in BOOLEAN, Sigsuspend(p, mask)
      PROVE  IInv'
  <2>1. PICK t \in Int : t = NoLimit
    BY DEF NoLimit
  <2>2. PICK m \in BOOLEAN : m = p_sigmask[p]
    BY <1>0
  <2>3. User(p) /\ UNCHANGED p_sig
        /\ proc' = [proc EXCEPT ![p].pc = "call", ![p].call = "suspend",
                                ![p].target = t, ![p].oldmask = m]
    BY <1>4, <2>1, <2>2 DEF Sigsuspend
  <2>4. PICK r : r = [Idle EXCEPT !.pc = "call", !.call = "suspend",
                                  !.target = t, !.oldmask = m]
    OBVIOUS
  <2>5. Sound(r) /\ r.pc = "call"
    <3>1. Idle \in ProcRecs /\ Idle.line = <<>> /\ Idle.count = 0
      BY IdleSound DEF Sound, Idle
    <3>2. r \in ProcRecs /\ r.pc = "call" /\ r.line = <<>> /\ r.count = 0
      BY <1>0, <2>4, <3>1 DEF ProcRecs, Pcs
    <3>3. 0 <= MaxCount /\ Len(<<>>) = 0
      BY Sizes
    <3> QED
      BY <3>2, <3>3 DEF Sound
  <2>6. proc' = [proc EXCEPT ![p] = r]
    BY <2>3, <2>4, UserIdle
  <2>7. \A q \in Proc \ {p} : p_sig'[q] = p_sig[q] /\ p_sigmask'[q] = p_sigmask[q]
    BY <1>4 DEF Sigsuspend, IInv, RestOK
  <2>8. ProcsOK' /\ NoSignalMissed'
    BY <2>5, <2>6, <2>7, CallInv
  <2> QED
    BY <1>4, <2>8 DEF Sigsuspend, IInv, RingOK, RestOK, ring, port
<1>5. ASSUME Exception(p)
      PROVE  IInv'
  <2>1. \A q \in Proc \ {p} : p_sig'[q] = p_sig[q] /\ p_sigmask'[q] = p_sigmask[q]
    BY <1>5 DEF Exception, IInv, RestOK
  <2>2. ProcsOK' /\ NoSignalMissed'
    BY <1>5, <2>1, ReturnsInv DEF Exception
  <2> QED
    BY <1>5, <2>2 DEF Exception, IInv, RingOK, RestOK, ring, port
<1>6. ASSUME NEW mask \in BOOLEAN, Sigprocmask(p, mask)
      PROVE  IInv'
  <2>1. \A q \in Proc \ {p} : p_sig'[q] = p_sig[q] /\ p_sigmask'[q] = p_sigmask[q]
    BY <1>6 DEF Sigprocmask, IInv, RestOK
  <2>2. ProcsOK' /\ NoSignalMissed'
    BY <1>6, <2>1, ReturnsInv DEF Sigprocmask
  <2> QED
    BY <1>6, <2>2 DEF Sigprocmask, IInv, RingOK, RestOK, ring, port
<1> QED
  BY <1>1, <1>2, <1>3, <1>4, <1>5, <1>6 DEF Waiting

(* The test before the sleep, and the sleep's return.                      *)
LEMMA LookInv == ASSUME IInv, NEW p \in Proc, Look(p) PROVE IInv'
<1>1. CASE Returns(p)
  BY <1>1, ReturnsInv DEF Look, IInv, RingOK, RestOK, ring, port, sigs
<1>2. CASE ~Issig(p) /\ proc' = [proc EXCEPT ![p].pc = "asleep"]
  <2>1. PICK r : r = [proc[p] EXCEPT !.pc = "asleep"]
    OBVIOUS
  <2>2. Sound(proc[p]) /\ "asleep" \in Pcs \ {"read", "user"}
    BY DEF IInv, ProcsOK, Pcs
  <2>3. Sound(r) /\ r.pc = "asleep"
    BY <2>1, <2>2, PcSound
  <2>4. UNCHANGED sigs /\ ~Issig(p)' /\ proc' = [proc EXCEPT ![p] = r]
    BY <1>2, <2>1 DEF Look, sigs, Issig
  <2>5. ProcsOK' /\ NoSignalMissed'
    BY <2>3, <2>4, OneProc DEF IInv, sigs
  <2> QED
    BY <2>5 DEF Look, IInv, RingOK, RestOK, ring, port, sigs
<1> QED
  BY <1>1, <1>2 DEF Look

LEMMA WakeInv == ASSUME IInv, NEW p \in Proc, Wake(p) PROVE IInv'
<1>1. Sound(proc[p]) /\ proc[p].oldmask \in BOOLEAN
  BY DEF IInv, ProcsOK, Sound, ProcRecs
<1>2. /\ p_sigmask' \in [Proc -> BOOLEAN]
      /\ \A q \in Proc \ {p} : p_sig'[q] = p_sig[q] /\ p_sigmask'[q] = p_sigmask[q]
  BY <1>1 DEF Wake, IInv, RestOK
<1>3. CASE Returns(p)
  BY <1>2, <1>3, ReturnsInv DEF Wake, IInv, RingOK, RestOK, ring, port
<1>4. CASE proc' = [proc EXCEPT ![p].pc = "call"]
  <2>1. PICK r : r = [proc[p] EXCEPT !.pc = "call"]
    OBVIOUS
  <2>2. "call" \in Pcs \ {"read", "user"}
    BY DEF Pcs
  <2>3. Sound(r) /\ r.pc = "call"
    BY <1>1, <2>1, <2>2, PcSound
  <2>4. proc' = [proc EXCEPT ![p] = r]
    BY <1>4, <2>1
  <2>5. ProcsOK' /\ NoSignalMissed'
    BY <1>2, <2>3, <2>4, OneProc DEF IInv
  <2> QED
    BY <1>2, <2>5 DEF Wake, IInv, RingOK, RestOK, ring, port
<1> QED
  BY <1>3, <1>4 DEF Wake

-----------------------------------------------------------------------------
(* conread.  Whatever it does with a character, the record of the reader   *)
(* stays sound, and the character is recorded as taken.                    *)
Reads(r, s, c) ==
  /\ Sound(r) /\ r.pc \in {"read", "return"}
  /\ r.taken = Append(s.taken, c) /\ r.call # "flush"

LEMMA MapCrChar ==
  ASSUME NEW c \in Char PROVE MapCr(c) \in Char
  BY DEF MapCr, Char

LEMMA TookReads ==
  ASSUME NEW s, Sound(s), s.pc = "read", NEW c \in Char
  PROVE  /\ Reads(Took(s, c), s, c)
         /\ Took(s, c).line = s.line /\ Took(s, c).pc = "read"
         /\ Took(s, c).count = s.count
<1>1. s.taken \in Seq(Char) /\ s \in ProcRecs
  BY DEF Sound, ProcRecs
<1>2. Append(s.taken, c) \in Seq(Char)
  BY <1>1, AppendProperties
<1>3. PICK t \in Seq(Char) : t = Append(s.taken, c)
  BY <1>2
<1>4. Took(s, c) = [s EXCEPT !.taken = t]
  BY <1>3 DEF Took
<1>5. PICK r : r = [s EXCEPT !.taken = t]
  OBVIOUS
<1>6. /\ r \in ProcRecs /\ r.taken = t /\ r.line = s.line /\ r.pc = "read"
      /\ r.call = s.call /\ r.count = s.count
  BY <1>1, <1>5 DEF ProcRecs
<1>7. Sound(r)
  BY <1>6 DEF Sound
<1> QED
  BY <1>3, <1>4, <1>5, <1>6, <1>7 DEF Reads, Sound

LEMMA FrontSeq ==
  ASSUME NEW l \in Seq(Char), l # <<>>
  PROVE  Front(l) \in Seq(Char) /\ Len(Front(l)) = Len(l) - 1
<1>1. Len(l) \in Nat /\ Len(l) # 0
  BY LenProperties, EmptySeq
<1>2. \A i \in 1..Len(l) - 1 : l[i] \in Char
  BY <1>1, ElementOfSeq
<1>3. PICK n \in Int : n = Len(l) - 1
  BY <1>1
<1>4. 1 \in Int /\ \A i \in 1..n : l[i] \in Char
  BY <1>2, <1>3
<1>5. /\ SubSeq(l, 1, n) \in Seq(Char)
      /\ Len(SubSeq(l, 1, n)) = IF 1 <= n THEN n - 1 + 1 ELSE 0
  BY <1>4, SubSeqProperties
<1> QED
  BY <1>1, <1>3, <1>5 DEF Front

(* Another line, no longer than the one so far.                            *)
LEMMA LineReads ==
  ASSUME NEW s, NEW c, NEW r, Reads(r, s, c), r.pc = "read",
         NEW l \in Seq(Char), Len(l) <= Len(r.line)
  PROVE  Reads([r EXCEPT !.line = l], s, c)
<1>1. PICK n : n = [r EXCEPT !.line = l]
  OBVIOUS
<1>2. r \in ProcRecs /\ r.line \in Seq(Char) /\ r.count \in Nat
  BY DEF Reads, Sound, ProcRecs
<1>3. /\ n \in ProcRecs /\ n.taken = r.taken /\ n.line = l /\ n.pc = "read"
      /\ n.call = r.call /\ n.count = r.count
  BY <1>1, <1>2 DEF ProcRecs
<1>4. Len(l) \in Nat /\ Len(r.line) \in Nat /\ MaxCount \in Nat
  BY <1>2, LenProperties, Sizes
<1>5. Len(l) < r.count /\ Len(l) <= MaxCount
  BY <1>2, <1>4 DEF Reads, Sound
<1>6. Sound(n)
  BY <1>3, <1>5 DEF Reads, Sound
<1> QED
  BY <1>1, <1>3, <1>6 DEF Reads

LEMMA EndReads ==
  ASSUME NEW s, NEW c, NEW r, Reads(r, s, c)
  PROVE  Reads([r EXCEPT !.pc = "return"], s, c) /\ Reads(Fault(r), s, c)
<1>1. r \in ProcRecs
  BY DEF Reads, Sound
<1>2. ASSUME NEW n, n = [r EXCEPT !.pc = "return"] \/ n = Fault(r)
      PROVE  Reads(n, s, c)
  <2>1. /\ n \in ProcRecs /\ n.taken = r.taken /\ n.line = r.line /\ n.pc = "return"
        /\ n.call \in {r.call, "fault"} /\ n.count = r.count
    BY <1>1, <1>2 DEF ProcRecs, Pcs, Calls, Fault
  <2>2. Sound(n)
    BY <2>1 DEF Reads, Sound
  <2> QED
    BY <2>1, <2>2 DEF Reads
<1> QED
  BY <1>2

LEMMA StoreReads ==
  ASSUME NEW s, NEW c, NEW r, Reads(r, s, c), r.pc = "read", NEW d \in Char
  PROVE  Reads(Store(r, d), s, c)
<1>1. r \in ProcRecs /\ r.line \in Seq(Char) /\ r.count \in Nat
  BY DEF Reads, Sound, ProcRecs
<1>2. PICK l : l = Append(r.line, d)
  OBVIOUS
<1>3. l \in Seq(Char) /\ Len(l) = Len(r.line) + 1 /\ Len(r.line) \in Nat
  BY <1>1, <1>2, AppendProperties, LenProperties
<1>4. PICK e : e = IF Len(l) = r.count \/ ~con_termios.canon \/ d = "nl"
                   THEN "return" ELSE "read"
  OBVIOUS
<1>5. e \in {"read", "return"} /\ (e = "read" => Len(l) # r.count)
  BY <1>4
<1>6. PICK n : n = [r EXCEPT !.line = l, !.pc = e]
  OBVIOUS
<1>7. Store(r, d) = n
  BY <1>2, <1>4, <1>6 DEF Store
<1>8. /\ n \in ProcRecs /\ n.taken = r.taken /\ n.line = l /\ n.pc = e
      /\ n.call = r.call /\ n.count = r.count
  BY <1>1, <1>3, <1>5, <1>6 DEF ProcRecs, Pcs
<1>9. Len(r.line) < r.count /\ r.count <= MaxCount /\ MaxCount \in Nat
  BY Sizes DEF Reads, Sound
<1>10. Len(l) <= r.count /\ Len(l) <= MaxCount
  BY <1>1, <1>3, <1>9
<1>11. e = "read" => Len(l) < r.count
  BY <1>1, <1>3, <1>5, <1>10
<1>12. Sound(n)
  BY <1>5, <1>8, <1>9, <1>10, <1>11 DEF Reads, Sound
<1> QED
  BY <1>5, <1>7, <1>8, <1>12 DEF Reads

LEMMA EraseReads ==
  ASSUME NEW s, NEW c, NEW r, Reads(r, s, c), r.pc = "read"
  PROVE  Reads(Erase(r), s, c)
<1>1. CASE r.line = <<>>
  BY <1>1 DEF Erase
<1>2. CASE r.line # <<>>
  <2>1. r.line \in Seq(Char) /\ Len(r.line) \in Nat
    BY LenProperties DEF Reads, Sound, ProcRecs
  <2>2. PICK l : l = Front(r.line)
    OBVIOUS
  <2>3. l \in Seq(Char) /\ Len(l) <= Len(r.line)
    BY <1>2, <2>1, <2>2, FrontSeq
  <2> QED
    BY <1>2, <2>2, <2>3, LineReads DEF Erase
<1> QED
  BY <1>1, <1>2

LEMMA KillReads ==
  ASSUME NEW s, NEW c, NEW r, Reads(r, s, c), r.pc = "read"
  PROVE  Reads([r EXCEPT !.line = <<>>], s, c)
<1>1. PICK l : l = <<>>
  OBVIOUS
<1>2. l \in Seq(Char) /\ Len(l) = 0 /\ Len(r.line) \in Nat
  BY <1>1, EmptySeq, LenProperties DEF Reads, Sound, ProcRecs
<1>3. Len(l) <= Len(r.line)
  BY <1>2
<1> QED
  BY <1>1, <1>2, <1>3, LineReads

LEMMA ConreadStep ==
  ASSUME IInv, NEW p \in Proc, Conread(p)
  PROVE  \E c \in Char :
           /\ KbdGetc(c)
           /\ \E r : /\ Reads(r, proc[p], c)
                     /\ \/ /\ proc' = [proc EXCEPT ![p] = r]
                           /\ UNCHANGED sigs
                        \/ /\ r.pc = "read"
                           /\ Pgsignal(Members(p), [proc EXCEPT ![p] = r])
                           /\ UNCHANGED p_sigmask
<1>1. PICK c \in Char :
        /\ KbdGetc(c)
        /\ \/ /\ Pgsignal(Members(p), [proc EXCEPT ![p] = Took(@, c)])
              /\ UNCHANGED p_sigmask
           \/ /\ UNCHANGED sigs
              /\ \/ proc' = [proc EXCEPT ![p] = Took(@, c)]
                 \/ proc' = [proc EXCEPT ![p] = Erase(Took(@, c))]
                 \/ proc' = [proc EXCEPT ![p] = [Took(@, c) EXCEPT !.line = <<>>]]
                 \/ proc' = [proc EXCEPT ![p] = [Took(@, c) EXCEPT !.pc = "return"]]
                 \/ proc' \in {[proc EXCEPT ![p] = Store(Took(@, c), MapCr(c))],
                               [proc EXCEPT ![p] = Fault(Took(@, c))]}
  BY Zenon DEF Conread
<1>2. PICK s : s = Took(proc[p], c)
  OBVIOUS
<1>3. Sound(proc[p]) /\ proc[p].pc = "read"
  BY DEF IInv, ProcsOK, Conread
<1>4. Reads(s, proc[p], c) /\ s.pc = "read" /\ MapCr(c) \in Char
  BY <1>2, <1>3, TookReads, MapCrChar
<1>5. /\ Reads(Erase(s), proc[p], c) /\ Reads([s EXCEPT !.line = <<>>], proc[p], c)
      /\ Reads([s EXCEPT !.pc = "return"], proc[p], c) /\ Reads(Fault(s), proc[p], c)
      /\ Reads(Store(s, MapCr(c)), proc[p], c)
  BY <1>4, EraseReads, KillReads, EndReads, StoreReads
<1>6. CASE /\ Pgsignal(Members(p), [proc EXCEPT ![p] = Took(@, c)])
           /\ UNCHANGED p_sigmask
  BY <1>1, <1>2, <1>4, <1>6
<1>7. CASE /\ UNCHANGED sigs
           /\ \/ proc' = [proc EXCEPT ![p] = Took(@, c)]
              \/ proc' = [proc EXCEPT ![p] = Erase(Took(@, c))]
              \/ proc' = [proc EXCEPT ![p] = [Took(@, c) EXCEPT !.line = <<>>]]
              \/ proc' = [proc EXCEPT ![p] = [Took(@, c) EXCEPT !.pc = "return"]]
              \/ proc' \in {[proc EXCEPT ![p] = Store(Took(@, c), MapCr(c))],
                            [proc EXCEPT ![p] = Fault(Took(@, c))]}
  <2>1. \E r : Reads(r, proc[p], c) /\ proc' = [proc EXCEPT ![p] = r]
    BY <1>2, <1>4, <1>5, <1>7
  <2> QED
    BY <1>1, <1>7, <2>1
<1> QED
  BY <1>1, <1>6, <1>7

(* A signal to a group leaves no process of it asleep.                     *)
LEMMA PgsignalInv ==
  ASSUME IInv, NEW p \in Proc, NEW r, Sound(r), r.pc = "read", NEW S,
         Pgsignal(S, [proc EXCEPT ![p] = r]), UNCHANGED p_sigmask
  PROVE  ProcsOK' /\ NoSignalMissed' /\ p_sig' \in [Proc -> BOOLEAN]
<1>1. PICK procs : procs = [proc EXCEPT ![p] = r]
  OBVIOUS
<1>2. \A q \in Proc : procs[q] = IF q = p THEN r ELSE proc[q]
  BY <1>1 DEF IInv, ProcsOK
<1>3. \A q \in Proc : Sound(procs[q])
  BY <1>2 DEF IInv, ProcsOK
<1>4. /\ p_sig' = [q \in Proc |-> p_sig[q] \/ q \in S]
      /\ proc' = [q \in Proc |-> IF q \in S /\ procs[q].pc = "asleep"
                                 THEN [procs[q] EXCEPT !.pc = "woken"] ELSE procs[q]]
  BY <1>1 DEF Pgsignal
<1>5. ASSUME NEW q \in Proc
      PROVE  /\ Sound(proc'[q])
             /\ proc'[q].pc = "asleep" => q \notin S /\ q # p /\ proc[q].pc = "asleep"
  <2>1. CASE q \in S /\ procs[q].pc = "asleep"
    <3>1. PICK w : w = [procs[q] EXCEPT !.pc = "woken"]
      OBVIOUS
    <3>2. "woken" \in Pcs \ {"read", "user"} /\ Sound(procs[q])
      BY <1>3 DEF Pcs
    <3>3. Sound(w) /\ w.pc = "woken"
      BY <3>1, <3>2, PcSound
    <3> QED
      BY <1>4, <2>1, <3>1, <3>3
  <2>2. CASE ~(q \in S /\ procs[q].pc = "asleep")
    BY <1>2, <1>3, <1>4, <2>2
  <2> QED
    BY <2>1, <2>2
<1>6. ProcsOK'
  BY <1>4, <1>5 DEF ProcsOK
<1>7. NoSignalMissed'
  BY <1>4, <1>5 DEF IInv, NoSignalMissed, Issig
<1>8. p_sig' \in [Proc -> BOOLEAN]
  BY <1>4 DEF IInv, RestOK
<1> QED
  BY <1>6, <1>7, <1>8

LEMMA ConreadInv == ASSUME IInv, NEW p \in Proc, Conread(p) PROVE IInv'
<1>1. PICK c \in Char :
        /\ KbdGetc(c)
        /\ \E r : /\ Reads(r, proc[p], c)
                  /\ \/ /\ proc' = [proc EXCEPT ![p] = r]
                        /\ UNCHANGED sigs
                     \/ /\ r.pc = "read"
                        /\ Pgsignal(Members(p), [proc EXCEPT ![p] = r])
                        /\ UNCHANGED p_sigmask
  BY ConreadStep
<1>2. PICK r : /\ Reads(r, proc[p], c)
               /\ \/ /\ proc' = [proc EXCEPT ![p] = r]
                     /\ UNCHANGED sigs
                  \/ /\ r.pc = "read"
                     /\ Pgsignal(Members(p), [proc EXCEPT ![p] = r])
                     /\ UNCHANGED p_sigmask
  BY <1>1
<1>3. RingOK'
  BY <1>1, GetcOK DEF IInv
<1>4. Sound(r) /\ r.pc # "asleep"
  BY <1>2 DEF Reads
<1>5. ASSUME proc' = [proc EXCEPT ![p] = r], UNCHANGED sigs
      PROVE  ProcsOK' /\ NoSignalMissed' /\ p_sig' \in [Proc -> BOOLEAN]
             /\ UNCHANGED p_sigmask
  <2>1. ProcsOK' /\ NoSignalMissed'
    BY <1>4, <1>5, OneProc DEF IInv, sigs
  <2> QED
    BY <1>5, <2>1 DEF IInv, RestOK, sigs
<1>6. ASSUME r.pc = "read", Pgsignal(Members(p), [proc EXCEPT ![p] = r]),
             UNCHANGED p_sigmask
      PROVE  ProcsOK' /\ NoSignalMissed' /\ p_sig' \in [Proc -> BOOLEAN]
  BY <1>4, <1>6, PgsignalInv
<1>7. ProcsOK' /\ NoSignalMissed' /\ p_sig' \in [Proc -> BOOLEAN] /\ UNCHANGED p_sigmask
  BY <1>2, <1>5, <1>6
<1>8. RestOK'
  BY <1>7 DEF Conread, IInv, RestOK
<1> QED
  BY <1>3, <1>7, <1>8 DEF IInv

-----------------------------------------------------------------------------
LEMMA KernelInv == ASSUME IInv, NEW p \in Proc, Kernel(p) PROVE IInv'
  BY ConreadInv, LookInv, WakeInv, PreemptInv, UserretInv, SwtchInv DEF Kernel

LEMMA NextInv == IInv /\ [Next]_vars => IInv'
<1> SUFFICES ASSUME IInv, [Next]_vars PROVE IInv'
  OBVIOUS
<1>1. Readers \subseteq Proc /\ Waiters \subseteq Proc
  BY TerminalAssumption
<1>2. CASE UNCHANGED vars
  BY <1>2 DEF IInv, RingOK, RestOK, ProcsOK, NoSignalMissed, Issig, vars, ring, port, sigs
<1> QED
  BY <1>1, <1>2, OutsideInv, SerialInv, KbdInv, ClockInv, ReadingInv, WaitingInv,
     KernelInv DEF Next

LEMMA Invariance == Spec => []IInv
  BY InitInv, NextInv, PTL DEF Spec

(* Every variable keeps its type: the indices stay inside the ring, the    *)
(* port holds no more than it has room for, and conread never stores more  *)
(* bytes than a read asked for.                                            *)
THEOREM TerminalTypeCorrect == Spec => []TypeOK
<1>1. IInv => TypeOK
  <2> SUFFICES ASSUME IInv PROVE TypeOK
    OBVIOUS
  <2>1. \A p \in Proc : proc[p].line \in Seq(Char) /\ Len(proc[p].line) <= MaxCount
    BY DEF IInv, ProcsOK, Sound, ProcRecs
  <2>2. time.hi \in 0..MaxHigh /\ time.lo \in 0..TimeWord - 1 /\ time.lbolt \in 0..HZ - 1
    BY DEF IInv, RestOK, Times
  <2> QED
    BY <2>1, <2>2 DEF IInv, RingOK, RestOK, TypeOK, Cells
<1> QED
  BY <1>1, Invariance, PTL

(* No signal is slept through in poll, select, sleep, nanosleep, pause or  *)
(* sigsuspend, whoever sends it and whenever: the test before the sleep    *)
(* and pgsignal, which makes a sleeper run, leave no gap.                  *)
THEOREM SignalsNotMissed == Spec => []NoSignalMissed
  BY Invariance, PTL DEF IInv

-----------------------------------------------------------------------------
(* The ring is a queue.  Without the remainders: how many cells are in use *)
(* and which cell holds the i-th character.                                *)
Used(r, w) == IF r <= w THEN w - r ELSE w - r + KBD_BUF_SIZE
Cell(r, i) == IF r + i - 1 < KBD_BUF_SIZE THEN r + i - 1 ELSE r + i - 1 - KBD_BUF_SIZE

LEMMA UsedIs ==
  ASSUME NEW r \in Cells, NEW w \in Cells
  PROVE  (w - r) % KBD_BUF_SIZE = Used(r, w) /\ Used(r, w) \in 0..KBD_BUF_SIZE - 1
<1>1. PICK k \in Nat \ {0} : k = KBD_BUF_SIZE
  BY Sizes
<1>2. r \in 0..k - 1 /\ w \in 0..k - 1
  BY <1>1 DEF Cells
<1>3. PICK a \in Int : a = w - r
  BY <1>2
<1>4. /\ a \in 0..k - 1 => a % k = a
      /\ a \in -k..-1 => a % k = a + k
  BY ModRing
<1>5. (r <= w => a \in 0..k - 1) /\ (~(r <= w) => a \in -k..-1)
  BY <1>2, <1>3
<1>6. a % k = Used(r, w)
  BY <1>1, <1>2, <1>3, <1>4, <1>5 DEF Used
<1> QED
  BY <1>1, <1>2, <1>3, <1>6 DEF Used

LEMMA CellIs ==
  ASSUME NEW r \in Cells, NEW i \in 1..KBD_BUF_SIZE
  PROVE  (r + i - 1) % KBD_BUF_SIZE = Cell(r, i) /\ Cell(r, i) \in Cells
<1>1. PICK k \in Nat \ {0} : k = KBD_BUF_SIZE
  BY Sizes
<1>2. r \in 0..k - 1 /\ i \in 1..k
  BY <1>1 DEF Cells
<1>3. PICK a \in Int : a = r + i - 1
  BY <1>2
<1>4. /\ a \in 0..k - 1 => a % k = a
      /\ a \in k..k + k - 1 => a % k = a - k
  BY ModRing
<1>5. (a < k => a \in 0..k - 1) /\ (~(a < k) => a \in k..k + k - 1)
  BY <1>2, <1>3
<1>6. Cell(r, i) = IF a < k THEN a ELSE a - k
  BY <1>1, <1>2, <1>3 DEF Cell
<1>7. a % k = Cell(r, i)
  BY <1>4, <1>5, <1>6
<1>8. Cell(r, i) \in 0..k - 1
  BY <1>5, <1>6
<1> QED
  BY <1>1, <1>3, <1>7, <1>8 DEF Cells

(* The characters that wait, as a function of the ring.                    *)
Waits(b, r, w) == [i \in 1..Used(r, w) |-> b[Cell(r, i)]]

LEMMA WaitsIs ==
  ASSUME NEW b, NEW r \in Cells, NEW w \in Cells
  PROVE  [i \in 1..((w - r) % KBD_BUF_SIZE) |-> b[(r + i - 1) % KBD_BUF_SIZE]]
           = Waits(b, r, w)
<1>1. (w - r) % KBD_BUF_SIZE = Used(r, w) /\ Used(r, w) \in 0..KBD_BUF_SIZE - 1
  BY UsedIs
<1>2. \A i \in 1..Used(r, w) : i \in 1..KBD_BUF_SIZE
  BY <1>1, Sizes
<1>3. \A i \in 1..Used(r, w) : b[(r + i - 1) % KBD_BUF_SIZE] = b[Cell(r, i)]
  BY <1>2, CellIs
<1> QED
  BY <1>1, <1>3 DEF Waits

LEMMA ContentsIs ==
  /\ RingOK => Contents = Waits(kbd_buffer, kbd_read_ptr, kbd_write_ptr)
  /\ RingOK' => Contents' = Waits(kbd_buffer', kbd_read_ptr', kbd_write_ptr')
<1>1. ASSUME RingOK
      PROVE  Contents = Waits(kbd_buffer, kbd_read_ptr, kbd_write_ptr)
  <2>1. kbd_read_ptr \in Cells /\ kbd_write_ptr \in Cells
    BY <1>1 DEF RingOK
  <2> QED
    BY <2>1, WaitsIs DEF Contents, Pending
<1>2. ASSUME RingOK'
      PROVE  Contents' = Waits(kbd_buffer', kbd_read_ptr', kbd_write_ptr')
  <2>1. kbd_read_ptr' \in Cells /\ kbd_write_ptr' \in Cells
    BY <1>2 DEF RingOK
  <2>2. Contents' = [i \in 1..((kbd_write_ptr' - kbd_read_ptr') % KBD_BUF_SIZE) |->
                       kbd_buffer'[(kbd_read_ptr' + i - 1) % KBD_BUF_SIZE]]
    BY DEF Contents, Pending
  <2> QED
    BY <2>1, <2>2, WaitsIs
<1> QED
  BY <1>1, <1>2

LEMMA WaitsSeq ==
  ASSUME NEW b \in [Cells -> Char \cup {"stale"}], NEW r \in Cells, NEW w \in Cells
  PROVE  /\ Waits(b, r, w) \in Seq(Char \cup {"stale"})
         /\ Len(Waits(b, r, w)) = Used(r, w)
         /\ \A i \in 1..Used(r, w) : Waits(b, r, w)[i] = b[Cell(r, i)]
         /\ Used(r, w) \in 0..KBD_BUF_SIZE - 1
<1>1. Used(r, w) \in 0..KBD_BUF_SIZE - 1
  BY UsedIs
<1>2. PICK n \in Nat : n = Used(r, w)
  BY <1>1, Sizes
<1>3. \A i \in 1..n : i \in 1..KBD_BUF_SIZE
  BY <1>1, <1>2, Sizes
<1>4. \A i \in 1..n : b[Cell(r, i)] \in Char \cup {"stale"}
  BY <1>3, CellIs
<1>5. Waits(b, r, w) \in [1..n -> Char \cup {"stale"}]
  BY <1>2, <1>4 DEF Waits
<1>6. Waits(b, r, w) \in Seq(Char \cup {"stale"})
  BY <1>5, IsASeq
<1>7. DOMAIN Waits(b, r, w) = 1..n /\ DOMAIN Waits(b, r, w) = 1..Len(Waits(b, r, w))
      /\ Len(Waits(b, r, w)) \in Nat
  BY <1>5, <1>6, LenProperties
<1>8. Len(Waits(b, r, w)) = n
  BY <1>7
<1> QED
  BY <1>1, <1>2, <1>6, <1>8 DEF Waits

(* A character put into the ring is behind those that wait.                *)
LEMMA PutWaits ==
  ASSUME NEW b \in [Cells -> Char \cup {"stale"}], NEW r \in Cells, NEW w \in Cells,
         NEW c \in Char, Succ(w) # r
  PROVE  /\ Len(Waits(b, r, w)) < KBD_BUF_SIZE - 1
         /\ Waits([b EXCEPT ![w] = c], r, Succ(w)) = Append(Waits(b, r, w), c)
<1>1. PICK v \in Cells : v = Succ(w)
  BY SuccIs
<1>2. PICK d : d = [b EXCEPT ![w] = c]
  OBVIOUS
<1>3. d \in [Cells -> Char \cup {"stale"}] /\ d[w] = c
      /\ \A i \in Cells \ {w} : d[i] = b[i]
  BY <1>2
<1>4. KBD_BUF_SIZE \in Nat \ {0, 1}
  BY Sizes
<1>5. v = (IF w = KBD_BUF_SIZE - 1 THEN 0 ELSE w + 1) /\ v # r
  BY <1>1, SuccIs
<1>6. PICK n \in Nat : n = Used(r, w)
  BY UsedIs, Sizes
<1>7. n < KBD_BUF_SIZE - 1 /\ Used(r, v) = n + 1 /\ Cell(r, n + 1) = w
  BY <1>4, <1>5, <1>6 DEF Used, Cell, Cells
<1>8. \A i \in 1..n : Cell(r, i) \in Cells /\ Cell(r, i) # w
  BY <1>4, <1>6, <1>7 DEF Used, Cell, Cells
<1>9. PICK s \in Seq(Char \cup {"stale"}) : s = Waits(b, r, w)
  BY WaitsSeq
<1>10. PICK t \in Seq(Char \cup {"stale"}) : t = Waits(d, r, v)
  BY <1>3, WaitsSeq
<1>11. Len(s) = n /\ \A i \in 1..n : s[i] = b[Cell(r, i)]
  BY <1>6, <1>9, WaitsSeq
<1>12. Len(t) = n + 1 /\ \A i \in 1..n + 1 : t[i] = d[Cell(r, i)]
  <2>1. /\ Len(Waits(d, r, v)) = Used(r, v)
        /\ \A i \in 1..Used(r, v) : Waits(d, r, v)[i] = d[Cell(r, i)]
    BY <1>3, WaitsSeq
  <2> QED
    BY <1>7, <1>10, <2>1
<1>13. PICK a : a = Append(s, c)
  OBVIOUS
<1>14. a \in Seq(Char \cup {"stale"}) /\ Len(a) = n + 1 /\ a[n + 1] = c
       /\ \A i \in 1..n : a[i] = s[i]
  BY <1>11, <1>13, AppendProperties
<1>15. \A i \in 1..n + 1 : t[i] = a[i]
  <2>1. t[n + 1] = c
    BY <1>3, <1>7, <1>12
  <2>2. ASSUME NEW i \in 1..n
        PROVE  t[i] = a[i]
    <3>1. t[i] = d[Cell(r, i)] /\ a[i] = b[Cell(r, i)]
      BY <1>11, <1>12, <1>14
    <3> QED
      BY <1>3, <1>8, <3>1
  <2>3. \A i \in 1..n + 1 : i = n + 1 \/ i \in 1..n
    OBVIOUS
  <2> QED
    BY <1>14, <2>1, <2>2, <2>3
<1>16. t = a
  BY <1>12, <1>14, <1>15, SeqEqual
<1> QED
  BY <1>1, <1>2, <1>7, <1>9, <1>10, <1>11, <1>13, <1>16

(* A ring that takes no more holds KBD_BUF_SIZE - 1 characters.            *)
LEMMA FullWaits ==
  ASSUME NEW b \in [Cells -> Char \cup {"stale"}], NEW r \in Cells, NEW w \in Cells,
         Succ(w) = r
  PROVE  Len(Waits(b, r, w)) = KBD_BUF_SIZE - 1
<1>1. r = IF w = KBD_BUF_SIZE - 1 THEN 0 ELSE w + 1
  BY SuccIs
<1>2. KBD_BUF_SIZE \in Nat \ {0, 1} /\ w \in 0..KBD_BUF_SIZE - 1
  BY Sizes DEF Cells
<1>3. Used(r, w) = KBD_BUF_SIZE - 1
  BY <1>1, <1>2 DEF Used
<1> QED
  BY <1>3, WaitsSeq

(* The first of those that wait is at kbd_read_ptr, and goes first.        *)
LEMMA TakeWaits ==
  ASSUME NEW b \in [Cells -> Char \cup {"stale"}], NEW r \in Cells, NEW w \in Cells,
         r # w
  PROVE  /\ Waits(b, r, w) # <<>> /\ Head(Waits(b, r, w)) = b[r]
         /\ Waits([b EXCEPT ![r] = "stale"], Succ(r), w) = Tail(Waits(b, r, w))
<1>1. PICK v \in Cells : v = Succ(r)
  BY SuccIs
<1>2. PICK d : d = [b EXCEPT ![r] = "stale"]
  OBVIOUS
<1>3. d \in [Cells -> Char \cup {"stale"}]
      /\ \A i \in Cells \ {r} : d[i] = b[i]
  BY <1>2
<1>4. KBD_BUF_SIZE \in Nat \ {0, 1}
  BY Sizes
<1>5. v = IF r = KBD_BUF_SIZE - 1 THEN 0 ELSE r + 1
  BY <1>1, SuccIs
<1>6. PICK n \in Nat : n = Used(r, w)
  BY UsedIs, Sizes
<1>7. 0 < n /\ n < KBD_BUF_SIZE /\ Used(v, w) = n - 1 /\ Cell(r, 1) = r
  BY <1>4, <1>5, <1>6 DEF Used, Cell, Cells
<1>8. \A i \in 1..n - 1 : /\ Cell(r, i + 1) \in Cells /\ Cell(r, i + 1) # r
                          /\ Cell(v, i) = Cell(r, i + 1)
  BY <1>4, <1>5, <1>6, <1>7 DEF Used, Cell, Cells
<1>9. PICK s \in Seq(Char \cup {"stale"}) : s = Waits(b, r, w)
  BY WaitsSeq
<1>10. PICK t \in Seq(Char \cup {"stale"}) : t = Waits(d, v, w)
  BY <1>3, WaitsSeq
<1>11. Len(s) = n /\ \A i \in 1..n : s[i] = b[Cell(r, i)]
  BY <1>6, <1>9, WaitsSeq
<1>12. Len(t) = n - 1 /\ \A i \in 1..n - 1 : t[i] = d[Cell(v, i)]
  <2>1. /\ Len(Waits(d, v, w)) = Used(v, w)
        /\ \A i \in 1..Used(v, w) : Waits(d, v, w)[i] = d[Cell(v, i)]
    BY <1>3, WaitsSeq
  <2> QED
    BY <1>7, <1>10, <2>1
<1>13. s # <<>> /\ Head(s) = b[r]
  <2>1. s # <<>>
    BY <1>7, <1>11, EmptySeq
  <2>2. Head(s) = s[1]
    BY <2>1
  <2> QED
    BY <1>7, <1>11, <2>1, <2>2
<1>14. PICK a : a = Tail(s)
  OBVIOUS
<1>15. a \in Seq(Char \cup {"stale"}) /\ Len(a) = n - 1
       /\ \A i \in 1..n - 1 : a[i] = s[i + 1]
  BY <1>11, <1>13, <1>14, HeadTailProperties
<1>16. ASSUME NEW i \in 1..n - 1
       PROVE  t[i] = a[i]
  <2>1. i + 1 \in 1..n
    OBVIOUS
  <2>2. t[i] = d[Cell(r, i + 1)] /\ a[i] = b[Cell(r, i + 1)]
    BY <1>8, <1>11, <1>12, <1>15, <2>1
  <2> QED
    BY <1>3, <1>8, <2>2
<1>17. t = a
  BY <1>12, <1>15, <1>16, SeqEqual
<1> QED
  BY <1>1, <1>2, <1>9, <1>10, <1>13, <1>14, <1>17

LEMMA NoneWaits ==
  ASSUME NEW b \in [Cells -> Char \cup {"stale"}], NEW r \in Cells
  PROVE  Waits(b, r, r) = <<>>
<1>1. Used(r, r) = 0
  BY Sizes DEF Used, Cells
<1>2. Waits(b, r, r) \in Seq(Char \cup {"stale"}) /\ Len(Waits(b, r, r)) = 0
  BY <1>1, WaitsSeq
<1> QED
  BY <1>2, EmptySeq

-----------------------------------------------------------------------------
(* What the steps do to the queue.                                         *)
LEMMA PutStep ==
  ASSUME RingOK, RingOK', NEW c \in Char, KbdPutc(c)
  PROVE  \/ Len(Contents) = KBD_BUF_SIZE - 1 /\ Contents' = Contents
         \/ Len(Contents) < KBD_BUF_SIZE - 1 /\ Contents' = Append(Contents, c)
<1>1. PICK b, r, w : b = kbd_buffer /\ r = kbd_read_ptr /\ w = kbd_write_ptr
  OBVIOUS
<1>2. b \in [Cells -> Char \cup {"stale"}] /\ r \in Cells /\ w \in Cells
  BY <1>1 DEF RingOK
<1>3. /\ Contents = Waits(b, r, w)
      /\ Contents' = Waits(kbd_buffer', kbd_read_ptr', kbd_write_ptr')
  BY <1>1, ContentsIs
<1>4. CASE Succ(w) # r
  <2>1. /\ Len(Waits(b, r, w)) < KBD_BUF_SIZE - 1
        /\ Waits([b EXCEPT ![w] = c], r, Succ(w)) = Append(Waits(b, r, w), c)
    BY <1>2, <1>4, PutWaits
  <2>2. kbd_buffer' = [b EXCEPT ![w] = c] /\ kbd_read_ptr' = r /\ kbd_write_ptr' = Succ(w)
    BY <1>1, <1>4 DEF KbdPutc
  <2>3. Contents' = Waits([b EXCEPT ![w] = c], r, Succ(w))
    BY <1>3, <2>2
  <2> QED
    BY <1>3, <2>1, <2>3
<1>5. CASE Succ(w) = r
  <2>1. Len(Waits(b, r, w)) = KBD_BUF_SIZE - 1
    BY <1>2, <1>5, FullWaits
  <2> QED
    BY <1>1, <1>3, <1>5, <2>1 DEF KbdPutc, ring
<1> QED
  BY <1>4, <1>5

LEMMA GetStep ==
  ASSUME RingOK, RingOK', NEW c \in Char, KbdGetc(c)
  PROVE  \/ /\ Contents # <<>> /\ c = Head(Contents) /\ Contents' = Tail(Contents)
            /\ UNCHANGED uart
         \/ /\ Contents = <<>> /\ Contents' = <<>>
            /\ uart # <<>> /\ c = Head(uart) /\ uart' = Tail(uart)
<1>1. PICK b, r, w : b = kbd_buffer /\ r = kbd_read_ptr /\ w = kbd_write_ptr
  OBVIOUS
<1>2. b \in [Cells -> Char \cup {"stale"}] /\ r \in Cells /\ w \in Cells
  BY <1>1 DEF RingOK
<1>3. /\ Contents = Waits(b, r, w)
      /\ Contents' = Waits(kbd_buffer', kbd_read_ptr', kbd_write_ptr')
  BY <1>1, ContentsIs
<1>4. CASE r # w
  <2>1. /\ Waits(b, r, w) # <<>> /\ Head(Waits(b, r, w)) = b[r]
        /\ Waits([b EXCEPT ![r] = "stale"], Succ(r), w) = Tail(Waits(b, r, w))
    BY <1>2, <1>4, TakeWaits
  <2>2. /\ kbd_buffer' = [b EXCEPT ![r] = "stale"] /\ kbd_read_ptr' = Succ(r)
        /\ kbd_write_ptr' = w /\ c = b[r] /\ UNCHANGED uart
    BY <1>1, <1>4 DEF KbdGetc
  <2>3. Contents' = Waits([b EXCEPT ![r] = "stale"], Succ(r), w)
    BY <1>3, <2>2
  <2> QED
    BY <1>3, <2>1, <2>2, <2>3
<1>5. CASE r = w
  <2>1. PICK v \in Cells : v = Succ(r)
    BY <1>2, SuccIs
  <2>2. /\ kbd_buffer' = b /\ kbd_read_ptr' = v /\ kbd_write_ptr' = v
        /\ uart # <<>> /\ c = Head(uart) /\ uart' = Tail(uart)
    BY <1>1, <1>5, <2>1 DEF KbdGetc
  <2>3. Waits(b, r, r) = <<>> /\ Waits(b, v, v) = <<>>
    BY <1>2, NoneWaits
  <2> QED
    BY <1>3, <1>5, <2>2, <2>3
<1> QED
  BY <1>4, <1>5

(* The ports, the history and the flushing calls as the queue's            *)
(* specification has them.                                                 *)
Sources  == {"serial", "keyboard"}
Arriving == [s \in Sources |-> IF s = "serial" THEN uart ELSE Keyed]

LEMMA ArrivingSame == UNCHANGED port => Arriving' = Arriving
  BY DEF port, Arriving, Keyed, CharOf

TakenBy  == [p \in Proc |-> proc[p].taken]
Flushing == {p \in Proc : proc[p].call = "flush"}

Same(S) == \A q \in S : proc'[q].taken = proc[q].taken /\ proc'[q].call = proc[q].call

LEMMA SameAll ==
  ASSUME Same(Proc) PROVE UNCHANGED <<TakenBy, Flushing>>
  BY DEF Same, TakenBy, Flushing

LEMMA FinishOne ==
  ASSUME NEW p \in Proc, Same(Proc \ {p}),
         proc'[p].taken = <<>>, proc'[p].call # "flush"
  PROVE  TakenBy' = [TakenBy EXCEPT ![p] = <<>>] /\ Flushing' = Flushing \ {p}
<1>1. TakenBy' = [TakenBy EXCEPT ![p] = <<>>]
  BY DEF Same, TakenBy
<1>2. Flushing' = Flushing \ {p}
  BY DEF Same, Flushing
<1> QED
  BY <1>1, <1>2

LEMMA TakeOne ==
  ASSUME NEW p \in Proc, Same(Proc \ {p}), NEW c,
         proc'[p].taken = Append(proc[p].taken, c),
         proc[p].call # "flush", proc'[p].call # "flush"
  PROVE  TakenBy' = [TakenBy EXCEPT ![p] = Append(@, c)] /\ Flushing' = Flushing
<1>1. TakenBy' = [TakenBy EXCEPT ![p] = Append(@, c)]
  BY DEF Same, TakenBy
<1>2. Flushing' = Flushing
  BY DEF Same, Flushing
<1> QED
  BY <1>1, <1>2

(* A step that ends a call or changes nothing that the queue shows.        *)
Ends(p) == Same(Proc \ {p}) /\ proc'[p].taken = <<>> /\ proc'[p].call # "flush"

LEMMA QuietStep ==
  ASSUME NEW p \in Proc, Contents' = Contents, UNCHANGED port, Same(Proc) \/ Ends(p)
  PROVE  [Queue!Next]_Queue!vars
<1>0. Arriving' = Arriving
  BY ArrivingSame
<1>1. CASE Same(Proc)
  BY <1>0, <1>1, SameAll DEF Arriving, Sources, TakenBy, Flushing, Queue!vars
<1>2. CASE Ends(p)
  <2>1. TakenBy' = [TakenBy EXCEPT ![p] = <<>>] /\ Flushing' = Flushing \ {p}
    BY <1>2, FinishOne DEF Ends
  <2>2. Queue!Finish(p)
    BY <1>0, <2>1 DEF Queue!Finish, Arriving, Sources, TakenBy, Flushing
  <2> QED
    BY <2>2 DEF Queue!Next
<1> QED
  BY <1>1, <1>2

LEMMA SameStep ==
  ASSUME UNCHANGED <<ring, port>>, Same(Proc)
  PROVE  [Queue!Next]_Queue!vars
<1>1. Contents' = Contents
  BY DEF Contents, Pending, ring
<1>2. 1 \in Proc
  BY Sizes DEF Proc
<1> QED
  BY <1>1, <1>2, QuietStep

LEMMA OneStep ==
  ASSUME IInv, NEW p \in Proc, NEW r, proc' = [proc EXCEPT ![p] = r],
         UNCHANGED <<ring, port>>,
         \/ r.taken = <<>> /\ r.call # "flush"
         \/ r.taken = proc[p].taken /\ r.call = proc[p].call
  PROVE  [Queue!Next]_Queue!vars
<1>1. \A q \in Proc : proc'[q] = IF q = p THEN r ELSE proc[q]
  BY DEF IInv, ProcsOK
<1>2. Same(Proc) \/ Ends(p)
  BY <1>1 DEF Same, Ends
<1>3. Contents' = Contents
  BY DEF Contents, Pending, ring
<1> QED
  BY <1>2, <1>3, QuietStep

LEMMA ReturnsStep ==
  ASSUME IInv, NEW p \in Proc, Returns(p), UNCHANGED <<ring, port>>
  PROVE  [Queue!Next]_Queue!vars
<1>1. PICK r : r = [Idle EXCEPT !.pc = "return"]
  OBVIOUS
<1>2. r.taken = <<>> /\ r.call # "flush"
  BY <1>1 DEF Idle
<1> QED
  BY <1>1, <1>2, OneStep DEF Returns

LEMMA PcStep ==
  ASSUME IInv, NEW p \in Proc, NEW c \in Pcs, UNCHANGED <<ring, port>>,
         proc' = [proc EXCEPT ![p].pc = c]
  PROVE  [Queue!Next]_Queue!vars
<1>1. PICK r : r = [proc[p] EXCEPT !.pc = c]
  OBVIOUS
<1>2. proc[p] \in ProcRecs
  BY DEF IInv, ProcsOK, Sound
<1>3. r.taken = proc[p].taken /\ r.call = proc[p].call
  BY <1>1, <1>2 DEF ProcRecs
<1>4. proc' = [proc EXCEPT ![p] = r]
  BY <1>1
<1> QED
  BY <1>3, <1>4, OneStep

(* A character that an interrupt hands to kbd_putc.                        *)
LEMMA PutRefines ==
  ASSUME IInv, IInv', Same(Proc), NEW s \in Sources, NEW c \in Char, KbdPutc(c),
         Arriving[s] # <<>>, c = Head(Arriving[s]),
         Arriving' = [Arriving EXCEPT ![s] = Tail(@)]
  PROVE  [Queue!Next]_Queue!vars
<1>1. Queue!HandOver(s)
  BY DEF Queue!HandOver, Arriving, Sources
<1>2. UNCHANGED <<TakenBy, Flushing>>
  BY SameAll
<1>3. CASE Len(Contents) = KBD_BUF_SIZE - 1 /\ Contents' = Contents
  <2>1. Queue!Lose(s)
    BY <1>1, <1>2, <1>3 DEF Queue!Lose, TakenBy, Flushing
  <2> QED
    BY <2>1 DEF Queue!Next, Sources
<1>4. CASE Len(Contents) < KBD_BUF_SIZE - 1 /\ Contents' = Append(Contents, c)
  <2>1. Queue!Enqueue(s)
    BY <1>1, <1>2, <1>4 DEF Queue!Enqueue, Arriving, Sources, TakenBy, Flushing
  <2> QED
    BY <2>1 DEF Queue!Next, Sources
<1> QED
  BY <1>3, <1>4, PutStep DEF IInv

LEMMA SerialRefines ==
  ASSUME IInv, IInv', serial_intr, Same(Proc)
  PROVE  [Queue!Next]_Queue!vars
<1>1. PICK s \in Sources : s = "serial"
  BY DEF Sources
<1>2. PICK c \in Char : c = Head(uart)
  BY HeadTailProperties DEF serial_intr, IInv, RingOK
<1>3. KbdPutc(c) /\ uart # <<>> /\ uart' = Tail(uart) /\ Keyed' = Keyed
  BY <1>2 DEF serial_intr, Keyed, CharOf
<1>4. Arriving[s] = uart /\ Arriving' = [Arriving EXCEPT ![s] = Tail(@)]
  BY <1>1, <1>3 DEF Arriving, Sources
<1> QED
  BY <1>2, <1>3, <1>4, PutRefines

LEMMA KeyRefines ==
  ASSUME IInv, IInv', kbd_intr, Same(Proc)
  PROVE  [Queue!Next]_Queue!vars
<1>1. PICK s \in Sources : s = "keyboard"
  BY DEF Sources
<1>2. Keyed' = <<>> /\ UNCHANGED uart
  BY DEF kbd_intr, Keyed
<1>3. ASSUME NEW c \in Char, Keyed = <<c>>, KbdPutc(c)
      PROVE  [Queue!Next]_Queue!vars
  <2>1. Keyed # <<>> /\ Head(Keyed) = c /\ Tail(Keyed) = <<>>
    BY <1>3
  <2>2. Arriving[s] = Keyed /\ Arriving' = [Arriving EXCEPT ![s] = Tail(@)]
    BY <1>1, <1>2, <2>1 DEF Arriving, Sources
  <2> QED
    BY <1>3, <2>1, <2>2, PutRefines
<1>4. CASE Keyed = <<>> /\ UNCHANGED ring
  <2>1. Arriving' = Arriving
    BY <1>2, <1>4 DEF Arriving
  <2>2. Contents' = Contents
    BY <1>4 DEF Contents, Pending, ring
  <2> QED
    BY <2>1, <2>2, SameAll DEF Arriving, Sources, TakenBy, Flushing, Queue!vars
<1> QED
  BY <1>3, <1>4, KeyChar

LEMMA InterruptRefines ==
  ASSUME IInv, IInv', serial_intr \/ kbd_intr \/ clock
  PROVE  [Queue!Next]_Queue!vars
<1>1. Interrupt /\ UNCHANGED sigs
  BY DEF serial_intr, kbd_intr, clock
<1>2. Same(Proc)
  BY <1>1, InterruptInv DEF Same
<1>3. CASE clock
  BY <1>2, <1>3, SameStep DEF clock
<1> QED
  BY <1>2, <1>3, SerialRefines, KeyRefines

(* The world outside brings a character to a port.                         *)
LEMMA OutsideRefines == ASSUME Outside PROVE [Queue!Next]_Queue!vars
<1>1. UNCHANGED <<ring, proc>>
  BY DEF Outside, SerialArrives, KeyArrives
<1>2. Contents' = Contents /\ UNCHANGED <<TakenBy, Flushing>>
  BY <1>1 DEF Contents, Pending, ring, TakenBy, Flushing
<1>3. ASSUME NEW s \in Sources, NEW c \in Char,
             Arriving' = [Arriving EXCEPT ![s] = Append(@, c)]
      PROVE  [Queue!Next]_Queue!vars
  <2>1. Queue!Come(s, c)
    BY <1>2, <1>3 DEF Queue!Come, Arriving, Sources, TakenBy, Flushing
  <2> QED
    BY <2>1 DEF Queue!Next, Sources
<1>4. ASSUME NEW c \in Typed, SerialArrives(c)
      PROVE  [Queue!Next]_Queue!vars
  <2>1. PICK s \in Sources : s = "serial"
    BY DEF Sources
  <2>2. uart' = Append(uart, c) /\ Keyed' = Keyed
    BY <1>4 DEF SerialArrives, Keyed, CharOf
  <2>3. Arriving' = [Arriving EXCEPT ![s] = Append(@, c)]
    BY <2>1, <2>2 DEF Arriving, Sources
  <2>4. c \in Char
    BY TerminalAssumption
  <2> QED
    BY <1>3, <2>3, <2>4
<1>5. ASSUME NEW code \in Codes, KeyArrives(code)
      PROVE  [Queue!Next]_Queue!vars
  <2>1. PICK s \in Sources : s = "keyboard"
    BY DEF Sources
  <2>2. UNCHANGED <<uart, shift_state>> /\ scan = <<>> /\ scan' = <<code>>
    BY <1>5 DEF KeyArrives
  <2>3. Keyed = <<>> /\ Head(scan') = code /\ scan' # <<>>
    BY <2>2 DEF Keyed
  <2>4. CASE code \in Keys
    <3>1. PICK c \in Char : c = CharOf(code)
      BY <2>4, TerminalAssumption DEF CharOf
    <3>2. Keyed' = <<c>>
      BY <2>2, <2>3, <2>4, <3>1 DEF Keyed, CharOf
    <3>3. Keyed' = Append(Keyed, c)
      BY <2>3, <3>2
    <3>4. Arriving' = [Arriving EXCEPT ![s] = Append(@, c)]
      BY <2>1, <2>2, <3>3 DEF Arriving, Sources
    <3> QED
      BY <1>3, <3>4
  <2>5. CASE code \notin Keys
    <3>1. Keyed' = <<>>
      BY <2>3, <2>5 DEF Keyed
    <3>2. Arriving' = Arriving
      BY <2>2, <2>3, <3>1 DEF Arriving
    <3> QED
      BY <1>2, <3>2 DEF Arriving, Sources, TakenBy, Flushing, Queue!vars
  <2> QED
    BY <2>4, <2>5
<1> QED
  BY <1>4, <1>5 DEF Outside

LEMMA ReadingRefines ==
  ASSUME IInv, IInv', NEW p \in Proc, Reading(p)
  PROVE  [Queue!Next]_Queue!vars
<1>1. ASSUME NEW n \in 1..MaxCount, Read(p, n)
      PROVE  [Queue!Next]_Queue!vars
  <2>1. PICK r : r = [Idle EXCEPT !.pc = "read", !.count = n]
    OBVIOUS
  <2>2. proc' = [proc EXCEPT ![p] = r] /\ UNCHANGED <<ring, port>>
    BY <1>1, <2>1, UserIdle DEF Read
  <2>3. r.taken = <<>> /\ r.call # "flush"
    BY <2>1 DEF Idle
  <2> QED
    BY <2>2, <2>3, OneStep
<1>2. ASSUME NEW tio \in Settings, Tcsetattr(p, tio)
      PROVE  [Queue!Next]_Queue!vars
  BY <1>2, ReturnsStep DEF Tcsetattr
<1>3. ASSUME NEW g \in Groups, Tiocspgrp(p, g)
      PROVE  [Queue!Next]_Queue!vars
  BY <1>3, ReturnsStep DEF Tiocspgrp
<1>4. ASSUME Tcflush(p)
      PROVE  [Queue!Next]_Queue!vars
  <2>1. PICK r : r = [Idle EXCEPT !.pc = "return", !.call = "flush"]
    OBVIOUS
  <2>2. proc[p] = Idle /\ proc' = [proc EXCEPT ![p] = r]
    BY <1>4, <2>1, UserIdle DEF Tcflush
  <2>3. \A q \in Proc : proc'[q] = IF q = p THEN r ELSE proc[q]
    BY <2>2 DEF IInv, ProcsOK
  <2>4. /\ r.taken = <<>> /\ r.call = "flush"
        /\ proc[p].taken = <<>> /\ proc[p].call = ""
    <3>1. r.taken = <<>> /\ r.call = "flush"
      BY <2>1 DEF Idle
    <3>2. Idle.taken = <<>> /\ Idle.call = ""
      BY DEF Idle
    <3> QED
      BY <2>2, <3>1, <3>2
  <2>5. TakenBy' = TakenBy
    BY <2>3, <2>4 DEF TakenBy
  <2>6. p \notin Flushing /\ Flushing' = Flushing \cup {p}
    BY <2>3, <2>4 DEF Flushing
  <2>7. Contents' = <<>>
    <3>1. PICK b, z : b = kbd_buffer' /\ z = 0
      OBVIOUS
    <3>2. b \in [Cells -> Char \cup {"stale"}] /\ z \in Cells
      BY <3>1, Sizes DEF IInv, RingOK, Cells
    <3>3. Contents' = Waits(b, z, z)
      BY <1>4, <3>1, ContentsIs DEF IInv, Tcflush
    <3> QED
      BY <3>2, <3>3, NoneWaits
  <2>8. Arriving' = Arriving
    BY <1>4, ArrivingSame DEF Tcflush
  <2>9. Queue!Flush(p)
    BY <2>5, <2>6, <2>7, <2>8 DEF Queue!Flush, Arriving, Sources, TakenBy, Flushing
  <2> QED
    BY <2>9 DEF Queue!Next
<1> QED
  BY <1>1, <1>2, <1>3, <1>4 DEF Reading

LEMMA WaitingRefines ==
  ASSUME IInv, NEW p \in Proc, Waiting(p)
  PROVE  [Queue!Next]_Queue!vars
<1>1. ASSUME NEW c \in Calls \ {"flush"}, NEW t, User(p), UNCHANGED <<ring, port>>,
             proc' = [proc EXCEPT ![p].pc = "call", ![p].call = c, ![p].target = t]
      PROVE  [Queue!Next]_Queue!vars
  <2>1. PICK r : r = [Idle EXCEPT !.pc = "call", !.call = c, !.target = t]
    OBVIOUS
  <2>2. proc' = [proc EXCEPT ![p] = r]
    BY <1>1, <2>1, UserIdle
  <2>3. r.taken = <<>> /\ r.call # "flush"
    BY <2>1 DEF Idle
  <2> QED
    BY <1>1, <2>2, <2>3, OneStep
<1>2. {"poll", "sleep", "pause"} \subseteq Calls \ {"flush"}
  BY DEF Calls
<1>3. ASSUME NEW limit \in {NoLimit, 1}, Poll(p, limit)
      PROVE  [Queue!Next]_Queue!vars
  <2>1. PICK t : t = IF limit = NoLimit THEN NoLimit ELSE time.hi + limit
    OBVIOUS
  <2>2. /\ User(p) /\ UNCHANGED <<ring, port>>
        /\ proc' = [proc EXCEPT ![p].pc = "call", ![p].call = "poll", ![p].target = t]
    BY <1>3, <2>1 DEF Poll
  <2> QED
    BY <1>1, <1>2, <2>2
<1>4. ASSUME Sleep(p, 1)
      PROVE  [Queue!Next]_Queue!vars
  BY <1>1, <1>2, <1>4 DEF Sleep
<1>5. ASSUME Pause(p)
      PROVE  [Queue!Next]_Queue!vars
  BY <1>1, <1>2, <1>5 DEF Pause
<1>6. ASSUME NEW mask \in BOOLEAN, Sigsuspend(p, mask)
      PROVE  [Queue!Next]_Queue!vars
  <2>1. PICK r : r = [Idle EXCEPT !.pc = "call", !.call = "suspend",
                                  !.target = NoLimit, !.oldmask = p_sigmask[p]]
    OBVIOUS
  <2>2. proc' = [proc EXCEPT ![p] = r] /\ UNCHANGED <<ring, port>>
    BY <1>6, <2>1, UserIdle DEF Sigsuspend
  <2>3. r.taken = <<>> /\ r.call # "flush"
    BY <2>1 DEF Idle
  <2> QED
    BY <2>2, <2>3, OneStep
<1>7. ASSUME Exception(p)
      PROVE  [Queue!Next]_Queue!vars
  BY <1>7, ReturnsStep DEF Exception
<1>8. ASSUME NEW mask \in BOOLEAN, Sigprocmask(p, mask)
      PROVE  [Queue!Next]_Queue!vars
  BY <1>8, ReturnsStep DEF Sigprocmask
<1> QED
  BY <1>3, <1>4, <1>5, <1>6, <1>7, <1>8 DEF Waiting

LEMMA ConreadRefines ==
  ASSUME IInv, IInv', NEW p \in Proc, Conread(p)
  PROVE  [Queue!Next]_Queue!vars
<1>1. PICK c \in Char :
        /\ KbdGetc(c)
        /\ \E r : /\ Reads(r, proc[p], c)
                  /\ \/ /\ proc' = [proc EXCEPT ![p] = r]
                        /\ UNCHANGED sigs
                     \/ /\ r.pc = "read"
                        /\ Pgsignal(Members(p), [proc EXCEPT ![p] = r])
                        /\ UNCHANGED p_sigmask
  BY ConreadStep
<1>2. PICK r : /\ Reads(r, proc[p], c)
               /\ \/ /\ proc' = [proc EXCEPT ![p] = r]
                     /\ UNCHANGED sigs
                  \/ /\ r.pc = "read"
                     /\ Pgsignal(Members(p), [proc EXCEPT ![p] = r])
                     /\ UNCHANGED p_sigmask
  BY <1>1
<1>3. PICK procs : procs = [proc EXCEPT ![p] = r]
  OBVIOUS
<1>4. \A q \in Proc : procs[q] = IF q = p THEN r ELSE proc[q]
  BY <1>3 DEF IInv, ProcsOK
<1>5. \A q \in Proc : procs[q] \in ProcRecs
  BY <1>2, <1>4 DEF IInv, ProcsOK, Reads, Sound
<1>6. \A q \in Proc : proc'[q].taken = procs[q].taken /\ proc'[q].call = procs[q].call
  <2>1. CASE proc' = procs
    BY <2>1
  <2>2. CASE Pgsignal(Members(p), procs)
    <3>1. ASSUME NEW q \in Proc
          PROVE  proc'[q] = procs[q] \/ proc'[q] = [procs[q] EXCEPT !.pc = "woken"]
      BY <2>2 DEF Pgsignal
    <3> QED
      BY <1>5, <3>1 DEF ProcRecs
  <2> QED
    BY <1>2, <1>3, <2>1, <2>2
<1>7. /\ Same(Proc \ {p}) /\ proc'[p].taken = Append(proc[p].taken, c)
      /\ proc'[p].call # "flush" /\ proc[p].call # "flush"
  <2>1. proc[p].call # "flush"
    BY DEF IInv, ProcsOK, Sound, Conread
  <2> QED
    BY <1>2, <1>4, <1>6, <2>1 DEF Same, Reads
<1>8. TakenBy' = [TakenBy EXCEPT ![p] = Append(@, c)] /\ Flushing' = Flushing
  BY <1>7, TakeOne
<1>9. Keyed' = Keyed
  BY DEF Conread, Keyed, CharOf
<1>10. CASE /\ Contents # <<>> /\ c = Head(Contents) /\ Contents' = Tail(Contents)
            /\ UNCHANGED uart
  <2>1. Arriving' = Arriving
    BY <1>9, <1>10 DEF Arriving
  <2>2. Queue!Take(p)
    BY <1>8, <1>10, <2>1 DEF Queue!Take, Arriving, Sources, TakenBy, Flushing
  <2> QED
    BY <2>2 DEF Queue!Next
<1>11. CASE /\ Contents = <<>> /\ Contents' = <<>>
            /\ uart # <<>> /\ c = Head(uart) /\ uart' = Tail(uart)
  <2>1. PICK s \in Sources : s = "serial"
    BY DEF Sources
  <2>2. Arriving[s] = uart /\ Arriving' = [Arriving EXCEPT ![s] = Tail(@)]
    BY <1>9, <1>11, <2>1 DEF Arriving, Sources
  <2>3. Queue!HandOver(s)
    BY <1>11, <2>2 DEF Queue!HandOver, Arriving, Sources
  <2>4. Queue!TakeArriving(p, s)
    BY <1>8, <1>11, <2>2, <2>3
    DEF Queue!TakeArriving, Arriving, Sources, TakenBy, Flushing
  <2> QED
    BY <2>4 DEF Queue!Next, Sources
<1> QED
  BY <1>1, <1>10, <1>11, GetStep DEF IInv

LEMMA KernelRefines ==
  ASSUME IInv, IInv', NEW p \in Proc, Kernel(p)
  PROVE  [Queue!Next]_Queue!vars
<1>0. "asleep" \in Pcs /\ "call" \in Pcs
  BY DEF Pcs
<1>1. CASE Look(p)
  BY <1>0, <1>1, ReturnsStep, PcStep DEF Look
<1>2. CASE Wake(p)
  BY <1>0, <1>2, ReturnsStep, PcStep DEF Wake
<1>3. CASE Preempt(p)
  <2>1. PICK r : r = [Idle EXCEPT !.pc = "preempted"]
    OBVIOUS
  <2>2. r.taken = <<>> /\ r.call # "flush"
    BY <2>1 DEF Idle
  <2> QED
    BY <1>3, <2>1, <2>2, OneStep DEF Preempt
<1>4. CASE Userret(p)
  <2>1. CASE proc' = [proc EXCEPT ![p] = Idle]
    <3>1. Idle.taken = <<>> /\ Idle.call # "flush"
      BY DEF Idle
    <3> QED
      BY <1>4, <2>1, <3>1, OneStep DEF Userret
  <2>2. CASE Exit(p)
    <3>1. Contents' = Contents /\ UNCHANGED port
      BY <1>4 DEF Userret, Contents, Pending, ring
    <3>2. proc'[p] = [Idle EXCEPT !.pc = "dead"]
      BY <2>2 DEF Exit
    <3>3. proc'[p].taken = <<>> /\ proc'[p].call # "flush"
      BY <3>2 DEF Idle
    <3>4. \A q \in Proc \ {p} :
            proc'[q] = proc[q] \/ proc'[q] = [proc[q] EXCEPT !.pc = "woken"]
      BY <2>2 DEF Exit
    <3>5. \A q \in Proc : proc[q] \in ProcRecs
      BY DEF IInv, ProcsOK, Sound
    <3>6. Same(Proc \ {p})
      BY <3>4, <3>5 DEF Same, ProcRecs
    <3> QED
      BY <3>1, <3>3, <3>6, QuietStep DEF Ends
  <2> QED
    BY <1>4, <2>1, <2>2 DEF Userret
<1>5. CASE Swtch(p)
  <2>1. Same(Proc)
    BY <1>5 DEF Swtch, Same
  <2> QED
    BY <1>5, <2>1, SameStep DEF Swtch
<1> QED
  BY <1>1, <1>2, <1>3, <1>4, <1>5, ConreadRefines DEF Kernel

LEMMA StepRefines == IInv /\ IInv' /\ [Next]_vars => [Queue!Next]_Queue!vars
<1> SUFFICES ASSUME IInv, IInv', [Next]_vars PROVE [Queue!Next]_Queue!vars
  OBVIOUS
<1>1. Readers \subseteq Proc /\ Waiters \subseteq Proc
  BY TerminalAssumption
<1>2. CASE UNCHANGED vars
  <2>1. Same(Proc)
    BY <1>2 DEF vars, Same
  <2> QED
    BY <1>2, <2>1, SameStep DEF vars
<1> QED
  BY <1>1, <1>2, OutsideRefines, InterruptRefines, ReadingRefines, WaitingRefines, KernelRefines
  DEF Next

LEMMA InitRefines == Init => Queue!Init
<1> SUFFICES ASSUME Init PROVE Queue!Init
  OBVIOUS
<1>1. RingOK
  BY InitInv DEF IInv
<1>2. PICK b, z : b = kbd_buffer /\ z = 0
  OBVIOUS
<1>3. b \in [Cells -> Char \cup {"stale"}] /\ z \in Cells
  BY <1>1, <1>2, Sizes DEF RingOK, Cells
<1>4. Contents = Waits(b, z, z)
  BY <1>1, <1>2, ContentsIs DEF Init
<1>5. Contents = <<>>
  BY <1>3, <1>4, NoneWaits
<1>6. \A p \in Proc : proc[p].taken = <<>> /\ proc[p].call # "flush"
  BY DEF Init, Idle
<1>7. Arriving = [s \in Sources |-> <<>>]
  BY DEF Init, Arriving, Keyed
<1> QED
  BY <1>5, <1>6, <1>7 DEF Queue!Init, Arriving, Sources

(* The console's ring, filled by the serial and the keyboard interrupt and *)
(* by the polling of conread, and emptied by conread and tcflush, is a     *)
(* queue of KBD_BUF_SIZE - 1 characters, for a ring of any size: each      *)
(* character that comes to a port enters it once, in the port's order, or  *)
(* goes to the read that finds it empty; none overtakes another, and one   *)
(* is lost only when the queue is full or is flushed.                      *)
THEOREM RingIsQueue == Spec => QueueRefined
  BY InitRefines, StepRefines, Invariance, PTL DEF Spec, QueueRefined, Queue!Spec
=============================================================================
