------------------------------ MODULE Terminal ------------------------------
(***************************************************************************)
(* The console driver (drivers/char/console.c), the calls that wait for    *)
(* input, for a time or for a signal (sys.c), the clock (clock.c) and the  *)
(* way interrupts and calls return to user mode (trap.c).                  *)
(*                                                                         *)
(* The gate of int 0x80 turns interrupts off and nothing on the way to     *)
(* these calls turns them on: interrupts come in user mode and while swtch *)
(* idles.  conread waits by polling, with the processor and interrupts     *)
(* held.  Which process swtch chooses among those that can run is left     *)
(* open.  Echo and output translation are left out: they reach no state    *)
(* that is read again.                                                     *)
(*                                                                         *)
(* A signal that comes to a sleeping process takes it out of the call by   *)
(* aretu(u.u_qsav).  The frame it returns to is in use again by then and   *)
(* the trap handler does not look at savu's result, so that where the      *)
(* process lands is not defined; Look and Wake follow the intention: the   *)
(* call is given up with EINTR.                                            *)
(***************************************************************************)
EXTENDS Integers, Sequences, FiniteSets, SequencesExt

CONSTANTS
  NPROC,          (* number of processes                                   *)
  KBD_BUF_SIZE,   (* cells of the ring                                     *)
  FIFO,           (* characters that the serial port holds                 *)
  HZ,             (* clock interrupts in a second                          *)
  TimeWord,       (* values of a word of the time: 2^32                    *)
  Settings,       (* bound: the terminal settings that programs use        *)
  Typed,          (* bound: the characters that come over the serial line  *)
  Keys,           (* the keys that stand for a character, with kbd_us and  *)
  KbdUs,          (* kbd_us_shift, the characters they stand for           *)
  KbdUsShift,
  Codes,          (* bound: the codes that the keyboard sends: Keys,       *)
                  (* "shift", "unshift" and others, which are ignored      *)
  Groups,         (* bound: the groups that TIOCSPGRP sets                 *)
  Pgrp,           (* the process group of each process; 0 is none          *)
  Readers,        (* bound: the processes that read and set the terminal   *)
  Waiters,        (* bound: the processes that make the calls that wait    *)
                  (* and meet exceptions                                   *)
  MaxInput,       (* bound: characters and key codes in a behaviour        *)
  MaxHigh,        (* bound: the high word of the time                      *)
  MaxCount        (* bound: bytes that a read asks for                     *)

Proc == 1..NPROC

(* "high" is a byte of 0x80 or more.                                       *)
Char == {"x", "nl", "cr", "erase", "kill", "eof", "intr", "quit", "high"}

ASSUME TerminalAssumption ==
  /\ NPROC \in Nat \ {0} /\ KBD_BUF_SIZE \in Nat \ {0, 1}
  /\ FIFO \in Nat \ {0} /\ HZ \in Nat \ {0} /\ TimeWord \in Nat \ {0}
  /\ Settings \subseteq [canon : BOOLEAN, isig : BOOLEAN,
                         cr : {"icrnl", "igncr", "inlcr", "as is"}]
  /\ Readers \subseteq Proc /\ Waiters \subseteq Proc
  /\ Typed \subseteq Char /\ Pgrp \in [Proc -> Nat]
  /\ Groups \subseteq Nat \ {0}
  /\ Keys \cap {"shift", "unshift"} = {}
  /\ KbdUs \in [Keys -> Char \ {"high"}]
  /\ KbdUsShift \in [Keys -> Char \ {"high"}]
  /\ MaxInput \in Nat /\ MaxHigh \in Nat /\ MaxCount \in Nat \ {0}

VARIABLES
  kbd_buffer,     (* a cell that holds no unread character is "stale"      *)
  kbd_read_ptr, kbd_write_ptr,
  uart,           (* characters received and not yet read from the port    *)
  scan,           (* the code at the keyboard's port, <<>> if none         *)
  shift_state,
  con_termios,
  t_pgid,         (* the terminal's process group; 0 if none was set       *)
  time,           (* time[0] (hi) and time[1] (lo), and lbolt              *)
  cur,            (* the process that has the processor, or had it when it *)
                  (* slept; 0 in swtch after an exit or a preemption       *)
  proc,           (* what each process is doing                            *)
  p_sig,          (* whether a signal is pending                           *)
  p_sigmask,      (* whether it is masked                                  *)
  input           (* bound: characters and key codes so far                *)

ring == <<kbd_buffer, kbd_read_ptr, kbd_write_ptr>>
port == <<uart, scan, shift_state, input>>
sigs == <<p_sig, p_sigmask>>
vars == <<ring, port, con_termios, t_pgid, time, cur, proc, sigs>>

(* pc: "user"; "read" in conread; "call" in a call that waits, "asleep"    *)
(* and "woken" in its sleep; "return" and "preempted", on the way to user  *)
(* mode; "dead".                                                           *)
(* line is what a read has put in the user's buffer, taken (history) the   *)
(* characters it took from the ring for that.                              *)
Idle == [pc |-> "user", call |-> "", target |-> 0, count |-> 0, line |-> <<>>,
         oldmask |-> FALSE, taken |-> <<>>]
NoLimit == -1

Init ==
  /\ kbd_buffer = [i \in 0..KBD_BUF_SIZE - 1 |-> "stale"]
  /\ kbd_read_ptr = 0 /\ kbd_write_ptr = 0
  /\ uart = <<>> /\ scan = <<>> /\ shift_state = 0 /\ input = 0
  /\ con_termios = [canon |-> TRUE, isig |-> TRUE, cr |-> "icrnl"]
  /\ t_pgid = 0
  /\ time = [hi |-> 0, lo |-> 0, lbolt |-> 0]
  /\ cur = 0
  /\ proc = [p \in Proc |-> Idle]
  /\ p_sig = [p \in Proc |-> FALSE] /\ p_sigmask = [p \in Proc |-> FALSE]

-----------------------------------------------------------------------------
(* Mutant: the indices do not wrap around.                                 *)
SuccFlat(i) == i + 1

Succ(i) == (i + 1) % KBD_BUF_SIZE

Pending  == (kbd_write_ptr - kbd_read_ptr) % KBD_BUF_SIZE
Contents ==
  [i \in 1..Pending |-> kbd_buffer[(kbd_read_ptr + i - 1) % KBD_BUF_SIZE]]

(* Mutant: the ring counts as full while there is room for one more.       *)
KbdPutcEarly(c) ==
  \/ /\ Succ(Succ(kbd_write_ptr)) # kbd_read_ptr
     /\ kbd_buffer' = [kbd_buffer EXCEPT ![kbd_write_ptr] = c]
     /\ kbd_write_ptr' = Succ(kbd_write_ptr)
     /\ UNCHANGED kbd_read_ptr
  \/ /\ Succ(Succ(kbd_write_ptr)) = kbd_read_ptr
     /\ UNCHANGED ring

(* kbd_putc drops the character when the ring is full.  The wakeup of      *)
(* kbd_wait reaches nobody: nothing sleeps there.                          *)
KbdPutc(c) ==
  \/ /\ Succ(kbd_write_ptr) # kbd_read_ptr
     /\ kbd_buffer' = [kbd_buffer EXCEPT ![kbd_write_ptr] = c]
     /\ kbd_write_ptr' = Succ(kbd_write_ptr)
     /\ UNCHANGED kbd_read_ptr
  \/ /\ Succ(kbd_write_ptr) = kbd_read_ptr
     /\ UNCHANGED ring

(* kbd_getc takes c from the ring, or, when it is empty, moves one from    *)
(* the serial port through it.                                             *)
KbdGetc(c) ==
  \/ /\ kbd_read_ptr # kbd_write_ptr
     /\ c = kbd_buffer[kbd_read_ptr]
     /\ kbd_buffer' = [kbd_buffer EXCEPT ![kbd_read_ptr] = "stale"]
     /\ kbd_read_ptr' = Succ(kbd_read_ptr)
     /\ UNCHANGED <<kbd_write_ptr, uart>>
  \/ /\ kbd_read_ptr = kbd_write_ptr /\ uart # <<>>
     /\ c = Head(uart) /\ uart' = Tail(uart)
     /\ UNCHANGED kbd_buffer
     /\ kbd_write_ptr' = Succ(kbd_write_ptr)
     /\ kbd_read_ptr' = Succ(kbd_read_ptr)

(* It returns a char as an int, and char is signed: a high byte is         *)
(* negative, which to the caller means that there is no input.             *)
Negative(c) == c = "high"

console_has_input == kbd_read_ptr # kbd_write_ptr \/ uart # <<>>

-----------------------------------------------------------------------------
(* The world outside: a character arrives at the serial port, a key is     *)
(* pressed or released.                                                    *)
SerialArrives(c) ==
  /\ input < MaxInput /\ Len(uart) < FIFO
  /\ uart' = Append(uart, c) /\ input' = input + 1
  /\ UNCHANGED <<ring, scan, shift_state, con_termios, t_pgid, time, cur, proc,
                 sigs>>

KeyArrives(code) ==
  /\ input < MaxInput /\ scan = <<>>
  /\ scan' = <<code>> /\ input' = input + 1
  /\ UNCHANGED <<ring, uart, shift_state, con_termios, t_pgid, time, cur, proc,
                 sigs>>

-----------------------------------------------------------------------------
Runnable(p) == proc[p].pc \in {"user", "return", "preempted", "woken"}

(* An interrupt is taken in user mode, and the process then returns like   *)
(* one that made a call; between sleep's spl0 and swtch; or in swtch when  *)
(* it idles because nothing can run.                                       *)
Interrupt ==
  \/ /\ cur # 0 /\ proc[cur].pc = "user"
     /\ proc' = [proc EXCEPT ![cur].pc = "return"]
  \/ /\ cur # 0 /\ proc[cur].pc = "asleep"
     /\ UNCHANGED proc
  \/ /\ cur = 0 /\ \A p \in Proc : ~Runnable(p)
     /\ UNCHANGED proc

serial_intr ==
  /\ Interrupt
  /\ uart # <<>> /\ uart' = Tail(uart)
  /\ KbdPutc(Head(uart))
  /\ UNCHANGED <<scan, shift_state, input, con_termios, t_pgid, time, cur, sigs>>

CharOf(code) == IF shift_state = 1 THEN KbdUsShift[code] ELSE KbdUs[code]

(* Shift keys only change shift_state; the release of another key and a    *)
(* key without a character are ignored.                                    *)
kbd_intr ==
  /\ Interrupt
  /\ scan # <<>> /\ scan' = <<>>
  /\ LET code == Head(scan)
     IN \/ /\ code \notin Keys
           /\ shift_state' = CASE code = "shift"   -> 1
                               [] code = "unshift" -> 0
                               [] OTHER            -> shift_state
           /\ UNCHANGED ring
        \/ /\ code \in Keys
           /\ KbdPutc(CharOf(code))
           /\ UNCHANGED shift_state
  /\ UNCHANGED <<uart, input, con_termios, t_pgid, time, cur, sigs>>

(* clock: lbolt counts the interrupts of a second; time[1] carries into    *)
(* time[0].  Nobody sleeps on the addresses it wakes, and the callout      *)
(* table stays empty, for nothing calls timeout.                           *)
clock ==
  /\ Interrupt
  /\ LET second == time.lbolt + 1 >= HZ
         lo     == (time.lo + 1) % TimeWord
     IN /\ time.hi = MaxHigh /\ second => lo # 0
        /\ time' = IF ~second THEN [time EXCEPT !.lbolt = @ + 1]
                   ELSE [hi |-> IF lo = 0 THEN time.hi + 1 ELSE time.hi,
                         lo |-> lo, lbolt |-> 0]
  /\ UNCHANGED <<ring, port, con_termios, t_pgid, cur, sigs>>

-----------------------------------------------------------------------------
Issig(p) == p_sig[p] /\ ~p_sigmask[p]

(* exit wakes the parent, process 1, which may sleep on its own slot.      *)
Exit(p) ==
  /\ proc' = [q \in Proc |->
       IF q = p THEN [Idle EXCEPT !.pc = "dead"]
       ELSE IF q = 1 /\ proc[q].pc = "asleep" THEN [proc[q] EXCEPT !.pc = "woken"]
       ELSE proc[q]]
  /\ cur' = 0

(* The end of trap: swtch, once, if runrun is set;                         *)
Preempt(p) ==
  /\ cur = p /\ proc[p].pc = "return"
  /\ proc' = [proc EXCEPT ![p] = [Idle EXCEPT !.pc = "preempted"]]
  /\ cur' = 0
  /\ UNCHANGED <<ring, port, con_termios, t_pgid, time, sigs>>

(* then psig for a signal that is neither masked nor ignored, which runs a *)
(* handler or exits.                                                       *)
Userret(p) ==
  /\ cur = p /\ proc[p].pc \in {"return", "preempted"}
  /\ \/ /\ ~Issig(p)
        /\ proc' = [proc EXCEPT ![p] = Idle]
        /\ UNCHANGED <<cur, sigs>>
     \/ /\ Issig(p)
        /\ p_sig' = [p_sig EXCEPT ![p] = FALSE]
        /\ \/ proc' = [proc EXCEPT ![p] = Idle] /\ UNCHANGED cur
           \/ Exit(p)
        /\ UNCHANGED p_sigmask
  /\ UNCHANGED <<ring, port, con_termios, t_pgid, time>>

(* swtch finds a process to run.                                           *)
Swtch(p) ==
  /\ cur # 0 => proc[cur].pc = "asleep"
  /\ Runnable(p)
  /\ cur' = p
  /\ UNCHANGED <<ring, port, con_termios, t_pgid, time, proc, sigs>>

-----------------------------------------------------------------------------
User(p)    == cur = p /\ proc[p].pc = "user"
Returns(p) == proc' = [proc EXCEPT ![p] = [Idle EXCEPT !.pc = "return"]]

(* The program divides by zero, touches memory that is not its own or the  *)
(* like: trap sends the process the signal for it.  In the kernel these    *)
(* exceptions are a panic.                                                 *)
Exception(p) ==
  /\ User(p)
  /\ p_sig' = [p_sig EXCEPT ![p] = TRUE] /\ Returns(p)
  /\ UNCHANGED <<ring, port, con_termios, t_pgid, time, cur, p_sigmask>>

(* read(0, buf, n); with FNONBLOCK only if there is input.                 *)
Read(p, n) ==
  /\ User(p)
  /\ proc' = [proc EXCEPT ![p].pc = "read", ![p].count = n]
  /\ UNCHANGED <<ring, port, con_termios, t_pgid, time, cur, sigs>>

(* pgsignal(tty_get_pgid(), sig): the terminal's group or else that of the *)
(* reader.                                                                 *)
Members(p) ==
  LET g == IF t_pgid # 0 THEN t_pgid ELSE Pgrp[p]
  IN IF g = 0 THEN {} ELSE {q \in Proc : Pgrp[q] = g /\ proc[q].pc # "dead"}

Pgsignal(S, procs) ==
  /\ p_sig' = [q \in Proc |-> p_sig[q] \/ q \in S]
  /\ proc' = [q \in Proc |-> IF q \in S /\ procs[q].pc = "asleep"
                             THEN [procs[q] EXCEPT !.pc = "woken"] ELSE procs[q]]

(* The mapping of carriage return and newline.                             *)
MapCr(c) ==
  CASE con_termios.cr = "icrnl" /\ c = "cr" -> "nl"
    [] con_termios.cr = "inlcr" /\ c = "nl" -> "cr"
    [] OTHER -> c

(* Mutant: a newline does not end the line.                                *)
StoreOn(r, c) ==
  LET line == Append(r.line, c)
  IN [r EXCEPT !.line = line, !.pc =
        IF Len(line) = r.count \/ ~con_termios.canon THEN "return" ELSE "read"]

(* A character goes to the user's buffer; a newline ends a line, and any   *)
(* character ends a read in raw mode.                                      *)
Store(r, c) ==
  LET line == Append(r.line, c)
  IN [r EXCEPT !.line = line, !.pc =
        IF Len(line) = r.count \/ ~con_termios.canon \/ c = "nl"
        THEN "return" ELSE "read"]

(* subyte cannot store it: the read fails with EFAULT.                     *)
Fault(r) == [r EXCEPT !.pc = "return", !.call = "fault"]

(* The erase character takes back the last one of the line, if any.        *)
Erase(r) == IF r.line = <<>> THEN r ELSE [r EXCEPT !.line = Front(@)]

(* History: a read takes a character.                                      *)
Took(r, c) == [r EXCEPT !.taken = Append(@, c)]

(* Characters that conread passes over.  A high byte it does not even see: *)
(* kbd_getc has taken it from the ring, and conread asks again.            *)
PassedOver(c) == Negative(c) \/ (con_termios.cr = "igncr" /\ c = "cr")

(* One turn of the loop of conread: kbd_getc has a character.              *)
Conread(p) ==
  /\ cur = p /\ proc[p].pc = "read"
  /\ \E c0 \in Char :
       /\ KbdGetc(c0)
       /\ LET c      == MapCr(c0)
              canon  == con_termios.canon
              signal == con_termios.isig /\ c \in {"intr", "quit"}
              edit   == canon /\ ~signal
          IN \/ /\ PassedOver(c0)
                /\ proc' = [proc EXCEPT ![p] = Took(@, c0)]
                /\ UNCHANGED sigs
             \/ /\ signal
                /\ Pgsignal(Members(p), [proc EXCEPT ![p] = Took(@, c0)])
                /\ UNCHANGED p_sigmask
             \/ /\ edit /\ c = "erase"
                /\ proc' = [proc EXCEPT ![p] = Erase(Took(@, c0))]
                /\ UNCHANGED sigs
             \/ /\ edit /\ c = "kill"
                /\ proc' = [proc EXCEPT ![p] = [Took(@, c0) EXCEPT !.line = <<>>]]
                /\ UNCHANGED sigs
             \/ /\ edit /\ c = "eof"
                /\ proc' = [proc EXCEPT ![p] = [Took(@, c0) EXCEPT !.pc = "return"]]
                /\ UNCHANGED sigs
             \/ /\ ~PassedOver(c0) /\ ~signal
                /\ canon => c \notin {"erase", "kill", "eof"}
                /\ proc' \in {[proc EXCEPT ![p] = Store(Took(@, c0), c)],
                              [proc EXCEPT ![p] = Fault(Took(@, c0))]}
                /\ UNCHANGED sigs
  /\ UNCHANGED <<scan, shift_state, input, con_termios, t_pgid, time, cur>>

-----------------------------------------------------------------------------
(* A call that may wait: poll and select for input, with or without a      *)
(* limit; sleep and nanosleep; pause; sigsuspend, with a mask of its own.  *)
(* All limits are in units of time[0].                                     *)
Poll(p, limit) ==
  /\ User(p)
  /\ proc' = [proc EXCEPT ![p].pc = "call", ![p].call = "poll", ![p].target =
                IF limit = NoLimit THEN NoLimit ELSE time.hi + limit]
  /\ UNCHANGED <<ring, port, con_termios, t_pgid, time, cur, sigs>>

Sleep(p, sec) ==
  /\ User(p)
  /\ proc' = [proc EXCEPT ![p].pc = "call", ![p].call = "sleep",
                          ![p].target = time.hi + sec]
  /\ UNCHANGED <<ring, port, con_termios, t_pgid, time, cur, sigs>>

Pause(p) ==
  /\ User(p)
  /\ proc' = [proc EXCEPT ![p].pc = "call", ![p].call = "pause",
                          ![p].target = NoLimit]
  /\ UNCHANGED <<ring, port, con_termios, t_pgid, time, cur, sigs>>

Sigsuspend(p, mask) ==
  /\ User(p)
  /\ proc' = [proc EXCEPT ![p].pc = "call", ![p].call = "suspend",
                          ![p].target = NoLimit, ![p].oldmask = p_sigmask[p]]
  /\ p_sigmask' = [p_sigmask EXCEPT ![p] = mask]
  /\ UNCHANGED <<ring, port, con_termios, t_pgid, time, cur, p_sig>>

(* The condition that ends the loop of such a call.                        *)
Satisfied(p) ==
  \/ proc[p].call = "poll" /\ console_has_input
  \/ proc[p].target # NoLimit /\ time.hi >= proc[p].target

(* Mutant: the signals are not looked at before the process sleeps.        *)
LookBlind(p) ==
  /\ cur = p /\ proc[p].pc = "call"
  /\ \/ /\ Satisfied(p)
        /\ Returns(p)
     \/ /\ ~Satisfied(p)
        /\ proc' = [proc EXCEPT ![p].pc = "asleep"]
  /\ UNCHANGED <<ring, port, con_termios, t_pgid, time, cur, sigs>>

(* The loop tests and sleeps; a pending signal gives the call up.          *)
Look(p) ==
  /\ cur = p /\ proc[p].pc = "call"
  /\ \/ /\ Satisfied(p) \/ Issig(p)
        /\ Returns(p)
     \/ /\ ~Satisfied(p) /\ ~Issig(p)
        /\ proc' = [proc EXCEPT ![p].pc = "asleep"]
  /\ UNCHANGED <<ring, port, con_termios, t_pgid, time, cur, sigs>>

(* sleep returns.  With a signal the call is given up where it is, and     *)
(* sigsuspend does not come to restore the mask.                           *)
Wake(p) ==
  /\ cur = p /\ proc[p].pc = "woken"
  /\ \/ Issig(p) /\ Returns(p) /\ UNCHANGED p_sigmask
     \/ /\ ~Issig(p) /\ proc[p].call \in {"poll", "sleep"}
        /\ proc' = [proc EXCEPT ![p].pc = "call"] /\ UNCHANGED p_sigmask
     \/ /\ ~Issig(p) /\ proc[p].call \in {"pause", "suspend"}
        /\ Returns(p)
        /\ p_sigmask' = [p_sigmask EXCEPT ![p] =
                           IF proc[p].call = "pause" THEN @ ELSE proc[p].oldmask]
  /\ UNCHANGED <<ring, port, con_termios, t_pgid, time, cur, p_sig>>

-----------------------------------------------------------------------------
(* tcsetattr and ioctl(TCSETS).                                            *)
Tcsetattr(p, tio) ==
  /\ User(p)
  /\ con_termios' = tio /\ Returns(p)
  /\ UNCHANGED <<ring, port, t_pgid, time, cur, sigs>>

(* tcflush empties the ring, and leaves what the port holds.               *)
Tcflush(p) ==
  /\ User(p)
  /\ kbd_read_ptr' = 0 /\ kbd_write_ptr' = 0
  /\ proc' = [proc EXCEPT ![p].pc = "return", ![p].call = "flush"]
  /\ kbd_buffer' = [i \in DOMAIN kbd_buffer |-> "stale"]
  /\ UNCHANGED <<port, con_termios, t_pgid, time, cur, sigs>>

(* ioctl(TIOCSPGRP).                                                       *)
Tiocspgrp(p, g) ==
  /\ User(p)
  /\ t_pgid' = g /\ Returns(p)
  /\ UNCHANGED <<ring, port, con_termios, time, cur, sigs>>

Sigprocmask(p, mask) ==
  /\ User(p)
  /\ p_sigmask' = [p_sigmask EXCEPT ![p] = mask] /\ Returns(p)
  /\ UNCHANGED <<ring, port, con_termios, t_pgid, time, cur, p_sig>>

-----------------------------------------------------------------------------
Outside ==
  \/ \E c \in Typed : SerialArrives(c)
  \/ \E code \in Codes : KeyArrives(code)

Reading(p) ==
  \/ \E n \in 1..MaxCount : Read(p, n)
  \/ \E tio \in Settings : Tcsetattr(p, tio)
  \/ Tcflush(p)
  \/ \E g \in Groups : Tiocspgrp(p, g)

Waiting(p) ==
  \/ \E limit \in {NoLimit, 1} : Poll(p, limit)
  \/ Sleep(p, 1) \/ Pause(p) \/ Exception(p)
  \/ \E mask \in BOOLEAN : Sigsuspend(p, mask) \/ Sigprocmask(p, mask)

Kernel(p) == Conread(p) \/ Look(p) \/ Wake(p) \/ Preempt(p) \/ Userret(p) \/ Swtch(p)

Next ==
  \/ Outside \/ serial_intr \/ kbd_intr \/ clock
  \/ \E p \in Readers : Reading(p)
  \/ \E p \in Waiters : Waiting(p)
  \/ \E p \in Proc : Kernel(p)

Spec == Init /\ [][Next]_vars

(* A process in the kernel goes on, the idle loop takes what can run, and  *)
(* an interrupt that stays pending is taken when interrupts come on, the   *)
(* next time or a later one.                                               *)
LiveSpec ==
  /\ Spec
  /\ SF_vars(serial_intr) /\ SF_vars(kbd_intr)
  /\ \A p \in Proc : WF_vars(Kernel(p))

-----------------------------------------------------------------------------
(* The types of the variables; the indices stay inside the ring.           *)
TypeOK ==
  /\ kbd_buffer \in [0..KBD_BUF_SIZE - 1 -> Char \cup {"stale"}]
  /\ kbd_read_ptr \in 0..KBD_BUF_SIZE - 1
  /\ kbd_write_ptr \in 0..KBD_BUF_SIZE - 1
  /\ uart \in Seq(Char) /\ Len(uart) <= FIFO
  /\ shift_state \in 0..1
  /\ time.hi \in 0..MaxHigh /\ time.lo \in 0..TimeWord - 1
  /\ time.lbolt \in 0..HZ - 1
  /\ cur \in 0..NPROC
  /\ p_sig \in [Proc -> BOOLEAN] /\ p_sigmask \in [Proc -> BOOLEAN]
  /\ \A p \in Proc : /\ proc[p].line \in Seq(Char)
                     /\ Len(proc[p].line) <= MaxCount

(* The character of the key that waits at the keyboard's port, if any.     *)
Keyed == IF scan # <<>> /\ Head(scan) \in Keys THEN <<CharOf(Head(scan))>> ELSE <<>>

(* The ring, filled by two interrupts and by the polling of conread, and   *)
(* emptied by conread and tcflush, is a queue of KBD_BUF_SIZE - 1          *)
(* characters: what has come to the serial port or the keyboard enters it  *)
(* in the order of that port, or goes to a read that finds it empty, once; *)
(* none overtakes another, and one is lost only when the queue is full or  *)
(* is flushed.                                                             *)
Queue == INSTANCE CharQueue WITH
  arriving <- [s \in {"serial", "keyboard"} |-> IF s = "serial" THEN uart ELSE Keyed],
  queue <- Contents, taken <- [p \in Proc |-> proc[p].taken],
  flushing <- {p \in Proc : proc[p].call = "flush"},
  Capacity <- KBD_BUF_SIZE - 1, Reader <- Proc, Source <- {"serial", "keyboard"}

QueueRefined == Queue!Spec

(* What editing should leave of the characters s, said without following   *)
(* conread: an ordinary character stays unless a kill comes after it, or   *)
(* more erases than ordinary characters up to some later point.  A high    *)
(* byte is not ordinary: the console loses every one.                      *)
Ordinary(c) ==
  /\ c # "high" /\ ~(con_termios.cr = "igncr" /\ c = "cr")
  /\ con_termios.isig => c \notin {"intr", "quit"}
  /\ con_termios.canon => c \notin {"erase", "kill", "eof"}

Number(s, from, to, P(_)) == Cardinality({i \in from..to : P(s[i])})

Edited(s) ==
  LET IsErase(c) == con_termios.canon /\ c = "erase"
      Stays(i) ==
        /\ Ordinary(s[i])
        /\ con_termios.canon => \A j \in i + 1..Len(s) : s[j] # "kill"
        /\ \A j \in i + 1..Len(s) :
             Number(s, i + 1, j, IsErase) <= Number(s, i + 1, j, Ordinary)
      places == SetToSortSeq({i \in DOMAIN s : Stays(i)}, <)
  IN [j \in DOMAIN places |-> MapCr(s[places[j]])]

(* A read returns the edited input: just what is left of the characters it *)
(* took, no more bytes than it asked for, and in canonical mode never more *)
(* than one line.                                                          *)
LineEdited ==
  [][\A p \in Proc :
       proc[p].pc = "read" /\ proc'[p].pc = "return" /\ proc'[p].call # "fault" =>
         LET line == proc'[p].line
         IN /\ line = Edited(proc'[p].taken)
            /\ Len(line) <= proc[p].count
            /\ con_termios.canon =>
                 \A i \in 1..Len(line) - 1 : line[i] # "nl"]_vars

(* No signal is slept through: a process asleep in poll, select, sleep,    *)
(* nanosleep, pause or sigsuspend has no signal pending that it would take,*)
(* whether it was sent before the call, in it or between test and sleep.   *)
NoSignalMissed ==
  \A p \in Proc : proc[p].pc = "asleep" => ~Issig(p)

(* ROADMAP_TO_V0.01.md lists the keyboard among the devices that work: a   *)
(* key that is pressed is taken from the keyboard's port.                  *)
KeysTaken == scan # <<>> ~> scan = <<>>
=============================================================================
