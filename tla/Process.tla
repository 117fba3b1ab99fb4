------------------------------ MODULE Process -------------------------------
(***************************************************************************)
(* The process table: newproc (sched/slp.c), exit, sys_exit, syswait and   *)
(* sys_waitpid (sys.c), and the signals of sig.c, over sleep, wakeup,      *)
(* setrun and swtch.                                                       *)
(*                                                                         *)
(* One process has the processor; a system call runs until it sleeps or    *)
(* returns.  Slots of proc[] are numbered from 1; slot 1 is init.  proc[0] *)
(* only runs the scheduler loop and is left out.  Tracing is left out:     *)
(* ptrace always fails.                                                    *)
(***************************************************************************)
EXTENDS Integers

CONSTANTS
  NPROC,      (* slots of the process table                                *)
  MaxPid,     (* bound: no fork once mpid has come this far                *)
  Groups      (* bound: the process groups in use                          *)

ASSUME ProcessAssumption ==
  /\ NPROC \in Nat /\ NPROC >= 2
  /\ MaxPid \in Nat /\ MaxPid >= 1
  /\ Groups \subseteq 1..MaxPid

Slot == 1..NPROC
Pid  == 1..MaxPid
Any  == -1                       (* waitpid(-1) and wait                   *)

VARIABLES
  p_stat,     (* SNULL, SRUN, SWAIT or SZOMB                               *)
  p_pid, p_ppid, p_pgrp,
  p_sig,      (* pending: "none", "KIL", or "SIG" for any other signal     *)
  p_wchan,    (* slot whose address the process sleeps on, or 0            *)
  mpid,       (* the last process id given out                             *)
  curproc,    (* the slot that runs, or 0: swtch is looking for one        *)
  wantpid     (* who each process in wait waits for; 0 outside wait        *)

table == <<p_stat, p_pid, p_ppid, p_pgrp, p_sig, p_wchan>>
vars  == <<table, mpid, curproc, wantpid>>

Signals == {"none", "SIG", "KIL"}

Empty(s) == p_stat[s] = "SNULL"
Alive(s) == p_stat[s] \in {"SRUN", "SWAIT"}

(* issig() lets the process go on: no signal is pending, or one that it    *)
(* ignores or masks, which SIGKIL never is.                                *)
NotIssig(p) == p_sig[p] # "KIL"

(* The running process, in user mode.                                      *)
User(p) == curproc = p /\ NotIssig(p) /\ wantpid[p] = 0

(* The first slot with property P, as the loops over proc[] find it.       *)
First(S) == CHOOSE s \in S : \A t \in S : s <= t

Children(p) == {s \in Slot : p_ppid[s] = p_pid[p]}

(* The children that wait and waitpid look at: p_stat is not tested.       *)
Waited(p, pid) == {s \in Children(p) : pid = Any \/ p_pid[s] = pid}

-----------------------------------------------------------------------------
(* init is alone, as proc0_main leaves it.                                 *)
Init ==
  /\ p_stat = [s \in Slot |-> IF s = 1 THEN "SRUN" ELSE "SNULL"]
  /\ p_pid = [s \in Slot |-> IF s = 1 THEN 1 ELSE 0]
  /\ p_ppid = [s \in Slot |-> 0]
  /\ p_pgrp = [s \in Slot |-> 0]
  /\ p_sig = [s \in Slot |-> "none"]
  /\ p_wchan = [s \in Slot |-> 0]
  /\ mpid = 1
  /\ curproc = 1
  /\ wantpid = [s \in Slot |-> 0]

-----------------------------------------------------------------------------
(* newproc takes the first empty slot; p_pgrp and p_sig are not set.       *)
FreeSlots == {s \in Slot : Empty(s)}

Newproc(p) ==
  /\ User(p) /\ mpid < MaxPid /\ FreeSlots # {}
  /\ LET q == First(FreeSlots) IN
     /\ p_stat' = [p_stat EXCEPT ![q] = "SRUN"]
     /\ p_pid' = [p_pid EXCEPT ![q] = mpid + 1]
     /\ p_ppid' = [p_ppid EXCEPT ![q] = p_pid[p]]
  /\ mpid' = mpid + 1
  /\ UNCHANGED <<p_pgrp, p_sig, p_wchan, curproc, wantpid>>

(* newproc without core for the child: the slot is empty again but keeps   *)
(* the ids.                                                                *)
NewprocNoCore(p) ==
  /\ User(p) /\ mpid < MaxPid /\ FreeSlots # {}
  /\ LET q == First(FreeSlots) IN
     /\ p_pid' = [p_pid EXCEPT ![q] = mpid + 1]
     /\ p_ppid' = [p_ppid EXCEPT ![q] = p_pid[p]]
  /\ mpid' = mpid + 1
  /\ UNCHANGED <<p_stat, p_pgrp, p_sig, p_wchan, curproc, wantpid>>

-----------------------------------------------------------------------------
(* psignal(s, sg) for every s in S.                                        *)
Signalled(s, sg) == IF p_sig[s] = "KIL" THEN "KIL" ELSE sg

Psignal(S, sg) ==
  p_sig' = [s \in Slot |-> IF s \in S THEN Signalled(s, sg) ELSE p_sig[s]]

(* setrun of the processes in S.                                           *)
RunnableStat(S) == [s \in Slot |-> IF s \in S THEN "SRUN" ELSE p_stat[s]]

Setrun(S) == p_wchan' = [s \in Slot |-> IF s \in S THEN 0 ELSE p_wchan[s]]

Sleepers(chans) == {s \in Slot : p_wchan[s] \in chans}

(* psignal wakes a sleeping process; one that is not sleeping is left.     *)
DisturbedAll(S) == S

Disturbed(S) == {s \in S : p_stat[s] = "SWAIT"}

(* exit: a zombie, whose children (also the ones in empty slots) become    *)
(* init's; init is woken if there are any, and so is the parent.           *)
Parents(p) == {s \in Slot : p_pid[s] = p_ppid[p]}

ExitWakesInit(p) == Sleepers(IF Children(p) # {} THEN {1} ELSE {})

ExitWakes(p) ==
  Sleepers((IF Children(p) # {} THEN {1} ELSE {}) \cup
           (IF Parents(p) # {} THEN {First(Parents(p))} ELSE {}))

ExitLeavesChildren(p) ==
  /\ p_stat' = [RunnableStat(ExitWakes(p)) EXCEPT ![p] = "SZOMB"]
  /\ Setrun(ExitWakes(p))
  /\ curproc' = 0
  /\ UNCHANGED <<p_pid, p_ppid, p_pgrp, mpid, wantpid>>

Exit(p) ==
  /\ p_stat' = [RunnableStat(ExitWakes(p)) EXCEPT ![p] = "SZOMB"]
  /\ p_ppid' = [s \in Slot |-> IF s \in Children(p) THEN 1 ELSE p_ppid[s]]
  /\ Setrun(ExitWakes(p))
  /\ curproc' = 0
  /\ UNCHANGED <<p_pid, p_pgrp, mpid, wantpid>>

(* The exit system call; init's program never calls it.                    *)
Rexit(p) == User(p) /\ p # 1 /\ Exit(p) /\ UNCHANGED p_sig

(* The _exit system call also sends SIGCHLD to the parent.                 *)
SysExit(p) ==
  /\ User(p) /\ p # 1
  /\ Exit(p)
  /\ Psignal(IF Parents(p) # {} THEN {First(Parents(p))} ELSE {}, "SIG")

-----------------------------------------------------------------------------
(* wait and waitpid, one round of the loop; the process calls it, or comes *)
(* back from its sleep.                                                    *)
InWait(p, pid) ==
  /\ curproc = p /\ NotIssig(p)
  /\ wantpid[p] \in {0, pid}

Zombies(p, pid) == {s \in Waited(p, pid) : p_stat[s] = "SZOMB"}

(* The first zombie is reported and its slot emptied.                      *)
WaitReap(p, pid) ==
  /\ InWait(p, pid) /\ Zombies(p, pid) # {}
  /\ LET z == First(Zombies(p, pid)) IN
     /\ p_stat' = [p_stat EXCEPT ![z] = "SNULL"]
     /\ p_pid' = [p_pid EXCEPT ![z] = 0]
     /\ p_ppid' = [p_ppid EXCEPT ![z] = 0]
     /\ p_sig' = [p_sig EXCEPT ![z] = "none"]
  /\ wantpid' = [wantpid EXCEPT ![p] = 0]
  /\ UNCHANGED <<p_pgrp, p_wchan, mpid, curproc>>

(* waitpid has found a zombie but cannot store its status: EFAULT, and the *)
(* zombie stays for the next call.                                         *)
WaitFault(p, pid) ==
  /\ InWait(p, pid) /\ Zombies(p, pid) # {}
  /\ wantpid' = [wantpid EXCEPT ![p] = 0]
  /\ UNCHANGED <<table, mpid, curproc>>

WaitSleepNext(p, pid) ==
  /\ InWait(p, pid) /\ Waited(p, pid) # {} /\ Zombies(p, pid) = {}
  /\ p_stat' = [p_stat EXCEPT ![p] = "SWAIT"]
  /\ p_wchan' = [p_wchan EXCEPT ![p] = p + 1]
  /\ wantpid' = [wantpid EXCEPT ![p] = pid]
  /\ curproc' = 0
  /\ UNCHANGED <<p_pid, p_ppid, p_pgrp, p_sig, mpid>>

(* There are children, none a zombie: sleep on the own slot.               *)
WaitSleep(p, pid) ==
  /\ InWait(p, pid) /\ Waited(p, pid) # {} /\ Zombies(p, pid) = {}
  /\ p_stat' = [p_stat EXCEPT ![p] = "SWAIT"]
  /\ p_wchan' = [p_wchan EXCEPT ![p] = p]
  /\ wantpid' = [wantpid EXCEPT ![p] = pid]
  /\ curproc' = 0
  /\ UNCHANGED <<p_pid, p_ppid, p_pgrp, p_sig, mpid>>

(* No child: ECHILD.                                                       *)
WaitEchild(p, pid) ==
  /\ InWait(p, pid) /\ Waited(p, pid) = {}
  /\ wantpid' = [wantpid EXCEPT ![p] = 0]
  /\ UNCHANGED <<table, mpid, curproc>>

(* A signal is pending when sleep returns: the call is given up.  (Where   *)
(* aretu lands is undefined in the optimised build: this is the intention.) *)
WaitInterrupted(p) ==
  /\ curproc = p /\ p_sig[p] # "none" /\ wantpid[p] # 0
  /\ wantpid' = [wantpid EXCEPT ![p] = 0]
  /\ UNCHANGED <<table, mpid, curproc>>

-----------------------------------------------------------------------------
(* psignal for the slots in S: the signal, and setrun if asleep.           *)
Deliver(S, sg) ==
  /\ Psignal(S, sg)
  /\ p_stat' = RunnableStat(Disturbed(S))
  /\ Setrun(Disturbed(S))
  /\ UNCHANGED <<p_pid, p_ppid, p_pgrp, mpid, curproc, wantpid>>

(* kill(pid, sg); signal 0 is sent like any other.                         *)
Kill(p, pid, sg) ==
  LET S == {s \in Slot : ~Empty(s) /\ p_pid[s] = pid} IN
  User(p) /\ S # {} /\ Deliver({First(S)}, sg)

(* kill(0, sg) and kill(-1, sg): everybody else.  All processes have the   *)
(* same p_ttyp, which nothing sets.                                        *)
KillAll(p, sg) ==
  User(p) /\ Deliver({s \in Slot \ {p} : ~Empty(s)}, sg)

(* pgsignal: the interrupt key, read by the running process; empty slots   *)
(* are not skipped.                                                        *)
Pgsignal(p, g) ==
  LET S == {s \in Slot : p_pgrp[s] = g} IN
  User(p) /\ S # {} /\ Deliver(S, "SIG")

(* setpgid(p_pid[s], g), and setsid, which is setpgid(0, 0).               *)
Setpgid(p, s, g) ==
  /\ User(p) /\ ~Empty(s)
  /\ p_pgrp' = [p_pgrp EXCEPT ![s] = g]
  /\ UNCHANGED <<p_stat, p_pid, p_ppid, p_sig, p_wchan, mpid, curproc, wantpid>>

(* psig before the return to user mode: the process has a handler, or the  *)
(* default, which is to exit.                                              *)
Psig(p) ==
  /\ curproc = p /\ p_sig[p] # "none" /\ wantpid[p] = 0
  /\ p_sig' = [p_sig EXCEPT ![p] = "none"]
  /\ \/ /\ p_sig[p] # "KIL"
        /\ UNCHANGED <<p_stat, p_pid, p_ppid, p_pgrp, p_wchan, mpid, curproc, wantpid>>
     \/ Exit(p)

-----------------------------------------------------------------------------
(* swtch: at the return to user mode when runrun is set, and to take up    *)
(* the next process.                                                       *)
Preempt(p) ==
  /\ curproc = p /\ wantpid[p] = 0
  /\ curproc' = 0
  /\ UNCHANGED <<table, mpid, wantpid>>

Dispatch(p) ==
  /\ curproc = 0 /\ p_stat[p] = "SRUN"
  /\ curproc' = p
  /\ UNCHANGED <<table, mpid, wantpid>>

Wait(p, pid) ==
  WaitReap(p, pid) \/ WaitFault(p, pid) \/ WaitSleep(p, pid) \/ WaitEchild(p, pid)

Next ==
  \E p \in Slot :
    \/ Newproc(p) \/ NewprocNoCore(p)
    \/ \E s \in Slot, g \in Groups : Setpgid(p, s, g)
    \/ Rexit(p) \/ SysExit(p) \/ Psig(p)
    \/ \E pid \in Pid \cup {Any} : Wait(p, pid)
    \/ WaitInterrupted(p)
    \/ \E sg \in Signals : KillAll(p, sg) \/ \E pid \in Pid : Kill(p, pid, sg)
    \/ \E g \in Groups : Pgsignal(p, g)
    \/ Preempt(p) \/ Dispatch(p)

Spec == Init /\ [][Next]_vars

-----------------------------------------------------------------------------
TypeOK ==
  /\ p_stat \in [Slot -> {"SNULL", "SRUN", "SWAIT", "SZOMB"}]
  /\ p_pid \in [Slot -> 0..MaxPid] /\ p_ppid \in [Slot -> 0..MaxPid]
  /\ p_pgrp \in [Slot -> 0..MaxPid]
  /\ p_sig \in [Slot -> Signals]
  /\ p_wchan \in [Slot -> 0..NPROC]
  /\ mpid \in Pid /\ curproc \in 0..NPROC
  /\ wantpid \in [Slot -> (0..MaxPid) \cup {Any}]

(* The death of a child is not missed: a process asleep in wait has no     *)
(* zombie child it waits for, though children die, are adopted and signal  *)
(* between its look at the table and its sleep.                            *)
DeathNotMissed ==
  \A p \in Slot : p_stat[p] = "SWAIT" => Zombies(p, wantpid[p]) = {}

(* Every process has a parent that can wait for it: when its own parent    *)
(* exits, init takes over, as long as there is an init.                    *)
OrphansAdopted ==
  Alive(1) => \A s \in Slot \ {1} :
    ~Empty(s) => \E q \in Slot : Alive(q) /\ p_pid[q] = p_ppid[s]

(* A zombie never runs again, whoever wakes or signals its slot: its slot  *)
(* is only emptied, by a wait of its parent.                               *)
ZombieStays ==
  [][\A s \in Slot : p_stat[s] = "SZOMB" /\ p_stat'[s] # "SZOMB" =>
       /\ p_stat'[s] = "SNULL"
       /\ curproc # 0 /\ p_ppid[s] = p_pid[curproc]]_vars

(* proc.h: SNULL means "Slot is empty".  A process asleep in wait sleeps   *)
(* for a child that is really there.                                       *)
WaitsForSomebody ==
  \A p \in Slot : p_stat[p] = "SWAIT" =>
    \E s \in Waited(p, wantpid[p]) : ~Empty(s)
=============================================================================
