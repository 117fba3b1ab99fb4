---------------------------- MODULE ProcessProofs ----------------------------
(***************************************************************************)
(* Proofs about Process, for a process table of any size, any bound on the *)
(* process ids and any groups: the table keeps its types, the death of a   *)
(* child is never missed, every process has a parent that can wait for it, *)
(* and a zombie only leaves by a wait of its parent.                       *)
(***************************************************************************)
EXTENDS Process, WellFoundedInduction, TLAPS

(* Slot 1 is never emptied and is nobody's child.                          *)
InitSlot == p_pid[1] = 1 /\ p_ppid[1] = 0 /\ ~Empty(1)

(* No two slots hold the same process id, the empty slots included: exit   *)
(* and kill stop at the first slot with the id they look for.              *)
PidsUnique ==
  /\ \A s \in Slot : p_pid[s] <= mpid /\ (~Empty(s) => p_pid[s] > 0)
  /\ \A s, t \in Slot : s # t /\ p_pid[s] = p_pid[t] => p_pid[s] = 0

(* A process that sleeps does so on its own slot; p_wchan is clear in all  *)
(* others.                                                                 *)
SleepsOnSelf ==
  \A s \in Slot : p_wchan[s] = IF p_stat[s] = "SWAIT" THEN s ELSE 0

Runs == curproc # 0 => p_stat[curproc] = "SRUN"

(* The inductive invariant.                                                *)
IInv ==
  /\ TypeOK /\ InitSlot /\ PidsUnique /\ SleepsOnSelf /\ Runs
  /\ DeathNotMissed /\ OrphansAdopted

-----------------------------------------------------------------------------
(* The loops over proc[] find a slot when there is one.                    *)
LEMMA FirstIn ==
  ASSUME NEW S \in SUBSET Slot, S # {}
  PROVE  First(S) \in S
<1>1. S \subseteq Nat
  BY ProcessAssumption DEF Slot
<1> DEFINE R == {ss \in Nat \X Nat : ss[1] < ss[2]}
<1>2. \E x \in S : \A y \in S : ~(<<y, x>> \in R)
  <2>1. IsWellFoundedOn(R, Nat)
    BY NatLessThanWellFounded DEF OpToRel
  <2> QED
    BY <1>1, <2>1, WFMin
<1>3. \E x \in S : \A y \in S : x <= y
  <2>1. ASSUME NEW x \in S, NEW y \in S, ~(<<y, x>> \in R)
        PROVE  x <= y
    <3>1. x \in Nat /\ y \in Nat
      BY <1>1
    <3>2. <<y, x>> \in Nat \X Nat /\ <<y, x>>[1] = y /\ <<y, x>>[2] = x
      BY <3>1
    <3>3. ~(y < x)
      BY <2>1, <3>2
    <3> QED
      BY <3>1, <3>3
  <2> QED
    BY <1>2, <2>1
<1> QED
  BY <1>3 DEF First

(* DeathNotMissed, slot by slot.                                           *)
LEMMA NotMissed ==
  DeathNotMissed <=>
    \A p, s \in Slot :
      /\ p_stat[p] = "SWAIT" /\ p_ppid[s] = p_pid[p]
      /\ wantpid[p] = Any \/ p_pid[s] = wantpid[p]
      => p_stat[s] # "SZOMB"
<1> QED
  BY DEF DeathNotMissed, Zombies, Waited, Children

(* The parent that exit finds is the only one.                             *)
LEMMA OneParent ==
  ASSUME IInv, NEW p \in Slot, NEW s \in Slot, ~Empty(s), p_ppid[p] = p_pid[s]
  PROVE  Parents(p) # {} /\ First(Parents(p)) = s
<1>1. s \in Parents(p) /\ Parents(p) \subseteq Slot
  BY DEF Parents
<1>2. First(Parents(p)) \in Parents(p)
  BY <1>1, FirstIn
<1>3. p_pid[s] > 0 /\ p_pid \in [Slot -> 0..MaxPid]
  BY DEF IInv, PidsUnique, TypeOK
<1>4. \A t \in Parents(p) : t = s
  BY <1>3, ProcessAssumption DEF IInv, PidsUnique, Parents
<1> QED
  BY <1>1, <1>2, <1>4

LEMMA InitInv == Init => IInv
<1> SUFFICES ASSUME Init PROVE IInv
  OBVIOUS
<1> USE ProcessAssumption
<1>1. TypeOK
  BY DEF Init, TypeOK, Slot, Pid, Signals
<1>2. InitSlot /\ PidsUnique /\ SleepsOnSelf /\ Runs
  BY DEF Init, InitSlot, PidsUnique, SleepsOnSelf, Runs, Slot, Empty
<1>3. DeathNotMissed
  BY NotMissed DEF Init
<1>4. OrphansAdopted
  BY DEF Init, OrphansAdopted, Empty
<1> QED
  BY <1>1, <1>2, <1>3, <1>4 DEF IInv

-----------------------------------------------------------------------------
(* A step that leaves the states, ids and channels of the table alone.     *)
LEMMA QuietInv ==
  ASSUME IInv, UNCHANGED <<p_stat, p_pid, p_ppid, p_wchan, mpid>>,
         TypeOK',
         Runs',
         \A p \in Slot : p_stat[p] = "SWAIT" => wantpid'[p] = wantpid[p]
  PROVE  IInv'
<1>1. InitSlot' /\ PidsUnique' /\ SleepsOnSelf'
  BY DEF IInv, InitSlot, PidsUnique, SleepsOnSelf, Empty
<1>2. DeathNotMissed'
  BY DEF IInv, DeathNotMissed, Zombies, Waited, Children
<1>3. OrphansAdopted'
  BY DEF IInv, OrphansAdopted, Alive, Empty
<1> QED
  BY <1>1, <1>2, <1>3 DEF IInv

(* Processes asleep are set running; nothing else happens to the states.   *)
LEMMA DeliverInv ==
  ASSUME IInv, NEW S \in SUBSET Slot, NEW sg \in Signals, Deliver(S, sg)
  PROVE  IInv'
<1>1. /\ p_stat' = [s \in Slot |-> IF s \in S /\ p_stat[s] = "SWAIT" THEN "SRUN"
                                                                      ELSE p_stat[s]]
      /\ p_wchan' = [s \in Slot |-> IF s \in S /\ p_stat[s] = "SWAIT" THEN 0
                                                                       ELSE p_wchan[s]]
      /\ p_sig' \in [Slot -> Signals]
      /\ UNCHANGED <<p_pid, p_ppid, p_pgrp, mpid, curproc, wantpid>>
  BY DEF Deliver, Psignal, Signalled, RunnableStat, Setrun, Disturbed,
         IInv, TypeOK, Signals
<1>2. TypeOK'
  BY <1>1, ProcessAssumption DEF IInv, TypeOK
<1>3. InitSlot' /\ PidsUnique' /\ Runs'
  BY <1>1, ProcessAssumption DEF IInv, TypeOK, InitSlot, PidsUnique, Runs, Empty, Slot
<1>4. SleepsOnSelf'
  BY <1>1 DEF IInv, SleepsOnSelf
<1>5. DeathNotMissed'
  BY <1>1 DEF IInv, DeathNotMissed, Zombies, Waited, Children
<1>6. OrphansAdopted'
  <2>1. \A s \in Slot : (Alive(s)' <=> Alive(s)) /\ (Empty(s)' <=> Empty(s))
    BY <1>1 DEF Alive, Empty
  <2>2. 1 \in Slot
    BY ProcessAssumption DEF Slot
  <2> QED
    BY <1>1, <2>1, <2>2 DEF IInv, OrphansAdopted
<1> QED
  BY <1>2, <1>3, <1>4, <1>5, <1>6 DEF IInv

(* Whom exit wakes: only sleepers, the parent among them, and init if it   *)
(* inherits children.                                                      *)
LEMMA ExitWakesRight ==
  ASSUME IInv, NEW p \in Slot
  PROVE  /\ \A s \in ExitWakes(p) : s \in Slot /\ p_stat[s] = "SWAIT"
         /\ Children(p) # {} /\ p_stat[1] = "SWAIT" => 1 \in ExitWakes(p)
         /\ \A s \in Slot : p_stat[s] = "SWAIT" /\ p_ppid[p] = p_pid[s]
                              => s \in ExitWakes(p)
<1> DEFINE C == (IF Children(p) # {} THEN {1} ELSE {}) \cup
                (IF Parents(p) # {} THEN {First(Parents(p))} ELSE {})
<1>1. ExitWakes(p) = {s \in Slot : p_wchan[s] \in C}
  BY DEF ExitWakes, Sleepers
<1>2. 1 \in Slot /\ 0 \notin Slot
  BY ProcessAssumption DEF Slot
<1>3. 0 \notin C
  <2>1. Parents(p) \subseteq Slot
    BY DEF Parents
  <2> QED
    BY <1>2, <2>1, FirstIn
<1>4. Children(p) # {} => 1 \in C
  OBVIOUS
<1>5. ASSUME NEW s \in Slot, p_stat[s] = "SWAIT", p_ppid[p] = p_pid[s]
      PROVE  s \in C
  BY <1>5, OneParent DEF Empty
<1> HIDE DEF C
<1>6. \A s \in ExitWakes(p) : s \in Slot /\ p_stat[s] = "SWAIT"
  BY <1>1, <1>3 DEF IInv, SleepsOnSelf
<1>7. Children(p) # {} /\ p_stat[1] = "SWAIT" => 1 \in ExitWakes(p)
  BY <1>1, <1>2, <1>4 DEF IInv, SleepsOnSelf
<1>8. \A s \in Slot : p_stat[s] = "SWAIT" /\ p_ppid[p] = p_pid[s] => s \in ExitWakes(p)
  BY <1>1, <1>5 DEF IInv, SleepsOnSelf
<1> QED
  BY <1>6, <1>7, <1>8

(* exit: the parent is woken for the dead process, and init for the dead   *)
(* ones among its children.                                                *)
LEMMA ExitInv ==
  ASSUME IInv, NEW p \in Slot, curproc = p, Exit(p), p_sig' \in [Slot -> Signals]
  PROVE  IInv'
<1> DEFINE W == ExitWakes(p)
<1>1. /\ \A s \in W : s \in Slot /\ p_stat[s] = "SWAIT"
      /\ Children(p) # {} /\ p_stat[1] = "SWAIT" => 1 \in W
      /\ \A s \in Slot : p_stat[s] = "SWAIT" /\ p_ppid[p] = p_pid[s] => s \in W
  BY ExitWakesRight
<1>2. 1 \in Slot /\ 0 \notin Slot
  BY ProcessAssumption DEF Slot
<1>3. p_stat[p] = "SRUN" /\ p \notin W
  BY <1>1, <1>2 DEF IInv, Runs
<1>4. /\ p_stat' = [s \in Slot |-> IF s = p THEN "SZOMB"
                                    ELSE IF s \in W THEN "SRUN" ELSE p_stat[s]]
      /\ p_ppid' = [s \in Slot |-> IF p_ppid[s] = p_pid[p] THEN 1 ELSE p_ppid[s]]
      /\ p_wchan' = [s \in Slot |-> IF s \in W THEN 0 ELSE p_wchan[s]]
      /\ curproc' = 0
      /\ UNCHANGED <<p_pid, p_pgrp, mpid, wantpid>>
  BY DEF Exit, RunnableStat, Setrun, Children
<1> HIDE DEF W
<1>5. TypeOK'
  BY <1>4, ProcessAssumption DEF IInv, TypeOK
<1>6. p_pid[p] > 0 /\ \A s \in Slot : p_pid[s] \in Nat /\ p_ppid[s] \in Nat
  BY <1>3, ProcessAssumption DEF IInv, PidsUnique, Empty, TypeOK
<1>7. InitSlot' /\ Runs'
  BY <1>2, <1>4, <1>6 DEF IInv, InitSlot, Runs, Empty
<1>8. PidsUnique'
  BY <1>1, <1>3, <1>4 DEF IInv, PidsUnique, Empty
<1>9. SleepsOnSelf'
  BY <1>1, <1>3, <1>4 DEF IInv, SleepsOnSelf
<1>10. DeathNotMissed'
  <2> SUFFICES ASSUME NEW q \in Slot, NEW s \in Slot,
                      p_stat'[q] = "SWAIT", p_ppid'[s] = p_pid'[q],
                      wantpid'[q] = Any \/ p_pid'[s] = wantpid'[q],
                      p_stat'[s] = "SZOMB"
               PROVE  FALSE
    BY DEF DeathNotMissed, Zombies, Waited, Children
  <2>1. q \notin W /\ q # p /\ p_stat[q] = "SWAIT" /\ p_pid[q] > 0
    BY <1>1, <1>4 DEF IInv, PidsUnique, Empty
  <2>2. CASE p_ppid[s] = p_pid[p]
    <3>1. p_pid[q] = 1 /\ Children(p) # {}
      BY <1>4, <2>2 DEF Children
    <3>2. q = 1
      BY <3>1, <1>2 DEF IInv, InitSlot, PidsUnique
    <3> QED
      BY <3>1, <3>2, <2>1, <1>1
  <2>3. CASE p_ppid[s] # p_pid[p]
    <3>1. p_ppid[s] = p_pid[q]
      BY <1>4, <2>3
    <3>2. s # p
      BY <3>1, <2>1, <1>1
    <3>3. p_stat[s] = "SZOMB"
      BY <1>4, <3>2
    <3> QED
      BY <1>4, <2>1, <3>1, <3>3, NotMissed DEF IInv
  <2> QED
    BY <2>2, <2>3
<1>11. OrphansAdopted'
  <2> SUFFICES ASSUME Alive(1)', NEW s \in Slot \ {1}, ~Empty(s)'
               PROVE  \E q \in Slot : Alive(q)' /\ p_pid'[q] = p_ppid'[s]
    BY DEF OrphansAdopted
  <2>1. p # 1 /\ Alive(1) /\ ~Empty(s)
    BY <1>1, <1>2, <1>3, <1>4 DEF Alive, Empty
  <2>2. CASE p_ppid[s] = p_pid[p]
    BY <1>2, <1>4, <2>2 DEF IInv, InitSlot
  <2>3. CASE p_ppid[s] # p_pid[p]
    <3>1. PICK q \in Slot : Alive(q) /\ p_pid[q] = p_ppid[s]
      BY <2>1 DEF IInv, OrphansAdopted
    <3>2. q # p
      BY <3>1, <2>3
    <3> QED
      BY <1>4, <2>3, <3>1, <3>2 DEF Alive
  <2> QED
    BY <2>2, <2>3
<1> QED
  BY <1>5, <1>7, <1>8, <1>9, <1>10, <1>11 DEF IInv

-----------------------------------------------------------------------------
(* newproc, whether it finds core for the child (st is SRUN) or not.       *)
LEMMA NewprocInv ==
  ASSUME IInv, NEW p \in Slot, Newproc(p) \/ NewprocNoCore(p)
  PROVE  IInv'
<1> DEFINE q == First(FreeSlots)
<1>1. /\ curproc = p /\ mpid < MaxPid /\ q \in Slot /\ p_stat[q] = "SNULL"
  BY FirstIn DEF Newproc, NewprocNoCore, User, FreeSlots, Empty
<1>2. PICK st \in {"SRUN", "SNULL"} : p_stat' = [p_stat EXCEPT ![q] = st]
  <2>1. CASE Newproc(p)
    BY <2>1 DEF Newproc
  <2>2. CASE NewprocNoCore(p)
    <3>1. p_stat' = p_stat
      BY <2>2 DEF NewprocNoCore
    <3>2. p_stat = [p_stat EXCEPT ![q] = "SNULL"]
      BY <1>1 DEF IInv, TypeOK
    <3> QED
      BY <3>1, <3>2
  <2> QED
    BY <2>1, <2>2
<1>3. /\ p_pid' = [p_pid EXCEPT ![q] = mpid + 1]
      /\ p_ppid' = [p_ppid EXCEPT ![q] = p_pid[p]]
      /\ mpid' = mpid + 1
      /\ UNCHANGED <<p_pgrp, p_sig, p_wchan, curproc, wantpid>>
  BY DEF Newproc, NewprocNoCore
<1> HIDE DEF q
<1>4. mpid \in Nat /\ mpid + 1 \in 1..MaxPid /\ 1 \in Slot /\ 0 \notin Slot
  BY <1>1, ProcessAssumption DEF IInv, TypeOK, Pid, Slot
<1>5. /\ p_stat[p] = "SRUN" /\ p # q /\ q # 1
      /\ p_stat'[q] = st /\ p_pid'[q] = mpid + 1 /\ p_ppid'[q] = p_pid[p]
      /\ \A s \in Slot : s # q => p_stat'[s] = p_stat[s] /\ p_pid'[s] = p_pid[s]
                                  /\ p_ppid'[s] = p_ppid[s]
  BY <1>1, <1>2, <1>3, <1>4 DEF IInv, TypeOK, Runs, InitSlot, Empty
<1>6. TypeOK'
  BY <1>1, <1>2, <1>3, <1>4, ProcessAssumption DEF IInv, TypeOK, Pid
<1>7. InitSlot' /\ Runs'
  BY <1>1, <1>3, <1>4, <1>5 DEF IInv, InitSlot, Runs, Empty
<1>8. PidsUnique'
  <2>1. \A s \in Slot : p_pid[s] \in Nat /\ p_pid[s] < mpid + 1
    BY <1>4, ProcessAssumption DEF IInv, TypeOK, PidsUnique
  <2>2. \A s \in Slot : p_pid'[s] <= mpid' /\ (~Empty(s)' => p_pid'[s] > 0)
    BY <1>3, <1>4, <1>5, <2>1 DEF IInv, PidsUnique, Empty
  <2>3. \A s, t \in Slot : s # t /\ p_pid'[s] = p_pid'[t] => p_pid'[s] = 0
    BY <1>4, <1>5, <2>1 DEF IInv, PidsUnique
  <2> QED
    BY <2>2, <2>3 DEF PidsUnique
<1>9. SleepsOnSelf'
  BY <1>1, <1>3, <1>5 DEF IInv, SleepsOnSelf
<1>10. DeathNotMissed'
  BY <1>1, <1>3, <1>5 DEF IInv, DeathNotMissed, Zombies, Waited, Children
<1>11. OrphansAdopted'
  <2> SUFFICES ASSUME Alive(1)', NEW s \in Slot \ {1}, ~Empty(s)'
               PROVE  \E r \in Slot : Alive(r)' /\ p_pid'[r] = p_ppid'[s]
    BY DEF OrphansAdopted
  <2>1. CASE s = q
    BY <1>5, <2>1 DEF Alive
  <2>2. CASE s # q
    <3>1. Alive(1) /\ ~Empty(s)
      BY <1>4, <1>5, <2>2 DEF Alive, Empty
    <3>2. PICK r \in Slot : Alive(r) /\ p_pid[r] = p_ppid[s]
      BY <3>1 DEF IInv, OrphansAdopted
    <3>3. r # q
      BY <1>1, <3>2 DEF Alive
    <3> QED
      BY <1>5, <2>2, <3>2, <3>3 DEF Alive
  <2> QED
    BY <2>1, <2>2
<1> QED
  BY <1>6, <1>7, <1>8, <1>9, <1>10, <1>11 DEF IInv

(* wait frees the slot of a zombie.                                        *)
LEMMA WaitReapInv ==
  ASSUME IInv, NEW p \in Slot, NEW pid, WaitReap(p, pid)
  PROVE  /\ IInv'
         /\ \A s \in Slot : p_stat[s] = "SZOMB" /\ p_stat'[s] # "SZOMB" =>
              /\ p_stat'[s] = "SNULL"
              /\ curproc # 0 /\ p_ppid[s] = p_pid[curproc]
<1> DEFINE z == First(Zombies(p, pid))
<1>1. z \in Zombies(p, pid)
  <2>1. Zombies(p, pid) \subseteq Slot /\ Zombies(p, pid) # {}
    BY DEF WaitReap, Zombies, Waited, Children
  <2> QED
    BY <2>1, FirstIn
<1>2. /\ z \in Slot /\ p_stat[z] = "SZOMB" /\ p_ppid[z] = p_pid[p] /\ curproc = p
  BY <1>1 DEF Zombies, Waited, Children, WaitReap, InWait
<1>3. /\ p_stat' = [p_stat EXCEPT ![z] = "SNULL"]
      /\ p_pid' = [p_pid EXCEPT ![z] = 0]
      /\ p_ppid' = [p_ppid EXCEPT ![z] = 0]
      /\ p_sig' = [p_sig EXCEPT ![z] = "none"]
      /\ wantpid' = [wantpid EXCEPT ![p] = 0]
      /\ UNCHANGED <<p_pgrp, p_wchan, mpid, curproc>>
  BY DEF WaitReap
<1> HIDE DEF z
<1>4. 1 \in Slot /\ 0 \notin Slot /\ p_stat[p] = "SRUN"
  BY <1>2, ProcessAssumption DEF Slot, IInv, Runs
<1>5. /\ z # p /\ p_pid[p] > 0 /\ p_pid[p] \in Nat
      /\ p_stat'[z] = "SNULL" /\ p_pid'[z] = 0 /\ p_ppid'[z] = 0
      /\ \A s \in Slot : s # z => p_stat'[s] = p_stat[s] /\ p_pid'[s] = p_pid[s]
                                  /\ p_ppid'[s] = p_ppid[s]
      /\ \A s \in Slot : s # p => wantpid'[s] = wantpid[s]
  BY <1>2, <1>3, <1>4, ProcessAssumption DEF IInv, TypeOK, PidsUnique, Empty
<1>6. z # 1
  BY <1>2, <1>5 DEF IInv, InitSlot
<1>7. TypeOK'
  BY <1>2, <1>3, ProcessAssumption DEF IInv, TypeOK, Signals
<1>8. InitSlot' /\ Runs'
  BY <1>2, <1>3, <1>4, <1>5, <1>6 DEF IInv, InitSlot, Runs, Empty
<1>9. PidsUnique'
  <2>1. mpid \in Nat
    BY ProcessAssumption DEF IInv, TypeOK, Pid
  <2> QED
    BY <1>3, <1>5, <2>1 DEF IInv, PidsUnique, Empty
<1>10. SleepsOnSelf'
  BY <1>2, <1>3, <1>5 DEF IInv, SleepsOnSelf
<1>11. DeathNotMissed'
  BY <1>4, <1>5 DEF IInv, DeathNotMissed, Zombies, Waited, Children
<1>12. OrphansAdopted'
  <2> SUFFICES ASSUME Alive(1)', NEW s \in Slot \ {1}, ~Empty(s)'
               PROVE  \E r \in Slot : Alive(r)' /\ p_pid'[r] = p_ppid'[s]
    BY DEF OrphansAdopted
  <2>1. s # z /\ Alive(1) /\ ~Empty(s)
    BY <1>4, <1>5, <1>6 DEF Alive, Empty
  <2>2. PICK r \in Slot : Alive(r) /\ p_pid[r] = p_ppid[s]
    BY <2>1 DEF IInv, OrphansAdopted
  <2>3. r # z
    BY <1>2, <2>2 DEF Alive
  <2> QED
    BY <1>5, <2>1, <2>2, <2>3 DEF Alive
<1>13. \A s \in Slot : p_stat[s] = "SZOMB" /\ p_stat'[s] # "SZOMB" =>
         /\ p_stat'[s] = "SNULL"
         /\ curproc # 0 /\ p_ppid[s] = p_pid[curproc]
  BY <1>2, <1>4, <1>5
<1> QED
  BY <1>7, <1>8, <1>9, <1>10, <1>11, <1>12, <1>13 DEF IInv

(* wait goes to sleep after it has seen that none of its children is dead. *)
LEMMA WaitSleepInv ==
  ASSUME IInv, NEW p \in Slot, NEW pid \in Pid \cup {Any}, WaitSleep(p, pid)
  PROVE  IInv'
<1>1. /\ curproc = p /\ Zombies(p, pid) = {}
      /\ p_stat' = [p_stat EXCEPT ![p] = "SWAIT"]
      /\ p_wchan' = [p_wchan EXCEPT ![p] = p]
      /\ wantpid' = [wantpid EXCEPT ![p] = pid]
      /\ curproc' = 0
      /\ UNCHANGED <<p_pid, p_ppid, p_pgrp, p_sig, mpid>>
  BY DEF WaitSleep, InWait
<1>2. 1 \in Slot /\ 0 \notin Slot /\ p_stat[p] = "SRUN"
  BY <1>1, ProcessAssumption DEF Slot, IInv, Runs
<1>3. /\ p_stat'[p] = "SWAIT" /\ p_wchan'[p] = p /\ wantpid'[p] = pid
      /\ \A s \in Slot : s # p => p_stat'[s] = p_stat[s] /\ p_wchan'[s] = p_wchan[s]
                                  /\ wantpid'[s] = wantpid[s]
  BY <1>1 DEF IInv, TypeOK
<1>4. TypeOK'
  <2>1. p_wchan' \in [Slot -> 0..NPROC]
    BY <1>1, ProcessAssumption DEF IInv, TypeOK, Slot
  <2>2. wantpid' \in [Slot -> (0..MaxPid) \cup {Any}]
    <3>1. pid \in (0..MaxPid) \cup {Any}
      BY ProcessAssumption DEF Pid
    <3> QED
      BY <1>1, <3>1 DEF IInv, TypeOK
  <2> QED
    BY <1>1, <2>1, <2>2, ProcessAssumption DEF IInv, TypeOK
<1>5. InitSlot' /\ PidsUnique' /\ SleepsOnSelf' /\ Runs'
  BY <1>1, <1>2, <1>3 DEF IInv, InitSlot, PidsUnique, SleepsOnSelf, Runs, Empty
<1>6. DeathNotMissed'
  BY <1>1, <1>3 DEF IInv, DeathNotMissed, Zombies, Waited, Children
<1>7. OrphansAdopted'
  <2>1. \A s \in Slot : (Alive(s)' <=> Alive(s)) /\ (Empty(s)' <=> Empty(s))
    BY <1>2, <1>3 DEF Alive, Empty
  <2> QED
    BY <1>1, <1>2, <2>1 DEF IInv, OrphansAdopted
<1> QED
  BY <1>4, <1>5, <1>6, <1>7 DEF IInv

(* The calls that only touch a group, wantpid of the caller or curproc.    *)
LEMMA OtherInv ==
  ASSUME IInv, NEW p \in Slot,
         \/ \E s \in Slot, g \in Groups : Setpgid(p, s, g)
         \/ \E pid \in Pid \cup {Any} : WaitEchild(p, pid) \/ WaitFault(p, pid)
         \/ WaitInterrupted(p) \/ Preempt(p) \/ Dispatch(p)
  PROVE  IInv'
<1>0. 0 \notin Slot /\ Slot \subseteq 0..NPROC /\ 0 \in 0..NPROC
  BY ProcessAssumption DEF Slot
<1>1. ASSUME NEW s \in Slot, NEW g \in Groups, Setpgid(p, s, g)
      PROVE  IInv'
  <2>1. /\ UNCHANGED <<p_stat, p_pid, p_ppid, p_sig, p_wchan, mpid, curproc, wantpid>>
        /\ p_pgrp' = [p_pgrp EXCEPT ![s] = g]
    BY <1>1 DEF Setpgid
  <2>2. g \in 0..MaxPid
    BY ProcessAssumption
  <2>3. TypeOK' /\ Runs'
    BY <2>1, <2>2 DEF IInv, TypeOK, Runs
  <2> QED
    BY <2>1, <2>3, QuietInv
<1>2. ASSUME curproc = p, UNCHANGED <<table, mpid, curproc>>,
             wantpid' = [wantpid EXCEPT ![p] = 0]
      PROVE  IInv'
  <2>1. UNCHANGED <<p_stat, p_pid, p_ppid, p_pgrp, p_sig, p_wchan>>
    BY <1>2 DEF table
  <2>2. 0 \in (0..MaxPid) \cup {Any}
    BY ProcessAssumption
  <2>3. TypeOK' /\ Runs'
    BY <1>2, <2>1, <2>2 DEF IInv, TypeOK, Runs
  <2>4. \A q \in Slot : p_stat[q] = "SWAIT" => wantpid'[q] = wantpid[q]
    BY <1>0, <1>2 DEF IInv, Runs, TypeOK
  <2> QED
    BY <1>2, <2>1, <2>3, <2>4, QuietInv
<1>3. ASSUME UNCHANGED <<table, mpid, wantpid>>,
             curproc' = 0 \/ (curproc' = p /\ p_stat[p] = "SRUN")
      PROVE  IInv'
  <2>1. UNCHANGED <<p_stat, p_pid, p_ppid, p_pgrp, p_sig, p_wchan>>
    BY <1>3 DEF table
  <2>2. TypeOK'
    BY <1>0, <1>3, <2>1 DEF IInv, TypeOK
  <2>3. Runs'
    BY <1>3, <2>1 DEF Runs
  <2> QED
    BY <1>3, <2>1, <2>2, <2>3, QuietInv
<1>4. ASSUME NEW pid, WaitEchild(p, pid) \/ WaitFault(p, pid)
      PROVE  IInv'
  BY <1>2, <1>4 DEF WaitEchild, WaitFault, InWait
<1> QED
  BY <1>1, <1>2, <1>3, <1>4 DEF WaitInterrupted, Preempt, Dispatch

(* psig: the signal is handled, or the process exits.                      *)
LEMMA PsigInv ==
  ASSUME IInv, NEW p \in Slot, Psig(p)
  PROVE  IInv'
<1>1. p_sig' \in [Slot -> Signals] /\ curproc = p
  BY DEF Psig, IInv, TypeOK, Signals
<1>2. CASE Exit(p)
  BY <1>1, <1>2, ExitInv
<1>3. CASE UNCHANGED <<p_stat, p_pid, p_ppid, p_pgrp, p_wchan, mpid, curproc, wantpid>>
  <2>1. TypeOK'
    BY <1>1, <1>3 DEF IInv, TypeOK
  <2>2. Runs'
    BY <1>3 DEF IInv, Runs
  <2> QED
    BY <1>3, <2>1, <2>2, QuietInv
<1> QED
  BY <1>2, <1>3 DEF Psig

(* The slots a signal goes to are slots.                                   *)
LEMMA SignalInv ==
  ASSUME IInv, NEW p \in Slot,
         \/ \E sg \in Signals : KillAll(p, sg) \/ \E pid \in Pid : Kill(p, pid, sg)
         \/ \E g \in Groups : Pgsignal(p, g)
  PROVE  /\ IInv'
         /\ \A s \in Slot : p_stat[s] = "SZOMB" => p_stat'[s] = "SZOMB"
<1>1. PICK S \in SUBSET Slot, sg \in Signals : Deliver(S, sg)
  <2>1. ASSUME NEW sg \in Signals, KillAll(p, sg)
        PROVE  \E S \in SUBSET Slot : Deliver(S, sg)
    BY <2>1 DEF KillAll
  <2>2. ASSUME NEW sg \in Signals, NEW pid \in Pid, Kill(p, pid, sg)
        PROVE  \E S \in SUBSET Slot : Deliver(S, sg)
    <3> DEFINE T == {s \in Slot : ~Empty(s) /\ p_pid[s] = pid}
    <3>1. T # {} /\ Deliver({First(T)}, sg)
      BY <2>2 DEF Kill
    <3>2. {First(T)} \in SUBSET Slot
      BY <3>1, FirstIn
    <3> QED
      BY <3>1, <3>2
  <2>3. ASSUME NEW g \in Groups, Pgsignal(p, g)
        PROVE  \E S \in SUBSET Slot : Deliver(S, "SIG")
    BY <2>3 DEF Pgsignal
  <2> QED
    BY <2>1, <2>2, <2>3 DEF Signals
<1>2. \A s \in Slot : p_stat[s] = "SZOMB" => p_stat'[s] = "SZOMB"
  BY <1>1 DEF Deliver, RunnableStat, Disturbed
<1> QED
  BY <1>1, <1>2, DeliverInv

-----------------------------------------------------------------------------
LEMMA NextInv == IInv /\ [Next]_vars => IInv'
<1> SUFFICES ASSUME IInv, [Next]_vars PROVE IInv'
  OBVIOUS
<1>1. CASE UNCHANGED vars
  <2>1. TypeOK' /\ Runs'
    BY <1>1 DEF vars, table, IInv, TypeOK, Runs
  <2> QED
    BY <1>1, <2>1, QuietInv DEF vars, table
<1>2. ASSUME NEW p \in Slot, Rexit(p) \/ SysExit(p)
      PROVE  IInv'
  <2>1. curproc = p /\ Exit(p)
    BY <1>2 DEF Rexit, SysExit, User
  <2>2. p_sig' \in [Slot -> Signals]
    BY <1>2 DEF Rexit, SysExit, Psignal, Signalled, IInv, TypeOK, Signals
  <2> QED
    BY <2>1, <2>2, ExitInv
<1>3. ASSUME NEW p \in Slot, NEW pid \in Pid \cup {Any}, Wait(p, pid)
      PROVE  IInv'
  BY <1>3, WaitReapInv, WaitSleepInv, OtherInv DEF Wait
<1> QED
  BY <1>1, <1>2, <1>3, NewprocInv, PsigInv, OtherInv, SignalInv DEF Next

LEMMA ProcessInvariant == Spec => []IInv
<1> QED
  BY InitInv, NextInv, PTL DEF Spec

-----------------------------------------------------------------------------
(* The process table keeps its types.                                      *)
THEOREM ProcessTypeCorrect == Spec => []TypeOK
<1>1. IInv => TypeOK
  BY DEF IInv
<1> QED
  BY <1>1, ProcessInvariant, PTL

(* wait never sleeps through the death of a child, in a table of any size: *)
(* exit wakes the one process whose id is the dead process's p_ppid, and   *)
(* init when it inherits zombies.                                          *)
THEOREM DeathsNotMissed == Spec => []DeathNotMissed
<1>1. IInv => DeathNotMissed
  BY DEF IInv
<1> QED
  BY <1>1, ProcessInvariant, PTL

(* As long as init lives, every other process has a living parent.         *)
THEOREM ParentsAlive == Spec => []OrphansAdopted
<1>1. IInv => OrphansAdopted
  BY DEF IInv
<1> QED
  BY <1>1, ProcessInvariant, PTL

(* Neither a signal nor a wakeup revives a zombie; only its parent's wait  *)
(* empties the slot.                                                       *)
THEOREM ZombiesStay == Spec => ZombieStays
<1> DEFINE Stays(s) == p_stat[s] = "SZOMB" /\ p_stat'[s] # "SZOMB" =>
                         /\ p_stat'[s] = "SNULL"
                         /\ curproc # 0 /\ p_ppid[s] = p_pid[curproc]
<1>1. IInv /\ [Next]_vars => [\A s \in Slot : Stays(s)]_vars
  <2> SUFFICES ASSUME IInv, Next, NEW s \in Slot,
                      p_stat[s] = "SZOMB", p_stat'[s] # "SZOMB"
               PROVE  p_stat'[s] = "SNULL" /\ curproc # 0 /\ p_ppid[s] = p_pid[curproc]
    OBVIOUS
  <2>0. 0 \notin Slot /\ p_stat \in [Slot -> {"SNULL", "SRUN", "SWAIT", "SZOMB"}]
    BY ProcessAssumption DEF Slot, IInv, TypeOK
  <2>1. ASSUME NEW p \in Slot, Newproc(p) \/ NewprocNoCore(p)
        PROVE  FALSE
    <3> DEFINE q == First(FreeSlots)
    <3>1. q \in Slot /\ p_stat[q] = "SNULL"
      BY <2>1, FirstIn DEF Newproc, NewprocNoCore, FreeSlots, Empty
    <3>2. p_stat' = [p_stat EXCEPT ![q] = "SRUN"] \/ p_stat' = p_stat
      BY <2>1 DEF Newproc, NewprocNoCore
    <3> QED
      BY <2>0, <3>1, <3>2
  <2>2. ASSUME NEW p \in Slot, Exit(p)
        PROVE  FALSE
    <3>1. s \notin ExitWakes(p)
      BY ExitWakesRight
    <3> QED
      BY <2>2, <3>1 DEF Exit, RunnableStat
  <2>3. ASSUME NEW p \in Slot, NEW pid, WaitSleep(p, pid)
        PROVE  FALSE
    <3>1. p_stat[p] = "SRUN" /\ p_stat' = [p_stat EXCEPT ![p] = "SWAIT"]
      BY <2>0, <2>3 DEF WaitSleep, InWait, IInv, Runs
    <3> QED
      BY <2>0, <3>1
  <2>4. p_stat' # p_stat
    OBVIOUS
  <2>5. ASSUME NEW p \in Slot, NEW pid \in Pid \cup {Any}, Wait(p, pid)
        PROVE  p_stat'[s] = "SNULL" /\ curproc # 0 /\ p_ppid[s] = p_pid[curproc]
    BY <2>3, <2>4, <2>5, WaitReapInv DEF Wait, WaitEchild, WaitFault, table
  <2> QED
    BY <2>1, <2>2, <2>4, <2>5, SignalInv
    DEF Next, Setpgid, Rexit, SysExit, Psig, WaitInterrupted, Preempt, Dispatch, table
<1>2. ZombieStays <=> [][\A s \in Slot : Stays(s)]_vars
  BY DEF ZombieStays
<1> HIDE DEF Stays
<1> QED
  BY <1>1, <1>2, ProcessInvariant, PTL DEF Spec
=============================================================================
