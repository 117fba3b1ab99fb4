-------------------------- MODULE BufferCacheProofs --------------------------
(***************************************************************************)
(* Proofs about BufferCache, for any number of processes, buffers, blocks  *)
(* and writes: the available list holds exactly the buffers that are not   *)
(* busy, a block has at most one buffer, a reader sees what was last       *)
(* written, no written block is lost, and no sleeper is forgotten.         *)
(***************************************************************************)
EXTENDS BufferCache, FiniteSetTheorems, SequenceTheorems, TLAPS

(* The inductive invariant, part by part.                                  *)

(* TypeOK without the length of the available list.                        *)
Types ==
  /\ b_blkno \in [Buf -> Blk \cup {NoBlk}]
  /\ b_flags \in [Buf -> SUBSET Flags]
  /\ b_data \in [Buf -> Nat]
  /\ av \in Seq(Buf)
  /\ flwanted \in BOOLEAN /\ io \subseteq Buf
  /\ disk \in [Blk -> Nat]
  /\ pc \in [Proc -> Labels] /\ op \in [Proc -> Request]
  /\ bp \in [Proc -> Buf \cup {NoBuf}] /\ wchan \in [Proc -> Chan]
  /\ latest \in [Blk -> Nat] /\ failed \subseteq Blk

(* The available list has each buffer that is not busy once.               *)
ListOK ==
  /\ IsInjective(av)
  /\ \A b \in Buf : Busy(b) <=> b \notin ToSet(av)

(* The flags of a buffer fit each other.                                   *)
FlagsOK(b) ==
  /\ "ASYNC" \in b_flags[b] => b \in io
  /\ b \in io => /\ Busy(b) /\ b_blkno[b] \in Blk
                 /\ "DONE" \notin b_flags[b] /\ "DELWRI" \notin b_flags[b]
  /\ "DELWRI" \in b_flags[b] => /\ "DONE" \in b_flags[b] /\ "ERROR" \notin b_flags[b]
                                /\ b_blkno[b] \in Blk
  /\ "ERROR" \in b_flags[b] /\ ~Busy(b) => b_blkno[b] = NoBlk

BufsOK == \A b \in Buf : FlagsOK(b)

(* A busy buffer has a holder or is the device's; a holder's buffer is     *)
(* busy, its own, and the one of the block asked for.                      *)
Owned ==
  /\ \A b \in Buf : Busy(b) => "ASYNC" \in b_flags[b] \/ \E p \in Proc : bp[p] = b
  /\ \A p \in Proc : bp[p] # NoBuf =>
       /\ Busy(bp[p]) /\ "ASYNC" \notin b_flags[bp[p]]
       /\ b_blkno[bp[p]] = op[p].blk
  /\ \A p, q \in Proc : bp[p] = bp[q] /\ bp[p] # NoBuf => p = q

(* Where a process is fits what it asked for and what it holds.            *)
RequestOK(p) ==
  /\ pc[p] \in {"idle", "getblk"} => bp[p] = NoBuf
  /\ pc[p] \in {"iowait", "held", "dirty", "writing"} => bp[p] # NoBuf
  /\ pc[p] # "idle" /\ op[p].kind # "getblk" => op[p].blk \in Blk
  /\ pc[p] # "idle" /\ op[p].kind = "breada" => op[p].ra \in Blk
  /\ pc[p] \in {"ahead", "getra"} => op[p].ra \in Blk
  /\ pc[p] \in {"ahead", "getra", "iowait"} => op[p].kind # "getblk"
  /\ pc[p] = "dirty" => op[p].blk \in Blk
  /\ wchan[p] # NoChan => pc[p] \in {"getblk", "getra", "iowait", "writing"}

(* Where a process is fits the state of the buffer it holds.               *)
HeldOK(p) ==
  /\ pc[p] \in {"held", "dirty"} => bp[p] \notin io
  /\ pc[p] = "held" /\ op[p].kind # "getblk" => "DONE" \in b_flags[bp[p]]
  /\ pc[p] \in {"ahead", "getra", "iowait"} /\ bp[p] # NoBuf =>
       "DONE" \in b_flags[bp[p]] \/ (bp[p] \in io /\ "READ" \in b_flags[bp[p]])
  /\ pc[p] = "writing" =>
       "DONE" \in b_flags[bp[p]] \/ (bp[p] \in io /\ "READ" \notin b_flags[bp[p]])
  /\ pc[p] = "dirty" => "ERROR" \notin b_flags[bp[p]]

ProcsOK == \A p \in Proc : RequestOK(p) /\ HeldOK(p)

(* The buffer holds something that must still go to the disk.              *)
Pending(b) ==
  \/ "DELWRI" \in b_flags[b]
  \/ b \in io /\ "READ" \notin b_flags[b]
  \/ \E p \in Proc : bp[p] = b /\ pc[p] = "dirty"

(* The buffer holds the content of its block.                              *)
Valid(b) ==
  \/ "DONE" \in b_flags[b] /\ "ERROR" \notin b_flags[b]
  \/ Pending(b)

DataOK ==
  \A b \in Buf : b_blkno[b] \in Blk \ failed /\ Valid(b)
                 => b_data[b] = latest[b_blkno[b]]

Kept ==
  \A k \in Blk \ failed :
    disk[k] = latest[k] \/ \E b \in Buf : b_blkno[b] = k /\ Pending(b)

IInv ==
  /\ Types /\ ListOK /\ BufsOK /\ Owned /\ ProcsOK
  /\ OneBufferPerBlock /\ DataOK /\ Kept /\ SleepersWoken

-----------------------------------------------------------------------------
(* The available list.                                                     *)

LEMMA InSet ==
  ASSUME NEW s \in Seq(Buf), NEW x
  PROVE  x \in ToSet(s) <=> \E i \in 1..Len(s) : s[i] = x
<1> QED
  BY DEF ToSet

LEMMA TailSet ==
  ASSUME NEW s \in Seq(Buf), IsInjective(s), s # <<>>
  PROVE  /\ Head(s) \in Buf /\ Head(s) \in ToSet(s)
         /\ Tail(s) \in Seq(Buf) /\ IsInjective(Tail(s))
         /\ ToSet(Tail(s)) = ToSet(s) \ {Head(s)}
<1>1. /\ Len(s) \in Nat /\ Len(s) > 0 /\ Head(s) = s[1] /\ DOMAIN s = 1..Len(s)
      /\ s[1] \in Buf
  OBVIOUS
<1>2. /\ Tail(s) \in Seq(Buf) /\ Len(Tail(s)) = Len(s) - 1
      /\ DOMAIN Tail(s) = 1..(Len(s) - 1)
      /\ \A i \in 1..(Len(s) - 1) : Tail(s)[i] = s[i + 1]
  BY <1>1
<1>3. \A i, j \in 1..Len(s) : s[i] = s[j] => i = j
  BY <1>1 DEF IsInjective
<1>4. IsInjective(Tail(s))
  BY <1>1, <1>2, <1>3 DEF IsInjective
<1>5. ASSUME NEW x
      PROVE  x \in ToSet(Tail(s)) <=> x \in ToSet(s) /\ x # Head(s)
  <2>1. x \in ToSet(Tail(s)) <=> \E i \in 1..(Len(s) - 1) : s[i + 1] = x
    <3>1. x \in ToSet(Tail(s)) <=> \E i \in 1..(Len(s) - 1) : Tail(s)[i] = x
      BY <1>2 DEF ToSet
    <3> QED
      BY <1>2, <3>1
  <2>2. x \in ToSet(s) <=> \E i \in 1..Len(s) : s[i] = x
    BY InSet
  <2>3. ASSUME NEW i \in 1..(Len(s) - 1), s[i + 1] = x
        PROVE  i + 1 \in 1..Len(s) /\ x # s[1]
    BY <2>3, <1>1, <1>3
  <2>4. ASSUME NEW i \in 1..Len(s), s[i] = x, x # s[1]
        PROVE  i - 1 \in 1..(Len(s) - 1) /\ s[(i - 1) + 1] = x
    BY <2>4, <1>1
  <2> QED
    BY <1>1, <2>1, <2>2, <2>3, <2>4
<1>6. ToSet(Tail(s)) = ToSet(s) \ {Head(s)}
  BY <1>5
<1>7. Head(s) \in ToSet(s)
  BY <1>1, InSet
<1> QED
  BY <1>1, <1>2, <1>4, <1>6, <1>7

LEMMA AppendSet ==
  ASSUME NEW s \in Seq(Buf), IsInjective(s), NEW b \in Buf, b \notin ToSet(s)
  PROVE  /\ Append(s, b) \in Seq(Buf) /\ IsInjective(Append(s, b))
         /\ ToSet(Append(s, b)) = ToSet(s) \cup {b}
<1> DEFINE t == Append(s, b)
<1>1. /\ Len(s) \in Nat /\ DOMAIN s = 1..Len(s)
      /\ t \in Seq(Buf) /\ Len(t) = Len(s) + 1 /\ DOMAIN t = 1..(Len(s) + 1)
      /\ \A i \in 1..Len(s) : t[i] = s[i]
      /\ t[Len(s) + 1] = b
  OBVIOUS
<1>2. \A i \in 1..Len(s) : s[i] # b
  BY InSet
<1> HIDE DEF t
<1>3. IsInjective(t)
  <2> SUFFICES ASSUME NEW i \in 1..(Len(s) + 1), NEW j \in 1..(Len(s) + 1), t[i] = t[j]
               PROVE  i = j
    BY <1>1 DEF IsInjective
  <2>1. CASE i \in 1..Len(s) /\ j \in 1..Len(s)
    BY <1>1, <2>1 DEF IsInjective
  <2>2. CASE i = Len(s) + 1 \/ j = Len(s) + 1
    BY <1>1, <1>2, <2>2
  <2> QED
    BY <1>1, <2>1, <2>2
<1>4. ASSUME NEW x
      PROVE  x \in ToSet(t) <=> x \in ToSet(s) \/ x = b
  <2>1. x \in ToSet(t) <=> \E i \in 1..(Len(s) + 1) : t[i] = x
    BY <1>1, InSet
  <2>2. x \in ToSet(s) <=> \E i \in 1..Len(s) : s[i] = x
    BY InSet
  <2>3. \A i \in 1..(Len(s) + 1) : i \in 1..Len(s) \/ i = Len(s) + 1
    BY <1>1
  <2>4. \A i \in 1..Len(s) : i \in 1..(Len(s) + 1)
    BY <1>1
  <2>5. Len(s) + 1 \in 1..(Len(s) + 1)
    BY <1>1
  <2> QED
    BY <1>1, <2>1, <2>2, <2>3, <2>4, <2>5
<1>5. ToSet(t) = ToSet(s) \cup {b}
  BY <1>4
<1> QED
  BY <1>1, <1>3, <1>5 DEF t

(* notavail takes exactly b from the list.                                 *)
LEMMA WithoutSet ==
  ASSUME av \in Seq(Buf), IsInjective(av), NEW b \in ToSet(av)
  PROVE  /\ Without(b) \in Seq(Buf) /\ IsInjective(Without(b))
         /\ ToSet(Without(b)) = ToSet(av) \ {b}
<1> DEFINE k == CHOOSE i \in DOMAIN av : av[i] = b
           t == RemoveAt(av, k)
           n == Len(av)
<1>1. n \in Nat /\ DOMAIN av = 1..n /\ \A i \in 1..n : av[i] \in Buf
  OBVIOUS
<1>2. k \in 1..n /\ av[k] = b
  BY <1>1, InSet
<1> HIDE DEF k
<1>3. /\ t \in Seq(Buf) /\ Len(t) = n - 1 /\ DOMAIN t = 1..(n - 1)
      /\ \A i \in 1..(n - 1) : t[i] = IF i < k THEN av[i] ELSE av[i + 1]
  <2> DEFINE u == SubSeq(av, 1, k - 1)
             v == SubSeq(av, k + 1, n)
  <2>1. /\ u \in Seq(Buf) /\ Len(u) = k - 1
        /\ \A i \in 1..(k - 1) : u[i] = av[i]
    <3>1. \A i \in 1..(k - 1) : av[i] \in Buf
      BY <1>1, <1>2
    <3>2. k - 1 \in Int /\ (k - 1) - 1 + 1 = k - 1
      BY <1>1, <1>2
    <3>3. /\ u \in Seq(Buf) /\ Len(u) = (IF 1 <= k - 1 THEN (k - 1) - 1 + 1 ELSE 0)
          /\ \A i \in 1..((k - 1) - 1 + 1) : u[i] = av[1 + i - 1]
      BY <3>1, <3>2, SubSeqProperties
    <3> HIDE DEF u
    <3>4. Len(u) = k - 1
      BY <1>1, <1>2, <3>3
    <3>5. \A i \in 1..(k - 1) : u[i] = av[i]
      BY <1>1, <1>2, <3>3
    <3> QED
      BY <3>3, <3>4, <3>5
  <2>2. /\ v \in Seq(Buf) /\ Len(v) = n - k
        /\ \A i \in 1..(n - k) : v[i] = av[k + i]
    <3>1. \A i \in (k + 1)..n : av[i] \in Buf
      BY <1>1, <1>2
    <3>2. k + 1 \in Int /\ n \in Int
      BY <1>1, <1>2
    <3>3. /\ v \in Seq(Buf) /\ Len(v) = (IF k + 1 <= n THEN n - (k + 1) + 1 ELSE 0)
          /\ \A i \in 1..(n - (k + 1) + 1) : v[i] = av[(k + 1) + i - 1]
      BY <3>1, <3>2, SubSeqProperties
    <3> HIDE DEF v, n
    <3>4. Len(v) = n - k
      BY <1>1, <1>2, <3>3
    <3>5. \A i \in 1..(n - k) : i \in 1..(n - (k + 1) + 1) /\ (k + 1) + i - 1 = k + i
      BY <1>1, <1>2
    <3> QED
      BY <3>3, <3>4, <3>5
  <2>3. t = u \o v
    BY DEF RemoveAt
  <2> HIDE DEF u, v, t, n
  <2>4. /\ u \o v \in Seq(Buf) /\ Len(u \o v) = n - 1
        /\ \A i \in 1..(n - 1) : (u \o v)[i] = IF i <= k - 1 THEN u[i] ELSE v[i - (k - 1)]
    <3>1. /\ u \o v \in Seq(Buf) /\ Len(u \o v) = Len(u) + Len(v)
          /\ \A i \in 1..(Len(u) + Len(v)) :
               (u \o v)[i] = IF i <= Len(u) THEN u[i] ELSE v[i - Len(u)]
      BY <2>1, <2>2, ConcatProperties
    <3>2. Len(u) + Len(v) = n - 1
      BY <1>1, <1>2, <2>1, <2>2
    <3> QED
      BY <2>1, <3>1, <3>2
  <2>5. ASSUME NEW i \in 1..(n - 1)
        PROVE  t[i] = IF i < k THEN av[i] ELSE av[i + 1]
    <3>1. CASE i < k
      BY <1>1, <1>2, <2>1, <2>3, <2>4, <3>1
    <3>2. CASE ~(i < k)
      <4>1. i - (k - 1) \in 1..(n - k) /\ k + (i - (k - 1)) = i + 1
        BY <1>1, <1>2, <3>2
      <4>2. t[i] = v[i - (k - 1)]
        BY <1>1, <1>2, <2>3, <2>4, <3>2
      <4> QED
        BY <2>2, <3>2, <4>1, <4>2
    <3> QED
      BY <3>1, <3>2
  <2>6. DOMAIN t = 1..(n - 1)
    BY <1>1, <2>3, <2>4
  <2> QED
    BY <2>3, <2>4, <2>5, <2>6
<1>4. \A i, j \in 1..n : av[i] = av[j] => i = j
  BY <1>1 DEF IsInjective
<1> HIDE DEF t, n
<1>5. IsInjective(t)
  <2> SUFFICES ASSUME NEW i \in 1..(n - 1), NEW j \in 1..(n - 1), t[i] = t[j]
               PROVE  i = j
    BY <1>3 DEF IsInjective
  <2>1. PICK x \in 1..n : t[i] = av[x] /\ x = IF i < k THEN i ELSE i + 1
    BY <1>1, <1>2, <1>3
  <2>2. PICK y \in 1..n : t[j] = av[y] /\ y = IF j < k THEN j ELSE j + 1
    BY <1>1, <1>2, <1>3
  <2>3. x = y
    BY <1>4, <2>1, <2>2
  <2> QED
    BY <1>1, <1>2, <2>1, <2>2, <2>3
<1>6. ASSUME NEW x
      PROVE  x \in ToSet(t) <=> x \in ToSet(av) /\ x # b
  <2>1. x \in ToSet(t) <=> \E i \in 1..(n - 1) : t[i] = x
    BY <1>3, InSet
  <2>2. x \in ToSet(av) <=> \E i \in 1..n : av[i] = x
    BY InSet DEF n
  <2>3. ASSUME NEW i \in 1..(n - 1), t[i] = x
        PROVE  x \in ToSet(av) /\ x # b
    <3>1. PICK y \in 1..n : t[i] = av[y] /\ y # k
      BY <1>1, <1>2, <1>3
    <3> QED
      BY <1>2, <1>4, <2>2, <2>3, <3>1
  <2>4. ASSUME NEW i \in 1..n, av[i] = x, x # b
        PROVE  x \in ToSet(t)
    <3>1. i # k
      BY <1>2, <2>4
    <3>2. CASE i < k
      <4>1. i \in 1..(n - 1) /\ t[i] = av[i]
        BY <1>1, <1>2, <1>3, <3>2
      <4> QED
        BY <2>1, <2>4, <4>1
    <3>3. CASE i > k
      <4>1. i - 1 \in 1..(n - 1) /\ ~(i - 1 < k) /\ (i - 1) + 1 = i
        BY <1>1, <1>2, <3>3
      <4>2. t[i - 1] = av[i]
        BY <1>3, <4>1
      <4> QED
        BY <2>1, <2>4, <4>1, <4>2
    <3> QED
      BY <1>1, <1>2, <3>1, <3>2, <3>3
  <2> QED
    BY <2>1, <2>2, <2>3, <2>4
<1>7. ToSet(t) = ToSet(av) \ {b}
  BY <1>6
<1>8. Without(b) = t
  BY DEF Without, t, k
<1> QED
  BY <1>3, <1>5, <1>7, <1>8

(* A list made by SetToSeqs has all of its set, once.                      *)
LEMMA SeqOfSet ==
  ASSUME NEW S \in SUBSET Buf, NEW s \in SetToSeqs(S)
  PROVE  s \in Seq(Buf) /\ IsInjective(s) /\ ToSet(s) = S
<1> DEFINE n == Cardinality(S)
<1>1. IsFiniteSet(S) /\ n \in Nat
  BY CacheAssumption, FS_Subset, FS_CardinalityType
<1>2. s \in [1..n -> S] /\ \A i, j \in 1..n : i # j => s[i] # s[j]
  BY DEF SetToSeqs
<1>3. IsFiniteSet(1..n) /\ Cardinality(1..n) = n
  BY <1>1, FS_Interval
<1>4. IsInjective(s)
  BY <1>2 DEF IsInjective
<1>5. s \in Injection(1..n, S)
  BY <1>2, <1>4 DEF Injection
<1>6. s \in Surjection(1..n, S)
  BY <1>1, <1>3, <1>5, FS_Injection
<1> HIDE DEF n
<1>7. s \in Seq(Buf) /\ DOMAIN s = 1..n
  BY <1>1, <1>2
<1>8. ToSet(s) = S
  BY <1>2, <1>6, <1>7 DEF Surjection, ToSet
<1> QED
  BY <1>4, <1>7, <1>8

(* No repetition: as many entries as buffers, and no more than there are.  *)
LEMMA ListLength ==
  ASSUME NEW s \in Seq(Buf), IsInjective(s)
  PROVE  Len(s) = Cardinality(ToSet(s)) /\ Len(s) <= Cardinality(Buf)
<1> DEFINE n == Len(s)
<1>1. n \in Nat /\ s \in [1..n -> Buf] /\ DOMAIN s = 1..n
  OBVIOUS
<1>2. IsFiniteSet(1..n) /\ Cardinality(1..n) = n
  BY <1>1, FS_Interval
<1>3. s \in Injection(1..n, Buf)
  BY <1>1 DEF Injection
<1>4. Cardinality(1..n) <= Cardinality(Buf)
  BY <1>3, CacheAssumption, FS_Injection
<1>5. s \in Injection(1..n, ToSet(s)) /\ s \in Surjection(1..n, ToSet(s))
  BY <1>1 DEF Injection, Surjection, ToSet
<1>6. Cardinality(ToSet(s)) = Cardinality(1..n)
  BY <1>2, <1>5, FS_Surjection
<1> QED
  BY <1>2, <1>4, <1>6

-----------------------------------------------------------------------------
LEMMA InitInv == Init => IInv
<1> SUFFICES ASSUME Init PROVE IInv
  OBVIOUS
<1> USE CacheAssumption
<1>1. av \in Seq(Buf) /\ IsInjective(av) /\ ToSet(av) = Buf
  BY SeqOfSet DEF Init
<1>2. Idle \in Request
  BY DEF Idle, Request
<1>3. Types
  BY <1>1, <1>2 DEF Init, Types, Labels, Chan
<1>4. ListOK
  BY <1>1 DEF Init, ListOK, Busy
<1>5. BufsOK /\ Owned /\ OneBufferPerBlock
  BY DEF Init, BufsOK, FlagsOK, Owned, Busy, OneBufferPerBlock
<1>6. ProcsOK
  BY DEF Init, ProcsOK, RequestOK, HeldOK
<1>7. DataOK /\ Kept /\ SleepersWoken
  BY DEF Init, DataOK, Kept, SleepersWoken
<1> QED
  BY <1>3, <1>4, <1>5, <1>6, <1>7 DEF IInv

(* A step in which process p only goes on to another point of its call.    *)
LEMMA MoveInv ==
  ASSUME IInv, NEW p \in Proc,
         UNCHANGED <<bufVars, disk, bp, wchan, latest, failed>>,
         pc' \in [Proc -> Labels], op' \in [Proc -> Request],
         \A q \in Proc : q # p => pc'[q] = pc[q] /\ op'[q] = op[q],
         pc[p] # "dirty", pc'[p] # "dirty", wchan[p] = NoChan,
         bp[p] # NoBuf => op'[p].blk = op[p].blk,
         RequestOK(p)', HeldOK(p)'
  PROVE  IInv'
<1>1. UNCHANGED <<b_blkno, b_flags, b_data, av, flwanted, io>>
  BY DEF bufVars
<1>2. Types'
  BY <1>1 DEF IInv, Types
<1>3. ListOK' /\ BufsOK' /\ OneBufferPerBlock'
  BY <1>1 DEF IInv, ListOK, BufsOK, FlagsOK, Busy, OneBufferPerBlock
<1>4. Owned'
  BY <1>1 DEF IInv, Owned, Busy
<1>5. ProcsOK'
  <2> SUFFICES ASSUME NEW q \in Proc, q # p
               PROVE  RequestOK(q)' /\ HeldOK(q)'
    BY DEF ProcsOK
  <2> QED
    BY <1>1 DEF IInv, ProcsOK, RequestOK, HeldOK
<1>6. \A b \in Buf : (Pending(b)' <=> Pending(b)) /\ (Valid(b)' <=> Valid(b))
  BY <1>1 DEF Pending, Valid
<1>7. DataOK' /\ Kept'
  BY <1>1, <1>6 DEF IInv, DataOK, Kept
<1>8. SleepersWoken'
  BY <1>1, CacheAssumption DEF IInv, SleepersWoken
<1> QED
  BY <1>2, <1>3, <1>4, <1>5, <1>7, <1>8 DEF IInv

(* A step in which process p goes to sleep on c.                           *)
LEMMA SleepInv ==
  ASSUME IInv, NEW p \in Proc, NEW c \in Buf \cup {FreeList},
         UNCHANGED <<b_blkno, b_data, av, io, disk, procVars, latest, failed>>,
         wchan' = [wchan EXCEPT ![p] = c],
         b_flags' \in [Buf -> SUBSET Flags],
         \A b \in Buf : /\ \A x \in Flags : x # "WANTED" =>
                              (x \in b_flags'[b] <=> x \in b_flags[b])
                        /\ "WANTED" \in b_flags[b] => "WANTED" \in b_flags'[b],
         flwanted' \in BOOLEAN, flwanted => flwanted',
         pc[p] \in {"getblk", "getra", "iowait", "writing"},
         c \in Buf =>
           IF pc[p] \in {"getblk", "getra"}
           THEN {"BUSY", "WANTED"} \subseteq b_flags'[c]
           ELSE c = bp[p] /\ c \in io /\ "ASYNC" \notin b_flags[c],
         c = FreeList => av = <<>> /\ flwanted'
  PROVE  IInv'
<1>1. UNCHANGED <<pc, op, bp>>
  BY DEF procVars
<1>2. /\ wchan' \in [Proc -> Chan] /\ wchan'[p] = c
      /\ \A q \in Proc : q # p => wchan'[q] = wchan[q]
  BY DEF IInv, Types, Chan
<1>3. \A b \in Buf :
        /\ "BUSY" \in b_flags'[b] <=> "BUSY" \in b_flags[b]
        /\ "ASYNC" \in b_flags'[b] <=> "ASYNC" \in b_flags[b]
        /\ "DONE" \in b_flags'[b] <=> "DONE" \in b_flags[b]
        /\ "ERROR" \in b_flags'[b] <=> "ERROR" \in b_flags[b]
        /\ "READ" \in b_flags'[b] <=> "READ" \in b_flags[b]
        /\ "DELWRI" \in b_flags'[b] <=> "DELWRI" \in b_flags[b]
        /\ "WANTED" \in b_flags[b] => "WANTED" \in b_flags'[b]
  BY DEF Flags
<1>4. Types'
  BY <1>1, <1>2 DEF IInv, Types
<1>5. ListOK' /\ BufsOK' /\ OneBufferPerBlock'
  BY <1>3 DEF IInv, ListOK, BufsOK, FlagsOK, Busy, OneBufferPerBlock
<1>6. bp \in [Proc -> Buf \cup {NoBuf}] /\ io \subseteq Buf
  BY DEF IInv, Types
<1>7. Owned'
  BY <1>1, <1>3, <1>6 DEF IInv, Owned, Busy
<1>8. ProcsOK'
  <2> SUFFICES ASSUME NEW q \in Proc
               PROVE  RequestOK(q)' /\ HeldOK(q)'
    BY DEF ProcsOK
  <2>1. RequestOK(q) /\ HeldOK(q) /\ bp[q] \in Buf \cup {NoBuf}
    BY <1>6 DEF IInv, ProcsOK
  <2>2. RequestOK(q)'
    BY <1>1, <1>2, <2>1 DEF RequestOK
  <2>3. HeldOK(q)'
    BY <1>1, <1>3, <2>1 DEF RequestOK, HeldOK
  <2> QED
    BY <2>2, <2>3
<1>9. \A b \in Buf : (Pending(b)' <=> Pending(b)) /\ (Valid(b)' <=> Valid(b))
  BY <1>1, <1>3 DEF Pending, Valid
<1>10. DataOK' /\ Kept'
  BY <1>1, <1>9 DEF IInv, DataOK, Kept
<1>11. SleepersWoken'
  <2> SUFFICES ASSUME NEW q \in Proc
               PROVE  /\ wchan'[q] \in Buf =>
                           IF pc[q] \in {"getblk", "getra"}
                           THEN {"BUSY", "WANTED"} \subseteq b_flags'[wchan'[q]]
                           ELSE /\ wchan'[q] = bp[q] /\ bp[q] \in io
                                /\ "ASYNC" \notin b_flags'[bp[q]]
                      /\ wchan'[q] = FreeList => av = <<>> /\ flwanted'
    BY <1>1 DEF SleepersWoken
  <2>1. CASE q = p
    BY <1>2, <1>3, <1>6, <2>1, CacheAssumption
  <2>2. CASE q # p
    BY <1>2, <1>3, <1>6, <2>2 DEF IInv, SleepersWoken
  <2> QED
    BY <2>1, <2>2
<1> QED
  BY <1>4, <1>5, <1>7, <1>8, <1>10, <1>11 DEF IInv

-----------------------------------------------------------------------------
(* A buffer that is not busy is nobody's: no holder, no request, no        *)
(* sleeper, and nothing but a delayed write waits in it.                   *)
LEMMA FreeBuffer ==
  ASSUME IInv, NEW b \in ToSet(av)
  PROVE  /\ b \in Buf /\ ~Busy(b) /\ b \notin io /\ "ASYNC" \notin b_flags[b]
         /\ \A p \in Proc : bp[p] # b /\ wchan[p] # b /\ wchan[p] # FreeList
         /\ Pending(b) => "DELWRI" \in b_flags[b]
         /\ "ERROR" \in b_flags[b] => b_blkno[b] = NoBlk
<1>1. b \in Buf /\ ~Busy(b)
  BY InSet DEF IInv, Types, ListOK
<1>2. FlagsOK(b)
  BY <1>1 DEF IInv, BufsOK
<1>3. b \notin io /\ "ASYNC" \notin b_flags[b]
  BY <1>1, <1>2 DEF FlagsOK
<1>4. \A p \in Proc : bp[p] # b
  BY <1>1, CacheAssumption DEF IInv, Owned
<1>5. av # <<>>
  BY DEF ToSet
<1>6. \A p \in Proc : wchan[p] # b /\ wchan[p] # FreeList
  BY <1>1, <1>3, <1>5 DEF IInv, SleepersWoken, Busy
<1>7. Pending(b) => "DELWRI" \in b_flags[b]
  BY <1>3, <1>4 DEF Pending
<1> QED
  BY <1>1, <1>2, <1>3, <1>4, <1>6, <1>7 DEF FlagsOK

(* Delayed writes on the available list are started (getblk and bflush).   *)
LEMMA FlushInv ==
  ASSUME IInv, NEW S \in SUBSET ToSet(av),
         \A b \in S : "DELWRI" \in b_flags[b],
         av' \in Seq(Buf), IsInjective(av'), ToSet(av') = ToSet(av) \ S,
         b_flags' = [b \in Buf |->
           IF b \in S
           THEN (b_flags[b] \ {"READ", "DONE", "ERROR", "DELWRI"}) \cup {"BUSY", "ASYNC"}
           ELSE b_flags[b]],
         io' = io \cup S,
         UNCHANGED <<b_blkno, b_data, flwanted, disk, procVars, wchan, latest, failed>>
  PROVE  IInv'
<1>0. UNCHANGED <<pc, op, bp>>
  BY DEF procVars
<1>1. \A b \in S : /\ b \in Buf /\ ~Busy(b) /\ b \notin io
                    /\ \A p \in Proc : bp[p] # b /\ wchan[p] # b /\ wchan[p] # FreeList
                    /\ FlagsOK(b)
  BY FreeBuffer DEF IInv, BufsOK
<1>2. /\ b_flags' \in [Buf -> SUBSET Flags]
      /\ \A b \in S : /\ {"BUSY", "ASYNC"} \subseteq b_flags'[b]
                       /\ {"READ", "DONE", "ERROR", "DELWRI"} \cap b_flags'[b] = {}
      /\ \A b \in Buf \ S : b_flags'[b] = b_flags[b]
  BY <1>1 DEF IInv, Types, Flags
<1>3. Types'
  BY <1>0, <1>1, <1>2 DEF IInv, Types
<1>4. ListOK'
  BY <1>1, <1>2 DEF IInv, ListOK, Busy
<1>5. BufsOK'
  BY <1>1, <1>2 DEF IInv, BufsOK, FlagsOK, Busy
<1>6. bp \in [Proc -> Buf \cup {NoBuf}] /\ wchan \in [Proc -> Chan]
  BY DEF IInv, Types
<1>7. \A p \in Proc : bp[p] # NoBuf => bp[p] \in Buf \ S
  BY <1>1, <1>6
<1>8. Owned' /\ OneBufferPerBlock'
  BY <1>0, <1>1, <1>2, <1>7 DEF IInv, Owned, Busy, OneBufferPerBlock
<1>9. ProcsOK'
  <2> SUFFICES ASSUME NEW q \in Proc
               PROVE  RequestOK(q)' /\ HeldOK(q)'
    BY DEF ProcsOK
  <2>1. RequestOK(q) /\ HeldOK(q) /\ (bp[q] # NoBuf => bp[q] \in Buf \ S)
    BY <1>7 DEF IInv, ProcsOK
  <2>2. RequestOK(q)'
    BY <1>0, <2>1 DEF RequestOK
  <2>3. HeldOK(q)'
    BY <1>0, <1>2, <2>1 DEF RequestOK, HeldOK
  <2> QED
    BY <2>2, <2>3
<1>10. \A b \in Buf : (Pending(b)' <=> Pending(b)) /\ (Valid(b)' => Valid(b))
  BY <1>0, <1>1, <1>2 DEF Pending, Valid
<1>11. DataOK' /\ Kept'
  BY <1>10 DEF IInv, DataOK, Kept
<1>12. SleepersWoken'
  <2>1. ASSUME av = <<>> PROVE av' = <<>>
    <3>1. ToSet(av) = {}
      BY <2>1 DEF ToSet
    <3>2. ToSet(av') = {}
      BY <3>1
    <3> QED
      BY <3>2, TailSet
  <2> QED
    BY <1>0, <1>1, <1>2, <1>6, <1>7, <2>1, CacheAssumption DEF IInv, SleepersWoken, Busy
<1> QED
  BY <1>3, <1>4, <1>5, <1>8, <1>9, <1>11, <1>12 DEF IInv

(* getblk gives process p the buffer b of the list, found under its block  *)
(* or reassigned to it, with the flags f.                                  *)
LEMMA ObtainInv ==
  ASSUME IInv, NEW p \in Proc, NEW b \in ToSet(av), NEW f \in SUBSET Flags,
         pc[p] = "getblk", wchan[p] = NoChan,
         av' \in Seq(Buf), IsInjective(av'), ToSet(av') = ToSet(av) \ {b},
         b_blkno' = [b_blkno EXCEPT ![b] = op[p].blk],
         \/ f = b_flags[b] \cup {"BUSY"} /\ b_blkno[b] = op[p].blk /\ op[p].blk # NoBlk
         \/ /\ f = {"BUSY"} /\ "DELWRI" \notin b_flags[b]
            /\ op[p].blk = NoBlk \/ ~Incore(op[p].blk),
         Obtain(p, b, f),
         UNCHANGED <<b_data, flwanted, disk, op, wchan, latest, failed>>
  PROVE  IInv'
<1>1. /\ b \in Buf /\ ~Busy(b) /\ b \notin io /\ "ASYNC" \notin b_flags[b]
      /\ \A q \in Proc : bp[q] # b /\ wchan[q] # b /\ wchan[q] # FreeList
      /\ Pending(b) => "DELWRI" \in b_flags[b]
      /\ "ERROR" \in b_flags[b] => b_blkno[b] = NoBlk
      /\ FlagsOK(b)
  BY FreeBuffer DEF IInv, BufsOK
<1> DEFINE rd == op[p].kind # "getblk" /\ "DONE" \notin f
           F  == IF rd THEN f \cup {"READ"} ELSE f
           l  == IF op[p].kind = "breada" THEN "ahead"
                 ELSE IF op[p].kind = "getblk" \/ "DONE" \in f THEN "held" ELSE "iowait"
<1>2. /\ bp' = [bp EXCEPT ![p] = b] /\ pc' = [pc EXCEPT ![p] = l]
      /\ b_flags' = [b_flags EXCEPT ![b] = F]
      /\ io' = IF rd THEN io \cup {b} ELSE io
  BY DEF Obtain, Goto
<1>3. /\ l \in {"ahead", "held", "iowait"}
      /\ l = "ahead" <=> op[p].kind = "breada"
      /\ l = "held" <=> op[p].kind = "getblk" \/ (op[p].kind # "breada" /\ ~rd)
  BY DEF IInv, Types, Request
<1>4. F \in SUBSET Flags
  BY DEF Flags
<1>5. /\ bp' \in [Proc -> Buf \cup {NoBuf}] /\ pc' \in [Proc -> Labels]
      /\ b_flags' \in [Buf -> SUBSET Flags] /\ b_blkno' \in [Buf -> Blk \cup {NoBlk}]
      /\ bp'[p] = b /\ pc'[p] = l /\ b_flags'[b] = F /\ b_blkno'[b] = op[p].blk
      /\ \A q \in Proc : q # p => bp'[q] = bp[q] /\ pc'[q] = pc[q]
      /\ \A c \in Buf : c # b => b_flags'[c] = b_flags[c] /\ b_blkno'[c] = b_blkno[c]
  BY <1>1, <1>2, <1>3, <1>4 DEF IInv, Types, Labels, Request
<1>6a. /\ "BUSY" \in f /\ "ASYNC" \notin f /\ "ERROR" \notin f
       /\ "DONE" \in f => b_blkno[b] = op[p].blk /\ "DONE" \in b_flags[b]
       /\ "DELWRI" \in f <=> "DELWRI" \in b_flags[b]
       /\ "DELWRI" \in f => "DONE" \in f /\ op[p].blk \in Blk
  <2>1. CASE f = b_flags[b] \cup {"BUSY"} /\ b_blkno[b] = op[p].blk /\ op[p].blk # NoBlk
    BY <1>1, <2>1 DEF FlagsOK
  <2>2. CASE f = {"BUSY"} /\ "DELWRI" \notin b_flags[b]
    BY <2>2
  <2> QED
    BY <2>1, <2>2
<1>6. /\ "BUSY" \in F /\ "ASYNC" \notin F
      /\ "DONE" \in F <=> "DONE" \in f
      /\ "DELWRI" \in F <=> "DELWRI" \in f
      /\ "ERROR" \notin F
      /\ rd => "READ" \in F
      /\ "DONE" \in f => b_blkno[b] = op[p].blk /\ "DONE" \in b_flags[b]
      /\ "DELWRI" \in f <=> "DELWRI" \in b_flags[b]
      /\ "DELWRI" \in f => "DONE" \in f /\ op[p].blk \in Blk
  BY <1>6a
<1>7. /\ op[p].kind # "getblk" => op[p].blk \in Blk
      /\ op[p].kind = "breada" => op[p].ra \in Blk
      /\ bp[p] = NoBuf
  BY DEF IInv, ProcsOK, RequestOK
<1>8. \A c \in Buf : c # b => op[p].blk = NoBlk \/ b_blkno[c] # op[p].blk
  BY <1>1 DEF IInv, OneBufferPerBlock, Incore
<1>9. rd => "DONE" \notin f /\ op[p].kind # "getblk"
  OBVIOUS
<1>9a. ~rd => op[p].kind = "getblk" \/ "DONE" \in f
  OBVIOUS
<1> HIDE DEF rd, F, l
<1>10. Types'
  BY <1>1, <1>2, <1>5 DEF IInv, Types
<1>11. ListOK'
  BY <1>1, <1>5, <1>6 DEF IInv, ListOK, Busy
<1>12. BufsOK'
  BY <1>1, <1>2, <1>5, <1>6, <1>7, <1>9 DEF IInv, BufsOK, FlagsOK, Busy
<1>13. bp \in [Proc -> Buf \cup {NoBuf}] /\ wchan \in [Proc -> Chan] /\ b # NoBuf
  BY <1>1, CacheAssumption DEF IInv, Types
<1>14. Owned'
  <2>1. \A c \in Buf : Busy(c)' => "ASYNC" \in b_flags'[c] \/ \E q \in Proc : bp'[q] = c
    <3>1. ASSUME NEW c \in Buf, c # b, Busy(c)', "ASYNC" \notin b_flags'[c]
          PROVE  \E q \in Proc : bp'[q] = c
      <4>1. PICK q \in Proc : bp[q] = c
        BY <1>5, <3>1 DEF IInv, Owned, Busy
      <4>2. q # p
        BY <1>7, <4>1, CacheAssumption
      <4> QED
        BY <1>5, <4>1, <4>2
    <3> QED
      BY <1>5, <3>1
  <2>2. \A q \in Proc : bp'[q] # NoBuf =>
          /\ Busy(bp[q])' /\ "ASYNC" \notin b_flags'[bp'[q]]
          /\ b_blkno'[bp'[q]] = op'[q].blk
    <3>1. ASSUME NEW q \in Proc, q # p, bp[q] # NoBuf
          PROVE  /\ "BUSY" \in b_flags'[bp[q]] /\ "ASYNC" \notin b_flags'[bp[q]]
                 /\ b_blkno'[bp[q]] = op[q].blk
      BY <1>1, <1>5, <1>13, <3>1 DEF IInv, Owned, Busy
    <3> QED
      BY <1>5, <1>6, <3>1 DEF Busy
  <2>3. \A q, r \in Proc : bp'[q] = bp'[r] /\ bp'[q] # NoBuf => q = r
    BY <1>1, <1>5 DEF IInv, Owned
  <2> QED
    BY <2>1, <2>2, <2>3 DEF Owned
<1>15. OneBufferPerBlock'
  BY <1>5, <1>8 DEF IInv, OneBufferPerBlock
<1>16. ProcsOK'
  <2> SUFFICES ASSUME NEW q \in Proc
               PROVE  RequestOK(q)' /\ HeldOK(q)'
    BY DEF ProcsOK
  <2>1. CASE q = p
    <3>1. RequestOK(p)'
      BY <1>3, <1>5, <1>7, <1>9, <1>9a, <1>13 DEF RequestOK
    <3>2. HeldOK(p)'
      BY <1>1, <1>2, <1>3, <1>5, <1>6, <1>9, <1>9a, <1>13 DEF HeldOK
    <3> QED
      BY <2>1, <3>1, <3>2
  <2>2. CASE q # p
    <3>1. RequestOK(q) /\ HeldOK(q) /\ bp[q] \in Buf \cup {NoBuf} /\ bp[q] # b
      BY <1>1, <1>13 DEF IInv, ProcsOK
    <3>2. RequestOK(q)'
      BY <1>5, <2>2, <3>1 DEF RequestOK
    <3>3. HeldOK(q)'
      BY <1>2, <1>5, <2>2, <3>1 DEF RequestOK, HeldOK
    <3> QED
      BY <3>2, <3>3
  <2> QED
    BY <2>1, <2>2
<1>17. /\ \A c \in Buf : c # b => (Pending(c)' <=> Pending(c)) /\ (Valid(c)' <=> Valid(c))
       /\ Pending(b)' <=> Pending(b)
       /\ Valid(b)' => Valid(b) /\ b_blkno'[b] = b_blkno[b]
  <2>1. \A c \in Buf : c # b => (Pending(c)' <=> Pending(c))
    BY <1>1, <1>2, <1>3, <1>5 DEF Pending
  <2>2. Pending(b)' <=> Pending(b)
    BY <1>1, <1>2, <1>3, <1>5, <1>6 DEF Pending
  <2>3. Pending(b) => b_blkno[b] = op[p].blk
    BY <1>1, <1>6
  <2> QED
    BY <1>1, <1>5, <1>6, <2>1, <2>2, <2>3 DEF Valid
<1>18. DataOK'
  BY <1>5, <1>17 DEF IInv, DataOK
<1>19. Kept'
  <2>1. Pending(b) => b_blkno'[b] = b_blkno[b]
    BY <1>17 DEF Valid
  <2> QED
    BY <1>5, <1>17, <2>1 DEF IInv, Kept
<1>20. SleepersWoken'
  BY <1>1, <1>2, <1>5, <1>13, CacheAssumption DEF IInv, SleepersWoken
<1> QED
  BY <1>10, <1>11, <1>12, <1>14, <1>15, <1>16, <1>18, <1>19, <1>20 DEF IInv

(* breada starts to read the block that comes next into buffer b of the    *)
(* list, which iodone will release.                                        *)
LEMMA AheadReadInv ==
  ASSUME IInv, NEW p \in Proc, NEW b \in ToSet(av), NEW F \in SUBSET Flags,
         pc[p] = "getra", wchan[p] = NoChan,
         av' \in Seq(Buf), IsInjective(av'), ToSet(av') = ToSet(av) \ {b},
         b_blkno' = [b_blkno EXCEPT ![b] = op[p].ra],
         b_blkno[b] = op[p].ra \/ ~Incore(op[p].ra),
         {"BUSY", "READ", "ASYNC"} \subseteq F, "DONE" \notin F, "DELWRI" \notin F,
         "DELWRI" \notin b_flags[b],
         b_flags' = [b_flags EXCEPT ![b] = F], io' = io \cup {b},
         pc' = [pc EXCEPT ![p] = AfterAhead(p)],
         UNCHANGED <<b_data, flwanted, disk, op, bp, wchan, latest, failed>>
  PROVE  IInv'
<1>1. /\ b \in Buf /\ ~Busy(b) /\ b \notin io
      /\ \A q \in Proc : bp[q] # b /\ wchan[q] # b /\ wchan[q] # FreeList
      /\ ~Pending(b)
  BY FreeBuffer
<1>2. /\ AfterAhead(p) \in {"getblk", "iowait"}
      /\ AfterAhead(p) = "getblk" <=> bp[p] = NoBuf
  BY DEF AfterAhead
<1>3. op[p].ra \in Blk /\ RequestOK(p) /\ HeldOK(p)
  BY DEF IInv, ProcsOK, RequestOK
<1>4. /\ pc' \in [Proc -> Labels] /\ b_flags' \in [Buf -> SUBSET Flags]
      /\ b_blkno' \in [Buf -> Blk \cup {NoBlk}]
      /\ pc'[p] = AfterAhead(p) /\ b_flags'[b] = F /\ b_blkno'[b] = op[p].ra
      /\ \A q \in Proc : q # p => pc'[q] = pc[q]
      /\ \A c \in Buf : c # b => b_flags'[c] = b_flags[c] /\ b_blkno'[c] = b_blkno[c]
  BY <1>1, <1>2, <1>3 DEF IInv, Types, Labels
<1>5. /\ bp \in [Proc -> Buf \cup {NoBuf}] /\ wchan \in [Proc -> Chan]
      /\ \A c \in Buf : c # b => b_blkno[c] # op[p].ra
  BY <1>1, <1>3, CacheAssumption DEF IInv, Types, OneBufferPerBlock, Incore
<1>6. Types'
  BY <1>1, <1>4 DEF IInv, Types
<1>7. ListOK'
  BY <1>1, <1>4 DEF IInv, ListOK, Busy
<1>8. BufsOK'
  BY <1>1, <1>3, <1>4 DEF IInv, BufsOK, FlagsOK, Busy
<1>9. Owned'
  BY <1>1, <1>4, <1>5 DEF IInv, Owned, Busy
<1>10. OneBufferPerBlock'
  BY <1>4, <1>5 DEF IInv, OneBufferPerBlock
<1>11. ProcsOK'
  <2> SUFFICES ASSUME NEW q \in Proc
               PROVE  RequestOK(q)' /\ HeldOK(q)'
    BY DEF ProcsOK
  <2>1. RequestOK(q) /\ HeldOK(q) /\ bp[q] \in Buf \cup {NoBuf} /\ bp[q] # b
    BY <1>1, <1>5 DEF IInv, ProcsOK
  <2>2. RequestOK(q)'
    BY <1>2, <1>3, <1>4, <2>1 DEF RequestOK
  <2>3. HeldOK(q)'
    BY <1>2, <1>3, <1>4, <2>1 DEF RequestOK, HeldOK
  <2> QED
    BY <2>2, <2>3
<1>12. /\ \A c \in Buf : c # b => (Pending(c)' <=> Pending(c)) /\ (Valid(c)' <=> Valid(c))
       /\ ~Valid(b)'
  <2>1. \A c \in Buf : c # b => (Pending(c)' <=> Pending(c))
    BY <1>1, <1>2, <1>4 DEF Pending
  <2>2. ~Pending(b)'
    BY <1>1, <1>4 DEF Pending
  <2> QED
    BY <1>4, <2>1, <2>2 DEF Valid
<1>13. DataOK' /\ Kept'
  BY <1>1, <1>4, <1>12 DEF IInv, DataOK, Kept
<1>14. SleepersWoken'
  BY <1>1, <1>4, <1>5, CacheAssumption DEF IInv, SleepersWoken
<1> QED
  BY <1>6, <1>7, <1>8, <1>9, <1>10, <1>11, <1>13, <1>14 DEF IInv

-----------------------------------------------------------------------------
(* What brelse does, pointwise.                                            *)
LEMMA ReleaseFacts ==
  ASSUME IInv, NEW b \in Buf, NEW f \in SUBSET Flags, NEW list, Release(b, f, list)
  PROVE  /\ wchan' \in [Proc -> Chan] /\ flwanted' = FALSE
         /\ b_blkno' \in [Buf -> Blk \cup {NoBlk}] /\ b_flags' \in [Buf -> SUBSET Flags]
         /\ b_blkno'[b] = IF "ERROR" \in f THEN NoBlk ELSE b_blkno[b]
         /\ b_flags'[b] = f \ {"WANTED", "BUSY", "ASYNC"}
         /\ \A c \in Buf : c # b => b_flags'[c] = b_flags[c] /\ b_blkno'[c] = b_blkno[c]
         /\ av' = Append(list, b)
         /\ \A p \in Proc :
              /\ wchan'[p] \in {wchan[p], NoChan}
              /\ wchan[p] = b /\ "WANTED" \in b_flags[b] => wchan'[p] = NoChan
              /\ wchan[p] = FreeList => wchan'[p] = NoChan
<1>1. \A p \in Proc : wchan[p] = FreeList => flwanted
  BY DEF IInv, SleepersWoken
<1> QED
  BY <1>1 DEF Release, Wake, BrelseWakes, IInv, Types, Chan

(* Process p gives its buffer back (brelse, bdwrite and bwrite).           *)
LEMMA GiveBackInv ==
  ASSUME IInv, NEW p \in Proc, NEW f \in SUBSET Flags,
         \/ pc[p] = "dirty" /\ f = b_flags[bp[p]] \cup {"DELWRI", "DONE"}
         \/ pc[p] \in {"held", "writing"} /\ f = b_flags[bp[p]],
         pc[p] = "writing" => "DONE" \in f,
         wchan[p] = NoChan,
         Release(bp[p], f, av), Done(p),
         UNCHANGED <<b_data, io, disk, latest, failed>>
  PROVE  IInv'
<1>0. PICK b \in Buf : b = bp[p]
  BY DEF IInv, Types, ProcsOK, RequestOK
<1>1. /\ RequestOK(p) /\ HeldOK(p) /\ b \in Buf /\ Busy(b) /\ FlagsOK(b)
      /\ "ASYNC" \notin b_flags[b] /\ b_blkno[b] = op[p].blk /\ b # NoBuf
      /\ \A q \in Proc : q # p => bp[q] # b
  BY <1>0 DEF IInv, Types, ProcsOK, RequestOK, Owned, BufsOK
<1>2. b \notin io
  BY <1>0, <1>1 DEF HeldOK, FlagsOK
<1>3. /\ "DELWRI" \in f => "DONE" \in f /\ "ERROR" \notin f /\ b_blkno[b] \in Blk
      /\ Pending(b) => "DELWRI" \in f
      /\ "DONE" \in f /\ "ERROR" \notin f => Valid(b)
  BY <1>0, <1>1, <1>2 DEF FlagsOK, HeldOK, RequestOK, Pending, Valid, IInv, Owned
<1>4. b \notin ToSet(av) /\ av \in Seq(Buf) /\ IsInjective(av)
  BY <1>1 DEF IInv, Types, ListOK
<1>5. /\ av' = Append(av, b) /\ av' \in Seq(Buf) /\ IsInjective(av')
      /\ ToSet(av') = ToSet(av) \cup {b}
  BY <1>0, <1>4, <1>1, AppendSet DEF Release
<1>6. /\ pc' = [pc EXCEPT ![p] = "idle"] /\ op' = [op EXCEPT ![p] = Idle]
      /\ bp' = [bp EXCEPT ![p] = NoBuf]
  BY DEF Done, Goto
<1>7. Idle \in Request
  BY DEF Idle, Request
<1>8. /\ pc' \in [Proc -> Labels] /\ op' \in [Proc -> Request]
      /\ bp' \in [Proc -> Buf \cup {NoBuf}]
      /\ pc'[p] = "idle" /\ bp'[p] = NoBuf
      /\ \A q \in Proc : q # p => pc'[q] = pc[q] /\ op'[q] = op[q] /\ bp'[q] = bp[q]
  BY <1>6, <1>7 DEF IInv, Types, Labels
<1>9. /\ wchan' \in [Proc -> Chan] /\ flwanted' = FALSE
      /\ b_blkno' \in [Buf -> Blk \cup {NoBlk}] /\ b_flags' \in [Buf -> SUBSET Flags]
      /\ b_blkno'[b] = IF "ERROR" \in f THEN NoBlk ELSE b_blkno[b]
      /\ b_flags'[b] = f \ {"WANTED", "BUSY", "ASYNC"}
      /\ \A c \in Buf : c # b => b_flags'[c] = b_flags[c] /\ b_blkno'[c] = b_blkno[c]
      /\ \A q \in Proc :
           /\ wchan'[q] \in {wchan[q], NoChan}
           /\ wchan[q] = b /\ "WANTED" \in b_flags[b] => wchan'[q] = NoChan
           /\ wchan[q] = FreeList => wchan'[q] = NoChan
  BY <1>0, <1>1, ReleaseFacts
<1>10. /\ "BUSY" \notin b_flags'[b] /\ "ASYNC" \notin b_flags'[b]
       /\ \A x \in {"DONE", "ERROR", "DELWRI", "READ"} : x \in b_flags'[b] <=> x \in f
  BY <1>9
<1>11. Types'
  BY <1>5, <1>8, <1>9 DEF IInv, Types
<1>12. ListOK'
  BY <1>1, <1>5, <1>9, <1>10 DEF IInv, ListOK, Busy
<1>13. BufsOK'
  BY <1>2, <1>3, <1>9, <1>10 DEF IInv, BufsOK, FlagsOK, Busy
<1>14. bp \in [Proc -> Buf \cup {NoBuf}] /\ wchan \in [Proc -> Chan]
  BY DEF IInv, Types
<1>15. Owned'
  <2>1. \A c \in Buf : Busy(c)' => "ASYNC" \in b_flags'[c] \/ \E q \in Proc : bp'[q] = c
    <3>1. ASSUME NEW c \in Buf, Busy(c)', "ASYNC" \notin b_flags'[c]
          PROVE  \E q \in Proc : bp'[q] = c
      <4>0. c # b
        BY <1>10, <3>1 DEF Busy
      <4>1. PICK q \in Proc : bp[q] = c
        BY <1>9, <3>1, <4>0 DEF IInv, Owned, Busy
      <4> QED
        BY <1>0, <1>8, <4>0, <4>1
    <3> QED
      BY <3>1
  <2>2. ASSUME NEW q \in Proc, bp'[q] # NoBuf
        PROVE  /\ Busy(bp[q])' /\ "ASYNC" \notin b_flags'[bp'[q]]
               /\ b_blkno'[bp'[q]] = op'[q].blk
    BY <1>1, <1>8, <1>9, <1>14, <2>2 DEF IInv, Owned, Busy
  <2>3. \A q, r \in Proc : bp'[q] = bp'[r] /\ bp'[q] # NoBuf => q = r
    BY <1>8 DEF IInv, Owned
  <2> QED
    BY <2>1, <2>2, <2>3 DEF Owned
<1>16. OneBufferPerBlock'
  BY <1>9 DEF IInv, OneBufferPerBlock
<1>17. ProcsOK'
  <2> SUFFICES ASSUME NEW q \in Proc
               PROVE  RequestOK(q)' /\ HeldOK(q)'
    BY DEF ProcsOK
  <2>1. CASE q = p
    BY <1>8, <1>9, <2>1 DEF RequestOK, HeldOK
  <2>2. CASE q # p
    <3>1. RequestOK(q) /\ HeldOK(q) /\ bp[q] \in Buf \cup {NoBuf} /\ bp[q] # b
      BY <1>1, <1>14, <2>2 DEF IInv, ProcsOK
    <3>2. RequestOK(q)'
      BY <1>8, <1>9, <2>2, <3>1 DEF RequestOK
    <3>3. HeldOK(q)'
      BY <1>8, <1>9, <2>2, <3>1 DEF RequestOK, HeldOK
    <3> QED
      BY <3>2, <3>3
  <2> QED
    BY <2>1, <2>2
<1>18. /\ \A c \in Buf : c # b => (Pending(c)' <=> Pending(c)) /\ (Valid(c)' <=> Valid(c))
       /\ Pending(b) => Pending(b)' /\ b_blkno'[b] = b_blkno[b]
       /\ Valid(b)' => Valid(b) /\ b_blkno'[b] = b_blkno[b]
  <2>1. \A c \in Buf : c # b => (Pending(c)' <=> Pending(c))
    BY <1>0, <1>8, <1>9 DEF Pending
  <2>2. Pending(b) => Pending(b)' /\ b_blkno'[b] = b_blkno[b]
    BY <1>3, <1>9, <1>10 DEF Pending
  <2>3. Pending(b)' => "DELWRI" \in f
    BY <1>1, <1>2, <1>8, <1>10, CacheAssumption DEF Pending
  <2>4. Valid(b)' => "DONE" \in f /\ "ERROR" \notin f
    BY <1>3, <1>10, <2>3 DEF Valid
  <2>5. \A c \in Buf : c # b => (Valid(c)' <=> Valid(c))
    BY <1>9, <2>1 DEF Valid
  <2> QED
    BY <1>3, <1>9, <2>1, <2>2, <2>4, <2>5
<1>19. DataOK' /\ Kept'
  BY <1>9, <1>18 DEF IInv, DataOK, Kept
<1>20. SleepersWoken'
  <2> SUFFICES ASSUME NEW q \in Proc, wchan'[q] # NoChan
               PROVE  /\ wchan'[q] \in Buf =>
                           IF pc'[q] \in {"getblk", "getra"}
                           THEN {"BUSY", "WANTED"} \subseteq b_flags'[wchan'[q]]
                           ELSE /\ wchan'[q] = bp'[q] /\ bp'[q] \in io
                                /\ "ASYNC" \notin b_flags'[bp'[q]]
                      /\ wchan'[q] # FreeList
    BY CacheAssumption DEF SleepersWoken
  <2>1. wchan'[q] = wchan[q] /\ q # p /\ wchan[q] # FreeList
    BY <1>9
  <2>2. wchan[q] # b
    BY <1>1, <1>2, <1>9, <2>1 DEF IInv, SleepersWoken
  <2> QED
    BY <1>1, <1>8, <1>9, <1>14, <2>1, <2>2 DEF IInv, SleepersWoken
<1> QED
  BY <1>11, <1>12, <1>13, <1>15, <1>16, <1>17, <1>19, <1>20 DEF IInv

(* breada finds the block that comes next in core after all and releases   *)
(* its buffer: only the place in the list changes.                         *)
LEMMA AheadHitInv ==
  ASSUME IInv, NEW p \in Proc, NEW b \in ToSet(av),
         pc[p] = "getra", wchan[p] = NoChan, b_blkno[b] = op[p].ra,
         Release(b, b_flags[b], Without(b)),
         pc' = [pc EXCEPT ![p] = AfterAhead(p)],
         UNCHANGED <<b_data, io, disk, op, bp, latest, failed>>
  PROVE  IInv'
<1>1. /\ b \in Buf /\ ~Busy(b) /\ b \notin io /\ "ASYNC" \notin b_flags[b]
      /\ \A q \in Proc : bp[q] # b /\ wchan[q] # b /\ wchan[q] # FreeList
      /\ "ERROR" \in b_flags[b] => b_blkno[b] = NoBlk
  BY FreeBuffer
<1>2. /\ AfterAhead(p) \in {"getblk", "iowait"}
      /\ AfterAhead(p) = "getblk" <=> bp[p] = NoBuf
  BY DEF AfterAhead
<1>3. op[p].ra \in Blk /\ RequestOK(p) /\ HeldOK(p)
  BY DEF IInv, ProcsOK, RequestOK
<1>4. "ERROR" \notin b_flags[b]
  BY <1>1, <1>3, CacheAssumption
<1>5. /\ pc' \in [Proc -> Labels] /\ pc'[p] = AfterAhead(p)
      /\ \A q \in Proc : q # p => pc'[q] = pc[q]
  BY <1>2 DEF IInv, Types, Labels
<1>6. b_flags[b] \in SUBSET Flags /\ av \in Seq(Buf) /\ IsInjective(av)
  BY <1>1 DEF IInv, Types, ListOK
<1>7. /\ wchan' \in [Proc -> Chan] /\ flwanted' = FALSE
      /\ b_blkno' \in [Buf -> Blk \cup {NoBlk}] /\ b_flags' \in [Buf -> SUBSET Flags]
      /\ \A c \in Buf : b_blkno'[c] = b_blkno[c]
      /\ b_flags'[b] = b_flags[b] \ {"WANTED", "BUSY", "ASYNC"}
      /\ \A c \in Buf : c # b => b_flags'[c] = b_flags[c]
      /\ av' = Append(Without(b), b)
      /\ \A q \in Proc : wchan'[q] \in {wchan[q], NoChan}
  BY <1>1, <1>4, <1>6, ReleaseFacts
<1>8. av' \in Seq(Buf) /\ IsInjective(av') /\ ToSet(av') = ToSet(av)
  <2>1. /\ Without(b) \in Seq(Buf) /\ IsInjective(Without(b))
        /\ ToSet(Without(b)) = ToSet(av) \ {b}
    BY <1>6, WithoutSet
  <2> DEFINE w == Without(b)
  <2>2. w \in Seq(Buf) /\ IsInjective(w) /\ b \notin ToSet(w) /\ av' = Append(w, b)
    BY <1>7, <2>1
  <2> HIDE DEF w
  <2>3. /\ Append(w, b) \in Seq(Buf) /\ IsInjective(Append(w, b))
        /\ ToSet(Append(w, b)) = ToSet(w) \cup {b}
    BY <1>1, <2>2, AppendSet
  <2>4. ToSet(w) \cup {b} = ToSet(av)
    BY <2>1 DEF w
  <2> QED
    BY <2>2, <2>3, <2>4
<1>9. \A c \in Buf :
        /\ "BUSY" \in b_flags'[c] <=> "BUSY" \in b_flags[c]
        /\ "ASYNC" \in b_flags'[c] <=> "ASYNC" \in b_flags[c]
        /\ "DONE" \in b_flags'[c] <=> "DONE" \in b_flags[c]
        /\ "ERROR" \in b_flags'[c] <=> "ERROR" \in b_flags[c]
        /\ "READ" \in b_flags'[c] <=> "READ" \in b_flags[c]
        /\ "DELWRI" \in b_flags'[c] <=> "DELWRI" \in b_flags[c]
  BY <1>1, <1>7 DEF Busy
<1>10. bp \in [Proc -> Buf \cup {NoBuf}] /\ wchan \in [Proc -> Chan]
  BY DEF IInv, Types
<1>11. Types'
  BY <1>5, <1>7, <1>8 DEF IInv, Types
<1>12. ListOK' /\ BufsOK' /\ OneBufferPerBlock'
  BY <1>7, <1>8, <1>9 DEF IInv, ListOK, BufsOK, FlagsOK, Busy, OneBufferPerBlock
<1>13. Owned'
  BY <1>7, <1>9, <1>10 DEF IInv, Owned, Busy
<1>14. ProcsOK'
  <2> SUFFICES ASSUME NEW q \in Proc
               PROVE  RequestOK(q)' /\ HeldOK(q)'
    BY DEF ProcsOK
  <2>1. RequestOK(q) /\ HeldOK(q) /\ bp[q] \in Buf \cup {NoBuf}
    BY <1>10 DEF IInv, ProcsOK
  <2>2. RequestOK(q)'
    BY <1>2, <1>3, <1>5, <1>7, <2>1 DEF RequestOK
  <2>3. HeldOK(q)'
    BY <1>2, <1>3, <1>5, <1>9, <2>1 DEF RequestOK, HeldOK
  <2> QED
    BY <2>2, <2>3
<1>15. \A c \in Buf : (Pending(c)' <=> Pending(c)) /\ (Valid(c)' <=> Valid(c))
  BY <1>2, <1>5, <1>9 DEF Pending, Valid
<1>16. DataOK' /\ Kept'
  BY <1>7, <1>15 DEF IInv, DataOK, Kept
<1>17. SleepersWoken'
  BY <1>1, <1>5, <1>7, <1>10, CacheAssumption DEF IInv, SleepersWoken
<1> QED
  BY <1>11, <1>12, <1>13, <1>14, <1>16, <1>17 DEF IInv

-----------------------------------------------------------------------------
(* The holder of a modified buffer starts its write, and waits for it or   *)
(* leaves the buffer to iodone.                                            *)
LEMMA WriteInv ==
  ASSUME IInv, NEW p \in Proc, NEW more \in SUBSET {"ASYNC"},
         pc[p] = "dirty", StartWrite(bp[p], more),
         \/ /\ more = {} /\ pc' = [pc EXCEPT ![p] = "writing"]
            /\ UNCHANGED <<op, bp>>
         \/ more = {"ASYNC"} /\ Done(p),
         UNCHANGED <<b_blkno, b_data, av, flwanted, disk, wchan, latest, failed>>
  PROVE  IInv'
<1>0. PICK b \in Buf : b = bp[p]
  BY DEF IInv, Types, ProcsOK, RequestOK
<1>1. /\ RequestOK(p) /\ HeldOK(p) /\ Busy(b) /\ FlagsOK(b)
      /\ "ASYNC" \notin b_flags[b] /\ b_blkno[b] = op[p].blk /\ b # NoBuf
      /\ \A q \in Proc : q # p => bp[q] # b
      /\ b \notin io /\ op[p].blk \in Blk /\ wchan[p] = NoChan
  BY <1>0 DEF IInv, ProcsOK, RequestOK, HeldOK, Owned, BufsOK
<1>2. /\ b_flags' = [b_flags EXCEPT ![b] =
                      (b_flags[b] \ {"READ", "DONE", "ERROR", "DELWRI"}) \cup more]
      /\ io' = io \cup {b}
  BY <1>0 DEF StartWrite
<1>3. /\ b_flags' \in [Buf -> SUBSET Flags]
      /\ "BUSY" \in b_flags'[b] /\ ("ASYNC" \in b_flags'[b] <=> more = {"ASYNC"})
      /\ {"READ", "DONE", "ERROR", "DELWRI"} \cap b_flags'[b] = {}
      /\ "WANTED" \in b_flags[b] => "WANTED" \in b_flags'[b]
      /\ \A c \in Buf : c # b => b_flags'[c] = b_flags[c]
  BY <1>1, <1>2 DEF IInv, Types, Flags, Busy
<1>4. Idle \in Request
  BY DEF Idle, Request
<1>5. /\ pc' \in [Proc -> Labels] /\ op' \in [Proc -> Request]
      /\ bp' \in [Proc -> Buf \cup {NoBuf}]
      /\ \/ /\ more = {} /\ pc'[p] = "writing" /\ bp'[p] = b /\ op'[p] = op[p]
         \/ /\ more = {"ASYNC"} /\ pc'[p] = "idle" /\ bp'[p] = NoBuf
      /\ \A q \in Proc : q # p => pc'[q] = pc[q] /\ op'[q] = op[q] /\ bp'[q] = bp[q]
  BY <1>0, <1>4 DEF IInv, Types, Labels, Done, Goto
<1>6. bp \in [Proc -> Buf \cup {NoBuf}] /\ wchan \in [Proc -> Chan]
  BY DEF IInv, Types
<1>7. Types'
  BY <1>2, <1>3, <1>5 DEF IInv, Types
<1>8. ListOK' /\ OneBufferPerBlock'
  BY <1>1, <1>3 DEF IInv, ListOK, Busy, OneBufferPerBlock
<1>9. BufsOK'
  BY <1>1, <1>2, <1>3 DEF IInv, BufsOK, FlagsOK, Busy
<1>10. Owned'
  <2>1. \A c \in Buf : Busy(c)' => "ASYNC" \in b_flags'[c] \/ \E q \in Proc : bp'[q] = c
    <3>1. ASSUME NEW c \in Buf, Busy(c)', "ASYNC" \notin b_flags'[c], c # b
          PROVE  \E q \in Proc : bp'[q] = c
      <4>1. PICK q \in Proc : bp[q] = c
        BY <1>3, <3>1 DEF IInv, Owned, Busy
      <4> QED
        BY <1>0, <1>5, <3>1, <4>1
    <3> QED
      BY <1>3, <1>5, <3>1
  <2>2. ASSUME NEW q \in Proc, bp'[q] # NoBuf
        PROVE  /\ Busy(bp[q])' /\ "ASYNC" \notin b_flags'[bp'[q]]
               /\ b_blkno'[bp'[q]] = op'[q].blk
    <3>1. CASE q = p
      BY <1>1, <1>3, <1>5, <2>2, <3>1 DEF Busy
    <3>2. CASE q # p
      BY <1>1, <1>3, <1>5, <1>6, <2>2, <3>2 DEF IInv, Owned, Busy
    <3> QED
      BY <3>1, <3>2
  <2>3. \A q, r \in Proc : bp'[q] = bp'[r] /\ bp'[q] # NoBuf => q = r
    BY <1>1, <1>5 DEF IInv, Owned
  <2> QED
    BY <2>1, <2>2, <2>3 DEF Owned
<1>11. ProcsOK'
  <2> SUFFICES ASSUME NEW q \in Proc
               PROVE  RequestOK(q)' /\ HeldOK(q)'
    BY DEF ProcsOK
  <2>1. CASE q = p
    <3>1. RequestOK(p)'
      BY <1>1, <1>5 DEF RequestOK
    <3>2. HeldOK(p)'
      BY <1>2, <1>3, <1>5 DEF HeldOK
    <3> QED
      BY <2>1, <3>1, <3>2
  <2>2. CASE q # p
    <3>1. RequestOK(q) /\ HeldOK(q) /\ bp[q] \in Buf \cup {NoBuf} /\ bp[q] # b
      BY <1>1, <1>6, <2>2 DEF IInv, ProcsOK
    <3>2. RequestOK(q)'
      BY <1>5, <2>2, <3>1 DEF RequestOK
    <3>3. HeldOK(q)'
      BY <1>2, <1>3, <1>5, <2>2, <3>1 DEF RequestOK, HeldOK
    <3> QED
      BY <3>2, <3>3
  <2> QED
    BY <2>1, <2>2
<1>12. /\ \A c \in Buf : Pending(c)' <=> Pending(c)
       /\ \A c \in Buf : Valid(c)' => Valid(c)
  <2>1. \A c \in Buf : c # b => (Pending(c)' <=> Pending(c))
    BY <1>0, <1>2, <1>3, <1>5 DEF Pending
  <2>2. Pending(b) /\ Pending(b)'
    BY <1>0, <1>2, <1>3 DEF Pending
  <2> QED
    BY <1>3, <2>1, <2>2 DEF Valid
<1>13. DataOK' /\ Kept'
  BY <1>12 DEF IInv, DataOK, Kept
<1>14. SleepersWoken'
  <2> SUFFICES ASSUME NEW q \in Proc, q # p
               PROVE  /\ wchan[q] \in Buf =>
                           IF pc[q] \in {"getblk", "getra"}
                           THEN {"BUSY", "WANTED"} \subseteq b_flags'[wchan[q]]
                           ELSE /\ wchan[q] = bp[q] /\ bp[q] \in io'
                                /\ "ASYNC" \notin b_flags'[bp[q]]
                      /\ wchan[q] = FreeList => av = <<>> /\ flwanted
    BY <1>1, <1>5, CacheAssumption DEF SleepersWoken
  <2>1. CASE wchan[q] = b
    BY <1>1, <1>3, <2>1, CacheAssumption DEF IInv, SleepersWoken
  <2>2. CASE wchan[q] # b
    BY <1>1, <1>2, <1>3, <1>6, <2>2 DEF IInv, SleepersWoken
  <2> QED
    BY <2>1, <2>2
<1> QED
  BY <1>7, <1>8, <1>9, <1>10, <1>11, <1>13, <1>14 DEF IInv

(* The holder changes the content of its buffer.                           *)
LEMMA ModifyInv ==
  ASSUME IInv, NEW p \in Proc, Modify(p)
  PROVE  IInv'
<1>0. PICK b \in Buf : b = bp[p]
  BY DEF IInv, Types, ProcsOK, RequestOK, Modify
<1>1. PICK k \in Blk : k = op[p].blk
  BY DEF IInv, Types, Request, Modify
<1>2. /\ pc[p] = "held" /\ "ERROR" \notin b_flags[b]
      /\ latest' = [latest EXCEPT ![k] = latest[k] + 1]
      /\ b_data' = [b_data EXCEPT ![b] = latest[k] + 1]
      /\ pc' = [pc EXCEPT ![p] = "dirty"]
      /\ UNCHANGED <<b_blkno, b_flags, av, flwanted, io, disk, op, bp, wchan, failed>>
  BY <1>0, <1>1 DEF Modify, Goto
<1>3. /\ RequestOK(p) /\ HeldOK(p) /\ b_blkno[b] = k
      /\ b \notin io /\ wchan[p] = NoChan
      /\ \A q \in Proc : q # p => bp[q] # b
      /\ \A c \in Buf : c # b => b_blkno[c] # k
  BY <1>0, <1>1, <1>2, CacheAssumption
     DEF IInv, ProcsOK, RequestOK, HeldOK, Owned, OneBufferPerBlock
<1>4. /\ latest' \in [Blk -> Nat] /\ b_data' \in [Buf -> Nat] /\ pc' \in [Proc -> Labels]
      /\ latest'[k] = latest[k] + 1 /\ b_data'[b] = latest[k] + 1 /\ pc'[p] = "dirty"
      /\ \A j \in Blk : j # k => latest'[j] = latest[j]
      /\ \A c \in Buf : c # b => b_data'[c] = b_data[c]
      /\ \A q \in Proc : q # p => pc'[q] = pc[q]
  BY <1>2 DEF IInv, Types, Labels
<1>5. Types'
  BY <1>2, <1>4 DEF IInv, Types
<1>6. ListOK' /\ BufsOK' /\ OneBufferPerBlock'
  BY <1>2 DEF IInv, ListOK, BufsOK, FlagsOK, Busy, OneBufferPerBlock
<1>7. Owned'
  BY <1>2 DEF IInv, Owned, Busy
<1>8. ProcsOK'
  <2> SUFFICES ASSUME NEW q \in Proc
               PROVE  RequestOK(q)' /\ HeldOK(q)'
    BY DEF ProcsOK
  <2>1. CASE q = p
    BY <1>0, <1>1, <1>2, <1>3, <1>4, <2>1 DEF RequestOK, HeldOK
  <2>2. CASE q # p
    BY <1>2, <1>4, <2>2 DEF IInv, ProcsOK, RequestOK, HeldOK
  <2> QED
    BY <2>1, <2>2
<1>9. \A c \in Buf : c # b => (Pending(c)' <=> Pending(c)) /\ (Valid(c)' <=> Valid(c))
  <2>1. \A c \in Buf : c # b => (Pending(c)' <=> Pending(c))
    BY <1>0, <1>2, <1>4 DEF Pending
  <2> QED
    BY <1>2, <2>1 DEF Valid
<1>10. Pending(b)'
  BY <1>0, <1>2, <1>4 DEF Pending
<1>11. DataOK'
  BY <1>2, <1>3, <1>4, <1>9 DEF IInv, DataOK
<1>12. Kept'
  BY <1>2, <1>3, <1>4, <1>9, <1>10 DEF IInv, Kept
<1>13. SleepersWoken'
  BY <1>2, <1>3, <1>4, CacheAssumption DEF IInv, SleepersWoken
<1> QED
  BY <1>5, <1>6, <1>7, <1>8, <1>11, <1>12, <1>13 DEF IInv

-----------------------------------------------------------------------------
(* A buffer whose request is with the device: who holds it, if anybody,    *)
(* waits for it; and if it is being read, nothing waits in it.             *)
LEMMA BufferInIo ==
  ASSUME IInv, NEW b \in io
  PROVE  /\ b \in Buf /\ Busy(b) /\ FlagsOK(b) /\ b_blkno[b] \in Blk
         /\ b \notin ToSet(av)
         /\ \A p \in Proc : bp[p] = b =>
              /\ "ASYNC" \notin b_flags[b]
              /\ pc[p] \notin {"idle", "getblk", "held", "dirty"}
         /\ "READ" \in b_flags[b] => ~Pending(b)
         /\ \A c \in Buf : c # b => b_blkno[c] # b_blkno[b]
<1>1. b \in Buf /\ FlagsOK(b)
  BY DEF IInv, Types, BufsOK
<1>2. Busy(b) /\ b_blkno[b] \in Blk /\ "DELWRI" \notin b_flags[b] /\ b \notin ToSet(av)
  BY <1>1 DEF FlagsOK, IInv, ListOK
<1>3. \A p \in Proc : bp[p] = b =>
        /\ "ASYNC" \notin b_flags[b]
        /\ pc[p] \notin {"idle", "getblk", "held", "dirty"}
  BY <1>1, CacheAssumption DEF IInv, Owned, ProcsOK, RequestOK, HeldOK
<1>4. "READ" \in b_flags[b] => ~Pending(b)
  BY <1>2, <1>3 DEF Pending
<1>5. \A c \in Buf : c # b => b_blkno[c] # b_blkno[b]
  BY <1>1, <1>2, CacheAssumption DEF IInv, OneBufferPerBlock
<1> QED
  BY <1>1, <1>2, <1>3, <1>4, <1>5

(* What the device does to the contents: a read brings what was last       *)
(* written, a write makes the disk up to date.                             *)
LEMMA DeviceData ==
  ASSUME IInv, NEW b \in io,
         \/ Transfer(b) \/ Fails(b), latest' = latest
  PROVE  /\ b_data' \in [Buf -> Nat] /\ disk' \in [Blk -> Nat] /\ failed' \subseteq Blk
         /\ \A c \in Buf : c # b => b_data'[c] = b_data[c]
         /\ \A k \in Blk : k # b_blkno[b] => disk'[k] = disk[k] /\ (k \in failed' <=> k \in failed)
         /\ failed \subseteq failed'
         /\ b_blkno[b] \notin failed' =>
              /\ disk'[b_blkno[b]] = latest[b_blkno[b]]
              /\ Transfer(b) => b_data'[b] = latest[b_blkno[b]]
<1>1. PICK k \in Blk : k = b_blkno[b]
  BY BufferInIo
<1>2. /\ b \in Buf /\ ("READ" \in b_flags[b] => ~Pending(b))
      /\ \A c \in Buf : c # b => b_blkno[c] # k
      /\ b_data \in [Buf -> Nat] /\ disk \in [Blk -> Nat] /\ failed \subseteq Blk
  BY <1>1, BufferInIo DEF IInv, Types
<1>3. "READ" \in b_flags[b] /\ k \notin failed => disk[k] = latest[k]
  BY <1>1, <1>2 DEF IInv, Kept
<1>4. "READ" \notin b_flags[b] /\ k \notin failed => b_data[b] = latest[k]
  BY <1>1, <1>2 DEF IInv, DataOK, Valid, Pending
<1>5. CASE Transfer(b)
  <2>1. CASE "READ" \in b_flags[b]
    <3>1. b_data' = [b_data EXCEPT ![b] = disk[k]] /\ disk' = disk /\ failed' = failed
      BY <1>1, <1>5, <2>1 DEF Transfer
    <3> QED
      BY <1>1, <1>2, <1>3, <2>1, <3>1
  <2>2. CASE "READ" \notin b_flags[b]
    <3>1. disk' = [disk EXCEPT ![k] = b_data[b]] /\ b_data' = b_data /\ failed' = failed
      BY <1>1, <1>5, <2>2 DEF Transfer
    <3> QED
      BY <1>1, <1>2, <1>4, <2>2, <3>1
  <2> QED
    BY <2>1, <2>2
<1>6. CASE Fails(b) /\ ~Transfer(b)
  <2>1. /\ disk' = disk /\ b_data' = b_data
        /\ failed' = IF "READ" \in b_flags[b] THEN failed ELSE failed \cup {k}
    BY <1>1, <1>6 DEF Fails
  <2> QED
    BY <1>1, <1>2, <1>3, <1>6, <2>1
<1> QED
  BY <1>5, <1>6

(* iodone: the request has been done or has failed, and the buffer is      *)
(* released or left to the process that waits for it.                      *)
LEMMA IodoneInv ==
  ASSUME IInv, NEW b \in Buf, Iodone(b)
  PROVE  IInv'
<1>1. b \in io /\ UNCHANGED <<pc, op, bp, latest>>
  BY DEF Iodone, procVars
<1>2. /\ Busy(b) /\ FlagsOK(b) /\ b_blkno[b] \in Blk /\ b \notin ToSet(av)
      /\ \A p \in Proc : bp[p] = b =>
           /\ "ASYNC" \notin b_flags[b]
           /\ pc[p] \notin {"idle", "getblk", "held", "dirty"}
      /\ \A c \in Buf : c # b => b_blkno[c] # b_blkno[b]
  BY <1>1, BufferInIo
<1>3. PICK f \in SUBSET Flags :
        /\ f = b_flags[b] \cup {"DONE"} \/ f = b_flags[b] \cup {"DONE", "ERROR"}
        /\ "ERROR" \notin f => Transfer(b)
        /\ Transfer(b) \/ Fails(b)
        /\ Finish(b, f)
  <2>1. b_flags[b] \cup {"DONE"} \in SUBSET Flags /\ b_flags[b] \cup {"DONE", "ERROR"} \in SUBSET Flags
    BY DEF IInv, Types, Flags
  <2> QED
    BY <2>1 DEF Iodone
<1>4. /\ b_data' \in [Buf -> Nat] /\ disk' \in [Blk -> Nat] /\ failed' \subseteq Blk
      /\ \A c \in Buf : c # b => b_data'[c] = b_data[c]
      /\ \A k \in Blk : k # b_blkno[b] => disk'[k] = disk[k] /\ (k \in failed' <=> k \in failed)
      /\ failed \subseteq failed'
      /\ b_blkno[b] \notin failed' =>
           /\ disk'[b_blkno[b]] = latest[b_blkno[b]]
           /\ "ERROR" \notin f => b_data'[b] = latest[b_blkno[b]]
  BY <1>1, <1>3, DeviceData
<1>5. /\ "DONE" \in f /\ "BUSY" \in f /\ "DELWRI" \notin f
      /\ "ASYNC" \in f <=> "ASYNC" \in b_flags[b]
  BY <1>1, <1>2, <1>3 DEF FlagsOK, Busy
<1>6. io' = io \ {b}
  BY <1>3 DEF Finish
<1> DEFINE async == "ASYNC" \in f
<1>7. /\ wchan' \in [Proc -> Chan] /\ flwanted' \in BOOLEAN
      /\ b_blkno' \in [Buf -> Blk \cup {NoBlk}] /\ b_flags' \in [Buf -> SUBSET Flags]
      /\ b_blkno'[b] = IF async /\ "ERROR" \in f THEN NoBlk ELSE b_blkno[b]
      /\ b_flags'[b] = IF async THEN f \ {"WANTED", "BUSY", "ASYNC"} ELSE f \ {"WANTED"}
      /\ \A c \in Buf : c # b => b_flags'[c] = b_flags[c] /\ b_blkno'[c] = b_blkno[c]
      /\ av' \in Seq(Buf) /\ IsInjective(av')
      /\ ToSet(av') = IF async THEN ToSet(av) \cup {b} ELSE ToSet(av)
      /\ \A p \in Proc :
           /\ wchan'[p] \in {wchan[p], NoChan}
           /\ wchan[p] = b => wchan'[p] = NoChan
           /\ wchan'[p] = FreeList => av' = av /\ flwanted' = flwanted
  <2>1. av \in Seq(Buf) /\ IsInjective(av) /\ flwanted \in BOOLEAN
    BY DEF IInv, Types, ListOK
  <2>2. CASE async
    <3>1. Release(b, f, av)
      BY <1>3, <2>2 DEF Finish
    <3>2. \A p \in Proc : wchan[p] = b => "WANTED" \in b_flags[b]
      BY <1>2, <1>5, <2>2 DEF IInv, SleepersWoken
    <3>3. /\ Append(av, b) \in Seq(Buf) /\ IsInjective(Append(av, b))
          /\ ToSet(Append(av, b)) = ToSet(av) \cup {b}
      BY <1>2, <2>1, AppendSet
    <3> HIDE DEF async
    <3>4. /\ wchan' \in [Proc -> Chan] /\ flwanted' = FALSE
          /\ b_blkno' \in [Buf -> Blk \cup {NoBlk}] /\ b_flags' \in [Buf -> SUBSET Flags]
          /\ b_blkno'[b] = IF "ERROR" \in f THEN NoBlk ELSE b_blkno[b]
          /\ b_flags'[b] = f \ {"WANTED", "BUSY", "ASYNC"}
          /\ \A c \in Buf : c # b => b_flags'[c] = b_flags[c] /\ b_blkno'[c] = b_blkno[c]
          /\ av' = Append(av, b)
          /\ \A p \in Proc :
               /\ wchan'[p] \in {wchan[p], NoChan}
               /\ wchan[p] = b /\ "WANTED" \in b_flags[b] => wchan'[p] = NoChan
               /\ wchan[p] = FreeList => wchan'[p] = NoChan
      BY <3>1, ReleaseFacts
    <3> QED
      BY <2>2, <3>2, <3>3, <3>4, CacheAssumption
  <2>3. CASE ~async
    <3>1. /\ b_flags' = [b_flags EXCEPT ![b] = f \ {"WANTED"}]
          /\ wchan' = [p \in Proc |-> IF wchan[p] = b THEN NoChan ELSE wchan[p]]
          /\ UNCHANGED <<b_blkno, av, flwanted>>
      BY <1>3, <2>3 DEF Finish, Wake
    <3>2. wchan' \in [Proc -> Chan] /\ \A p \in Proc : wchan'[p] \in {wchan[p], NoChan}
      BY <3>1 DEF IInv, Types, Chan
    <3>3. f \ {"WANTED"} \in SUBSET Flags
      OBVIOUS
    <3> HIDE DEF async
    <3> QED
      BY <2>1, <2>3, <3>1, <3>2, <3>3 DEF IInv, Types
  <2> QED
    BY <2>2, <2>3
<1>8. /\ "DONE" \in b_flags'[b] /\ "DELWRI" \notin b_flags'[b] /\ "ASYNC" \notin b_flags'[b]
      /\ "BUSY" \in b_flags'[b] <=> ~async
      /\ "ERROR" \in b_flags'[b] <=> "ERROR" \in f
      /\ \A p \in Proc : bp[p] = b => ~async
      /\ ~async => "ASYNC" \notin b_flags[b]
  BY <1>2, <1>5, <1>7
<1> HIDE DEF async
<1>9. Types'
  BY <1>1, <1>4, <1>6, <1>7 DEF IInv, Types
<1>10. ListOK'
  BY <1>2, <1>7, <1>8 DEF IInv, ListOK, Busy
<1>11. BufsOK'
  BY <1>6, <1>7, <1>8 DEF IInv, BufsOK, FlagsOK, Busy
<1>12. bp \in [Proc -> Buf \cup {NoBuf}] /\ wchan \in [Proc -> Chan]
  BY DEF IInv, Types
<1>13. Owned'
  <2>1. \A c \in Buf : Busy(c)' => "ASYNC" \in b_flags'[c] \/ \E q \in Proc : bp'[q] = c
    <3>1. ASSUME Busy(b)' PROVE \E q \in Proc : bp[q] = b
      BY <1>2, <1>8, <3>1 DEF IInv, Owned, Busy
    <3> QED
      BY <1>1, <1>7, <3>1 DEF IInv, Owned, Busy
  <2>2. ASSUME NEW q \in Proc, bp'[q] # NoBuf
        PROVE  /\ Busy(bp[q])' /\ "ASYNC" \notin b_flags'[bp'[q]]
               /\ b_blkno'[bp'[q]] = op'[q].blk
    BY <1>1, <1>7, <1>8, <1>12, <2>2 DEF IInv, Owned, Busy
  <2>3. \A q, r \in Proc : bp'[q] = bp'[r] /\ bp'[q] # NoBuf => q = r
    BY <1>1 DEF IInv, Owned
  <2> QED
    BY <2>1, <2>2, <2>3 DEF Owned
<1>14. OneBufferPerBlock'
  BY <1>2, <1>7 DEF IInv, OneBufferPerBlock
<1>15. ProcsOK'
  <2> SUFFICES ASSUME NEW q \in Proc
               PROVE  RequestOK(q)' /\ HeldOK(q)'
    BY DEF ProcsOK
  <2>1. RequestOK(q) /\ HeldOK(q) /\ bp[q] \in Buf \cup {NoBuf}
    BY <1>12 DEF IInv, ProcsOK
  <2>2. RequestOK(q)'
    BY <1>1, <1>7, <2>1 DEF RequestOK
  <2>3. HeldOK(q)'
    BY <1>1, <1>2, <1>6, <1>7, <1>8, <2>1 DEF RequestOK, HeldOK
  <2> QED
    BY <2>2, <2>3
<1>16. /\ \A c \in Buf : c # b => (Pending(c)' <=> Pending(c)) /\ (Valid(c)' <=> Valid(c))
       /\ Valid(b)' => "ERROR" \notin f
  <2>1. \A c \in Buf : c # b => (Pending(c)' <=> Pending(c))
    BY <1>1, <1>6, <1>7 DEF Pending
  <2>2. ~Pending(b)'
    BY <1>1, <1>2, <1>6, <1>8 DEF Pending
  <2> QED
    BY <1>7, <1>8, <2>1, <2>2 DEF Valid
<1>17. DataOK'
  <2> SUFFICES ASSUME NEW c \in Buf, b_blkno'[c] \in Blk \ failed', Valid(c)'
               PROVE  b_data'[c] = latest[b_blkno'[c]]
    BY <1>1 DEF DataOK
  <2>1. CASE c = b
    BY <1>4, <1>7, <1>16, <2>1
  <2>2. CASE c # b
    BY <1>4, <1>7, <1>16, <2>2 DEF IInv, DataOK
  <2> QED
    BY <2>1, <2>2
<1>18. Kept'
  <2> SUFFICES ASSUME NEW k \in Blk \ failed', disk'[k] # latest[k]
               PROVE  \E c \in Buf : b_blkno'[c] = k /\ Pending(c)'
    BY <1>1 DEF Kept
  <2>1. k # b_blkno[b] /\ k \notin failed /\ disk[k] # latest[k]
    BY <1>4
  <2>2. PICK c \in Buf : b_blkno[c] = k /\ Pending(c)
    BY <2>1 DEF IInv, Kept
  <2> QED
    BY <1>7, <1>16, <2>1, <2>2
<1>19. SleepersWoken'
  <2> SUFFICES ASSUME NEW q \in Proc, wchan'[q] # NoChan
               PROVE  /\ wchan'[q] \in Buf =>
                           IF pc[q] \in {"getblk", "getra"}
                           THEN {"BUSY", "WANTED"} \subseteq b_flags'[wchan'[q]]
                           ELSE /\ wchan'[q] = bp[q] /\ bp[q] \in io'
                                /\ "ASYNC" \notin b_flags'[bp[q]]
                      /\ wchan'[q] = FreeList => av' = <<>> /\ flwanted'
    BY <1>1, CacheAssumption DEF SleepersWoken
  <2>1. wchan'[q] = wchan[q] /\ wchan[q] # b
    BY <1>7
  <2> QED
    BY <1>6, <1>7, <1>12, <2>1 DEF IInv, SleepersWoken
<1> QED
  BY <1>9, <1>10, <1>11, <1>13, <1>14, <1>15, <1>17, <1>18, <1>19 DEF IInv

-----------------------------------------------------------------------------
(* Action by action.                                                       *)

(* bread, getblk and breada up to their first getblk.                      *)
LEMMA CallInv ==
  ASSUME IInv, NEW p \in Proc,
         \/ \E k \in Blk : Bread(p, k)
         \/ \E k \in Blk \cup {NoBlk} : Getblk(p, k)
         \/ \E k, r \in Blk : Breada(p, k, r)
  PROVE  IInv'
<1>1. /\ pc[p] = "idle" /\ bp[p] = NoBuf /\ wchan[p] = NoChan
      /\ pc \in [Proc -> Labels] /\ op \in [Proc -> Request]
  BY DEF IInv, Types, ProcsOK, RequestOK, Bread, Getblk, Breada
<1>2. PICK r \in Request, l \in {"getblk", "ahead"} :
        /\ op' = [op EXCEPT ![p] = r] /\ pc' = [pc EXCEPT ![p] = l]
        /\ r.kind # "getblk" => r.blk \in Blk
        /\ r.kind = "breada" \/ l = "ahead" => r.ra \in Blk
        /\ l = "ahead" => r.kind # "getblk"
        /\ UNCHANGED <<bufVars, disk, bp, wchan, latest, failed>>
  <2>1. CASE \E k \in Blk : Bread(p, k)
    <3>1. PICK k \in Blk : Bread(p, k)
      BY <2>1
    <3>2. [kind |-> "bread", blk |-> k, ra |-> NoBlk] \in Request
      BY DEF Request
    <3> QED
      BY <3>1, <3>2 DEF Bread, Goto
  <2>2. CASE \E k \in Blk \cup {NoBlk} : Getblk(p, k)
    <3>1. PICK k \in Blk \cup {NoBlk} : Getblk(p, k)
      BY <2>2
    <3>2. [kind |-> "getblk", blk |-> k, ra |-> NoBlk] \in Request
      BY DEF Request
    <3> QED
      BY <3>1, <3>2 DEF Getblk, Goto
  <2>3. CASE \E k, r \in Blk : Breada(p, k, r)
    <3>1. PICK k \in Blk, r \in Blk : Breada(p, k, r)
      BY <2>3
    <3>2. /\ [kind |-> "bread", blk |-> k, ra |-> r] \in Request
          /\ [kind |-> "breada", blk |-> k, ra |-> r] \in Request
      BY DEF Request
    <3>3. CASE Incore(k)
      BY <3>1, <3>2, <3>3 DEF Breada, Goto
    <3>4. CASE ~Incore(k)
      BY <3>1, <3>2, <3>4 DEF Breada, Goto
    <3> QED
      BY <3>3, <3>4
  <2> QED
    BY <2>1, <2>2, <2>3
<1>3. /\ pc' \in [Proc -> Labels] /\ op' \in [Proc -> Request]
      /\ pc'[p] = l /\ op'[p] = r /\ bp'[p] = NoBuf /\ wchan'[p] = NoChan
      /\ \A q \in Proc : q # p => pc'[q] = pc[q] /\ op'[q] = op[q]
  BY <1>1, <1>2 DEF Labels
<1>4. RequestOK(p)' /\ HeldOK(p)'
  BY <1>2, <1>3 DEF RequestOK, HeldOK
<1> QED
  BY <1>1, <1>2, <1>3, <1>4, MoveInv

(* breada goes on after its own getblk.                                    *)
LEMMA AheadInv ==
  ASSUME IInv, NEW p \in Proc, Ahead(p)
  PROVE  IInv'
<1>1. /\ pc[p] = "ahead" /\ wchan[p] = NoChan /\ RequestOK(p) /\ HeldOK(p)
      /\ pc \in [Proc -> Labels] /\ op \in [Proc -> Request]
  BY DEF IInv, Types, ProcsOK, RequestOK, Ahead
<1>2. PICK l \in {"getblk", "iowait", "getra"} :
        /\ pc' = [pc EXCEPT ![p] = l]
        /\ l = "getblk" => bp[p] = NoBuf
        /\ l = "iowait" => bp[p] # NoBuf
        /\ UNCHANGED <<bufVars, disk, op, bp, wchan, latest, failed>>
  BY DEF Ahead, AfterAhead, Goto
<1>3. /\ pc' \in [Proc -> Labels] /\ pc'[p] = l
      /\ \A q \in Proc : q # p => pc'[q] = pc[q] /\ op'[q] = op[q]
  BY <1>1, <1>2 DEF Labels
<1>4. RequestOK(p)' /\ HeldOK(p)'
  BY <1>1, <1>2, <1>3 DEF RequestOK, HeldOK, bufVars
<1> QED
  BY <1>1, <1>2, <1>3, <1>4, MoveInv

(* One round of getblk that goes to sleep.                                 *)
LEMMA GetblkSleepInv ==
  ASSUME IInv, NEW p \in Proc, GetblkBusy(p) \/ GetblkEmpty(p)
  PROVE  IInv'
<1>1. b_flags \in [Buf -> SUBSET Flags] /\ flwanted \in BOOLEAN
  BY DEF IInv, Types
<1>2. CASE GetblkBusy(p)
  <2>1. PICK b \in Buf :
          /\ Busy(b) /\ b_flags' = [b_flags EXCEPT ![b] = @ \cup {"WANTED"}]
          /\ wchan' = [wchan EXCEPT ![p] = b]
    BY <1>2 DEF GetblkBusy
  <2>2. /\ pc[p] \in {"getblk", "getra"}
        /\ UNCHANGED <<b_blkno, b_data, av, flwanted, io, disk, procVars, latest, failed>>
    BY <1>2 DEF GetblkBusy, InGetblk
  <2>3. /\ b_flags' \in [Buf -> SUBSET Flags] /\ b_flags'[b] = b_flags[b] \cup {"WANTED"}
        /\ \A c \in Buf : c # b => b_flags'[c] = b_flags[c]
    BY <1>1, <2>1 DEF Flags
  <2>4. \A c \in Buf : /\ \A x \in Flags : x # "WANTED" =>
                            (x \in b_flags'[c] <=> x \in b_flags[c])
                       /\ "WANTED" \in b_flags[c] => "WANTED" \in b_flags'[c]
    BY <2>3
  <2>5. {"BUSY", "WANTED"} \subseteq b_flags'[b] /\ b # FreeList
    BY <2>1, <2>3, CacheAssumption DEF Busy
  <2> QED
    BY <1>1, <2>1, <2>2, <2>3, <2>4, <2>5, SleepInv
<1>3. CASE GetblkEmpty(p)
  <2>1. /\ pc[p] \in {"getblk", "getra"} /\ av = <<>> /\ flwanted' = TRUE
        /\ wchan' = [wchan EXCEPT ![p] = FreeList]
        /\ UNCHANGED <<b_blkno, b_flags, b_data, av, io, disk, procVars, latest, failed>>
    BY <1>3 DEF GetblkEmpty, InGetblk
  <2> QED
    BY <1>1, <2>1, CacheAssumption, SleepInv
<1> QED
  BY <1>2, <1>3

(* iowait of bread, and iowait and brelse of bwrite.                       *)
LEMMA WaitInv ==
  ASSUME IInv, NEW p \in Proc, Iowait(p) \/ BwriteWait(p)
  PROVE  IInv'
<1>1. /\ pc[p] \in {"iowait", "writing"} /\ wchan[p] = NoChan
      /\ RequestOK(p) /\ HeldOK(p)
      /\ b_flags \in [Buf -> SUBSET Flags] /\ flwanted \in BOOLEAN
      /\ pc \in [Proc -> Labels] /\ op \in [Proc -> Request]
  BY DEF IInv, Types, ProcsOK, Iowait, BwriteWait, Awake
<1>2. PICK b \in Buf : b = bp[p]
  BY <1>1 DEF IInv, Types, RequestOK
<1>3. "ASYNC" \notin b_flags[b] /\ b # FreeList
  BY <1>2, CacheAssumption DEF IInv, Owned
<1>4. CASE "DONE" \notin b_flags[b]
  <2>1. /\ wchan' = [wchan EXCEPT ![p] = b] /\ b \in io
        /\ UNCHANGED <<b_blkno, b_flags, b_data, av, flwanted, io, disk, procVars, latest, failed>>
    <3>1. b \in io
      BY <1>1, <1>2, <1>4 DEF HeldOK, RequestOK
    <3> QED
      BY <1>2, <1>4, <3>1 DEF Iowait, BwriteWait, bufVars, procVars
  <2> QED
    BY <1>1, <1>2, <1>3, <2>1, SleepInv
<1>5. CASE "DONE" \in b_flags[b] /\ Iowait(p)
  <2>1. /\ pc[p] = "iowait" /\ pc' = [pc EXCEPT ![p] = "held"]
        /\ UNCHANGED <<bufVars, disk, op, bp, wchan, latest, failed>>
    BY <1>2, <1>5 DEF Iowait, Goto
  <2>2. /\ pc' \in [Proc -> Labels] /\ pc'[p] = "held"
        /\ \A q \in Proc : q # p => pc'[q] = pc[q] /\ op'[q] = op[q]
    BY <1>1, <2>1 DEF Labels
  <2>3. RequestOK(p)'
    BY <1>1, <2>1, <2>2 DEF RequestOK
  <2>4. b \notin io
    BY <1>5 DEF IInv, BufsOK, FlagsOK
  <2>5. HeldOK(p)'
    BY <1>1, <1>2, <1>5, <2>1, <2>2, <2>4 DEF HeldOK, bufVars
  <2> QED
    BY <1>1, <2>1, <2>2, <2>3, <2>5, MoveInv
<1>6. CASE "DONE" \in b_flags[b] /\ BwriteWait(p)
  <2>1. /\ pc[p] = "writing" /\ Release(bp[p], b_flags[bp[p]], av) /\ Done(p)
        /\ UNCHANGED <<b_data, io, disk, latest, failed>>
    BY <1>2, <1>6 DEF BwriteWait
  <2> QED
    BY <1>1, <1>2, <1>6, <2>1, GiveBackInv
<1> QED
  BY <1>4, <1>5, <1>6

(* One round of getblk that finds a delayed write, and bflush.             *)
LEMMA DelayedInv ==
  ASSUME IInv, (\E p \in Proc : GetblkFlush(p)) \/ Bflush
  PROVE  IInv'
<1>1. /\ av \in Seq(Buf) /\ IsInjective(av) /\ b_flags \in [Buf -> SUBSET Flags]
  BY DEF IInv, Types, ListOK
<1>2. CASE \E p \in Proc : GetblkFlush(p)
  <2>1. /\ av # <<>> /\ "DELWRI" \in b_flags[Head(av)]
        /\ av' = Tail(av) /\ StartWrite(Head(av), {"BUSY", "ASYNC"})
        /\ UNCHANGED <<b_blkno, b_data, flwanted, disk, procVars, wchan, latest, failed>>
    BY <1>2 DEF GetblkFlush
  <2>2. /\ Head(av) \in Buf /\ Head(av) \in ToSet(av)
        /\ Tail(av) \in Seq(Buf) /\ IsInjective(Tail(av))
        /\ ToSet(Tail(av)) = ToSet(av) \ {Head(av)}
    BY <1>1, <2>1, TailSet
  <2>3. PICK b \in Buf : b = Head(av)
    BY <2>2
  <2>4. /\ b_flags' = [c \in Buf |->
             IF c \in {b}
             THEN (b_flags[c] \ {"READ", "DONE", "ERROR", "DELWRI"}) \cup {"BUSY", "ASYNC"}
             ELSE b_flags[c]]
        /\ io' = io \cup {b}
    BY <1>1, <2>1, <2>3 DEF StartWrite
  <2>5. {b} \in SUBSET ToSet(av) /\ \A c \in {b} : "DELWRI" \in b_flags[c]
    BY <2>1, <2>2, <2>3
  <2> QED
    BY <2>1, <2>2, <2>3, <2>4, <2>5, FlushInv
<1>3. CASE Bflush
  <2> DEFINE delayed == {b \in ToSet(av) : "DELWRI" \in b_flags[b]}
  <2>1. /\ b_flags' = [b \in Buf |->
             IF b \in delayed
             THEN (b_flags[b] \ {"READ", "DONE", "ERROR", "DELWRI"}) \cup {"BUSY", "ASYNC"}
             ELSE b_flags[b]]
        /\ io' = io \cup delayed
        /\ UNCHANGED <<b_blkno, b_data, flwanted, disk, procVars, wchan, latest, failed>>
    BY <1>3 DEF Bflush
  <2>2. PICK list \in SetToSeqs(ToSet(av) \ delayed) : av' = list
    BY <1>3 DEF Bflush
  <2>3. ToSet(av) \ delayed \in SUBSET Buf
    BY <1>1 DEF ToSet
  <2>4. av' \in Seq(Buf) /\ IsInjective(av') /\ ToSet(av') = ToSet(av) \ delayed
    BY <2>2, <2>3, SeqOfSet
  <2>5. delayed \in SUBSET ToSet(av) /\ \A b \in delayed : "DELWRI" \in b_flags[b]
    OBVIOUS
  <2> HIDE DEF delayed
  <2> QED
    BY <2>1, <2>4, <2>5, FlushInv
<1> QED
  BY <1>2, <1>3

(* One round of getblk that finds the block, or takes the oldest buffer.   *)
LEMMA GetblkInv ==
  ASSUME IInv, NEW p \in Proc, GetblkHit(p) \/ GetblkNew(p)
  PROVE  IInv'
<1>1. /\ av \in Seq(Buf) /\ IsInjective(av) /\ b_flags \in [Buf -> SUBSET Flags]
      /\ b_blkno \in [Buf -> Blk \cup {NoBlk}]
      /\ pc[p] = "getblk" /\ wchan[p] = NoChan /\ Target(p) = op[p].blk
      /\ UNCHANGED <<b_data, flwanted, disk, op, wchan, latest, failed>>
  BY DEF IInv, Types, ListOK, GetblkHit, GetblkNew, InGetblk, Awake, Target
<1>2. CASE GetblkHit(p)
  <2>1. PICK b \in Buf :
          /\ b_blkno[b] = op[p].blk /\ ~Busy(b) /\ op[p].blk # NoBlk
          /\ av' = Without(b) /\ Obtain(p, b, b_flags[b] \cup {"BUSY"}) /\ b_blkno' = b_blkno
    BY <1>1, <1>2 DEF GetblkHit
  <2>2. b \in ToSet(av)
    BY <2>1 DEF IInv, ListOK
  <2>3. av' \in Seq(Buf) /\ IsInjective(av') /\ ToSet(av') = ToSet(av) \ {b}
    BY <1>1, <2>1, <2>2, WithoutSet
  <2>4. b_blkno' = [b_blkno EXCEPT ![b] = op[p].blk]
    BY <1>1, <2>1
  <2>5. b_flags[b] \cup {"BUSY"} \in SUBSET Flags
    BY <1>1 DEF Flags
  <2> QED
    BY <1>1, <2>1, <2>2, <2>3, <2>4, <2>5, ObtainInv
<1>3. CASE GetblkNew(p)
  <2>1. /\ av # <<>> /\ av' = Tail(av) /\ "DELWRI" \notin b_flags[Head(av)]
        /\ b_blkno' = [b_blkno EXCEPT ![Head(av)] = op[p].blk]
        /\ Obtain(p, Head(av), {"BUSY"})
        /\ op[p].blk = NoBlk \/ ~Incore(op[p].blk)
    BY <1>1, <1>3 DEF GetblkNew, Missing
  <2>2. /\ Head(av) \in ToSet(av) /\ Tail(av) \in Seq(Buf) /\ IsInjective(Tail(av))
        /\ ToSet(Tail(av)) = ToSet(av) \ {Head(av)}
    BY <1>1, <2>1, TailSet
  <2>3. PICK b \in ToSet(av) : b = Head(av)
    BY <2>2
  <2>4. {"BUSY"} \in SUBSET Flags
    BY DEF Flags
  <2> QED
    BY <1>1, <2>1, <2>2, <2>3, <2>4, ObtainInv
<1> QED
  BY <1>2, <1>3

(* The getblk for the block that comes next, and what breada does with it. *)
LEMMA GetraInv ==
  ASSUME IInv, NEW p \in Proc, GetraHit(p) \/ GetraNew(p)
  PROVE  IInv'
<1>1. /\ av \in Seq(Buf) /\ IsInjective(av) /\ b_flags \in [Buf -> SUBSET Flags]
      /\ b_blkno \in [Buf -> Blk \cup {NoBlk}]
      /\ pc[p] = "getra" /\ wchan[p] = NoChan /\ Target(p) = op[p].ra /\ op[p].ra \in Blk
      /\ pc' = [pc EXCEPT ![p] = AfterAhead(p)]
      /\ UNCHANGED <<b_data, disk, op, bp, latest, failed>>
  BY DEF IInv, Types, ListOK, ProcsOK, RequestOK, GetraHit, GetraNew, InGetblk, Awake,
         Target, Goto
<1>2. CASE GetraHit(p)
  <2>1. PICK b \in Buf :
          /\ b_blkno[b] = op[p].ra /\ ~Busy(b)
          /\ IF "DONE" \in b_flags[b]
             THEN Release(b, b_flags[b], Without(b)) /\ UNCHANGED io
             ELSE /\ av' = Without(b)
                  /\ b_flags' = [b_flags EXCEPT ![b] = @ \cup {"BUSY", "READ", "ASYNC"}]
                  /\ io' = io \cup {b}
                  /\ UNCHANGED <<b_blkno, flwanted, wchan>>
    BY <1>2 DEF GetraHit
  <2>2. b \in ToSet(av) /\ FlagsOK(b)
    BY <2>1 DEF IInv, ListOK, BufsOK
  <2>3. CASE "DONE" \in b_flags[b]
    BY <1>1, <2>1, <2>2, <2>3, AheadHitInv
  <2>4. CASE "DONE" \notin b_flags[b]
    <3>1. PICK F \in SUBSET Flags : F = b_flags[b] \cup {"BUSY", "READ", "ASYNC"}
      BY <1>1 DEF Flags
    <3>2. /\ av' = Without(b) /\ b_flags' = [b_flags EXCEPT ![b] = F]
          /\ io' = io \cup {b} /\ UNCHANGED <<b_blkno, flwanted, wchan>>
      BY <1>1, <2>1, <2>4, <3>1
    <3>3. av' \in Seq(Buf) /\ IsInjective(av') /\ ToSet(av') = ToSet(av) \ {b}
      BY <1>1, <2>2, <3>2, WithoutSet
    <3>4. b_blkno' = [b_blkno EXCEPT ![b] = op[p].ra]
      BY <1>1, <2>1, <3>2
    <3>5. "DELWRI" \notin b_flags[b]
      BY <2>2, <2>4 DEF FlagsOK
    <3>6. {"BUSY", "READ", "ASYNC"} \subseteq F /\ "DONE" \notin F /\ "DELWRI" \notin F
      BY <2>4, <3>1, <3>5
    <3> QED
      BY <1>1, <2>1, <2>2, <3>2, <3>3, <3>4, <3>5, <3>6, AheadReadInv
  <2> QED
    BY <2>3, <2>4
<1>3. CASE GetraNew(p)
  <2>1. /\ av # <<>> /\ av' = Tail(av) /\ "DELWRI" \notin b_flags[Head(av)]
        /\ b_blkno' = [b_blkno EXCEPT ![Head(av)] = op[p].ra]
        /\ b_flags' = [b_flags EXCEPT ![Head(av)] = {"BUSY", "READ", "ASYNC"}]
        /\ io' = io \cup {Head(av)}
        /\ ~Incore(op[p].ra)
        /\ UNCHANGED <<flwanted, wchan>>
    BY <1>1, <1>3, CacheAssumption DEF GetraNew, Missing
  <2>2. /\ Head(av) \in ToSet(av) /\ Tail(av) \in Seq(Buf) /\ IsInjective(Tail(av))
        /\ ToSet(Tail(av)) = ToSet(av) \ {Head(av)}
    BY <1>1, <2>1, TailSet
  <2>3. PICK b \in ToSet(av) : b = Head(av)
    BY <2>2
  <2>4. PICK F \in SUBSET Flags : F = {"BUSY", "READ", "ASYNC"}
    BY DEF Flags
  <2>5. {"BUSY", "READ", "ASYNC"} \subseteq F /\ "DONE" \notin F /\ "DELWRI" \notin F
    BY <2>4
  <2> QED
    BY <1>1, <2>1, <2>2, <2>3, <2>4, <2>5, AheadReadInv
<1> QED
  BY <1>2, <1>3

(* brelse, bdwrite, bawrite and the start of bwrite.                       *)
LEMMA HolderInv ==
  ASSUME IInv, NEW p \in Proc, Brelse(p) \/ Bdwrite(p) \/ Bawrite(p) \/ Bwrite(p)
  PROVE  IInv'
<1>1. pc[p] \in {"held", "dirty"}
  BY DEF Brelse, Bdwrite, Bawrite, Bwrite
<1>2. wchan[p] = NoChan /\ bp[p] \in Buf /\ b_flags[bp[p]] \in SUBSET Flags
  BY <1>1, CacheAssumption DEF IInv, Types, ProcsOK, RequestOK
<1>3. b_flags[bp[p]] \cup {"DELWRI", "DONE"} \in SUBSET Flags
  BY <1>2 DEF Flags
<1>4. CASE Brelse(p)
  BY <1>2, <1>4, GiveBackInv DEF Brelse
<1>5. CASE Bdwrite(p)
  BY <1>2, <1>3, <1>5, GiveBackInv DEF Bdwrite
<1>6. CASE Bawrite(p)
  BY <1>6, WriteInv DEF Bawrite
<1>7. CASE Bwrite(p)
  BY <1>7, WriteInv DEF Bwrite, Goto
<1> QED
  BY <1>4, <1>5, <1>6, <1>7

LEMMA NextInv == IInv /\ [Next]_vars => IInv'
<1> SUFFICES ASSUME IInv, [Next]_vars PROVE IInv'
  OBVIOUS
<1>1. CASE UNCHANGED vars
  <2>1. UNCHANGED <<b_blkno, b_flags, b_data, av, flwanted, io, disk, pc, op, bp, wchan, latest, failed>>
    BY <1>1 DEF vars, bufVars, procVars
  <2>2. Types' /\ ListOK' /\ BufsOK' /\ Owned'
    BY <2>1 DEF IInv, Types, ListOK, BufsOK, FlagsOK, Owned, Busy
  <2>3. ProcsOK' /\ OneBufferPerBlock' /\ SleepersWoken'
    BY <2>1 DEF IInv, ProcsOK, RequestOK, HeldOK, OneBufferPerBlock, SleepersWoken
  <2>4. DataOK' /\ Kept'
    BY <2>1 DEF IInv, DataOK, Kept, Valid, Pending
  <2> QED
    BY <2>2, <2>3, <2>4 DEF IInv
<1>2. ASSUME NEW p \in Proc, Step(p) \/ Modify(p)
      PROVE  IInv'
  <2>1. CASE GetblkBusy(p) \/ GetblkEmpty(p)
    BY <2>1, GetblkSleepInv
  <2>2. CASE GetblkHit(p) \/ GetblkNew(p)
    BY <2>2, GetblkInv
  <2>3. CASE GetblkFlush(p)
    BY <2>3, DelayedInv
  <2>4. CASE Ahead(p)
    BY <2>4, AheadInv
  <2>5. CASE GetraHit(p) \/ GetraNew(p)
    BY <2>5, GetraInv
  <2>6. CASE Iowait(p) \/ BwriteWait(p)
    BY <2>6, WaitInv
  <2>7. CASE Brelse(p) \/ Bdwrite(p) \/ Bawrite(p) \/ Bwrite(p)
    BY <2>7, HolderInv
  <2>8. CASE Modify(p)
    BY <2>8, ModifyInv
  <2> QED
    BY <1>2, <2>1, <2>2, <2>3, <2>4, <2>5, <2>6, <2>7, <2>8 DEF Step
<1> QED
  BY <1>1, <1>2, CallInv, DelayedInv, IodoneInv DEF Next

LEMMA CacheInv == Spec => []IInv
<1> QED
  BY InitInv, NextInv, PTL DEF Spec

-----------------------------------------------------------------------------
(* The variables of the buffer cache keep their types, and the available   *)
(* list of bfreelist never has more entries than there are buffers.        *)
THEOREM CacheTypeCorrect == Spec => []TypeOK
<1>1. IInv => TypeOK
  BY ListLength DEF IInv, Types, ListOK, TypeOK
<1> QED
  BY <1>1, CacheInv, PTL

(* getblk, brelse and iodone keep the rule of buf.h: a buffer is on the    *)
(* available list, once, if and only if it is not BUSY, and a busy buffer  *)
(* has exactly one owner, a process or the device.                         *)
THEOREM CacheAvailable == Spec => []AvailIffNotBusy
<1>1. ASSUME IInv PROVE AvailIffNotBusy
  <2>1. \A b \in Buf : Busy(b) <=> b \notin ToSet(av)
    BY <1>1 DEF IInv, ListOK
  <2>2. Len(av) = Cardinality(ToSet(av))
    BY <1>1, ListLength DEF IInv, Types, ListOK
  <2>3. \A p, q \in Proc : bp[p] = bp[q] /\ bp[p] # NoBuf => p = q
    BY <1>1 DEF IInv, Owned
  <2>4. ASSUME NEW b \in Buf
        PROVE  Busy(b) <=> (\E p \in Proc : Holder(p, b))
                           # (b \in io /\ "ASYNC" \in b_flags[b])
    <3>1. ASSUME NEW p \in Proc, bp[p] = b
          PROVE  Holder(p, b) /\ Busy(b) /\ "ASYNC" \notin b_flags[b]
      BY <1>1, <3>1, CacheAssumption DEF IInv, Owned, ProcsOK, RequestOK, Holder
    <3>2. "ASYNC" \in b_flags[b] => b \in io /\ Busy(b)
      BY <1>1 DEF IInv, BufsOK, FlagsOK
    <3>3. Busy(b) => "ASYNC" \in b_flags[b] \/ \E p \in Proc : bp[p] = b
      BY <1>1 DEF IInv, Owned
    <3>4. (\E p \in Proc : Holder(p, b)) <=> \E p \in Proc : bp[p] = b
      BY <3>1 DEF Holder
    <3> QED
      BY <3>1, <3>2, <3>3, <3>4
  <2> QED
    BY <2>1, <2>2, <2>3, <2>4 DEF AvailIffNotBusy
<1> QED
  BY <1>1, CacheInv, PTL

(* getblk never gives a block two buffers, whatever happens while it       *)
(* sleeps.                                                                 *)
THEOREM CacheOneBuffer == Spec => []OneBufferPerBlock
<1>1. IInv => OneBufferPerBlock
  BY DEF IInv
<1> QED
  BY <1>1, CacheInv, PTL

(* bread and breada give their caller what was last written into the       *)
(* block, unless a write of it failed.                                     *)
THEOREM CacheReadsLatest == Spec => []ReadsLatest
<1>1. ASSUME IInv PROVE ReadsLatest
  <2> SUFFICES ASSUME NEW p \in Proc, pc[p] = "held", op[p].kind # "getblk",
                      "ERROR" \notin b_flags[bp[p]], op[p].blk \notin failed
               PROVE  b_blkno[bp[p]] = op[p].blk /\ b_data[bp[p]] = latest[op[p].blk]
    BY DEF ReadsLatest
  <2>1. RequestOK(p) /\ HeldOK(p)
    BY <1>1 DEF IInv, ProcsOK
  <2>2. bp[p] \in Buf /\ b_blkno[bp[p]] = op[p].blk /\ op[p].blk \in Blk
    BY <1>1, <2>1 DEF IInv, Types, Owned, RequestOK
  <2>3. Valid(bp[p])
    BY <2>1 DEF HeldOK, Valid
  <2> QED
    BY <1>1, <2>2, <2>3 DEF IInv, DataOK
<1> QED
  BY <1>1, CacheInv, PTL

(* What was written into a block is on the disk or in a buffer that        *)
(* bwrite, bawrite, getblk or bflush will write, unless a write failed.    *)
THEOREM CacheNothingLost == Spec => []NothingLost
<1>1. ASSUME IInv PROVE NothingLost
  <2> SUFFICES ASSUME NEW k \in Blk \ failed, disk[k] # latest[k]
               PROVE  \E b \in Buf :
                        /\ b_blkno[b] = k /\ b_data[b] = latest[k]
                        /\ \/ "DELWRI" \in b_flags[b]
                           \/ b \in io /\ "READ" \notin b_flags[b]
                           \/ \E p \in Proc : bp[p] = b /\ pc[p] = "dirty"
    BY DEF NothingLost
  <2>1. PICK b \in Buf : b_blkno[b] = k /\ Pending(b)
    BY <1>1 DEF IInv, Kept
  <2>2. b_data[b] = latest[k]
    BY <1>1, <2>1 DEF IInv, DataOK, Valid
  <2> QED
    BY <2>1, <2>2 DEF Pending
<1> QED
  BY <1>1, CacheInv, PTL

(* A process that sleeps in getblk or iowait has left the mark, or the     *)
(* request, that wakes it.                                                 *)
THEOREM CacheSleepersWoken == Spec => []SleepersWoken
<1>1. IInv => SleepersWoken
  BY DEF IInv
<1> QED
  BY <1>1, CacheInv, PTL
=============================================================================
