---------------------------- MODULE NamesProofs -----------------------------
(***************************************************************************)
(* Proofs about Names, for any number of processes, inodes, slots, files   *)
(* and descriptors, any directories and any number of calls.  The tables   *)
(* and the calls are passed as arguments (x, c, h, ...), so that what the  *)
(* operators of Inodes do is stated once, for the tables in the middle of  *)
(* an action too.                                                          *)
(***************************************************************************)
EXTENDS Names, FiniteSetTheorems, FunctionTheorems, SequenceTheorems,
        WellFoundedInduction, TLAPS

Cnt(x, s) == x.core[s].count
Lck(x, s) == x.core[s].lock

(* What the tables satisfy at every moment of every call: types and sizes, *)
(* a slot is vacant when its count is not positive, an inode is in one     *)
(* slot, and whoever sleeps and is not forgotten will be woken.            *)
Fits(x)   == Len(x.sinode) <= NICINOD /\ Len(x.text) <= NTEXT
Vacant(x) == \A s \in Slot : x.core[s].ino = 0 <=> x.core[s].count <= 0
Single(x) == \A s, t \in Slot :
               s # t /\ x.core[s].ino = x.core[t].ino => x.core[s].ino = 0
Wakes(x)  == \A p \in Proc : x.wait[p] # 0 /\ p \notin x.forgotten =>
               x.core[x.wait[p]].lock /\ x.core[x.wait[p]].want

Sound(x) == x \in InodeTables /\ Fits(x) /\ Vacant(x) /\ Single(x) /\ Wakes(x)

-----------------------------------------------------------------------------
(* The flag of namei that belongs to where a call is.                      *)
FlagFor(c) == IF Doing(c) = "link" THEN (IF c.ip = 0 THEN 0 ELSE 1)
              ELSE FlagOf(Doing(c))

(* A call as it asks for an inode: it holds u_pdir only to delete a name,  *)
(* and an inode besides only in getcwd and in the second half of link.     *)
Ready(c) ==
  /\ c \in CallRecords /\ c.op \in Calls
  /\ c.dp = 0
  /\ c.op = "rename" => c.step \in 1..4 /\ c.old \in Paths
  /\ c.op \in TwoPath => c.new \in Paths
  /\ c.op = "getcwd" => c.pd = 0 /\ c.flag = 0
  /\ c.op # "getcwd" => c.flag = FlagFor(c)
  /\ c.ip # 0 => c.op = "getcwd" \/ Doing(c) = "link"
  /\ c.pd # 0 => c.flag = 2
  /\ c.flag = 2 /\ c.pd = 0 /\ ~c.first => c.rest # <<>>

(* What a call holds, by its place: dp is added to what it was Ready with, *)
(* and namei to create returns u_pdir in its stead.                        *)
Fetched(c) == Ready([c EXCEPT !.dp = 0])

Placed(c) ==
  CASE c.pc = "idle"   -> c = Idle
    [] c.pc = "iget"   -> Ready(c) /\ (c.op = "getcwd" => c.want # 0)
    [] c.pc = "look"   -> Fetched(c) /\ c.op # "getcwd" /\ c.dp # 0 /\ c.pd = 0
    [] c.pc = "dotdot" -> Ready(c) /\ c.op = "getcwd" /\ c.ip # 0
    [] c.pc = "search" -> Fetched(c) /\ c.op = "getcwd" /\ c.ip # 0 /\ c.dp # 0
    [] c.pc = "load"   -> c.op = "exec" /\ c.dp # 0 /\ c.pd = 0 /\ c.ip = 0
    [] c.pc = "exit"   -> c.op = "exit" /\ c.dp = 0 /\ c.pd = 0 /\ c.ip = 0
    [] OTHER ->
         /\ Ready([c EXCEPT !.dp = 0, !.pd = 0, !.first = TRUE])
         /\ c.op # "getcwd"
         /\ c.flag = 0 => c.dp # 0 /\ c.pd = 0
         /\ c.flag = 1 => (c.dp = 0 \/ c.pd = 0)
                          /\ (c.dp # 0 \/ c.pd # 0 \/ Doing(c) = "link")
         /\ c.flag = 2 => c.dp # 0 /\ c.pd # 0

(* The inode namei or getcwd has just fetched is in core.                  *)
Present(x, c) ==
  /\ c.pc \in {"look", "done", "search"} /\ c.dp # 0 => x.core[c.dp].ino # 0
  /\ c.pc = "dotdot" => x.core[c.ip].ino # 0

CallOK(x, c) == c \in CallRecords /\ Placed(c) /\ Present(x, c)

(* The calls that sleep, one for each process.                             *)
HungOK(h) ==
  /\ h \in [Proc -> CallRecords]
  /\ \A p \in Proc : h[p] = Idle \/ (h[p].pc = "iget" /\ Placed(h[p]) /\ h[p].p = p)

(* Only a process that exists calls, and it makes one call at a time.      *)
Callers(c, h, cd, of) ==
  /\ c # Idle => h[c.p] = Idle /\ cd[c.p] # 0
  /\ \A p \in Proc : h[p] # Idle => cd[p] # 0
  /\ \A p \in Proc : cd[p] = 0 => \A fd \in Fd : of[p][fd] = 0

-----------------------------------------------------------------------------
Descriptor(of, f) == {d \in Proc \X Fd : of[d[1]][d[2]] = f}

FilesOK(fl, of) ==
  /\ fl \in [File -> [count : Nat, inode : Slot \cup {0}]]
  /\ of \in [Proc -> [Fd -> File \cup {0}]]
  /\ \A f \in File : /\ fl[f].count = Cardinality(Descriptor(of, f))
                     /\ fl[f].count > 0 => fl[f].inode # 0

InDir(cd, s)  == Cardinality({p \in Proc : cd[p] = s})
InFile(fl, s) == Cardinality({f \in File : fl[f].count > 0 /\ fl[f].inode = s})
InHung(h, s)  == Cardinality({d \in Proc \X Holds : h[d[1]][d[2]] = s})
Fixed(x, s)   == (IF s = RootSlot THEN 1 ELSE 0) + (IF Itext(x, s) THEN 1 ELSE 0)

(* Each count is the number of its holders, up to the skew.                *)
Owed(x, fl, cd, s) == Fixed(x, s) + InDir(cd, s) + InFile(fl, s) + x.skew[s]

Balanced(x, c, h, fl, cd) ==
  \A s \in Slot : Cnt(x, s) = Owed(x, fl, cd, s) + HeldBy(c, s) + InHung(h, s)

(* Each lock has a holder, or was left behind.                             *)
Locks(x, c, h) ==
  \A s \in Slot : Lck(x, s) => \/ s \in x.stranded \/ s \in LockedBy(c)
                               \/ \E p \in Proc : s \in LockedBy(h[p])

Jams(x, h) == ~x.jam => x.stranded = {} /\ \A p \in Proc : h[p] = Idle

-----------------------------------------------------------------------------
(* Least and greatest elements, and sets in ascending order.               *)
LEMMA MinNat ==
  ASSUME NEW S \in SUBSET Nat, S # {}
  PROVE  Min(S) \in S /\ \A y \in S : Min(S) <= y
<1> DEFINE R == {d \in Nat \X Nat : d[1] < d[2]}
<1>1. PICK x \in S : \A y \in S : ~(<<y, x>> \in R)
  <2>1. IsWellFoundedOn(R, Nat)
    BY NatLessThanWellFounded DEF OpToRel
  <2> QED
    BY <2>1, WFMin
<1>2. \A y \in S : x <= y
  <2> TAKE y \in S
  <2>1. <<y, x>> \in Nat \X Nat /\ <<y, x>>[1] = y /\ <<y, x>>[2] = x
    OBVIOUS
  <2>2. ~(y < x)
    BY <1>1, <2>1
  <2> QED
    BY <2>2
<1> QED
  BY <1>2 DEF Min

LEMMA MaxNat ==
  ASSUME NEW n \in Nat, NEW S \in SUBSET (1..n), S # {}
  PROVE  Max(S) \in S /\ \A y \in S : Max(S) >= y
<1> DEFINE T == {n - x : x \in S}
<1>1. T \in SUBSET Nat /\ T # {}
  <2>1. \A x \in S : n - x \in Nat
    OBVIOUS
  <2>2. PICK x : x \in S
    OBVIOUS
  <2> QED
    BY <2>1, <2>2
<1>2. PICK t \in T : \A u \in T : t <= u
  BY <1>1, MinNat
<1>3. PICK x \in S : t = n - x
  BY <1>2
<1>4. \A y \in S : x >= y
  <2> TAKE y \in S
  <2>1. n - y \in T
    OBVIOUS
  <2>2. n - x <= n - y
    BY <1>2, <1>3, <2>1
  <2> QED
    BY <2>2
<1> QED
  BY <1>4 DEF Max

Rises(q) == \A i, j \in DOMAIN q : i < j => q[i] < q[j]

(* Every set of numbers can be put in order: a smallest one that cannot    *)
(* would be in order once its greatest element is taken away.              *)
LEMMA Sortable ==
  ASSUME NEW n \in Nat, NEW S \in SUBSET (1..n)
  PROVE  IsFiniteSet(S) /\ \E q \in [1..Cardinality(S) -> S] : Rises(q)
<1> DEFINE Can(T) == \E q \in [1..Cardinality(T) -> T] : Rises(q)
           Bad == {m \in Nat : \E T \in SUBSET (1..n) :
                     Cardinality(T) = m /\ ~Can(T)}
<1>1. \A T \in SUBSET (1..n) : IsFiniteSet(T) /\ Cardinality(T) \in Nat
  <2>1. IsFiniteSet(1..n)
    BY FS_Interval
  <2> QED
    BY <2>1, FS_Subset, FS_CardinalityType
<1>2. SUFFICES ASSUME ~Can(S) PROVE FALSE
  BY <1>1
<1>3. Bad \in SUBSET Nat /\ Bad # {}
  BY <1>1, <1>2
<1>4. PICK m \in Bad : \A u \in Bad : m <= u
  BY <1>3, MinNat
<1>5. PICK T \in SUBSET (1..n) : Cardinality(T) = m /\ ~Can(T)
  BY <1>4
<1> HIDE DEF Can
<1>6. T # {}
  <2>1. SUFFICES ASSUME T = {} PROVE Can(T)
    BY <1>5
  <2>2. Cardinality(T) = 0
    BY <2>1, FS_EmptySet
  <2>3. [i \in 1..0 |-> i] \in [1..Cardinality(T) -> T]
    BY <2>1, <2>2
  <2>4. Rises([i \in 1..0 |-> i])
    BY DEF Rises
  <2> QED
    BY <2>3, <2>4 DEF Can
<1>7. PICK g \in T : \A y \in T : g >= y
  BY <1>6, MaxNat
<1> DEFINE U == T \ {g}
<1>8. U \in SUBSET (1..n) /\ Cardinality(U) = m - 1 /\ m \in Nat /\ m - 1 \in Nat
  <2>1. Cardinality(U) = m - 1
    BY <1>1, <1>5, <1>7, FS_RemoveElement
  <2>2. U \in SUBSET (1..n)
    OBVIOUS
  <2> QED
    BY <2>1, <2>2, <1>1, <1>4
<1>9. Can(U)
  <2>1. CASE ~Can(U)
    <3>1. m - 1 \in Bad
      BY <2>1, <1>8
    <3> QED
      BY <3>1, <1>4, <1>8
  <2> QED
    BY <2>1
<1>10. PICK q \in [1..(m - 1) -> U] : Rises(q)
  BY <1>9, <1>8 DEF Can
<1> DEFINE r == [i \in 1..m |-> IF i = m THEN g ELSE q[i]]
<1>11. r \in [1..m -> T]
  <2>1. \A i \in 1..m : i # m => i \in 1..(m - 1)
    BY <1>8
  <2>2. \A i \in 1..m : r[i] \in T
    BY <2>1, <1>10, <1>7
  <2> QED
    BY <2>2
<1>12. Rises(r)
  <2> SUFFICES ASSUME NEW i \in 1..m, NEW j \in 1..m, i < j PROVE r[i] < r[j]
    BY DEF Rises
  <2>1. i \in 1..(m - 1) /\ r[i] = q[i] /\ q[i] \in U
    BY <1>8, <1>10
  <2>2. CASE j = m
    <3>1. q[i] # g /\ q[i] \in T /\ g \in T
      BY <2>1
    <3>2. \A y \in T : y \in Nat
      OBVIOUS
    <3>3. PICK y \in T : y = q[i]
      BY <3>1
    <3>4. y # g /\ g >= y /\ y \in Nat /\ g \in Nat
      BY <3>1, <3>2, <3>3, <1>7
    <3> QED
      BY <3>3, <3>4, <2>1, <2>2
  <2>3. CASE j # m
    <3>1. j \in 1..(m - 1) /\ r[j] = q[j]
      BY <2>3, <1>8
    <3>2. DOMAIN q = 1..(m - 1)
      BY <1>10
    <3> QED
      BY <3>1, <3>2, <2>1, <1>10 DEF Rises
  <2> QED
    BY <2>2, <2>3
<1>13. Can(T)
  BY <1>11, <1>12, <1>5 DEF Can
<1> QED
  BY <1>13, <1>5

LEMMA AscendingType ==
  ASSUME NEW n \in Nat, NEW S \in SUBSET (1..n)
  PROVE  Ascending(S) \in Seq(S)
<1>1. \E q \in [1..Cardinality(S) -> S] : Rises(q)
  BY Sortable
<1>2. Ascending(S) \in [1..Cardinality(S) -> S]
  BY <1>1 DEF Ascending, Rises
<1>3. Cardinality(S) \in Nat
  BY Sortable, FS_CardinalityType
<1> QED
  BY <1>2, <1>3, SeqDef

-----------------------------------------------------------------------------
(* From the tables x to y: nothing new is locked, what was left locked is  *)
(* still known as such, and no text, skew or jam is added.                 *)
Slack(x, y) ==
  /\ y.text = x.text /\ y.skew = x.skew /\ y.jam = x.jam
  /\ y.stranded \subseteq x.stranded
  /\ \A t \in Slot : Lck(y, t) => Lck(x, t) /\ (t \in x.stranded => t \in y.stranded)

Bit(b) == IF b THEN 1 ELSE 0

Same(x, y)    == \A t \in Slot : Cnt(y, t) = Cnt(x, t)
Less(x, y, s) == \A t \in Slot : Cnt(y, t) = Cnt(x, t) - Bit(t = s)
More(x, y, s) == \A t \in Slot : Cnt(y, t) = Cnt(x, t) + Bit(t = s)

Keeps(x, y)    == Sound(y) /\ Slack(x, y) /\ Same(x, y)
Drops(x, y, s) == Sound(y) /\ Slack(x, y) /\ Less(x, y, s) /\ ~Lck(y, s)

(* A change of the tables that leaves the core inodes alone but for mode,  *)
(* links and the flags of a change, and nobody's sleep, locks or counts.   *)
Edits(x, y) ==
  /\ y \in InodeTables /\ Fits(y)
  /\ y.text = x.text /\ y.skew = x.skew /\ y.jam = x.jam
  /\ y.stranded = x.stranded /\ y.forgotten = x.forgotten /\ y.wait = x.wait
  /\ \A t \in Slot : /\ y.core[t].ino = x.core[t].ino
                     /\ y.core[t].count = x.core[t].count
                     /\ y.core[t].lock = x.core[t].lock
                     /\ y.core[t].want = x.core[t].want

LEMMA EditsKeep ==
  ASSUME NEW x, NEW y, Sound(x), Edits(x, y)
  PROVE  Keeps(x, y)
<1>1. Vacant(y)
  BY DEF Sound, Edits, Vacant
<1>2. Single(y)
  BY DEF Sound, Edits, Single
<1>3. Wakes(y)
  <2> SUFFICES ASSUME NEW p \in Proc, y.wait[p] # 0, p \notin y.forgotten
               PROVE  y.core[y.wait[p]].lock /\ y.core[y.wait[p]].want
    BY DEF Wakes
  <2>1. x.wait[p] \in Slot /\ y.wait[p] = x.wait[p]
    BY DEF Sound, Edits, InodeTables
  <2>2. x.core[x.wait[p]].lock /\ x.core[x.wait[p]].want
    BY <2>1 DEF Sound, Edits, Wakes
  <2> QED
    BY <2>1, <2>2 DEF Edits
<1> QED
  BY <1>1, <1>2, <1>3 DEF Keeps, Sound, Slack, Same, Edits, Cnt, Lck

LEMMA KeepsTrans ==
  ASSUME NEW x, NEW y, NEW z, Keeps(x, y), Keeps(y, z)
  PROVE  Keeps(x, z)
BY DEF Keeps, Slack, Same

LEMMA KeepsDrops ==
  ASSUME NEW x, NEW y, NEW z, NEW s \in Slot, Keeps(x, y), Drops(y, z, s)
  PROVE  Drops(x, z, s)
BY DEF Keeps, Drops, Slack, Same, Less

-----------------------------------------------------------------------------
(* prele.                                                                  *)
LEMMA PreleKeeps ==
  ASSUME NEW x, Sound(x), NEW s \in Slot
  PROVE  Keeps(x, Prele(x, s)) /\ ~Lck(Prele(x, s), s)
<1> DEFINE y == Prele(x, s)
           woken == IF x.core[s].want THEN Sleepers(x, s) ELSE {}
<1> DEFINE C == [x.core EXCEPT ![s].lock = FALSE, ![s].want = FALSE]
           W == [p \in Proc |-> IF p \in woken THEN 0 ELSE x.wait[p]]
<1>1. y = [x EXCEPT !.core = C, !.wait = W, !.forgotten = @ \ woken,
                    !.stranded = @ \ {s}]
  BY DEF Prele, Sound, InodeTables
<1>2. /\ y \in InodeTables /\ y.sinode = x.sinode
      /\ y.text = x.text /\ y.skew = x.skew /\ y.jam = x.jam
      /\ y.stranded = x.stranded \ {s} /\ y.forgotten = x.forgotten \ woken
      /\ y.wait = W
  <2>1. C \in [Slot -> CoreInodes]
    <3>1. \A c \in CoreInodes :
            [c EXCEPT !.lock = FALSE, !.want = FALSE] \in CoreInodes
      BY DEF CoreInodes
    <3>2. x.core \in [Slot -> CoreInodes]
      BY DEF Sound, InodeTables
    <3> QED
      BY <3>1, <3>2
  <2> HIDE DEF C, woken, y
  <2>2. W \in [Proc -> Slot \cup {0}]
    BY DEF Sound, InodeTables
  <2> HIDE DEF W
  <2> QED
    BY <2>1, <2>2, <1>1 DEF Sound, InodeTables
<1>3. \A t \in Slot : /\ y.core[t].ino = x.core[t].ino
                      /\ y.core[t].count = x.core[t].count
                      /\ t # s => y.core[t] = x.core[t]
  BY DEF Prele, Sound, InodeTables, CoreInodes
<1>4. ~y.core[s].lock
  BY DEF Prele, Sound, InodeTables, CoreInodes
<1> HIDE DEF y
<1>5. Fits(y) /\ Vacant(y) /\ Single(y)
  BY <1>2, <1>3 DEF Sound, Fits, Vacant, Single
<1>6. Wakes(y)
  <2> SUFFICES ASSUME NEW p \in Proc, y.wait[p] # 0, p \notin y.forgotten
               PROVE  y.core[y.wait[p]].lock /\ y.core[y.wait[p]].want
    BY DEF Wakes
  <2>1. p \notin woken /\ y.wait[p] = x.wait[p] /\ p \notin x.forgotten
    BY <1>2
  <2>2. x.wait[p] \in Slot
    BY <2>1 DEF Sound, InodeTables
  <2>3. x.core[x.wait[p]].lock /\ x.core[x.wait[p]].want
    BY <2>1 DEF Sound, Wakes
  <2>4. x.wait[p] # s
    BY <2>1, <2>3 DEF Sleepers
  <2> QED
    BY <2>1, <2>2, <2>3, <2>4, <1>3
<1>7. Slack(x, y) /\ Same(x, y)
  <2>1. \A t \in Slot : Lck(y, t) => Lck(x, t) /\ t # s
    BY <1>3, <1>4 DEF Lck
  <2> QED
    BY <2>1, <1>2, <1>3 DEF Slack, Same, Cnt
<1> QED
  BY <1>2, <1>4, <1>5, <1>6, <1>7 DEF Keeps, Sound, Lck, y

-----------------------------------------------------------------------------
(* The parts of iput.                                                      *)
LEMMA TablesTypes ==
  ASSUME NEW x, Sound(x)
  PROVE  /\ x.core \in [Slot -> CoreInodes]
         /\ x.disk \in [Ino -> [mode : Modes, nlink : Int]]
         /\ x.dir \in [Ino -> Seq(Entries)] /\ x.sinode \in Seq(Ino)
         /\ x.wait \in [Proc -> Slot \cup {0}] /\ x.text \in Seq(Slot)
         /\ x.skew \in [Slot -> Int] /\ x.stranded \in SUBSET Slot
         /\ x.forgotten \in SUBSET Proc /\ x.jam \in BOOLEAN
         /\ x.short \in SUBSET (Ino \cup {0})
BY DEF Sound, InodeTables

(* A core inode changed in mode, links and the flags of a change.          *)
Put(x, s, c, D, Z) ==
  [x EXCEPT !.core = [@ EXCEPT ![s] = c], !.dir = D, !.short = Z]

LEMMA PutEdits ==
  ASSUME NEW x, Sound(x), NEW s \in Slot, NEW c \in CoreInodes,
         c.ino = x.core[s].ino, c.count = x.core[s].count,
         c.lock = x.core[s].lock, c.want = x.core[s].want,
         NEW D \in [Ino -> Seq(Entries)], NEW Z \in SUBSET (Ino \cup {0})
  PROVE  Edits(x, Put(x, s, c, D, Z)) /\ Put(x, s, c, D, Z).core[s] = c
<1> DEFINE y == Put(x, s, c, D, Z)
<1>1. [x.core EXCEPT ![s] = c] \in [Slot -> CoreInodes]
  BY TablesTypes
<1>2. /\ y \in InodeTables /\ y.core = [x.core EXCEPT ![s] = c]
      /\ y.sinode = x.sinode /\ y.text = x.text /\ y.skew = x.skew
      /\ y.jam = x.jam /\ y.stranded = x.stranded
      /\ y.forgotten = x.forgotten /\ y.wait = x.wait
  BY <1>1 DEF Sound, InodeTables, Put
<1> HIDE DEF y
<1>3. \A t \in Slot : y.core[t] = IF t = s THEN c ELSE x.core[t]
  BY <1>2, TablesTypes
<1> QED
  BY <1>2, <1>3 DEF Edits, Sound, Fits, y

LEMMA ItruncEdits ==
  ASSUME NEW x, Sound(x), NEW s \in Slot
  PROVE  /\ Edits(x, Itrunc(x, s))
         /\ Itrunc(x, s).core[s].ino = x.core[s].ino
         /\ Itrunc(x, s).core[s].nlink = x.core[s].nlink
<1>1. CASE x.core[s].mode = "dev"
  BY <1>1 DEF Itrunc, Edits, Sound
<1>2. CASE x.core[s].mode # "dev"
  <2> DEFINE c == [x.core[s] EXCEPT !.upd = TRUE]
             D == [x.dir EXCEPT ![x.core[s].ino] = <<>>]
  <2>1. x.core[s] \in CoreInodes
    BY TablesTypes
  <2>2. /\ c \in CoreInodes /\ c.ino = x.core[s].ino /\ c.nlink = x.core[s].nlink
        /\ c.count = x.core[s].count
        /\ c.lock = x.core[s].lock /\ c.want = x.core[s].want
    BY <2>1 DEF CoreInodes
  <2>3. D \in [Ino -> Seq(Entries)]
    <3>1. <<>> \in Seq(Entries)
      OBVIOUS
    <3> QED
      BY <3>1, TablesTypes
  <2>4. Itrunc(x, s) = Put(x, s, c, D, x.short)
    BY <1>2 DEF Itrunc, Sound, InodeTables, Put
  <2>5. x.short \in SUBSET (Ino \cup {0})
    BY TablesTypes
  <2> HIDE DEF c, D
  <2>6. Edits(x, Itrunc(x, s)) /\ Itrunc(x, s).core[s] = c
    BY <2>2, <2>3, <2>4, <2>5, PutEdits
  <2> QED
    BY <2>6, <2>2
<1> QED
  BY <1>1, <1>2

LEMMA IupdatEdits ==
  ASSUME NEW x, Sound(x), NEW s \in Slot
  PROVE  Edits(x, Iupdat(x, s))
<1> DEFINE c == x.core[s]
           D == [x.disk EXCEPT ![c.ino] = [mode |-> c.mode, nlink |-> c.nlink]]
<1>1. D \in [Ino -> [mode : Modes, nlink : Int]]
  <2>1. c \in CoreInodes
    BY TablesTypes
  <2>2. [mode |-> c.mode, nlink |-> c.nlink] \in [mode : Modes, nlink : Int]
    BY <2>1 DEF CoreInodes
  <2> QED
    BY <2>2, TablesTypes
<1>2. Iupdat(x, s) = x \/ Iupdat(x, s) = [x EXCEPT !.disk = D]
  BY DEF Iupdat, Sound, InodeTables
<1> HIDE DEF D
<1>3. Edits(x, x) /\ Edits(x, [x EXCEPT !.disk = D])
  BY <1>1 DEF Edits, Sound, InodeTables, Fits
<1> QED
  BY <1>2, <1>3

LEMMA IfreeEdits ==
  ASSUME NEW x, Sound(x), NEW n \in Ino
  PROVE  Edits(x, Ifree(x, n)) /\ Ifree(x, n).core = x.core
<1> DEFINE q == Append(x.sinode, n)
<1>1. CASE Len(x.sinode) >= NICINOD
  BY <1>1 DEF Ifree, Edits, Sound
<1>2. CASE ~(Len(x.sinode) >= NICINOD)
  <2>1. q \in Seq(Ino) /\ Len(q) = Len(x.sinode) + 1 /\ Len(x.sinode) \in Nat
    BY TablesTypes
  <2>2. Len(q) <= NICINOD
    BY <2>1, <1>2, InodesAssumption
  <2>3. Ifree(x, n) = [x EXCEPT !.sinode = q]
    BY <1>2 DEF Ifree
  <2> HIDE DEF q
  <2>4. Ifree(x, n) \in InodeTables
    BY <2>1, <2>3 DEF Sound, InodeTables
  <2> QED
    BY <2>2, <2>3, <2>4 DEF Edits, Sound, Fits, InodeTables
<1> QED
  BY <1>1, <1>2

(* The slot given up with the last reference.                              *)
LEMMA Vacated ==
  ASSUME NEW x, Sound(x), NEW s \in Slot, Cnt(x, s) = 1
  PROVE  Drops(x, Vacate(x, s), s)
<1> DEFINE y == Vacate(x, s)
<1>1. EmptySlot \in CoreInodes
  BY DEF EmptySlot, CoreInodes, Modes
<1>2. [x.core EXCEPT ![s] = EmptySlot] \in [Slot -> CoreInodes]
  BY <1>1, TablesTypes
<1>3. Sleepers(x, s) \in SUBSET Proc
  BY DEF Sleepers
<1>4. /\ y \in InodeTables /\ y.core = [x.core EXCEPT ![s] = EmptySlot]
      /\ y.sinode = x.sinode /\ y.text = x.text /\ y.skew = x.skew
      /\ y.jam = x.jam /\ y.stranded = x.stranded \ {s} /\ y.wait = x.wait
      /\ y.forgotten = x.forgotten \cup Sleepers(x, s)
  BY <1>2, <1>3 DEF Sound, InodeTables, Forget, Vacate
<1> HIDE DEF y
<1>5. \A t \in Slot : y.core[t] = IF t = s THEN EmptySlot ELSE x.core[t]
  BY <1>4, TablesTypes
<1>6. EmptySlot.ino = 0 /\ EmptySlot.count = 0 /\ ~EmptySlot.lock
  BY DEF EmptySlot
<1>7. Fits(y) /\ Vacant(y) /\ Single(y)
  BY <1>4, <1>5, <1>6 DEF Sound, Fits, Vacant, Single
<1>8. Wakes(y)
  <2> SUFFICES ASSUME NEW p \in Proc, y.wait[p] # 0, p \notin y.forgotten
               PROVE  y.core[y.wait[p]].lock /\ y.core[y.wait[p]].want
    BY DEF Wakes
  <2>1. p \notin Sleepers(x, s) /\ y.wait[p] = x.wait[p] /\ p \notin x.forgotten
    BY <1>4
  <2>2. x.wait[p] \in Slot /\ x.wait[p] # s
    BY <2>1, TablesTypes DEF Sleepers
  <2>3. x.core[x.wait[p]].lock /\ x.core[x.wait[p]].want
    BY <2>1 DEF Sound, Wakes
  <2> QED
    BY <2>1, <2>2, <2>3, <1>5
<1>9. Slack(x, y)
  BY <1>4, <1>5, <1>6 DEF Slack, Lck
<1>10. Less(x, y, s) /\ ~Lck(y, s)
  <2>1. ~Lck(y, s)
    BY <1>5, <1>6 DEF Lck
  <2>2. \A t \in Slot : Cnt(x, t) \in Int
    BY TablesTypes DEF Cnt, CoreInodes
  <2>3. \A t \in Slot : Cnt(y, t) = IF t = s THEN 0 ELSE Cnt(x, t)
    BY <1>5, <1>6 DEF Cnt
  <2> QED
    BY <2>1, <2>2, <2>3 DEF Less, Bit
<1> QED
  BY <1>4, <1>7, <1>8, <1>9, <1>10 DEF Drops, Sound, y

(* A reference more or less, with which the slot does not become vacant.   *)
LEMMA Counted ==
  ASSUME NEW x, Sound(x), NEW s \in Slot, NEW d \in Int,
         Cnt(x, s) + d <= 0 <=> Cnt(x, s) <= 0
  PROVE  /\ Sound(AddRef(x, s, d)) /\ Slack(x, AddRef(x, s, d))
         /\ \A t \in Slot : Cnt(AddRef(x, s, d), t) =
                             IF t = s THEN Cnt(x, t) + d ELSE Cnt(x, t)
         /\ \A t \in Slot : AddRef(x, s, d).core[t].ino = x.core[t].ino
<1> DEFINE y == AddRef(x, s, d)
           v == Cnt(x, s) + d
           c == [x.core[s] EXCEPT !.count = v]
<1>1. x.core[s] \in CoreInodes
  BY TablesTypes
<1>2. v \in Int
  BY <1>1 DEF CoreInodes, Cnt
<1>3. /\ c \in CoreInodes /\ c.count = v /\ c.ino = x.core[s].ino
      /\ c.lock = x.core[s].lock /\ c.want = x.core[s].want
  BY <1>1, <1>2 DEF CoreInodes
<1>4. y = [x EXCEPT !.core = [@ EXCEPT ![s] = c]]
  BY DEF AddRef, Sound, InodeTables, Cnt
<1> HIDE DEF c, y
<1>5. [x.core EXCEPT ![s] = c] \in [Slot -> CoreInodes]
  BY <1>3, TablesTypes
<1>6. /\ y \in InodeTables /\ y.core = [x.core EXCEPT ![s] = c]
      /\ y.sinode = x.sinode /\ y.text = x.text /\ y.skew = x.skew
      /\ y.jam = x.jam /\ y.stranded = x.stranded /\ y.wait = x.wait
      /\ y.forgotten = x.forgotten
  BY <1>4, <1>5 DEF Sound, InodeTables
<1>7. \A t \in Slot : y.core[t] = IF t = s THEN c ELSE x.core[t]
  BY <1>6, TablesTypes
<1>8. Fits(y) /\ Vacant(y) /\ Single(y)
  BY <1>3, <1>6, <1>7 DEF Sound, Fits, Vacant, Single, Cnt
<1>9. Wakes(y)
  <2> SUFFICES ASSUME NEW p \in Proc, y.wait[p] # 0, p \notin y.forgotten
               PROVE  y.core[y.wait[p]].lock /\ y.core[y.wait[p]].want
    BY DEF Wakes
  <2>1. y.wait[p] = x.wait[p] /\ p \notin x.forgotten /\ x.wait[p] \in Slot
    BY <1>6, TablesTypes
  <2>2. x.core[x.wait[p]].lock /\ x.core[x.wait[p]].want
    BY <2>1 DEF Sound, Wakes
  <2> QED
    BY <2>1, <2>2, <1>3, <1>7
<1>10. Slack(x, y)
  BY <1>3, <1>6, <1>7 DEF Slack, Lck
<1> QED
  BY <1>3, <1>6, <1>7, <1>8, <1>9, <1>10 DEF Sound, Cnt, y

LEMMA IputDrops ==
  ASSUME NEW x, Sound(x), NEW s \in Slot
  PROVE  Drops(x, Iput(x, s), s)
<1> DEFINE c == x.core[s]
<1>1. c \in CoreInodes
  BY TablesTypes
<1>2. CASE c.count = 1
  <2> DEFINE i == Itrunc(x, s)
             j == [i EXCEPT !.core[s].mode = "free"]
             z == Deallocate(x, s)
             w == Iupdat(z, s)
  <2>1. c.ino \in Ino
    BY <1>1, <1>2 DEF Sound, Vacant, CoreInodes
  <2>2. Keeps(x, i) /\ Sound(i)
    BY ItruncEdits, EditsKeep DEF Keeps
  <2>3. Keeps(i, j) /\ Sound(j)
    <3> DEFINE d == [i.core[s] EXCEPT !.mode = "free"]
    <3> HIDE DEF i
    <3>1. i.core[s] \in CoreInodes
      BY <2>2, TablesTypes
    <3>2. /\ d \in CoreInodes /\ d.ino = i.core[s].ino /\ d.count = i.core[s].count
          /\ d.lock = i.core[s].lock /\ d.want = i.core[s].want
      BY <3>1 DEF CoreInodes, Modes
    <3>3. j = Put(i, s, d, i.dir, i.short)
      BY <2>2 DEF Sound, InodeTables, Put
    <3>4. i.dir \in [Ino -> Seq(Entries)] /\ i.short \in SUBSET (Ino \cup {0})
      BY <2>2, TablesTypes
    <3> HIDE DEF d, j
    <3>5. Edits(i, j)
      BY <2>2, <3>2, <3>3, <3>4, PutEdits
    <3> QED
      BY <2>2, <3>5, EditsKeep DEF Keeps
  <2> HIDE DEF i, j
  <2>4. Keeps(x, z) /\ Sound(z)
    <3>1. Keeps(j, Ifree(j, c.ino))
      BY <2>1, <2>3, IfreeEdits, EditsKeep
    <3>2. Keeps(x, Ifree(j, c.ino))
      BY <2>2, <2>3, <3>1, KeepsTrans
    <3>3. Keeps(x, x)
      BY DEF Keeps, Slack, Same
    <3>4. z = x \/ z = Ifree(j, c.ino)
      BY DEF Deallocate, i, j
    <3> QED
      BY <3>2, <3>3, <3>4 DEF Keeps
  <2> HIDE DEF z
  <2>5. Keeps(x, w) /\ Sound(w)
    <3>1. Keeps(z, w)
      BY <2>4, IupdatEdits, EditsKeep
    <3> QED
      BY <2>4, <3>1, KeepsTrans DEF Keeps
  <2> HIDE DEF w
  <2>6. Cnt(w, s) = 1
    BY <1>2, <2>5 DEF Keeps, Same, Cnt
  <2>7. Iput(x, s) = Vacate(w, s)
    BY <1>2 DEF Iput, z, w
  <2>8. Drops(w, Iput(x, s), s)
    BY <2>5, <2>6, <2>7, Vacated
  <2> QED
    BY <2>5, <2>8, KeepsDrops
<1>3. CASE c.count # 1
  <2> DEFINE z == AddRef(x, s, -1)
  <2>1. Cnt(x, s) \in Int /\ (Cnt(x, s) + (-1) <= 0 <=> Cnt(x, s) <= 0)
    BY <1>1, <1>3 DEF Cnt, CoreInodes
  <2>2. /\ Sound(z) /\ Slack(x, z)
        /\ \A t \in Slot : Cnt(z, t) = IF t = s THEN Cnt(x, t) + (-1) ELSE Cnt(x, t)
    BY <2>1, Counted
  <2>3. Iput(x, s) = Prele(z, s)
    BY <1>3 DEF Iput
  <2> HIDE DEF z
  <2>4. Keeps(z, Prele(z, s)) /\ ~Lck(Prele(z, s), s)
    BY <2>2, PreleKeeps
  <2>5. \A t \in Slot : Cnt(x, t) \in Int
    BY TablesTypes DEF Cnt, CoreInodes
  <2>6. Less(x, Prele(z, s), s)
    BY <2>2, <2>4, <2>5 DEF Less, Keeps, Same, Bit
  <2>7. Slack(x, Prele(z, s))
    BY <2>2, <2>4 DEF Keeps, Slack
  <2> QED
    BY <2>3, <2>4, <2>6, <2>7 DEF Drops, Keeps
<1> QED
  BY <1>2, <1>3

-----------------------------------------------------------------------------
(* iget.                                                                   *)
Takes(x, y, s) ==
  /\ Sound(y) /\ More(x, y, s)
  /\ y.text = x.text /\ y.skew = x.skew /\ y.jam = x.jam
  /\ y.stranded = x.stranded
  /\ \A t \in Slot : Lck(y, t) => t = s \/ Lck(x, t)
  /\ y.core[s].ino # 0

LEMMA SlotNat == Slot \in SUBSET Nat /\ 0 \notin Slot
BY InodesAssumption DEF Slot

LEMMA IgetSlotType ==
  ASSUME NEW x, NEW n
  PROVE  /\ IgetSlot(x, n) \in Slot \cup {0}
         /\ IgetSlot(x, n) # 0 => 
              \/ x.core[IgetSlot(x, n)].ino = n
              \/ InCore(x, n) = {} /\ x.core[IgetSlot(x, n)].count = 0
<1> DEFINE V == {s \in Slot : x.core[s].count = 0}
<1>1. CASE InCore(x, n) # {}
  <2>1. InCore(x, n) \in SUBSET Nat
    BY SlotNat DEF InCore
  <2>2. Min(InCore(x, n)) \in InCore(x, n)
    BY <2>1, <1>1, MinNat
  <2>3. IgetSlot(x, n) = Min(InCore(x, n))
    BY <1>1 DEF IgetSlot
  <2> QED
    BY <2>2, <2>3 DEF InCore
<1>2. CASE InCore(x, n) = {} /\ V # {}
  <2>1. V \in SUBSET Nat
    BY SlotNat
  <2>2. Min(V) \in V
    BY <2>1, <1>2, MinNat
  <2>3. IgetSlot(x, n) = Min(V)
    BY <1>2 DEF IgetSlot
  <2> QED
    BY <2>2, <2>3, <1>2
<1>3. CASE InCore(x, n) = {} /\ V = {}
  BY <1>3 DEF IgetSlot
<1> QED
  BY <1>1, <1>2, <1>3

(* A slot with a new inode; whoever slept on it is forgotten.              *)
Fill(x, s, c) == [Forget(x, s) EXCEPT !.core[s] = c]

LEMMA Filled ==
  ASSUME NEW x, Sound(x), NEW s \in Slot, NEW c \in CoreInodes,
         c.count > 0, c.ino # 0,
         \A t \in Slot : t # s => x.core[t].ino # c.ino
  PROVE  /\ Sound(Fill(x, s, c))
         /\ \A t \in Slot : Fill(x, s, c).core[t] = IF t = s THEN c ELSE x.core[t]
         /\ Fill(x, s, c).text = x.text /\ Fill(x, s, c).skew = x.skew
         /\ Fill(x, s, c).jam = x.jam /\ Fill(x, s, c).stranded = x.stranded
<1> DEFINE y == Fill(x, s, c)
<1>1. [x.core EXCEPT ![s] = c] \in [Slot -> CoreInodes]
  BY TablesTypes
<1>2. Sleepers(x, s) \in SUBSET Proc
  BY DEF Sleepers
<1>3. /\ y \in InodeTables /\ y.core = [x.core EXCEPT ![s] = c]
      /\ y.sinode = x.sinode /\ y.text = x.text /\ y.skew = x.skew
      /\ y.jam = x.jam /\ y.stranded = x.stranded /\ y.wait = x.wait
      /\ y.forgotten = x.forgotten \cup Sleepers(x, s)
  BY <1>1, <1>2 DEF Sound, InodeTables, Forget, Fill
<1> HIDE DEF y
<1>4. \A t \in Slot : y.core[t] = IF t = s THEN c ELSE x.core[t]
  BY <1>3, TablesTypes
<1>5. Fits(y)
  BY <1>3 DEF Sound, Fits
<1>6. Vacant(y)
  <2>1. c.count \in Int
    BY DEF CoreInodes
  <2> QED
    BY <2>1, <1>4 DEF Sound, Vacant
<1>7. Single(y)
  <2> SUFFICES ASSUME NEW t \in Slot, NEW u \in Slot, t # u,
                      y.core[t].ino = y.core[u].ino
               PROVE  y.core[t].ino = 0
    BY DEF Single
  <2>1. t # s /\ u # s
    BY <1>4
  <2> QED
    BY <2>1, <1>4 DEF Sound, Single
<1>8. Wakes(y)
  <2> SUFFICES ASSUME NEW p \in Proc, y.wait[p] # 0, p \notin y.forgotten
               PROVE  y.core[y.wait[p]].lock /\ y.core[y.wait[p]].want
    BY DEF Wakes
  <2>1. p \notin Sleepers(x, s) /\ y.wait[p] = x.wait[p] /\ p \notin x.forgotten
    BY <1>3
  <2>2. x.wait[p] \in Slot /\ x.wait[p] # s
    BY <2>1, TablesTypes DEF Sleepers
  <2>3. x.core[x.wait[p]].lock /\ x.core[x.wait[p]].want
    BY <2>1 DEF Sound, Wakes
  <2> QED
    BY <2>1, <2>2, <2>3, <1>4
<1> QED
  BY <1>3, <1>4, <1>5, <1>6, <1>7, <1>8 DEF Sound, y

LEMMA IgetTakes ==
  ASSUME NEW x, Sound(x), NEW n \in Ino, IgetSlot(x, n) # 0
  PROVE  /\ IgetSlot(x, n) \in Slot
         /\ Takes(x, Iget(x, n), IgetSlot(x, n))
         /\ Iget(x, n).core[IgetSlot(x, n)].ino = n
<1>1. PICK s : s = IgetSlot(x, n)
  OBVIOUS
<1>2. /\ s \in Slot
      /\ x.core[s].ino = n \/ (InCore(x, n) = {} /\ x.core[s].count = 0)
  BY <1>1, IgetSlotType
<1>3. n # 0 /\ \A t \in Slot : Cnt(x, t) \in Int
  <2>1. n # 0
    BY DEF Ino
  <2> QED
    BY <2>1, TablesTypes DEF Cnt, CoreInodes
<1>4. CASE x.core[s].ino = n
  <2> DEFINE z == AddRef(x, s, 1)
             c == [z.core[s] EXCEPT !.lock = TRUE]
             y == Iget(x, n)
  <2>1. ~(Cnt(x, s) <= 0)
    BY <1>2, <1>3, <1>4 DEF Sound, Vacant, Cnt
  <2>2. Cnt(x, s) + 1 <= 0 <=> Cnt(x, s) <= 0
    BY <1>2, <1>3, <2>1
  <2>3. /\ Sound(z) /\ Slack(x, z)
        /\ \A t \in Slot : Cnt(z, t) = IF t = s THEN Cnt(x, t) + 1 ELSE Cnt(x, t)
        /\ \A t \in Slot : z.core[t].ino = x.core[t].ino
    BY <1>2, <2>2, Counted
  <2>4. z.stranded = x.stranded
    BY DEF AddRef, Sound, InodeTables
  <2>5. y = [z EXCEPT !.core[s].lock = TRUE]
    BY <1>1, <1>4 DEF Iget
  <2> HIDE DEF z
  <2>6. y = [z EXCEPT !.core = [@ EXCEPT ![s] = c]]
    BY <2>3, <2>5 DEF Sound, InodeTables
  <2>7. z.core[s] \in CoreInodes
    BY <1>2, <2>3, TablesTypes
  <2>8. /\ c \in CoreInodes /\ c.count = z.core[s].count /\ c.ino = z.core[s].ino
        /\ c.lock /\ c.want = z.core[s].want
    BY <2>7 DEF CoreInodes
  <2> HIDE DEF c, y
  <2>9. [z.core EXCEPT ![s] = c] \in [Slot -> CoreInodes]
    BY <2>3, <2>8, TablesTypes
  <2>10. /\ y \in InodeTables /\ y.core = [z.core EXCEPT ![s] = c]
         /\ y.sinode = z.sinode /\ y.text = z.text /\ y.skew = z.skew
         /\ y.jam = z.jam /\ y.stranded = z.stranded /\ y.wait = z.wait
         /\ y.forgotten = z.forgotten
    BY <2>3, <2>6, <2>9 DEF Sound, InodeTables
  <2>11. \A t \in Slot : y.core[t] = IF t = s THEN c ELSE z.core[t]
    BY <2>3, <2>10, TablesTypes
  <2>12. Fits(y) /\ Vacant(y) /\ Single(y)
    BY <2>3, <2>8, <2>10, <2>11 DEF Sound, Fits, Vacant, Single
  <2>13. Wakes(y)
    <3> SUFFICES ASSUME NEW p \in Proc, y.wait[p] # 0, p \notin y.forgotten
                 PROVE  y.core[y.wait[p]].lock /\ y.core[y.wait[p]].want
      BY DEF Wakes
    <3>1. y.wait[p] = z.wait[p] /\ p \notin z.forgotten /\ z.wait[p] \in Slot
      BY <2>3, <2>10, TablesTypes
    <3>2. z.core[z.wait[p]].lock /\ z.core[z.wait[p]].want
      BY <2>3, <3>1 DEF Sound, Wakes
    <3> QED
      BY <3>1, <3>2, <2>8, <2>11
  <2>14. Sound(y)
    BY <2>10, <2>12, <2>13 DEF Sound
  <2>15. More(x, y, s)
    BY <2>3, <2>8, <2>11, <1>3 DEF More, Bit, Cnt
  <2>16. \A t \in Slot : Lck(y, t) => t = s \/ Lck(x, t)
    BY <2>3, <2>11 DEF Slack, Lck
  <2>17. y.core[s].ino = n
    BY <1>2, <1>4, <2>3, <2>8, <2>11
  <2>18. Takes(x, y, s)
    BY <2>3, <2>4, <2>10, <2>14, <2>15, <2>16, <2>17, <1>3 DEF Takes, Slack
  <2> QED
    BY <1>1, <1>2, <2>17, <2>18 DEF y
<1>5. CASE x.core[s].ino # n
  <2> DEFINE c == [ino |-> n, count |-> 1, lock |-> TRUE, want |-> FALSE,
                   upd |-> FALSE, acc |-> FALSE, mode |-> x.disk[n].mode,
                   nlink |-> x.disk[n].nlink]
             y == Fill(x, s, c)
  <2>1. InCore(x, n) = {} /\ Cnt(x, s) = 0
    BY <1>2, <1>5 DEF Cnt
  <2>2. x.disk[n].mode \in Modes /\ x.disk[n].nlink \in Int
    BY TablesTypes
  <2>3. c \in CoreInodes /\ c.count = 1 /\ c.ino = n
    BY <2>2 DEF CoreInodes
  <2>4. Iget(x, n) = y
    BY <1>1, <1>5 DEF Iget, Fill
  <2> HIDE DEF c
  <2>5. \A t \in Slot : t # s => x.core[t].ino # c.ino
    BY <2>1, <2>3 DEF InCore
  <2>6. /\ Sound(y) /\ y.text = x.text /\ y.skew = x.skew
        /\ y.jam = x.jam /\ y.stranded = x.stranded
        /\ \A t \in Slot : y.core[t] = IF t = s THEN c ELSE x.core[t]
    BY <1>2, <1>3, <2>3, <2>5, Filled
  <2> HIDE DEF y
  <2>7. More(x, y, s)
    BY <2>1, <2>3, <2>6, <1>3 DEF More, Bit, Cnt
  <2>8. Takes(x, y, s) /\ y.core[s].ino = n
    BY <1>2, <1>3, <2>3, <2>6, <2>7 DEF Takes, Lck
  <2> QED
    BY <1>1, <1>2, <2>4, <2>8
<1> QED
  BY <1>4, <1>5

-----------------------------------------------------------------------------
(* ialloc.                                                                 *)
LEMMA MinPair ==
  ASSUME NEW a \in Nat, NEW b \in Nat
  PROVE  Min({a, b}) \in Nat /\ Min({a, b}) <= a /\ Min({a, b}) <= b
<1>1. {a, b} \in SUBSET Nat /\ {a, b} # {}
  OBVIOUS
<1>2. Min({a, b}) \in {a, b} /\ \A y \in {a, b} : Min({a, b}) <= y
  BY <1>1, MinNat
<1> QED
  BY <1>2

(* The first m numbers of a set of inodes, in order.                       *)
LEMMA FirstOnes ==
  ASSUME NEW S \in SUBSET Ino, NEW m \in Nat
  PROVE  LET q == SubSeq(Ascending(S), 1, Min({Len(Ascending(S)), m}))
         IN q \in Seq(S) /\ Len(q) <= m
<1>1. PICK a : a = Ascending(S)
  OBVIOUS
<1>2. a \in Seq(S) /\ Len(a) \in Nat
  <2>1. NINO \in Nat /\ S \in SUBSET (1..NINO)
    BY InodesAssumption DEF Ino
  <2>2. a \in Seq(S)
    BY <1>1, <2>1, AscendingType
  <2> QED
    BY <2>2
<1>3. PICK b : b = Min({Len(a), m})
  OBVIOUS
<1>4. b \in Nat /\ b <= Len(a) /\ b <= m
  BY <1>2, <1>3, MinPair
<1>5. \A i \in 1..b : a[i] \in S
  BY <1>2, <1>4
<1>6. /\ SubSeq(a, 1, b) \in Seq(S)
      /\ Len(SubSeq(a, 1, b)) = IF 1 <= b THEN b - 1 + 1 ELSE 0
  BY <1>4, <1>5, SubSeqProperties
<1>7. Len(SubSeq(a, 1, b)) <= m
  BY <1>4, <1>6
<1> QED
  BY <1>1, <1>3, <1>6, <1>7

LEMMA SearchFinds ==
  ASSUME NEW x
  PROVE  /\ Search(x) \in Seq(Ino) /\ Len(Search(x)) <= NICINOD
         /\ \A i \in DOMAIN Search(x) : ModeOf(x, Search(x)[i]) = "free"
<1> DEFINE S == {n \in Ino : x.disk[n].mode = "free" /\ InCore(x, n) = {}}
<1>1. S \in SUBSET Ino /\ NICINOD \in Nat
  BY InodesAssumption
<1>2. Search(x) \in Seq(S) /\ Len(Search(x)) <= NICINOD
  <2> HIDE DEF S
  <2>1. LET q == SubSeq(Ascending(S), 1, Min({Len(Ascending(S)), NICINOD}))
        IN q \in Seq(S) /\ Len(q) <= NICINOD
    BY <1>1, FirstOnes
  <2>2. Search(x) = SubSeq(Ascending(S), 1, Min({Len(Ascending(S)), NICINOD}))
    BY DEF Search, S
  <2> QED
    BY <2>1, <2>2
<1>3. Search(x) \in Seq(Ino)
  BY <1>1, <1>2, SeqMonotonic
<1>4. \A i \in DOMAIN Search(x) : Search(x)[i] \in S
  BY <1>2
<1>5. \A i \in DOMAIN Search(x) : ModeOf(x, Search(x)[i]) = "free"
  BY <1>4 DEF ModeOf
<1> QED
  BY <1>2, <1>3, <1>5

LEMMA FreesEdit ==
  ASSUME NEW x, Sound(x), NEW r \in Seq(Ino), Len(r) <= NICINOD
  PROVE  Edits(x, [x EXCEPT !.sinode = r])
<1>1. [x EXCEPT !.sinode = r] \in InodeTables
  BY DEF Sound, InodeTables
<1> QED
  BY <1>1 DEF Edits, Sound, Fits, InodeTables

LEMMA IallocTakes ==
  ASSUME NEW x, Sound(x)
  PROVE  LET a == Ialloc(x)
         IN /\ a.s \in Slot \cup {0}
            /\ a.s = 0 => Keeps(x, a.k)
            /\ a.s # 0 => Takes(x, a.k, a.s) /\ ~Lck(a.k, a.s)
<1> DEFINE Usable(q) == {j \in DOMAIN q : ModeOf(x, q[j]) = "free"}
<1>1. PICK q : q = IF Usable(x.sinode) # {} THEN x.sinode ELSE Search(x)
  OBVIOUS
<1>2. /\ q \in Seq(Ino) /\ Len(q) <= NICINOD /\ Len(q) \in Nat /\ NICINOD \in Nat
      /\ DOMAIN q = 1..Len(q)
  BY <1>1, SearchFinds, TablesTypes, InodesAssumption DEF Sound, Fits
<1>3. q # <<>> => Usable(q) # {}
  <2>1. CASE Usable(x.sinode) # {}
    BY <2>1, <1>1
  <2>2. CASE Usable(x.sinode) = {}
    <3> SUFFICES ASSUME q # <<>> PROVE Usable(q) # {}
      OBVIOUS
    <3>1. q = Search(x)
      BY <2>2, <1>1
    <3>2. 1 \in DOMAIN q
      BY <1>2
    <3>3. 1 \in Usable(q)
      BY <3>1, <3>2, SearchFinds
    <3> QED
      BY <3>3
  <2> QED
    BY <2>1, <2>2
<1>4. PICK j : j = Max(Usable(q))
  OBVIOUS
<1> DEFINE y == [x EXCEPT !.sinode = SubSeq(q, 1, j - 1)]
           t == IgetSlot(y, q[j])
           z == Iget(y, q[j])
           c == Cleared(z.core[t])
<1>5. CASE q = <<>>
  <2>1. PICK r : r = <<>>
    OBVIOUS
  <2>2. r = <<>> /\ r \in Seq(Ino) /\ Len(r) <= NICINOD
    BY <2>1, <1>2
  <2>3. Ialloc(x) = [k |-> [x EXCEPT !.sinode = r], s |-> 0]
    BY <1>1, <1>5, <2>2 DEF Ialloc
  <2>4. Edits(x, [x EXCEPT !.sinode = r])
    BY <2>2, FreesEdit
  <2> QED
    BY <2>3, <2>4, EditsKeep
<1>6. CASE q # <<>>
  <2>1. j \in Usable(q) /\ j \in 1..Len(q) /\ j - 1 \in Int
    <3>1. Usable(q) \in SUBSET (1..Len(q)) /\ Usable(q) # {}
      BY <1>2, <1>3, <1>6
    <3> HIDE DEF Usable
    <3>2. j \in Usable(q)
      BY <1>2, <1>4, <3>1, MaxNat
    <3> QED
      BY <3>1, <3>2
  <2>2. q[j] \in Ino
    BY <1>2, <2>1
  <2>3. SubSeq(q, 1, j - 1) \in Seq(Ino) /\ Len(SubSeq(q, 1, j - 1)) <= NICINOD
    <3>1. \A i \in 1..(j - 1) : q[i] \in Ino
      BY <1>2, <2>1
    <3>2. /\ SubSeq(q, 1, j - 1) \in Seq(Ino)
          /\ Len(SubSeq(q, 1, j - 1)) = IF 1 <= j - 1 THEN j - 1 - 1 + 1 ELSE 0
      BY <3>1, <2>1, SubSeqProperties
    <3> QED
      BY <3>2, <1>2, <2>1
  <2>4. Edits(x, y)
    <3>1. PICK r : r = SubSeq(q, 1, j - 1)
      OBVIOUS
    <3>2. Edits(x, [x EXCEPT !.sinode = r])
      BY <2>3, <3>1, FreesEdit
    <3> QED
      BY <3>1, <3>2
  <2>5. Keeps(x, y) /\ Sound(y)
    BY <2>4, EditsKeep DEF Keeps
  <2> HIDE DEF y
  <2>6. CASE t = 0
    <3>1. Ialloc(x) = [k |-> y, s |-> 0]
      BY <1>1, <1>4, <1>6, <2>6 DEF Ialloc, y
    <3> QED
      BY <2>5, <3>1
  <2>7. CASE t # 0
    <3>1. t \in Slot /\ Takes(y, z, t) /\ z.core[t].ino = q[j]
      BY <2>2, <2>5, <2>7, IgetTakes
    <3>2. Ialloc(x) = [k |-> Fill(z, t, c), s |-> t]
      <4>1. Ialloc(x) = [k |-> Clear(z, t), s |-> t]
        BY <1>1, <1>4, <1>6, <2>7 DEF Ialloc, y
      <4>2. Forget(z, t).core = z.core
        BY <3>1 DEF Forget, Takes, Sound, InodeTables
      <4> QED
        BY <4>1, <4>2 DEF Fill, Clear
    <3> HIDE DEF z, t
    <3>3. z.core[t] \in CoreInodes
      BY <3>1, TablesTypes DEF Takes
    <3>4. /\ c \in CoreInodes /\ c.ino = z.core[t].ino
          /\ c.count = z.core[t].count /\ ~c.lock
      BY <3>3 DEF CoreInodes, Cleared
    <3> HIDE DEF c
    <3>5. c.ino # 0 /\ c.count \in Int /\ c.count > 0
      BY <3>1, <3>3, <3>4 DEF Takes, Sound, Vacant, CoreInodes
    <3>6. \A u \in Slot : u # t => z.core[u].ino # c.ino
      BY <3>1, <3>4, <3>5 DEF Takes, Sound, Single
    <3>7. PICK w : w = Fill(z, t, c)
      OBVIOUS
    <3>8. /\ Sound(w) /\ w.text = z.text /\ w.skew = z.skew
          /\ w.jam = z.jam /\ w.stranded = z.stranded
          /\ \A u \in Slot : w.core[u] = IF u = t THEN c ELSE z.core[u]
      BY <3>1, <3>4, <3>5, <3>6, <3>7, Filled DEF Takes
    <3>9. \A u \in Slot : Cnt(w, u) = Cnt(z, u)
      BY <3>4, <3>8 DEF Cnt
    <3>10. More(x, w, t)
      BY <3>1, <3>9, <2>5 DEF More, Takes, Keeps, Same
    <3>11. ~Lck(w, t) /\ \A u \in Slot : Lck(w, u) => Lck(x, u)
      <4>1. \A u \in Slot : Lck(w, u) => Lck(z, u) /\ u # t
        BY <3>4, <3>8 DEF Lck
      <4>2. \A u \in Slot : Lck(w, u) => Lck(y, u)
        BY <3>1, <4>1 DEF Takes
      <4> QED
        BY <3>1, <4>1, <4>2, <2>5 DEF Keeps, Slack
    <3>12. y.stranded = x.stranded
      BY <2>4 DEF Edits
    <3>13. Takes(x, w, t)
      BY <3>1, <3>4, <3>5, <3>8, <3>10, <3>11, <3>12, <2>5
      DEF Takes, Keeps, Slack
    <3> QED
      BY <3>1, <3>2, <3>7, <3>11, <3>13, SlotNat
  <2> QED
    BY <2>6, <2>7
<1> QED
  BY <1>5, <1>6

-----------------------------------------------------------------------------
(* Writing a directory.                                                    *)
LEMMA WriteEntryEdits ==
  ASSUME NEW x, Sound(x), NEW s \in Slot, NEW off, NEW e \in Entries
  PROVE  Edits(x, WriteEntry(x, s, off, e))
<1> DEFINE c == Made(x.core[s], x.core[s].mode, x.core[s].nlink)
           n == x.core[s].ino
           q == IF off \in DOMAIN x.dir[n] THEN [x.dir[n] EXCEPT ![off] = e]
                ELSE x.dir[n]
           D == [x.dir EXCEPT ![n] = q]
<1>1. x.core[s] \in CoreInodes
  BY TablesTypes
<1>2. /\ c \in CoreInodes /\ c.ino = x.core[s].ino /\ c.count = x.core[s].count
      /\ c.lock = x.core[s].lock /\ c.want = x.core[s].want
  BY <1>1 DEF CoreInodes, Made
<1>3. D \in [Ino -> Seq(Entries)]
  <2>1. n \in Ino => q \in Seq(Entries)
    <3> SUFFICES ASSUME n \in Ino PROVE q \in Seq(Entries)
      OBVIOUS
    <3>1. PICK d : d = x.dir[n]
      OBVIOUS
    <3>2. d \in Seq(Entries)
      BY <3>1, TablesTypes
    <3>3. off \in DOMAIN d => [d EXCEPT ![off] = e] \in Seq(Entries)
      BY <3>2, ExceptSeq
    <3> QED
      BY <3>1, <3>2, <3>3
  <2> HIDE DEF q, n
  <2>2. PICK d : d = x.dir
    OBVIOUS
  <2>3. d \in [Ino -> Seq(Entries)]
    BY <2>2, TablesTypes
  <2>4. [d EXCEPT ![n] = q] \in [Ino -> Seq(Entries)]
    BY <2>1, <2>3
  <2> QED
    BY <2>2, <2>4
<1>4. WriteEntry(x, s, off, e) = Put(x, s, c, D, x.short)
  <2>1. WriteEntry(x, s, off, e) =
          [x EXCEPT !.core[s] = c, !.dir[n] = q]
    BY DEF WriteEntry, Sound, InodeTables
  <2> HIDE DEF q, c
  <2> QED
    BY <2>1 DEF Sound, InodeTables, Put
<1>5. x.short \in SUBSET (Ino \cup {0})
  BY TablesTypes
<1> HIDE DEF c, D
<1> QED
  BY <1>2, <1>3, <1>4, <1>5, PutEdits

LEMMA WdirDrops ==
  ASSUME NEW x, Sound(x), NEW pd \in Slot, NEW off, NEW name \in EntryName,
         NEW s \in Slot
  PROVE  Drops(x, Wdir(x, pd, off, name, s), pd)
<1> DEFINE e == [name |-> name, ino |-> x.core[s].ino]
           y == WriteEntry(x, pd, off, e)
<1>1. e \in Entries
  BY TablesTypes DEF Entries, CoreInodes
<1> HIDE DEF e
<1>2. Keeps(x, y) /\ Sound(y)
  BY <1>1, WriteEntryEdits, EditsKeep DEF Keeps
<1> HIDE DEF y
<1>3. Drops(y, Iput(y, pd), pd)
  BY <1>2, IputDrops
<1>4. Wdir(x, pd, off, name, s) = Iput(y, pd)
  BY DEF Wdir, y, e
<1> QED
  BY <1>2, <1>3, <1>4, KeepsDrops

(* The histories.                                                          *)
LEMMA Skewed ==
  ASSUME NEW x, Sound(x), NEW s \in Slot, NEW d \in Int
  PROVE  /\ Sound(Skew(x, s, d))
         /\ Skew(x, s, d).core = x.core /\ Skew(x, s, d).text = x.text
         /\ Skew(x, s, d).jam = x.jam /\ Skew(x, s, d).stranded = x.stranded
         /\ \A t \in Slot : Skew(x, s, d).skew[t] =
                             IF t = s THEN x.skew[t] + d ELSE x.skew[t]
<1> DEFINE y == Skew(x, s, d)
           K == [x.skew EXCEPT ![s] = @ + d]
<1>1. K \in [Slot -> Int]
  BY TablesTypes
<1>2. y = [x EXCEPT !.skew = K]
  BY DEF Skew, Sound, InodeTables
<1>3. \A t \in Slot : K[t] = IF t = s THEN x.skew[t] + d ELSE x.skew[t]
  BY TablesTypes
<1> HIDE DEF K, y
<1>4. /\ y \in InodeTables /\ y.core = x.core /\ y.text = x.text
      /\ y.jam = x.jam /\ y.stranded = x.stranded /\ y.skew = K
      /\ y.sinode = x.sinode /\ y.wait = x.wait /\ y.forgotten = x.forgotten
  BY <1>1, <1>2 DEF Sound, InodeTables
<1>5. Sound(y)
  BY <1>4 DEF Sound, Fits, Vacant, Single, Wakes
<1> QED
  BY <1>3, <1>4, <1>5 DEF y

LEMMA Stranded ==
  ASSUME NEW x, Sound(x), NEW s \in Slot
  PROVE  /\ Sound(Strand(x, s))
         /\ Strand(x, s).core = x.core /\ Strand(x, s).text = x.text
         /\ Strand(x, s).jam /\ Strand(x, s).stranded = x.stranded \cup {s}
         /\ \A t \in Slot : Strand(x, s).skew[t] =
                             IF t = s THEN x.skew[t] + 1 ELSE x.skew[t]
<1>1. PICK z : z = Skew(x, s, 1)
  OBVIOUS
<1>2. /\ Sound(z) /\ z.core = x.core /\ z.text = x.text
      /\ z.stranded = x.stranded
      /\ \A t \in Slot : z.skew[t] = IF t = s THEN x.skew[t] + 1 ELSE x.skew[t]
  BY <1>1, Skewed
<1> DEFINE y == Strand(x, s)
<1>3. /\ y \in InodeTables /\ y.core = z.core /\ y.text = z.text
      /\ y.jam = TRUE /\ y.stranded = z.stranded \cup {s} /\ y.skew = z.skew
      /\ y.sinode = z.sinode /\ y.wait = z.wait /\ y.forgotten = z.forgotten
  BY <1>1, <1>2 DEF Strand, Sound, InodeTables
<1> HIDE DEF y
<1>4. Sound(y)
  BY <1>2, <1>3 DEF Sound, Fits, Vacant, Single, Wakes
<1> QED
  BY <1>2, <1>3, <1>4 DEF y

-----------------------------------------------------------------------------
(* A new inode and its name.                                               *)
LEMMA CntInt ==
  ASSUME NEW x, Sound(x)
  PROVE  \A t \in Slot : Cnt(x, t) \in Int
BY TablesTypes DEF Cnt, CoreInodes

LEMMA Allocated ==
  ASSUME NEW x, Sound(x), Ialloc(x).s # 0
  PROVE  LET a == Ialloc(x)
         IN a.s \in Slot /\ Sound(a.k) /\ Slack(x, a.k) /\ More(x, a.k, a.s)
            /\ ~Lck(a.k, a.s)
<1>1. PICK s : s = Ialloc(x).s
  OBVIOUS
<1>2. PICK y : y = Ialloc(x).k
  OBVIOUS
<1>3. s \in Slot /\ Takes(x, y, s) /\ ~Lck(y, s)
  BY <1>1, <1>2, IallocTakes
<1>4. \A t \in Slot : Lck(y, t) => Lck(x, t)
  BY <1>3 DEF Takes
<1>5. Sound(y) /\ Slack(x, y) /\ More(x, y, s)
  BY <1>3, <1>4 DEF Takes, Slack
<1> QED
  BY <1>1, <1>2, <1>3, <1>5

(* A core inode is given its type and links, and a directory its entries.  *)
LEMMA MadeEdits ==
  ASSUME NEW x, Sound(x), NEW s \in Slot, NEW mode \in Modes, NEW l \in Int
  PROVE  Edits(x, [x EXCEPT !.core[s] = Made(@, mode, l)])
<1> DEFINE c == Made(x.core[s], mode, l)
           y == [x EXCEPT !.core[s] = Made(@, mode, l)]
<1>1. x.core[s] \in CoreInodes
  BY TablesTypes
<1>2. /\ c \in CoreInodes /\ c.ino = x.core[s].ino /\ c.count = x.core[s].count
      /\ c.lock = x.core[s].lock /\ c.want = x.core[s].want
  BY <1>1 DEF CoreInodes, Made
<1>3. y = [x EXCEPT !.core[s] = c]
  OBVIOUS
<1> HIDE DEF c, y
<1>4. y = Put(x, s, c, x.dir, x.short)
  BY <1>3 DEF Put, Sound, InodeTables
<1>5. x.dir \in [Ino -> Seq(Entries)] /\ x.short \in SUBSET (Ino \cup {0})
  BY TablesTypes
<1>6. Edits(x, y)
  BY <1>2, <1>4, <1>5, PutEdits
<1> QED
  BY <1>6 DEF y

LEMMA MaknodeMakes ==
  ASSUME NEW x, Sound(x), NEW pd \in Slot, NEW off, NEW name \in EntryName,
         NEW mode \in Modes, Maknode(x, pd, off, name, mode).s # 0
  PROVE  LET m == Maknode(x, pd, off, name, mode)
         IN /\ m.s \in Slot /\ Sound(m.k) /\ Slack(x, m.k)
            /\ \A t \in Slot : Cnt(m.k, t) = Cnt(x, t) + Bit(t = m.s) - Bit(t = pd)
            /\ ~Lck(m.k, m.s) /\ ~Lck(m.k, pd)
<1>1. PICK s : s = Ialloc(x).s
  OBVIOUS
<1>2. PICK a : a = Ialloc(x).k
  OBVIOUS
<1>3. PICK c : c = [a EXCEPT !.core[s] = Made(@, mode, 1)]
  OBVIOUS
<1>4. PICK z : z = Wdir(c, pd, off, name, s)
  OBVIOUS
<1>5. s # 0 /\ Maknode(x, pd, off, name, mode) = [k |-> z, s |-> s]
  BY <1>1, <1>2, <1>3, <1>4 DEF Maknode
<1>6. s \in Slot /\ Sound(a) /\ Slack(x, a) /\ More(x, a, s) /\ ~Lck(a, s)
  BY <1>1, <1>2, <1>5, Allocated
<1>7. Keeps(a, c)
  BY <1>3, <1>6, MadeEdits, EditsKeep
<1>8. Drops(c, z, pd)
  BY <1>4, <1>6, <1>7, WdirDrops DEF Keeps
<1>9. Drops(a, z, pd)
  BY <1>7, <1>8, KeepsDrops
<1>10. Slack(x, z) /\ Sound(z) /\ ~Lck(z, s) /\ ~Lck(z, pd)
  BY <1>6, <1>9 DEF Drops, Slack
<1>11. \A t \in Slot : Cnt(z, t) = Cnt(x, t) + Bit(t = s) - Bit(t = pd)
  <2>1. \A t \in Slot : Cnt(x, t) \in Int
    BY CntInt
  <2> QED
    BY <2>1, <1>6, <1>9 DEF Drops, Less, More, Bit
<1> QED
  BY <1>5, <1>6, <1>10, <1>11

(* When there is no inode the directory keeps its lock and a reference.    *)
LEMMA MaknodeFails ==
  ASSUME NEW x, Sound(x), NEW pd \in Slot, NEW off, NEW name,
         NEW mode, Maknode(x, pd, off, name, mode).s = 0
  PROVE  LET y == Maknode(x, pd, off, name, mode).k
         IN /\ Sound(y) /\ y.jam /\ y.text = x.text /\ Same(x, y)
            /\ \A t \in Slot : y.skew[t] = x.skew[t] + Bit(t = pd)
            /\ \A t \in Slot : Lck(y, t) => Lck(x, t)
            /\ \A t \in Slot : Lck(y, t) /\ (t = pd \/ t \in x.stranded)
                                 => t \in y.stranded
<1>1. PICK a : a = Ialloc(x).k
  OBVIOUS
<1>2. PICK y : y = Strand(a, pd)
  OBVIOUS
<1>3. Ialloc(x).s = 0 /\ Maknode(x, pd, off, name, mode) = [k |-> y, s |-> 0]
  BY <1>1, <1>2 DEF Maknode
<1>4. Keeps(x, a)
  BY <1>1, <1>3, IallocTakes
<1>5. Sound(a)
  BY <1>4 DEF Keeps
<1>6. /\ Sound(y) /\ y.core = a.core /\ y.text = a.text /\ y.jam
      /\ y.stranded = a.stranded \cup {pd}
      /\ \A t \in Slot : y.skew[t] = IF t = pd THEN a.skew[t] + 1 ELSE a.skew[t]
  BY <1>2, <1>5, Stranded
<1>7. \A t \in Slot : Lck(y, t) => Lck(a, t)
  BY <1>6 DEF Lck
<1>8. \A t \in Slot : Lck(y, t) => Lck(x, t)
                       /\ (t = pd \/ t \in x.stranded => t \in y.stranded)
  BY <1>4, <1>6, <1>7 DEF Keeps, Slack
<1>9. \A t \in Slot : x.skew[t] \in Int /\ a.skew[t] = x.skew[t]
  BY <1>4, TablesTypes DEF Keeps, Slack
<1>10. \A t \in Slot : y.skew[t] = x.skew[t] + Bit(t = pd)
  BY <1>6, <1>9 DEF Bit
<1>11. Same(x, y) /\ y.text = x.text
  BY <1>4, <1>6 DEF Keeps, Slack, Same, Cnt
<1> QED
  BY <1>3, <1>6, <1>8, <1>10, <1>11

(* exec keeps a shared text.                                               *)
LEMMA XallocAdds ==
  ASSUME NEW x, Sound(x), NEW s \in Slot, Cnt(x, s) > 0
  PROVE  LET y == Xalloc(x, s)
         IN /\ Sound(y) /\ y.skew = x.skew /\ y.jam = x.jam
            /\ y.stranded = x.stranded
            /\ \A t \in Slot : Cnt(y, t) - Fixed(y, t) = Cnt(x, t) - Fixed(x, t)
            /\ \A t \in Slot : Lck(y, t) => Lck(x, t)
<1>1. CASE Itext(x, s) \/ Len(x.text) >= NTEXT
  BY <1>1 DEF Xalloc
<1>2. CASE ~(Itext(x, s) \/ Len(x.text) >= NTEXT)
  <2>1. PICK z : z = AddRef(x, s, 1)
    OBVIOUS
  <2>2. Cnt(x, s) \in Int /\ (Cnt(x, s) + 1 <= 0 <=> Cnt(x, s) <= 0)
    BY TablesTypes DEF Cnt, CoreInodes
  <2>3. /\ Sound(z) /\ Slack(x, z)
        /\ \A t \in Slot : Cnt(z, t) = IF t = s THEN Cnt(x, t) + 1 ELSE Cnt(x, t)
    BY <2>1, <2>2, Counted
  <2>4. z.stranded = x.stranded
    BY <2>1 DEF AddRef, Sound, InodeTables
  <2>5. PICK q : q = Append(x.text, s)
    OBVIOUS
  <2>6. PICK y : y = [z EXCEPT !.text = q]
    OBVIOUS
  <2>7. Xalloc(x, s) = y
    <3>1. z.text = x.text
      BY <2>3 DEF Slack
    <3> QED
      BY <1>2, <2>1, <2>5, <2>6, <3>1 DEF Xalloc
  <2>8. /\ q \in Seq(Slot) /\ Len(q) = Len(x.text) + 1 /\ Len(x.text) \in Nat
        /\ \A i \in DOMAIN x.text : q[i] = x.text[i] /\ i \in DOMAIN q
        /\ q[Len(q)] = s /\ Len(q) \in DOMAIN q
        /\ \A i \in DOMAIN q : i # Len(q) => i \in DOMAIN x.text
    BY <2>5, TablesTypes
  <2>9. Len(q) <= NTEXT
    BY <2>8, <1>2, InodesAssumption
  <2>10. /\ y \in InodeTables /\ y.core = z.core /\ y.text = q
         /\ y.jam = z.jam /\ y.stranded = z.stranded /\ y.skew = z.skew
         /\ y.sinode = z.sinode /\ y.wait = z.wait /\ y.forgotten = z.forgotten
    BY <2>3, <2>6, <2>8 DEF Sound, InodeTables
  <2>11. Sound(y)
    BY <2>3, <2>9, <2>10 DEF Sound, Fits, Vacant, Single, Wakes
  <2>12. \A t \in Slot : Itext(y, t) <=> Itext(x, t) \/ t = s
    BY <2>8, <2>10 DEF Itext, ToSet
  <2>13. \A t \in Slot : Cnt(x, t) \in Int /\ Fixed(x, t) \in Int
    BY TablesTypes DEF Cnt, CoreInodes, Fixed
  <2>14. \A t \in Slot : Fixed(y, t) = IF t = s THEN Fixed(x, t) + 1 ELSE Fixed(x, t)
    BY <1>2, <2>12 DEF Fixed
  <2>15. \A t \in Slot : Cnt(y, t) = Cnt(z, t) /\ (Lck(y, t) <=> Lck(z, t))
    BY <2>10 DEF Cnt, Lck
  <2>16. \A t \in Slot : Cnt(y, t) - Fixed(y, t) = Cnt(x, t) - Fixed(x, t)
    BY <2>3, <2>13, <2>14, <2>15
  <2> QED
    BY <2>3, <2>4, <2>7, <2>10, <2>11, <2>15, <2>16 DEF Slack
<1> QED
  BY <1>1, <1>2

(* update.                                                                 *)
LEMMA UpdateEdits ==
  ASSUME NEW x, Sound(x)
  PROVE  Edits(x, Update(x))
<1> DEFINE dirty == {s \in Slot : x.core[s].upd /\ ~x.core[s].lock}
           saved == {s \in dirty : x.core[s].acc}
           lost  == {s \in dirty \ saved : x.core[s].ino # 0}
           Saved(n) == InCore(x, n) \cap saved
           C == [s \in Slot |-> [x.core[s] EXCEPT !.upd = @ /\ s \notin dirty]]
           D == [n \in Ino |-> IF Saved(n) = {} THEN x.disk[n]
                  ELSE LET c == x.core[Min(Saved(n))]
                       IN [mode |-> c.mode, nlink |-> c.nlink]]
           Z == x.short \cup {x.core[s].ino : s \in
                   {t \in lost : x.disk[x.core[t].ino].nlink # x.core[t].nlink}}
           y == Update(x)
<1>1. y = [x EXCEPT !.core = C, !.disk = D, !.short = Z]
  BY DEF Update
<1>2. C \in [Slot -> CoreInodes]
  <2>1. \A c \in CoreInodes, b \in BOOLEAN : [c EXCEPT !.upd = b] \in CoreInodes
    BY DEF CoreInodes
  <2>2. \A s \in Slot : x.core[s] \in CoreInodes
    BY TablesTypes
  <2>3. \A s \in Slot : (x.core[s].upd /\ s \notin dirty) \in BOOLEAN
    OBVIOUS
  <2> QED
    BY <2>1, <2>2, <2>3
<1>3. \A t \in Slot : /\ C[t].ino = x.core[t].ino /\ C[t].count = x.core[t].count
                      /\ C[t].lock = x.core[t].lock /\ C[t].want = x.core[t].want
  <2>1. \A c \in CoreInodes, b \in BOOLEAN :
          LET d == [c EXCEPT !.upd = b]
          IN d.ino = c.ino /\ d.count = c.count /\ d.lock = c.lock /\ d.want = c.want
    BY DEF CoreInodes
  <2>2. \A s \in Slot : x.core[s] \in CoreInodes
    BY TablesTypes
  <2> SUFFICES ASSUME NEW t \in Slot
               PROVE  /\ C[t].ino = x.core[t].ino /\ C[t].count = x.core[t].count
                      /\ C[t].lock = x.core[t].lock /\ C[t].want = x.core[t].want
    OBVIOUS
  <2>3. PICK b \in BOOLEAN : b = (x.core[t].upd /\ t \notin dirty)
    OBVIOUS
  <2>4. C[t] = [x.core[t] EXCEPT !.upd = b]
    BY <2>3
  <2>5. PICK c \in CoreInodes : c = x.core[t]
    BY <2>2
  <2>6. C[t] = [c EXCEPT !.upd = b]
    BY <2>4, <2>5
  <2> HIDE DEF C
  <2> QED
    BY <2>1, <2>5, <2>6
<1>4. D \in [Ino -> [mode : Modes, nlink : Int]]
  <2> SUFFICES ASSUME NEW n \in Ino PROVE D[n] \in [mode : Modes, nlink : Int]
    OBVIOUS
  <2>1. CASE Saved(n) = {}
    BY <2>1, TablesTypes
  <2>2. CASE Saved(n) # {}
    <3>1. Saved(n) \in SUBSET Slot
      BY DEF InCore
    <3>2. PICK s : s = Min(Saved(n))
      OBVIOUS
    <3>3. s \in Slot
      BY <2>2, <3>1, <3>2, MinNat, SlotNat
    <3>4. x.core[s].mode \in Modes /\ x.core[s].nlink \in Int
      BY <3>3, TablesTypes DEF CoreInodes
    <3>5. D[n] = [mode |-> x.core[s].mode, nlink |-> x.core[s].nlink]
      BY <2>2, <3>2
    <3> HIDE DEF D
    <3> QED
      BY <3>4, <3>5
  <2> QED
    BY <2>1, <2>2
<1>5. Z \in SUBSET (Ino \cup {0})
  <2>1. \A s \in Slot : x.core[s].ino \in Ino \cup {0}
    BY TablesTypes DEF CoreInodes
  <2> QED
    BY <2>1, TablesTypes
<1> HIDE DEF C, D, Z, y
<1>6. /\ y \in InodeTables /\ y.core = C
      /\ y.sinode = x.sinode /\ y.text = x.text /\ y.skew = x.skew
      /\ y.jam = x.jam /\ y.stranded = x.stranded
      /\ y.forgotten = x.forgotten /\ y.wait = x.wait
  BY <1>1, <1>2, <1>4, <1>5 DEF Sound, InodeTables
<1> QED
  BY <1>3, <1>6 DEF Edits, Sound, Fits, y

-----------------------------------------------------------------------------
(* Counting holders.                                                       *)
LEMMA BitNat == \A b : Bit(b) \in {0, 1}
BY DEF Bit

LEMMA PickOut ==
  ASSUME NEW S, IsFiniteSet(S), NEW T \in SUBSET S, NEW a
  PROVE  /\ Cardinality(T) \in Nat /\ Cardinality(T \ {a}) \in Nat
         /\ Cardinality(T) = Cardinality(T \ {a}) + Bit(a \in T)
<1>1. IsFiniteSet(T)
  BY FS_Subset
<1>2. /\ IsFiniteSet(T \ {a})
      /\ Cardinality(T \ {a}) = IF a \in T THEN Cardinality(T) - 1 ELSE Cardinality(T)
  BY <1>1, FS_RemoveElement
<1>3. Cardinality(T) \in Nat /\ Cardinality(T \ {a}) \in Nat
  BY <1>1, <1>2, FS_CardinalityType
<1> QED
  BY <1>2, <1>3 DEF Bit

LEMMA Finite ==
  /\ IsFiniteSet(Proc) /\ Cardinality(Proc) = NPROC
  /\ IsFiniteSet(File) /\ IsFiniteSet(Fd) /\ Cardinality(Fd) = NOFILE
  /\ IsFiniteSet(Holds)
  /\ IsFiniteSet(Proc \X Fd) /\ Cardinality(Proc \X Fd) = NPROC * NOFILE
  /\ IsFiniteSet(Proc \X Holds)
<1>1. NPROC \in Nat /\ NOFILE \in Nat /\ NFILE \in Nat
  BY InodesAssumption, NamesAssumption
<1>2. /\ IsFiniteSet(Proc) /\ Cardinality(Proc) = NPROC
      /\ IsFiniteSet(File) /\ IsFiniteSet(Fd) /\ Cardinality(Fd) = NOFILE
  <2>1. 1 \in Int /\ NPROC \in Int /\ NOFILE \in Int /\ NFILE \in Int
    BY <1>1
  <2> QED
    BY <1>1, <2>1, FS_Interval DEF Proc, File, Fd
<1>3. IsFiniteSet(Holds)
  <2>1. IsFiniteSet({}) /\ IsFiniteSet({} \cup {"dp"})
    BY FS_EmptySet, FS_AddElement
  <2>2. IsFiniteSet(({} \cup {"dp"}) \cup {"pd"})
    BY <2>1, FS_AddElement
  <2>3. IsFiniteSet((({} \cup {"dp"}) \cup {"pd"}) \cup {"ip"})
    BY <2>2, FS_AddElement
  <2>4. Holds = (({} \cup {"dp"}) \cup {"pd"}) \cup {"ip"}
    BY DEF Holds
  <2> QED
    BY <2>3, <2>4
<1>4. IsFiniteSet(Proc \X Fd) /\ Cardinality(Proc \X Fd) = NPROC * NOFILE
  BY <1>2, FS_Product
<1>5. IsFiniteSet(Proc \X Holds)
  BY <1>2, <1>3, FS_Product
<1> QED
  BY <1>2, <1>3, <1>4, <1>5

LEMMA HeldBits ==
  ASSUME NEW c, NEW s
  PROVE  HeldBy(c, s) = Bit(c.dp = s) + Bit(c.pd = s) + Bit(c.ip = s)
<1> DEFINE T == {f \in Holds : c[f] = s}
<1>1. T \in SUBSET Holds /\ T \ {"dp"} \in SUBSET Holds
      /\ (T \ {"dp"}) \ {"pd"} \in SUBSET Holds
      /\ ((T \ {"dp"}) \ {"pd"}) \ {"ip"} = {}
  BY DEF Holds
<1>2. /\ "dp" \in T <=> c.dp = s
      /\ "pd" \in T \ {"dp"} <=> c.pd = s
      /\ "ip" \in (T \ {"dp"}) \ {"pd"} <=> c.ip = s
  BY DEF Holds
<1> HIDE DEF T
<1>3. /\ Cardinality(T) = Cardinality(T \ {"dp"}) + Bit("dp" \in T)
      /\ Cardinality(T \ {"dp"}) = Cardinality((T \ {"dp"}) \ {"pd"})
                                     + Bit("pd" \in T \ {"dp"})
      /\ Cardinality((T \ {"dp"}) \ {"pd"}) =
           Cardinality(((T \ {"dp"}) \ {"pd"}) \ {"ip"})
             + Bit("ip" \in (T \ {"dp"}) \ {"pd"})
  BY <1>1, Finite, PickOut
<1>4. Cardinality(((T \ {"dp"}) \ {"pd"}) \ {"ip"}) = 0
  BY <1>1, FS_EmptySet
<1>5. HeldBy(c, s) = Cardinality(T)
  BY DEF HeldBy, T
<1> QED
  BY <1>2, <1>3, <1>4, <1>5 DEF Bit

LEMMA HeldNat ==
  ASSUME NEW c, NEW s
  PROVE  HeldBy(c, s) \in Nat
BY HeldBits DEF Bit

LEMMA IdleHolds ==
  /\ Idle.dp = 0 /\ Idle.pd = 0 /\ Idle.ip = 0 /\ Idle.op = "" /\ Idle.pc = "idle"
  /\ LockedBy(Idle) = {0}
  /\ \A s \in Slot : HeldBy(Idle, s) = 0
<1>1. /\ Idle.dp = 0 /\ Idle.pd = 0 /\ Idle.ip = 0 /\ Idle.op = ""
      /\ Idle.pc = "idle"
  BY DEF Idle
<1>2. LockedBy(Idle) = {0}
  BY <1>1 DEF LockedBy
<1>3. ASSUME NEW s \in Slot PROVE HeldBy(Idle, s) = 0
  <2>1. s # 0
    BY SlotNat
  <2>2. HeldBy(Idle, s) = Bit(Idle.dp = s) + Bit(Idle.pd = s) + Bit(Idle.ip = s)
    BY HeldBits
  <2>3. Idle.dp # s /\ Idle.pd # s /\ Idle.ip # s
    BY <1>1, <2>1
  <2>4. Bit(Idle.dp = s) = 0 /\ Bit(Idle.pd = s) = 0 /\ Bit(Idle.ip = s) = 0
    BY <2>3 DEF Bit
  <2> QED
    BY <2>2, <2>4
<1> QED
  BY <1>1, <1>2, <1>3

LEMMA IdleRecord == Idle \in CallRecords
<1>1. 1 \in Proc
  BY InodesAssumption DEF Proc
<1>2. PICK e : e = <<>>
  OBVIOUS
<1>3. e \in Seq(EntryName) /\ e \in Paths \cup {<<>>}
  BY <1>2
<1> DEFINE i == [pc |-> "idle", p |-> 1, op |-> "", flag |-> 0, step |-> 0,
         old |-> e, new |-> e, rest |-> e, first |-> FALSE,
         want |-> 0, dp |-> 0, pd |-> 0, ip |-> 0, off |-> 0, name |-> "",
         found |-> e]
<1>4. i \in CallRecords
  <2>1. 0 \in 0..2 /\ 0 \in Nat /\ 0 \in Ino \cup {0} /\ 0 \in Slot \cup {0}
        /\ "" \in EntryName /\  "" \in Calls \cup {"", "exit"} /\ FALSE \in BOOLEAN
    BY DEF EntryName
  <2>2. "idle" \in {"idle", "iget", "look", "done", "dotdot", "search", "load", "exit"}
    OBVIOUS
  <2> QED
    BY <1>1, <1>3, <2>1, <2>2 DEF CallRecords
<1> QED
  BY <1>2, <1>4 DEF Idle

(* The calls that sleep, but for that of process p.                        *)
Others(h, p, s) ==
  Cardinality({d \in Proc \X Holds : h[d[1]][d[2]] = s /\ d[1] # p})

LEMMA HungSplit ==
  ASSUME NEW h, NEW p \in Proc, NEW s
  PROVE  /\ InHung(h, s) = Others(h, p, s) + HeldBy(h[p], s)
         /\ Others(h, p, s) \in Nat /\ InHung(h, s) \in Nat
<1> DEFINE A == {d \in Proc \X Holds : h[d[1]][d[2]] = s}
           B == {d \in Proc \X Holds : h[d[1]][d[2]] = s /\ d[1] # p}
           F == {f \in Holds : h[p][f] = s}
<1>1. A = B \cup ({p} \X F) /\ B \cap ({p} \X F) = {}
  OBVIOUS
<1>2. B \in SUBSET (Proc \X Holds) /\ F \in SUBSET Holds /\ A \in SUBSET (Proc \X Holds)
  OBVIOUS
<1>3. InHung(h, s) = Cardinality(A) /\ Others(h, p, s) = Cardinality(B)
      /\ HeldBy(h[p], s) = Cardinality(F)
  BY DEF InHung, Others, HeldBy
<1> HIDE DEF A, B, F
<1>4. IsFiniteSet(A) /\ IsFiniteSet(B) /\ IsFiniteSet(F)
  BY <1>2, Finite, FS_Subset
<1>5. IsFiniteSet({p}) /\ Cardinality({p}) = 1
  BY FS_Singleton
<1>6. IsFiniteSet({p} \X F) /\ Cardinality({p} \X F) = 1 * Cardinality(F)
  BY <1>4, <1>5, FS_Product
<1>7. Cardinality(A) = Cardinality(B) + Cardinality({p} \X F) - Cardinality({})
  BY <1>1, <1>4, <1>6, FS_Union
<1>8. Cardinality(A) \in Nat /\ Cardinality(B) \in Nat /\ Cardinality(F) \in Nat
      /\ Cardinality({}) = 0
  BY <1>4, FS_CardinalityType, FS_EmptySet
<1> QED
  BY <1>3, <1>6, <1>7, <1>8

(* The calls that sleep in h and in g differ in that of p.                 *)
ButHung(h, g, p) == \A q \in Proc : q # p => g[q] = h[q]

LEMMA HungMoves ==
  ASSUME NEW h, NEW g, NEW p \in Proc, NEW s, ButHung(h, g, p)
  PROVE  InHung(g, s) = InHung(h, s) - HeldBy(h[p], s) + HeldBy(g[p], s)
<1>1. {d \in Proc \X Holds : g[d[1]][d[2]] = s /\ d[1] # p} =
        {d \in Proc \X Holds : h[d[1]][d[2]] = s /\ d[1] # p}
  BY DEF ButHung
<1>2. Others(g, p, s) = Others(h, p, s)
  BY <1>1 DEF Others
<1> QED
  BY <1>2, HungSplit, HeldNat

(* The current directories cd and de differ in that of p, from i to j.     *)
ButDir(cd, de, p, i, j) ==
  /\ \A q \in Proc : q # p => de[q] = cd[q]
  /\ cd[p] = i /\ de[p] = j

LEMMA DirMoves ==
  ASSUME NEW cd, NEW de, NEW p \in Proc, NEW i, NEW j, NEW s, ButDir(cd, de, p, i, j)
  PROVE  /\ InDir(de, s) = InDir(cd, s) - Bit(i = s) + Bit(j = s)
         /\ InDir(cd, s) \in Nat
<1> DEFINE T(c) == {q \in Proc : c[q] = s}
<1>1. T(de) \ {p} = T(cd) \ {p} /\ T(de) \in SUBSET Proc /\ T(cd) \in SUBSET Proc
      /\ (p \in T(de) <=> j = s) /\ (p \in T(cd) <=> i = s)
  BY DEF ButDir
<1>2. InDir(de, s) = Cardinality(T(de)) /\ InDir(cd, s) = Cardinality(T(cd))
  BY DEF InDir
<1> HIDE DEF T
<1>3. /\ Cardinality(T(de)) = Cardinality(T(de) \ {p}) + Bit(p \in T(de))
      /\ Cardinality(T(cd)) = Cardinality(T(cd) \ {p}) + Bit(p \in T(cd))
      /\ Cardinality(T(cd)) \in Nat /\ Cardinality(T(de) \ {p}) \in Nat
  BY <1>1, Finite, PickOut
<1>4. /\ Cardinality(T(de) \ {p}) = Cardinality(T(cd) \ {p})
      /\ Bit(p \in T(de)) = Bit(j = s) /\ Bit(p \in T(cd)) = Bit(i = s)
  BY <1>1 DEF Bit
<1> QED
  BY <1>2, <1>3, <1>4, BitNat

(* The file tables fl and gl, or the descriptors of and ug, differ in one  *)
(* place.                                                                  *)
ButFile(fl, gl, f) ==
  \A g \in File : g # f => /\ gl[g].inode = fl[g].inode
                           /\ gl[g].count > 0 <=> fl[g].count > 0

ButFd(of, ug, p, fd, i, j) ==
  /\ \A q \in Proc, e \in Fd : q # p \/ e # fd => ug[q][e] = of[q][e]
  /\ of[p][fd] = i /\ ug[p][fd] = j

LEMMA FileMoves ==
  ASSUME NEW fl, NEW gl, NEW f \in File, NEW s, ButFile(fl, gl, f)
  PROVE  /\ InFile(gl, s) = InFile(fl, s)
                 - Bit(fl[f].count > 0 /\ fl[f].inode = s)
                 + Bit(gl[f].count > 0 /\ gl[f].inode = s)
         /\ InFile(fl, s) \in Nat
<1> DEFINE T(l) == {g \in File : l[g].count > 0 /\ l[g].inode = s}
<1>1. T(gl) \ {f} = T(fl) \ {f} /\ T(gl) \in SUBSET File /\ T(fl) \in SUBSET File
      /\ (f \in T(gl) <=> (gl[f].count > 0 /\ gl[f].inode = s))
      /\ (f \in T(fl) <=> (fl[f].count > 0 /\ fl[f].inode = s))
  BY DEF ButFile
<1>2. InFile(gl, s) = Cardinality(T(gl)) /\ InFile(fl, s) = Cardinality(T(fl))
  BY DEF InFile
<1> HIDE DEF T
<1>3. /\ Cardinality(T(gl)) = Cardinality(T(gl) \ {f}) + Bit(f \in T(gl))
      /\ Cardinality(T(fl)) = Cardinality(T(fl) \ {f}) + Bit(f \in T(fl))
      /\ Cardinality(T(fl)) \in Nat /\ Cardinality(T(gl) \ {f}) \in Nat
  BY <1>1, Finite, PickOut
<1>4. /\ Cardinality(T(gl) \ {f}) = Cardinality(T(fl) \ {f})
      /\ Bit(f \in T(gl)) = Bit(gl[f].count > 0 /\ gl[f].inode = s)
      /\ Bit(f \in T(fl)) = Bit(fl[f].count > 0 /\ fl[f].inode = s)
  BY <1>1 DEF Bit
<1> QED
  BY <1>2, <1>3, <1>4, BitNat

Uses(of, f) == Cardinality(Descriptor(of, f))

LEMMA DescriptorMoves ==
  ASSUME NEW of, NEW ug, NEW p \in Proc, NEW fd \in Fd, NEW f, NEW i,
         NEW j, ButFd(of, ug, p, fd, i, j)
  PROVE  /\ Uses(ug, f) = Uses(of, f) - Bit(i = f) + Bit(j = f)
         /\ Uses(of, f) \in Nat /\ Uses(ug, f) \in Nat
<1> DEFINE a == <<p, fd>>
<1>1. /\ Descriptor(ug, f) \ {a} = Descriptor(of, f) \ {a}
      /\ Descriptor(ug, f) \in SUBSET (Proc \X Fd)
      /\ Descriptor(of, f) \in SUBSET (Proc \X Fd)
      /\ a \in Descriptor(ug, f) <=> j = f
      /\ a \in Descriptor(of, f) <=> i = f
  BY DEF Descriptor, ButFd
<1> HIDE DEF a
<1>2. /\ Cardinality(Descriptor(ug, f)) = Cardinality(Descriptor(ug, f) \ {a})
                                            + Bit(a \in Descriptor(ug, f))
      /\ Cardinality(Descriptor(of, f)) = Cardinality(Descriptor(of, f) \ {a})
                                            + Bit(a \in Descriptor(of, f))
      /\ Cardinality(Descriptor(ug, f) \ {a}) \in Nat
  BY <1>1, Finite, PickOut
<1>3. /\ Cardinality(Descriptor(ug, f) \ {a}) = Cardinality(Descriptor(of, f) \ {a})
      /\ Bit(a \in Descriptor(ug, f)) = Bit(j = f)
      /\ Bit(a \in Descriptor(of, f)) = Bit(i = f)
  BY <1>1 DEF Bit
<1> QED
  BY <1>2, <1>3, BitNat DEF Uses

-----------------------------------------------------------------------------
(* How the calls go on.                                                    *)
LEMMA ReadySame ==
  ASSUME NEW c, NEW d, d \in CallRecords, d.dp = 0, Ready(c),
         d.op = c.op, d.step = c.step, d.old = c.old, d.new = c.new,
         d.flag = c.flag, d.ip = c.ip, d.pd = c.pd,
         (~d.first => ~c.first /\ d.rest = c.rest) \/ d.flag # 2 \/ d.pd # 0
                                                   \/ d.rest # <<>>
  PROVE  Ready(d)
<1>1. Doing(d) = Doing(c)
  BY DEF Doing
<1>2. FlagFor(d) = FlagFor(c)
  BY <1>1 DEF FlagFor
<1> QED
  BY <1>1, <1>2 DEF Ready

LEMMA ReadyHolds ==
  ASSUME NEW c, Ready(c)
  PROVE  /\ c \in CallRecords /\ c.op \in Calls /\ c.dp = 0 /\ c # Idle
         /\ c.op = "getcwd" => c.pd = 0 /\ c.flag = 0
         /\ c.pd # 0 => c.flag = 2 /\ c.op # "getcwd" /\ c.ip = 0
         /\ c.ip # 0 => c.op = "getcwd" \/ Doing(c) = "link"
         /\ c.pd \in Slot \cup {0} /\ c.ip \in Slot \cup {0} /\ c.p \in Proc
<1>1. c.op \in Calls => c.op # ""
  BY DEF Calls, Simple, TwoPath
<1>2. c # Idle
  BY <1>1, IdleHolds DEF Ready
<1>3. c.pd # 0 => c.ip = 0
  <2> SUFFICES ASSUME c.pd # 0, c.ip # 0 PROVE FALSE
    OBVIOUS
  <2>1. c.flag = 2 /\ c.op # "getcwd" /\ Doing(c) = "link"
    BY DEF Ready
  <2>2. FlagFor(c) \in {0, 1}
    BY <2>1 DEF FlagFor
  <2> QED
    BY <2>1, <2>2 DEF Ready
<1>4. c.pd \in Slot \cup {0} /\ c.ip \in Slot \cup {0} /\ c.p \in Proc
  BY DEF Ready, CallRecords
<1> QED
  BY <1>2, <1>3, <1>4 DEF Ready

LEMMA ArriveOK ==
  ASSUME NEW c, Ready(c), NEW s \in Slot, NEW y, y.core[s].ino # 0
  PROVE  /\ CallOK(y, Arrive(c, s)) /\ Arrive(c, s).p = c.p
         /\ \A t \in Slot : HeldBy(Arrive(c, s), t) = HeldBy(c, t) + Bit(t = s)
         /\ s \in LockedBy(Arrive(c, s))
         /\ \A t \in Slot : t \in LockedBy(c) => t \in LockedBy(Arrive(c, s))
<1> DEFINE d == Arrive(c, s)
<1>1. c \in CallRecords /\ s # 0 /\ s \in Slot \cup {0}
  BY SlotNat DEF Ready
<1>h. ASSUME NEW e, e.pd = c.pd,
             \/ e.dp = s /\ c.dp = 0 /\ e.ip = c.ip
             \/ e.dp = c.dp /\ e.ip = s /\ c.ip = 0,
             NEW t \in Slot
      PROVE  HeldBy(e, t) = HeldBy(c, t) + Bit(t = s)
  <2>1. /\ HeldBy(e, t) = Bit(e.dp = t) + Bit(e.pd = t) + Bit(e.ip = t)
        /\ HeldBy(c, t) = Bit(c.dp = t) + Bit(c.pd = t) + Bit(c.ip = t)
    BY HeldBits
  <2>2. t # 0
    BY SlotNat
  <2> QED
    BY <1>h, <2>1, <2>2 DEF Bit
<1>2. CASE c.op = "getcwd" /\ c.ip = 0
  <2>1. d = [c EXCEPT !.ip = s, !.want = 0, !.pc = "dotdot"]
    BY <1>2 DEF Arrive
  <2>2. /\ d \in CallRecords /\ d.pc = "dotdot" /\ d.ip = s /\ d.dp = c.dp
        /\ d.op = c.op /\ d.step = c.step /\ d.old = c.old /\ d.new = c.new
        /\ d.flag = c.flag /\ d.pd = c.pd /\ d.first = c.first
        /\ d.rest = c.rest /\ d.p = c.p
    BY <1>1, <2>1 DEF CallRecords
  <2> HIDE DEF d
  <2>3. Ready(d)
    BY <1>2, <2>2, ReadyHolds DEF Ready, Doing, FlagFor, TwoPath
  <2>4. CallOK(y, d)
    BY <1>1, <1>2, <2>2, <2>3 DEF CallOK, Placed, Present
  <2>5. \A t \in Slot : HeldBy(d, t) = HeldBy(c, t) + Bit(t = s)
    BY <1>2, <1>h, <2>2, ReadyHolds
  <2> QED
    BY <1>2, <2>2, <2>4, <2>5, ReadyHolds DEF LockedBy, d
<1>3. CASE c.op = "getcwd" /\ c.ip # 0
  <2>1. d = [c EXCEPT !.dp = s, !.want = 0, !.pc = "search"]
    BY <1>3 DEF Arrive
  <2>2. /\ d \in CallRecords /\ d.pc = "search" /\ d.ip = c.ip /\ d.dp = s
        /\ d.op = c.op /\ d.pd = c.pd /\ d.p = c.p
    BY <1>1, <2>1 DEF CallRecords
  <2> DEFINE e == [d EXCEPT !.dp = 0]
  <2>3. /\ e \in CallRecords /\ e.ip = c.ip /\ e.dp = 0
        /\ e.op = c.op /\ e.step = c.step /\ e.old = c.old /\ e.new = c.new
        /\ e.flag = c.flag /\ e.pd = c.pd /\ e.first = c.first
        /\ e.rest = c.rest
    BY <1>1, <2>1 DEF CallRecords
  <2> HIDE DEF d, e
  <2>4. Ready(e)
    BY <2>3, ReadySame
  <2>5. CallOK(y, d)
    BY <1>1, <1>3, <2>2, <2>4 DEF CallOK, Placed, Present, Fetched, e
  <2>6. \A t \in Slot : HeldBy(d, t) = HeldBy(c, t) + Bit(t = s)
    BY <1>h, <2>2, ReadyHolds
  <2> QED
    BY <1>3, <2>2, <2>5, <2>6, ReadyHolds DEF LockedBy, d
<1> DEFINE done == c.pd # 0 \/ (c.rest = <<>> /\ (c.flag = 0 \/ ~c.first))
<1>4. CASE c.op # "getcwd" /\ done
  <2>1. PICK z : z = <<>>
    OBVIOUS
  <2>2. d = [c EXCEPT !.dp = s, !.want = 0, !.pc = "done", !.rest = z, !.first = FALSE]
    BY <1>4, <2>1 DEF Arrive
  <2>3. z \in Seq(EntryName)
    BY <2>1
  <2>4. /\ d \in CallRecords /\ d.pc = "done" /\ d.ip = c.ip /\ d.dp = s
        /\ d.op = c.op /\ d.pd = c.pd /\ d.p = c.p /\ d.flag = c.flag
    <3> HIDE DEF d
    <3>1. d \in CallRecords
      BY <1>1, <2>2, <2>3 DEF CallRecords
    <3>2. d.pc = "done" /\ d.ip = c.ip /\ d.dp = s
      BY <1>1, <2>2, <2>3 DEF CallRecords
    <3>3. d.op = c.op /\ d.pd = c.pd /\ d.p = c.p /\ d.flag = c.flag
      BY <1>1, <2>2, <2>3 DEF CallRecords
    <3> QED
      BY <3>1, <3>2, <3>3
  <2> DEFINE e == [d EXCEPT !.dp = 0, !.pd = 0, !.first = TRUE]
  <2>5. /\ e \in CallRecords /\ e.ip = c.ip /\ e.dp = 0
        /\ e.op = c.op /\ e.step = c.step /\ e.old = c.old /\ e.new = c.new
        /\ e.flag = c.flag /\ e.pd = 0 /\ e.first
    BY <1>1, <2>2, <2>3 DEF CallRecords
  <2> HIDE DEF d, e
  <2>6. Ready(e)
    BY <1>4, <2>5 DEF Ready, Doing, FlagFor, TwoPath
  <2>7. /\ c.flag \in {0, 1} => c.pd = 0
        /\ c.flag = 2 => c.pd # 0
    BY <1>4 DEF Ready
  <2>8. CallOK(y, d)
    BY <1>1, <1>4, <2>4, <2>6, <2>7 DEF CallOK, Placed, Present, e
  <2>9. \A t \in Slot : HeldBy(d, t) = HeldBy(c, t) + Bit(t = s)
    BY <1>h, <2>4, ReadyHolds
  <2> QED
    <3>1. s \in LockedBy(d) /\ \A t \in Slot : t \in LockedBy(c) => t \in LockedBy(d)
      BY <1>4, <2>4, ReadyHolds, SlotNat DEF LockedBy
    <3> QED
      BY <2>4, <2>8, <2>9, <3>1 DEF d
<1>5. CASE c.op # "getcwd" /\ ~done
  <2>1. d = [c EXCEPT !.dp = s, !.want = 0, !.pc = "look"]
    BY <1>5 DEF Arrive
  <2>2. /\ d \in CallRecords /\ d.pc = "look" /\ d.ip = c.ip /\ d.dp = s
        /\ d.op = c.op /\ d.pd = c.pd /\ d.p = c.p
    BY <1>1, <2>1 DEF CallRecords
  <2> DEFINE e == [d EXCEPT !.dp = 0]
  <2>3. /\ e \in CallRecords /\ e.ip = c.ip /\ e.dp = 0
        /\ e.op = c.op /\ e.step = c.step /\ e.old = c.old /\ e.new = c.new
        /\ e.flag = c.flag /\ e.pd = c.pd /\ e.first = c.first
        /\ e.rest = c.rest
    BY <1>1, <2>1 DEF CallRecords
  <2> HIDE DEF d, e
  <2>4. Ready(e)
    BY <2>3, ReadySame
  <2>5. CallOK(y, d)
    BY <1>1, <1>5, <2>2, <2>4 DEF CallOK, Placed, Present, Fetched, e
  <2>6. \A t \in Slot : HeldBy(d, t) = HeldBy(c, t) + Bit(t = s)
    BY <1>h, <2>2, ReadyHolds
  <2> QED
    BY <1>5, <2>2, <2>5, <2>6, ReadyHolds DEF LockedBy, d
<1> QED
  BY <1>2, <1>3, <1>4, <1>5

LEMMA IdleOK ==
  ASSUME NEW y
  PROVE  CallOK(y, Idle)
<1>1. Placed(Idle)
  BY IdleHolds DEF Placed
<1> QED
  BY <1>1, IdleHolds, IdleRecord DEF CallOK, Present

LEMMA Stripped ==
  ASSUME NEW d \in CallRecords
  PROVE  LET f == [d EXCEPT !.dp = 0, !.pd = 0, !.first = TRUE]
         IN /\ f \in CallRecords /\ f.dp = 0 /\ f.pd = 0 /\ f.first = TRUE
            /\ f.op = d.op /\ f.step = d.step /\ f.old = d.old /\ f.new = d.new
            /\ f.flag = d.flag /\ f.ip = d.ip
<1>1. PICK f : f = [d EXCEPT !.dp = 0, !.pd = 0, !.first = TRUE]
  OBVIOUS
<1>2. f \in CallRecords
  BY <1>1 DEF CallRecords
<1>3. f.dp = 0 /\ f.pd = 0 /\ f.first = TRUE
  BY <1>1 DEF CallRecords
<1>4. f.op = d.op /\ f.step = d.step /\ f.old = d.old /\ f.new = d.new
      /\ f.flag = d.flag /\ f.ip = d.ip
  BY <1>1 DEF CallRecords
<1> QED
  BY <1>1, <1>2, <1>3, <1>4

(* An error of namei: only link goes on, with the inode it has.            *)
LEMMA ErrorOK ==
  ASSUME NEW c \in CallRecords, NEW e, Ready(e), NEW y,
         e.op = c.op, e.step = c.step, e.old = c.old, e.new = c.new,
         e.flag = c.flag, e.ip = c.ip
  PROVE  /\ CallOK(y, Error(c)) /\ (Error(c) = Idle \/ Error(c).p = c.p)
         /\ \A t \in Slot : HeldBy(Error(c), t) = Bit(c.op # "getcwd" /\ c.ip = t)
         /\ LockedBy(Error(c)) = {0}
<1>1. Doing(e) = Doing(c)
  BY DEF Doing
<1>2. CASE Doing(c) = "link" /\ c.ip # 0
  <2> DEFINE d == Error(c)
             f == [d EXCEPT !.dp = 0, !.pd = 0, !.first = TRUE]
  <2>1. PICK z : z = <<>>
    OBVIOUS
  <2>2. z \in Seq(EntryName)
    BY <2>1
  <2>3. d = [c EXCEPT !.pc = "done", !.dp = 0, !.pd = 0, !.rest = z,
                      !.first = FALSE, !.want = 0]
    BY <1>2, <2>1 DEF Error
  <2> HIDE DEF d
  <2>4. d \in CallRecords
    BY <2>2, <2>3 DEF CallRecords
  <2>5. d.pc = "done" /\ d.dp = 0 /\ d.pd = 0 /\ d.ip = c.ip /\ d.p = c.p
    BY <2>2, <2>3 DEF CallRecords
  <2>6. d.op = c.op /\ d.step = c.step /\ d.old = c.old /\ d.new = c.new
        /\ d.flag = c.flag
    BY <2>2, <2>3 DEF CallRecords
  <2>7. /\ f \in CallRecords /\ f.dp = 0 /\ f.pd = 0 /\ f.first = TRUE
        /\ f.op = d.op /\ f.step = d.step /\ f.old = d.old /\ f.new = d.new
        /\ f.flag = d.flag /\ f.ip = d.ip
    BY <2>4, Stripped
  <2>8. c.op # "getcwd"
    BY <1>2 DEF Doing
  <2> HIDE DEF f
  <2>9. Ready(f)
    BY <2>6, <2>5, <2>7, <2>8 DEF Ready, Doing, FlagFor, TwoPath
  <2>10. c.flag = 1 /\ Doing(d) = "link"
    BY <1>1, <1>2, <2>6, <2>8 DEF Ready, FlagFor, Doing
  <2>11. CallOK(y, d)
    BY <1>2, <2>4, <2>5, <2>6, <2>8, <2>9, <2>10 DEF CallOK, Placed, Present, f
  <2>12. ASSUME NEW t \in Slot
         PROVE HeldBy(d, t) = Bit(c.op # "getcwd" /\ c.ip = t)
    <3>1. t # 0 /\ HeldBy(d, t) = Bit(d.dp = t) + Bit(d.pd = t) + Bit(d.ip = t)
      BY HeldBits, SlotNat
    <3> QED
      BY <2>5, <2>8, <3>1 DEF Bit
  <2>13. LockedBy(d) = {0}
    BY <2>5, <2>6, <2>8 DEF LockedBy
  <2> QED
    BY <2>5, <2>11, <2>12, <2>13 DEF d
<1>3. CASE ~(Doing(c) = "link" /\ c.ip # 0)
  <2>1. Error(c) = Idle
    BY <1>3 DEF Error
  <2>2. c.op # "getcwd" => c.ip = 0
    BY <1>1, <1>3, ReadyHolds
  <2>3. \A t \in Slot : Bit(c.op # "getcwd" /\ c.ip = t) = 0
    BY <2>2, SlotNat DEF Bit
  <2> QED
    BY <2>1, <2>3, IdleOK, IdleHolds
<1> QED
  BY <1>2, <1>3

-----------------------------------------------------------------------------
(* All of the state: the tables x, the files fl and descriptors of, the    *)
(* directories cd, the call c and those that sleep, h.                     *)
World(x, fl, of, cd, c, h) ==
  /\ Sound(x) /\ FilesOK(fl, of) /\ cd \in [Proc -> Slot \cup {0}]
  /\ CallOK(x, c) /\ HungOK(h) /\ Callers(c, h, cd, of)
  /\ Balanced(x, c, h, fl, cd) /\ Locks(x, c, h) /\ Jams(x, h)

(* As World, for a call that asks for an inode.                            *)
Asks(x, fl, of, cd, c, h) ==
  /\ Sound(x) /\ FilesOK(fl, of) /\ cd \in [Proc -> Slot \cup {0}]
  /\ Ready(c) /\ HungOK(h) /\ Callers(c, h, cd, of)
  /\ Balanced(x, c, h, fl, cd) /\ Locks(x, c, h) /\ Jams(x, h)

(* The count of a slot without what is fixed or off.                       *)
Net(x, s) == Cnt(x, s) - Fixed(x, s) - x.skew[s]

Calm(x, y) ==
  /\ y.jam = x.jam /\ y.stranded \subseteq x.stranded
  /\ \A t \in Slot : Lck(y, t) => Lck(x, t) /\ (t \in x.stranded => t \in y.stranded)

LEMMA HoldersNat ==
  ASSUME NEW h, NEW fl, NEW cd, NEW s
  PROVE  InDir(cd, s) \in Nat /\ InFile(fl, s) \in Nat /\ InHung(h, s) \in Nat
<1>1. 1 \in Proc /\ 1 \in File
  BY InodesAssumption, NamesAssumption DEF Proc, File
<1>2. PICK i : i = cd[1]
  OBVIOUS
<1>3. PICK p \in Proc : p = 1
  BY <1>1
<1>4. ButDir(cd, cd, p, i, i)
  BY <1>2, <1>3 DEF ButDir
<1>5. InDir(cd, s) \in Nat
  BY <1>4, DirMoves
<1>6. PICK f \in File : f = 1
  BY <1>1
<1>7. ButFile(fl, fl, f)
  BY DEF ButFile
<1>8. InFile(fl, s) \in Nat
  BY <1>7, FileMoves
<1>9. InHung(h, s) \in Nat
  BY <1>1, HungSplit
<1> QED
  BY <1>5, <1>8, <1>9

LEMMA NetInt ==
  ASSUME NEW x, Sound(x), NEW s \in Slot
  PROVE  Net(x, s) \in Int /\ Cnt(x, s) \in Int /\ Fixed(x, s) \in Int
         /\ x.skew[s] \in Int
<1>1. Cnt(x, s) \in Int /\ x.skew[s] \in Int
  BY CntInt, TablesTypes
<1>2. Fixed(x, s) \in Int
  BY DEF Fixed
<1> QED
  BY <1>1, <1>2 DEF Net

LEMMA Netted ==
  ASSUME NEW x, Sound(x), NEW c, NEW h, NEW fl, NEW cd
  PROVE  Balanced(x, c, h, fl, cd) <=>
           \A s \in Slot : Net(x, s) = InDir(cd, s) + InFile(fl, s)
                                         + HeldBy(c, s) + InHung(h, s)
<1>1. ASSUME NEW s \in Slot
      PROVE  Cnt(x, s) = Owed(x, fl, cd, s) + HeldBy(c, s) + InHung(h, s) <=>
             Net(x, s) = InDir(cd, s) + InFile(fl, s) + HeldBy(c, s) + InHung(h, s)
  <2>1. /\ Cnt(x, s) \in Int /\ Fixed(x, s) \in Int /\ x.skew[s] \in Int
        /\ InDir(cd, s) \in Nat /\ InFile(fl, s) \in Nat /\ InHung(h, s) \in Nat
        /\ HeldBy(c, s) \in Nat
    BY HoldersNat, NetInt, HeldNat
  <2> QED
    BY <2>1 DEF Owed, Net
<1> QED
  BY <1>1 DEF Balanced

(* A call goes on as d, or ends, with what it has released and taken.      *)
LEMMA Settled ==
  ASSUME NEW x, NEW fl, NEW of, NEW cd, NEW c, NEW h, NEW y, NEW d,
         World(x, fl, of, cd, c, h), Sound(y), Calm(x, y), CallOK(y, d),
         d = Idle \/ (c # Idle /\ d.p = c.p),
         \A t \in Slot : Net(y, t) = Net(x, t) - HeldBy(c, t) + HeldBy(d, t),
         \A t \in Slot : t \in LockedBy(c) => ~Lck(y, t) \/ t \in LockedBy(d)
  PROVE  World(y, fl, of, cd, d, h)
<1>1. Balanced(y, d, h, fl, cd)
  <2>1. ASSUME NEW t \in Slot
        PROVE  Net(y, t) = InDir(cd, t) + InFile(fl, t) + HeldBy(d, t) + InHung(h, t)
    <3>1. Net(x, t) = InDir(cd, t) + InFile(fl, t) + HeldBy(c, t) + InHung(h, t)
      BY Netted DEF World
    <3>2. InDir(cd, t) \in Nat /\ InFile(fl, t) \in Nat /\ InHung(h, t) \in Nat
          /\ HeldBy(c, t) \in Nat /\ HeldBy(d, t) \in Nat
      BY HoldersNat, HeldNat
    <3> QED
      BY <3>1, <3>2
  <2> QED
    BY <2>1, Netted
<1>2. Locks(y, d, h)
  BY DEF World, Locks, Calm
<1>3. Jams(y, h)
  BY DEF World, Jams, Calm
<1>4. Callers(d, h, cd, of)
  BY DEF World, Callers
<1> QED
  BY <1>1, <1>2, <1>3, <1>4 DEF World

-----------------------------------------------------------------------------
(* iget of a locked inode: the call sleeps.                                *)
Asleep(x, p, s, b) ==
  [x EXCEPT !.core[s].want = TRUE, !.wait[p] = s, !.jam = @ \/ b]

LEMMA AsleepSound ==
  ASSUME NEW x, Sound(x), NEW p \in Proc, NEW s \in Slot, Lck(x, s),
         NEW b \in BOOLEAN
  PROVE  LET y == Asleep(x, p, s, b)
         IN /\ Sound(y) /\ y.text = x.text /\ y.skew = x.skew
            /\ y.stranded = x.stranded /\ y.jam = (x.jam \/ b) /\ Same(x, y)
            /\ \A t \in Slot : Lck(y, t) <=> Lck(x, t)
<1>1. PICK y : y = Asleep(x, p, s, b)
  OBVIOUS
<1> DEFINE c == [x.core[s] EXCEPT !.want = TRUE]
           W == [x.wait EXCEPT ![p] = s]
           C == [x.core EXCEPT ![s] = c]
<1>2. x.core[s] \in CoreInodes
  BY TablesTypes
<1>3. /\ c \in CoreInodes /\ c.ino = x.core[s].ino /\ c.count = x.core[s].count
      /\ c.lock = x.core[s].lock /\ c.want
  BY <1>2 DEF CoreInodes
<1>4. y = [x EXCEPT !.core = C, !.wait = W, !.jam = x.jam \/ b]
  BY <1>1 DEF Asleep, Sound, InodeTables
<1> HIDE DEF c
<1>5. C \in [Slot -> CoreInodes] /\ \A t \in Slot : C[t] = IF t = s THEN c ELSE x.core[t]
  BY <1>3, TablesTypes
<1>6. W \in [Proc -> Slot \cup {0}] /\ \A q \in Proc : W[q] = IF q = p THEN s ELSE x.wait[q]
  BY TablesTypes
<1>7. PICK j \in BOOLEAN : j = (x.jam \/ b)
  OBVIOUS
<1> HIDE DEF C, W
<1>8. /\ y \in InodeTables /\ y.core = C /\ y.wait = W /\ y.text = x.text
      /\ y.skew = x.skew /\ y.stranded = x.stranded /\ y.jam = j
      /\ y.forgotten = x.forgotten /\ y.sinode = x.sinode
  BY <1>4, <1>5, <1>6, <1>7 DEF Sound, InodeTables
<1>9. Fits(y) /\ Vacant(y) /\ Single(y)
  BY <1>3, <1>5, <1>8 DEF Sound, Fits, Vacant, Single
<1>10. Wakes(y)
  <2> SUFFICES ASSUME NEW q \in Proc, y.wait[q] # 0, q \notin y.forgotten
               PROVE  y.core[y.wait[q]].lock /\ y.core[y.wait[q]].want
    BY DEF Wakes
  <2>1. CASE q = p
    BY <2>1, <1>3, <1>5, <1>6, <1>8 DEF Lck
  <2>2. CASE q # p
    <3>1. y.wait[q] = x.wait[q] /\ x.wait[q] \in Slot /\ q \notin x.forgotten
      BY <2>2, <1>6, <1>8, TablesTypes
    <3>2. x.core[x.wait[q]].lock /\ x.core[x.wait[q]].want
      BY <3>1 DEF Sound, Wakes
    <3> QED
      BY <3>1, <3>2, <1>3, <1>5, <1>8
  <2> QED
    BY <2>1, <2>2
<1>11. Same(x, y) /\ \A t \in Slot : Lck(y, t) <=> Lck(x, t)
  BY <1>3, <1>5, <1>8 DEF Same, Cnt, Lck
<1>12. Sound(y)
  BY <1>8, <1>9, <1>10 DEF Sound
<1> QED
  BY <1>1, <1>7, <1>8, <1>11, <1>12

LEMMA OwedInt ==
  ASSUME NEW x, Sound(x), NEW fl, NEW cd, NEW t \in Slot
  PROVE  Owed(x, fl, cd, t) \in Int
<1>1. /\ Fixed(x, t) \in Int /\ x.skew[t] \in Int
      /\ InDir(cd, t) \in Nat /\ InFile(fl, t) \in Nat
  BY HoldersNat, NetInt
<1> QED
  BY <1>1 DEF Owed

LEMMA SleepOK ==
  ASSUME NEW x, NEW fl, NEW of, NEW cd, NEW c, NEW h, Asks(x, fl, of, cd, c, h),
         NEW n \in Ino, NEW s \in Slot, Lck(x, s), NEW b \in BOOLEAN,
         s = c.pd \/ (s = c.ip /\ c.op = "getcwd") => b
  PROVE  World(Asleep(x, c.p, s, b), fl, of, cd, Idle,
               [h EXCEPT ![c.p] = [c EXCEPT !.pc = "iget", !.want = n]])
<1> DEFINE d == [c EXCEPT !.pc = "iget", !.want = n]
<1>1. PICK g : g = [h EXCEPT ![c.p] = d]
  OBVIOUS
<1>2. PICK y : y = Asleep(x, c.p, s, b)
  OBVIOUS
<1>3. c \in CallRecords /\ c.p \in Proc /\ Ready(c) /\ Sound(x)
      /\ c.op \in Calls /\ c # Idle /\ n # 0
  BY ReadyHolds DEF Asks, Ino
<1>4. /\ d \in CallRecords /\ d.pc = "iget" /\ d.want = n /\ d.p = c.p
      /\ d.dp = c.dp /\ d.pd = c.pd /\ d.ip = c.ip
  BY <1>3 DEF CallRecords
<1>5. /\ d.op = c.op /\ d.step = c.step /\ d.old = c.old /\ d.new = c.new
      /\ d.flag = c.flag /\ d.first = c.first /\ d.rest = c.rest
  BY <1>3 DEF CallRecords
<1> HIDE DEF d
<1>6. Ready(d)
  BY <1>3, <1>4, <1>5, ReadySame, ReadyHolds
<1>7. Placed(d)
  BY <1>3, <1>4, <1>6 DEF Placed
<1>8. h \in [Proc -> CallRecords] /\ h[c.p] = Idle /\ cd[c.p] # 0
  BY <1>3 DEF Asks, HungOK, Callers
<1>9. \A q \in Proc : g[q] = IF q = c.p THEN d ELSE h[q]
  BY <1>1, <1>8
<1>10. HungOK(g)
  <2>1. g \in [Proc -> CallRecords]
    BY <1>1, <1>4, <1>8
  <2> QED
    BY <2>1, <1>4, <1>7, <1>9 DEF HungOK, Asks
<1>11. /\ Sound(y) /\ y.text = x.text /\ y.skew = x.skew
       /\ y.stranded = x.stranded /\ y.jam = (x.jam \/ b) /\ Same(x, y)
       /\ \A t \in Slot : Lck(y, t) <=> Lck(x, t)
  BY <1>2, <1>3, AsleepSound
<1>12. Balanced(y, Idle, g, fl, cd)
  <2>1. ASSUME NEW t \in Slot
        PROVE  Cnt(y, t) = Owed(y, fl, cd, t) + HeldBy(Idle, t) + InHung(g, t)
    <3>1. Cnt(x, t) = Owed(x, fl, cd, t) + HeldBy(c, t) + InHung(h, t)
      BY DEF Asks, Balanced
    <3>2. Owed(y, fl, cd, t) = Owed(x, fl, cd, t) /\ Cnt(y, t) = Cnt(x, t)
      BY <1>11 DEF Owed, Fixed, Itext, Same
    <3>3. InHung(g, t) = InHung(h, t) - HeldBy(h[c.p], t) + HeldBy(g[c.p], t)
      <4>1. PICK p \in Proc : p = c.p
        BY <1>3
      <4>2. ButHung(h, g, p)
        BY <1>9, <4>1 DEF ButHung
      <4>3. InHung(g, t) = InHung(h, t) - HeldBy(h[p], t) + HeldBy(g[p], t)
        BY <4>2, HungMoves
      <4> QED
        BY <4>1, <4>3
    <3>4. HeldBy(h[c.p], t) = 0 /\ HeldBy(Idle, t) = 0 /\ g[c.p] = d
      BY <1>3, <1>8, <1>9, IdleHolds
    <3>5. HeldBy(d, t) = HeldBy(c, t)
      BY <1>4, HeldBits
    <3>6. InHung(h, t) \in Nat /\ HeldBy(c, t) \in Nat
      BY HoldersNat, HeldNat
    <3>7. Owed(x, fl, cd, t) \in Int
      BY <1>3, OwedInt
    <3> QED
      BY <3>1, <3>2, <3>3, <3>4, <3>5, <3>6, <3>7
  <2> QED
    BY <2>1 DEF Balanced
<1>13. LockedBy(d) = LockedBy(c)
  BY <1>4, <1>5 DEF LockedBy
<1>14. Locks(y, Idle, g)
  <2> SUFFICES ASSUME NEW t \in Slot, Lck(y, t)
               PROVE  t \in y.stranded \/ \E p \in Proc : t \in LockedBy(g[p])
    BY DEF Locks
  <2>1. t \in x.stranded \/ t \in LockedBy(c) \/ \E p \in Proc : t \in LockedBy(h[p])
    BY <1>11 DEF Asks, Locks
  <2>2. \A p \in Proc : t \in LockedBy(h[p]) => p # c.p
    BY <1>8, IdleHolds, SlotNat
  <2> QED
    BY <1>3, <1>9, <1>11, <1>13, <2>1, <2>2
<1>15. Jams(y, g)
  <2> SUFFICES ASSUME ~y.jam PROVE FALSE
    BY DEF Jams
  <2>1. ~x.jam /\ ~b
    BY <1>11
  <2>2. x.stranded = {} /\ \A p \in Proc : h[p] = Idle
    BY <2>1 DEF Asks, Jams
  <2>3. s \in LockedBy(c) \/ \E p \in Proc : s \in LockedBy(h[p])
    BY <2>2 DEF Asks, Locks
  <2>4. s \in LockedBy(c) /\ s # 0
    BY <2>2, <2>3, IdleHolds, SlotNat
  <2>5. s = c.pd \/ (s = c.ip /\ c.op = "getcwd")
    BY <1>3, <2>4, ReadyHolds DEF LockedBy
  <2> QED
    BY <2>1, <2>5
<1>16. Callers(Idle, g, cd, of)
  BY <1>8, <1>9 DEF Asks, Callers
<1>17. World(y, fl, of, cd, Idle, g)
  BY <1>10, <1>11, <1>12, <1>14, <1>15, <1>16, IdleOK DEF World, Asks
<1> QED
  BY <1>1, <1>2, <1>17 DEF d

(* iget finds or makes its slot.                                           *)
LEMMA FetchOK ==
  ASSUME NEW x, NEW fl, NEW of, NEW cd, NEW c, NEW h, Asks(x, fl, of, cd, c, h),
         NEW n \in Ino, IgetSlot(x, n) # 0
  PROVE  World(Iget(x, n), fl, of, cd, Arrive(c, IgetSlot(x, n)), h)
<1>1. PICK s : s = IgetSlot(x, n)
  OBVIOUS
<1>2. PICK y : y = Iget(x, n)
  OBVIOUS
<1>3. PICK d : d = Arrive(c, s)
  OBVIOUS
<1>4. s \in Slot /\ Takes(x, y, s)
  BY <1>1, <1>2, IgetTakes DEF Asks
<1>5. /\ CallOK(y, d) /\ d.p = c.p /\ s \in LockedBy(d)
      /\ \A t \in Slot : HeldBy(d, t) = HeldBy(c, t) + Bit(t = s)
      /\ \A t \in Slot : t \in LockedBy(c) => t \in LockedBy(d)
  BY <1>3, <1>4, ArriveOK DEF Asks, Takes
<1>6. Balanced(y, d, h, fl, cd)
  <2>1. ASSUME NEW t \in Slot
        PROVE  Cnt(y, t) = Owed(y, fl, cd, t) + HeldBy(d, t) + InHung(h, t)
    <3>1. Cnt(x, t) = Owed(x, fl, cd, t) + HeldBy(c, t) + InHung(h, t)
      BY DEF Asks, Balanced
    <3>2. Owed(y, fl, cd, t) = Owed(x, fl, cd, t) /\ Cnt(y, t) = Cnt(x, t) + Bit(t = s)
      BY <1>4 DEF Owed, Fixed, Itext, Takes, More
    <3>3. InHung(h, t) \in Nat /\ HeldBy(c, t) \in Nat /\ Bit(t = s) \in {0, 1}
      BY HoldersNat, HeldNat, BitNat
    <3>4. Owed(x, fl, cd, t) \in Int
      BY OwedInt DEF Asks
    <3> QED
      BY <1>5, <3>1, <3>2, <3>3, <3>4
  <2> QED
    BY <2>1 DEF Balanced
<1>7. Locks(y, d, h)
  BY <1>4, <1>5 DEF Locks, Asks, Takes
<1>8. Jams(y, h)
  BY <1>4 DEF Jams, Asks, Takes
<1>9. Callers(d, h, cd, of)
  <2>1. c # Idle
    BY ReadyHolds DEF Asks
  <2> QED
    BY <1>5, <2>1 DEF Callers, Asks
<1> QED
  BY <1>1, <1>2, <1>3, <1>4, <1>5, <1>6, <1>7, <1>8, <1>9 DEF World, Asks, Takes

(* iget finds no slot: the call fails.                                     *)
LEMMA FailOK ==
  ASSUME NEW x, NEW fl, NEW of, NEW cd, NEW c, NEW h, Asks(x, fl, of, cd, c, h)
  PROVE  LET held == IF c.op = "getcwd" THEN c.ip ELSE c.pd
         IN World(IF held = 0 THEN x ELSE Iput(x, held), fl, of, cd, Error(c), h)
<1>1. PICK held : held = IF c.op = "getcwd" THEN c.ip ELSE c.pd
  OBVIOUS
<1>2. PICK y : y = IF held = 0 THEN x ELSE Iput(x, held)
  OBVIOUS
<1>3. PICK d : d = Error(c)
  OBVIOUS
<1>4. Ready(c) /\ Sound(x) /\ held \in Slot \cup {0} /\ c \in CallRecords
  BY <1>1, ReadyHolds DEF Asks
<1>5. /\ CallOK(y, d) /\ (d = Idle \/ d.p = c.p) /\ LockedBy(d) = {0}
      /\ \A t \in Slot : HeldBy(d, t) = Bit(c.op # "getcwd" /\ c.ip = t)
  BY <1>3, <1>4, ErrorOK
<1>6. Sound(y) /\ Slack(x, y) /\ \A t \in Slot : Cnt(y, t) = Cnt(x, t) - Bit(t = held)
      /\ (held # 0 => ~Lck(y, held))
  <2>1. CASE held = 0
    <3>1. \A t \in Slot : Bit(t = held) = 0 /\ Cnt(x, t) \in Int
      BY <1>4, <2>1, SlotNat, CntInt DEF Bit
    <3>2. y = x
      BY <1>2, <2>1
    <3> QED
      BY <1>4, <2>1, <3>1, <3>2 DEF Slack
  <2>2. CASE held # 0
    <3>1. Drops(x, y, held)
      BY <1>2, <1>4, <2>2, IputDrops
    <3> QED
      BY <3>1 DEF Drops, Less
  <2> QED
    BY <2>1, <2>2
<1>7. Balanced(y, d, h, fl, cd)
  <2>1. ASSUME NEW t \in Slot
        PROVE  Cnt(y, t) = Owed(y, fl, cd, t) + HeldBy(d, t) + InHung(h, t)
    <3>1. Cnt(x, t) = Owed(x, fl, cd, t) + HeldBy(c, t) + InHung(h, t)
      BY DEF Asks, Balanced
    <3>2. Owed(y, fl, cd, t) = Owed(x, fl, cd, t) /\ Cnt(y, t) = Cnt(x, t) - Bit(t = held)
      BY <1>6 DEF Owed, Fixed, Itext, Slack
    <3>3. HeldBy(c, t) = HeldBy(d, t) + Bit(t = held)
      <4>1. t # 0 /\ HeldBy(c, t) = Bit(c.dp = t) + Bit(c.pd = t) + Bit(c.ip = t)
        BY HeldBits, SlotNat
      <4>2. c.dp = 0 /\ (c.op = "getcwd" => c.pd = 0)
        BY <1>4, ReadyHolds
      <4> QED
        BY <1>1, <1>5, <4>1, <4>2 DEF Bit
    <3>4. InHung(h, t) \in Nat /\ HeldBy(d, t) \in Nat /\ Bit(t = held) \in {0, 1}
      BY HoldersNat, HeldNat, BitNat
    <3>5. Owed(x, fl, cd, t) \in Int
      BY OwedInt DEF Asks
    <3> QED
      BY <3>1, <3>2, <3>3, <3>4, <3>5
  <2> QED
    BY <2>1 DEF Balanced
<1>8. Locks(y, d, h)
  <2>1. \A t \in Slot : t \in LockedBy(c) => t = held
    BY <1>1, <1>4, SlotNat, ReadyHolds DEF LockedBy
  <2> QED
    BY <1>6, <2>1, SlotNat DEF Locks, Asks, Slack
<1>9. Jams(y, h)
  BY <1>6 DEF Jams, Asks, Slack
<1>10. Callers(d, h, cd, of)
  <2>1. c # Idle
    BY ReadyHolds DEF Asks
  <2> QED
    BY <1>5, <2>1 DEF Callers, Asks
<1>11. World(y, fl, of, cd, d, h)
  BY <1>5, <1>6, <1>7, <1>8, <1>9, <1>10 DEF World, Asks
<1> QED
  BY <1>1, <1>2, <1>3, <1>11

LEMMA ReachOK ==
  ASSUME NEW x, NEW c, NEW n \in Ino \cup {0},
         Asks(x, file, ofile, cdir, c, hung), Reach(x, c, n)
  PROVE  World(k', file, ofile, cdir, call', hung')
<1>1. PICK s : s = IgetSlot(x, n)
  OBVIOUS
<1> DEFINE locked == s # 0 /\ x.core[s].ino = n /\ x.core[s].lock
           held == IF c.op = "getcwd" THEN c.ip ELSE c.pd
           self == s = held /\ (c.flag = 2 \/ c.op = "getcwd")
<1>2. n \in Ino /\ s \in Slot \cup {0}
  BY <1>1, IgetSlotType DEF Reach
<1>3. \/ /\ locked
         /\ k' = Asleep(x, c.p, s, self)
         /\ hung' = [hung EXCEPT ![c.p] = [c EXCEPT !.pc = "iget", !.want = n]]
         /\ call' = Idle
      \/ s # 0 /\ ~locked /\ k' = Iget(x, n) /\ call' = Arrive(c, s) /\ hung' = hung
      \/ /\ s = 0 /\ k' = (IF held = 0 THEN x ELSE Iput(x, held))
         /\ call' = Error(c) /\ hung' = hung
  BY <1>1 DEF Reach, Asleep
<1>4. CASE /\ locked
           /\ k' = Asleep(x, c.p, s, self)
           /\ hung' = [hung EXCEPT ![c.p] = [c EXCEPT !.pc = "iget", !.want = n]]
           /\ call' = Idle
  <2>1. PICK b \in BOOLEAN : b = self
    OBVIOUS
  <2>2. s = c.pd \/ (s = c.ip /\ c.op = "getcwd") => b
    <3>1. Ready(c) /\ s # 0
      BY <1>4 DEF Asks
    <3>2. s = c.pd => c.flag = 2 /\ c.op # "getcwd"
      BY <3>1, ReadyHolds
    <3> QED
      BY <2>1, <3>2
  <2>3. s \in Slot /\ Lck(x, s)
    BY <1>2, <1>4 DEF Lck
  <2> HIDE DEF self
  <2>4. World(Asleep(x, c.p, s, b), file, ofile, cdir, Idle,
               [hung EXCEPT ![c.p] = [c EXCEPT !.pc = "iget", !.want = n]])
    BY <1>2, <2>2, <2>3, SleepOK
  <2> QED
    BY <1>4, <2>1, <2>4
<1>5. CASE s # 0 /\ ~locked /\ k' = Iget(x, n) /\ call' = Arrive(c, s) /\ hung' = hung
  BY <1>1, <1>2, <1>5, FetchOK
<1>6. CASE /\ s = 0 /\ k' = (IF held = 0 THEN x ELSE Iput(x, held))
           /\ call' = Error(c) /\ hung' = hung
  BY <1>6, FailOK
<1> QED
  BY <1>3, <1>4, <1>5, <1>6

Inv == World(k, file, ofile, cdir, call, hung)

-----------------------------------------------------------------------------
(* The steps of namei and getcwd.                                          *)
LEMMA AskSettled ==
  ASSUME NEW x, NEW fl, NEW of, NEW cd, NEW c, NEW h, NEW y, NEW d,
         World(x, fl, of, cd, c, h), Sound(y), Calm(x, y), Ready(d),
         h[d.p] = Idle, cd[d.p] # 0,
         \A t \in Slot : Net(y, t) = Net(x, t) - HeldBy(c, t) + HeldBy(d, t),
         \A t \in Slot : t \in LockedBy(c) => ~Lck(y, t) \/ t \in LockedBy(d)
  PROVE  Asks(y, fl, of, cd, d, h)
<1>1. Balanced(y, d, h, fl, cd)
  <2>1. ASSUME NEW t \in Slot
        PROVE  Net(y, t) = InDir(cd, t) + InFile(fl, t) + HeldBy(d, t) + InHung(h, t)
    <3>1. Net(x, t) = InDir(cd, t) + InFile(fl, t) + HeldBy(c, t) + InHung(h, t)
      BY Netted DEF World
    <3>2. InDir(cd, t) \in Nat /\ InFile(fl, t) \in Nat /\ InHung(h, t) \in Nat
          /\ HeldBy(c, t) \in Nat /\ HeldBy(d, t) \in Nat
      BY HoldersNat, HeldNat
    <3> QED
      BY <3>1, <3>2
  <2> QED
    BY <2>1, Netted
<1>2. Locks(y, d, h)
  BY DEF World, Locks, Calm
<1>3. Jams(y, h)
  BY DEF World, Jams, Calm
<1>4. Callers(d, h, cd, of)
  BY DEF World, Callers
<1> QED
  BY <1>1, <1>2, <1>3, <1>4 DEF World, Asks

LEMMA CalmSelf ==
  ASSUME NEW x
  PROVE  Calm(x, x)
BY DEF Calm

LEMMA SlackNet ==
  ASSUME NEW x, Sound(x), NEW y, Sound(y), Slack(x, y)
  PROVE  Calm(x, y) /\ \A t \in Slot : Net(y, t) = Net(x, t) + (Cnt(y, t) - Cnt(x, t))
<1>1. Calm(x, y)
  BY DEF Calm, Slack
<1>2. ASSUME NEW t \in Slot
      PROVE  Net(y, t) = Net(x, t) + (Cnt(y, t) - Cnt(x, t))
  <2>1. Fixed(y, t) = Fixed(x, t) /\ y.skew[t] = x.skew[t]
    BY DEF Slack, Fixed, Itext
  <2>2. Cnt(x, t) \in Int /\ Cnt(y, t) \in Int /\ Fixed(x, t) \in Int
        /\ x.skew[t] \in Int
    BY NetInt
  <2> QED
    BY <2>1, <2>2 DEF Net
<1> QED
  BY <1>1, <1>2

LEMMA DropsNet ==
  ASSUME NEW x, Sound(x), NEW y, NEW s \in Slot, Drops(x, y, s)
  PROVE  /\ Sound(y) /\ Calm(x, y) /\ ~Lck(y, s)
         /\ \A t \in Slot : Net(y, t) = Net(x, t) - Bit(s = t)
<1>1. Sound(y) /\ Calm(x, y) /\ ~Lck(y, s)
      /\ \A t \in Slot : Net(y, t) = Net(x, t) + (Cnt(y, t) - Cnt(x, t))
  BY SlackNet DEF Drops
<1>2. ASSUME NEW t \in Slot PROVE Net(y, t) = Net(x, t) - Bit(s = t)
  <2>1. Cnt(y, t) = Cnt(x, t) - Bit(t = s) /\ Bit(t = s) = Bit(s = t)
    BY DEF Drops, Less, Bit
  <2>2. Cnt(x, t) \in Int /\ Net(x, t) \in Int /\ Bit(s = t) \in {0, 1}
    BY NetInt, BitNat
  <2> QED
    BY <1>1, <2>1, <2>2
<1> QED
  BY <1>1, <1>2

LEMMA CalmTrans ==
  ASSUME NEW x, NEW y, NEW z, Calm(x, y), Calm(y, z)
  PROVE  Calm(x, z) /\ \A t \in Slot : ~Lck(y, t) => ~Lck(z, t)
BY DEF Calm

(* Two inodes released one after the other.                                *)
LEMMA DropTwo ==
  ASSUME NEW x, Sound(x), NEW s \in Slot, NEW u \in Slot
  PROVE  LET y == Iput(Iput(x, s), u)
         IN /\ Sound(y) /\ Calm(x, y) /\ ~Lck(y, s) /\ ~Lck(y, u)
            /\ \A t \in Slot : Net(y, t) = Net(x, t) - Bit(s = t) - Bit(u = t)
<1>1. PICK z : z = Iput(x, s)
  OBVIOUS
<1>2. PICK y : y = Iput(z, u)
  OBVIOUS
<1>3. /\ Sound(z) /\ Calm(x, z) /\ ~Lck(z, s)
      /\ \A t \in Slot : Net(z, t) = Net(x, t) - Bit(s = t)
  BY <1>1, IputDrops, DropsNet
<1>4. /\ Sound(y) /\ Calm(z, y) /\ ~Lck(y, u)
      /\ \A t \in Slot : Net(y, t) = Net(z, t) - Bit(u = t)
  BY <1>2, <1>3, IputDrops, DropsNet
<1>5. Calm(x, y) /\ ~Lck(y, s)
  BY <1>3, <1>4, CalmTrans
<1> QED
  BY <1>1, <1>2, <1>3, <1>4, <1>5

(* namei begins.                                                           *)
LEMMA NameiReady ==
  ASSUME NEW c \in CallRecords, NEW flag \in 0..2, NEW path \in Paths,
         Begin(c, path) \in Ino \cup {0},
         c.op \in Calls, c.op # "getcwd",
         c.op = "rename" => c.step \in 1..4 /\ c.old \in Paths,
         c.op \in TwoPath => c.new \in Paths,
         flag = FlagFor(c), c.ip # 0 => Doing(c) = "link"
  PROVE  LET d == Namei(c, flag, path)
         IN /\ Ready(d) /\ d.dp = 0 /\ d.pd = 0 /\ d.ip = c.ip /\ d.p = c.p
            /\ d.op = c.op /\ \A y : CallOK(y, d)
<1>1. PICK d : d = Namei(c, flag, path)
  OBVIOUS
<1>2. PICK n : n = Begin(c, path)
  OBVIOUS
<1>3. path.names \in Seq(EntryName)
  BY NamesAssumption
<1>4. PICK q : q = path.names
  OBVIOUS
<1>5. d = [c EXCEPT !.pc = "iget", !.flag = flag, !.rest = q,
                    !.first = TRUE, !.dp = 0, !.pd = 0, !.want = n]
  BY <1>1, <1>2, <1>4 DEF Namei
<1>6. n \in Ino \cup {0} /\ q \in Seq(EntryName)
  BY <1>2, <1>3, <1>4
<1>7. d \in CallRecords
  BY <1>5, <1>6 DEF CallRecords
<1>8. d.pc = "iget" /\ d.flag = flag /\ d.dp = 0 /\ d.pd = 0 /\ d.first = TRUE
  BY <1>5, <1>6 DEF CallRecords
<1>9. d.op = c.op /\ d.step = c.step /\ d.old = c.old /\ d.new = c.new
      /\ d.ip = c.ip /\ d.p = c.p
  BY <1>5, <1>6 DEF CallRecords
<1>10. Doing(d) = Doing(c)
  BY <1>9 DEF Doing
<1>11. FlagFor(d) = FlagFor(c)
  BY <1>9, <1>10 DEF FlagFor
<1>12. Ready(d)
  BY <1>7, <1>8, <1>9, <1>10, <1>11 DEF Ready
<1>13. \A y : CallOK(y, d)
  BY <1>7, <1>8, <1>9, <1>12 DEF CallOK, Placed, Present
<1> QED
  BY <1>1, <1>8, <1>9, <1>12, <1>13

LEMMA BeginType ==
  ASSUME Sound(k), NEW c, NEW path, c.p \in Proc, cdir \in [Proc -> Slot \cup {0}],
         cdir[c.p] # 0
  PROVE  Begin(c, path) \in Ino \cup {0}
<1>1. RootSlot \in Slot /\ cdir[c.p] \in Slot
  BY InodesAssumption DEF RootSlot, Slot
<1>2. \A s \in Slot : k.core[s].ino \in Ino \cup {0}
  BY TablesTypes DEF CoreInodes
<1> QED
  BY <1>1, <1>2 DEF Begin

LEMMA FindType ==
  ASSUME NEW x, Sound(x), NEW n \in Ino, NEW name
  PROVE  /\ Find(x, n, name) \in Nat
         /\ Find(x, n, name) # 0 =>
              /\ Find(x, n, name) \in DOMAIN x.dir[n]
              /\ x.dir[n][Find(x, n, name)].ino \in Ino \cup {0}
<1> DEFINE hits == {i \in DOMAIN x.dir[n] : x.dir[n][i].ino # 0
                                            /\ x.dir[n][i].name = name}
<1>1. PICK q : q = x.dir[n]
  OBVIOUS
<1>2. q \in Seq(Entries)
  BY <1>1, TablesTypes
<1>3. hits \in SUBSET Nat /\ hits \in SUBSET DOMAIN q
  BY <1>1, <1>2
<1>4. \A i \in DOMAIN q : q[i].ino \in Ino \cup {0}
  <2>1. \A e \in Entries : e.ino \in Ino \cup {0}
    BY DEF Entries
  <2>2. \A i \in DOMAIN q : q[i] \in Entries
    BY <1>2
  <2> QED
    BY <2>1, <2>2
<1>5. Find(x, n, name) = IF hits = {} THEN 0 ELSE Min(hits)
  BY DEF Find
<1> HIDE DEF hits
<1>6. hits # {} => Min(hits) \in hits
  BY <1>3, MinNat
<1>7. PICK m : m = Find(x, n, name)
  OBVIOUS
<1>8. m = 0 \/ m \in hits
  BY <1>5, <1>6, <1>7
<1>9. m \in Nat /\ (m # 0 => m \in DOMAIN q /\ q[m].ino \in Ino \cup {0})
  <2>1. CASE m = 0
    BY <2>1
  <2>2. CASE m \in hits
    <3>1. m \in Nat /\ m \in DOMAIN q
      BY <1>3, <2>2
    <3>2. q[m].ino \in Ino \cup {0}
      BY <1>4, <3>1
    <3> QED
      BY <3>1, <3>2
  <2> QED
    BY <1>8, <2>1, <2>2
<1> QED
  BY <1>1, <1>7, <1>9

LEMMA EnterStep ==
  ASSUME Inv, NEW p \in Proc, NEW op, NEW old \in Paths, NEW new,
         \/ op \in Simple /\ new = <<>>
         \/ op \in TwoPath /\ new \in NewPaths,
         Enter(p, op, old, new)
  PROVE  World(k', file', ofile', cdir', call', hung')
<1> DEFINE c == [Idle EXCEPT !.p = p, !.op = op, !.new = new,
                           !.old = IF op = "rename" THEN old ELSE <<>>,
                           !.step = IF op = "rename" THEN 1 ELSE 0]
<1>1. PICK o : o = IF op = "rename" THEN old ELSE <<>>
  OBVIOUS
<1>2. PICK st : st = IF op = "rename" THEN 1 ELSE 0
  OBVIOUS
<1>3. c = [Idle EXCEPT !.p = p, !.op = op, !.new = new, !.old = o, !.step = st]
  BY <1>1, <1>2
<1>4. /\ o \in Paths \cup {<<>>} /\ new \in Paths \cup {<<>>} /\ st \in Nat
      /\ op \in Calls \cup {"", "exit"} /\ op \in Calls /\ op # "getcwd"
  BY <1>1, <1>2, NamesAssumption DEF Calls, Simple, TwoPath
<1> HIDE DEF c
<1>5. c \in CallRecords
  BY <1>3, <1>4, IdleRecord DEF CallRecords
<1>6. c.p = p /\ c.op = op /\ c.new = new /\ c.old = o /\ c.step = st
  BY <1>3, <1>4, IdleRecord DEF CallRecords
<1>7. c.ip = 0
  BY <1>3, <1>4, IdleRecord, IdleHolds DEF CallRecords
<1>8. User(p)
  BY DEF Enter
<1>9. cdir[p] # 0 /\ hung[p] = Idle /\ call = Idle
  BY <1>8 DEF User
<1>10. Begin(c, old) \in Ino \cup {0}
  BY <1>6, <1>9, BeginType DEF Inv, World
<1>11. FlagOf(op) = FlagFor(c) /\ FlagOf(op) \in 0..2
  <2>1. op \in TwoPath => FlagOf(op) = 0
    BY DEF FlagOf, TwoPath
  <2>2. Doing(c) = IF op = "rename" THEN "link" ELSE op
    BY <1>2, <1>6 DEF Doing
  <2>3. FlagOf(op) \in {0, 1, 2}
    BY DEF FlagOf
  <2> QED
    BY <1>7, <2>1, <2>2, <2>3 DEF FlagFor, TwoPath
<1>12. /\ op = "rename" => st \in 1..4 /\ o \in Paths
       /\ op \in TwoPath => new \in Paths
  BY <1>1, <1>2, NamesAssumption DEF TwoPath, Simple
<1>13. PICK d : d = Namei(c, FlagOf(op), old)
  OBVIOUS
<1>14. /\ Ready(d) /\ d.dp = 0 /\ d.pd = 0 /\ d.ip = c.ip /\ d.p = c.p
       /\ d.op = c.op
  <2>1. /\ c.op \in Calls /\ c.op # "getcwd"
        /\ c.op = "rename" => c.step \in 1..4 /\ c.old \in Paths
        /\ c.op \in TwoPath => c.new \in Paths
        /\ c.ip # 0 => Doing(c) = "link"
    BY <1>4, <1>6, <1>7, <1>12
  <2> QED
    BY <1>5, <1>10, <1>11, <1>13, <2>1, NameiReady
<1>15. Reach(k, d, Begin(c, old))
  BY <1>13 DEF Enter, c
<1>16. LockedBy(d) = {0}
  BY <1>4, <1>6, <1>14 DEF LockedBy
<1>17. \A t \in Slot : HeldBy(d, t) = HeldBy(call, t)
  BY <1>7, <1>9, <1>14, HeldBits, IdleHolds
<1>18. Asks(k, file, ofile, cdir, d, hung)
  <2>1. \A t \in Slot : t \in LockedBy(call) => ~Lck(k, t) \/ t \in LockedBy(d)
    BY <1>9, <1>16, IdleHolds
  <2>2. \A t \in Slot : Net(k, t) = Net(k, t) - HeldBy(call, t) + HeldBy(d, t)
    BY <1>17, NetInt, HeldNat DEF Inv, World
  <2>3. hung[d.p] = Idle /\ cdir[d.p] # 0
    BY <1>6, <1>9, <1>14
  <2> QED
    BY <1>14, <2>1, <2>2, <2>3, CalmSelf, AskSettled DEF Inv, World
<1>19. World(k', file, ofile, cdir, call', hung')
  BY <1>10, <1>15, <1>18, ReachOK
<1>20. file' = file /\ ofile' = ofile /\ cdir' = cdir
  BY DEF Enter, OpenFiles
<1> QED
  BY <1>19, <1>20

LEMMA AfterReach ==
  ASSUME NEW x, NEW c, NEW n \in Ino \cup {0},
         Asks(x, file, ofile, cdir, c, hung), Reach(x, c, n),
         file' = file, ofile' = ofile, cdir' = cdir
  PROVE  World(k', file', ofile', cdir', call', hung')
<1>1. World(k', file, ofile, cdir, call', hung')
  BY ReachOK
<1> QED
  BY <1>1

LEMMA Iget2Step ==
  ASSUME Inv, Iget2
  PROVE  World(k', file', ofile', cdir', call', hung')
<1>1. Ready(call) /\ call.want \in Ino \cup {0}
  BY DEF Iget2, Inv, World, CallOK, Placed, CallRecords
<1>2. Asks(k, file, ofile, cdir, call, hung)
  BY <1>1 DEF Inv, World, Asks
<1>3. Reach(k, call, call.want) /\ file' = file /\ ofile' = ofile /\ cdir' = cdir
  BY DEF Iget2, OpenFiles
<1> QED
  BY <1>1, <1>2, <1>3, AfterReach

LEMMA ResumeStep ==
  ASSUME Inv, NEW p \in Proc, Resume(p)
  PROVE  World(k', file', ofile', cdir', call', hung')
<1>1. PICK c : c = hung[p]
  OBVIOUS
<1>2. PICK g : g = [hung EXCEPT ![p] = Idle]
  OBVIOUS
<1>3. /\ k' = k /\ file' = file /\ ofile' = ofile /\ cdir' = cdir /\ call' = c
      /\ hung' = g /\ call = Idle /\ c # Idle
  BY <1>1, <1>2 DEF Resume, OpenFiles
<1>4. /\ hung \in [Proc -> CallRecords] /\ c \in CallRecords /\ c.pc = "iget"
      /\ Placed(c) /\ c.p = p
  BY <1>1, <1>3 DEF Inv, World, HungOK
<1>5. \A q \in Proc : g[q] = IF q = p THEN Idle ELSE hung[q]
  BY <1>2, <1>4
<1>6. HungOK(g)
  <2>1. g \in [Proc -> CallRecords]
    BY <1>2, <1>4, IdleRecord
  <2> QED
    BY <1>5, <2>1 DEF HungOK, Inv, World
<1>7. CallOK(k, c)
  BY <1>4 DEF CallOK, Present
<1>8. Callers(c, g, cdir, ofile)
  BY <1>1, <1>3, <1>4, <1>5 DEF Callers, Inv, World
<1>9. Balanced(k, c, g, file, cdir)
  <2>1. ASSUME NEW t \in Slot
        PROVE  Cnt(k, t) = Owed(k, file, cdir, t) + HeldBy(c, t) + InHung(g, t)
    <3>1. Cnt(k, t) = Owed(k, file, cdir, t) + HeldBy(Idle, t) + InHung(hung, t)
      BY <1>3 DEF Inv, World, Balanced
    <3>2. ButHung(hung, g, p)
      BY <1>5 DEF ButHung
    <3>3. InHung(g, t) = InHung(hung, t) - HeldBy(hung[p], t) + HeldBy(g[p], t)
      BY <3>2, HungMoves
    <3>4. HeldBy(hung[p], t) = HeldBy(c, t) /\ HeldBy(g[p], t) = 0 /\ HeldBy(Idle, t) = 0
      BY <1>1, <1>5, IdleHolds
    <3>5. InHung(hung, t) \in Nat /\ HeldBy(c, t) \in Nat /\ Owed(k, file, cdir, t) \in Int
      BY HoldersNat, HeldNat, OwedInt DEF Inv, World
    <3> QED
      BY <3>1, <3>3, <3>4, <3>5
  <2> QED
    BY <2>1 DEF Balanced
<1>10. Locks(k, c, g)
  <2> SUFFICES ASSUME NEW t \in Slot, Lck(k, t)
               PROVE  t \in k.stranded \/ t \in LockedBy(c)
                        \/ \E q \in Proc : t \in LockedBy(g[q])
    BY DEF Locks
  <2>1. t \in k.stranded \/ t \in LockedBy(Idle)
          \/ \E q \in Proc : t \in LockedBy(hung[q])
    BY <1>3 DEF Inv, World, Locks
  <2>2. t \notin LockedBy(Idle)
    BY IdleHolds, SlotNat
  <2> QED
    BY <1>1, <1>5, <2>1, <2>2
<1>11. Jams(k, g)
  BY <1>1, <1>3 DEF Jams, Inv, World
<1>12. World(k, file, ofile, cdir, c, g)
  BY <1>6, <1>7, <1>8, <1>9, <1>10, <1>11 DEF Inv, World
<1> QED
  BY <1>3, <1>12

-----------------------------------------------------------------------------
(* A call on its way through a directory.                                  *)
LEMMA DpCleared ==
  ASSUME NEW c \in CallRecords
  PROVE  LET e == [c EXCEPT !.dp = 0]
         IN /\ e.op = c.op /\ e.step = c.step /\ e.old = c.old /\ e.new = c.new
            /\ e.flag = c.flag /\ e.ip = c.ip /\ e.pd = c.pd
            /\ e.first = c.first /\ e.rest = c.rest
<1>1. PICK e : e = [c EXCEPT !.dp = 0]
  OBVIOUS
<1>2. e.op = c.op /\ e.step = c.step /\ e.old = c.old /\ e.new = c.new
  BY <1>1 DEF CallRecords
<1>3. e.flag = c.flag /\ e.ip = c.ip /\ e.pd = c.pd /\ e.first = c.first /\ e.rest = c.rest
  BY <1>1 DEF CallRecords
<1> QED
  BY <1>1, <1>2, <1>3

LEMMA CallFacts ==
  ASSUME Inv, call.pc # "idle"
  PROVE  /\ call \in CallRecords /\ call # Idle
         /\ call.p \in Proc /\ hung[call.p] = Idle /\ cdir[call.p] \in Slot
         /\ call.dp \in Slot \cup {0} /\ call.pd \in Slot \cup {0}
         /\ call.ip \in Slot \cup {0} /\ call.name \in EntryName /\ Sound(k)
         /\ call.new \in Paths \cup {<<>>} /\ call.step \in Nat
<1>1. call \in CallRecords /\ call # Idle /\ Sound(k)
  BY IdleHolds DEF Inv, World, CallOK
<1>2. hung[call.p] = Idle /\ cdir[call.p] # 0 /\ call.p \in Proc
  BY <1>1 DEF Inv, World, Callers, CallRecords
<1>3. cdir[call.p] \in Slot
  BY <1>2 DEF Inv, World
<1>4. /\ call.dp \in Slot \cup {0} /\ call.pd \in Slot \cup {0}
      /\ call.ip \in Slot \cup {0} /\ call.name \in EntryName
      /\ call.new \in Paths \cup {<<>>} /\ call.step \in Nat
  BY <1>1 DEF CallRecords
<1> QED
  BY <1>1, <1>2, <1>3, <1>4

LEMMA LookFacts ==
  ASSUME Inv, call.pc = "look"
  PROVE  /\ Ready([call EXCEPT !.dp = 0]) /\ call.dp \in Slot /\ call.pd = 0
         /\ call.op # "getcwd" /\ Dir \in Ino
         /\ k.dir[Dir] \in Seq(Entries)
<1>1. /\ Ready([call EXCEPT !.dp = 0]) /\ call.dp # 0 /\ call.pd = 0
      /\ call.op # "getcwd" /\ k.core[call.dp].ino # 0
  BY DEF Inv, World, CallOK, Placed, Present, Fetched
<1>2. call.dp \in Slot
  BY <1>1, CallFacts
<1>3. k.core[call.dp].ino \in Ino
  BY <1>1, <1>2, CallFacts, TablesTypes DEF CoreInodes
<1>4. k.dir[Dir] \in Seq(Entries)
  BY <1>3, CallFacts, TablesTypes DEF Dir
<1> QED
  BY <1>1, <1>2, <1>3, <1>4 DEF Dir

LEMMA LookOutStep ==
  ASSUME Inv, LookOut
  PROVE  World(k', file', ofile', cdir', call', hung')
<1>1. /\ k' = Iput(k, call.dp) /\ call' = Error(call) /\ call.pc = "look"
      /\ file' = file /\ ofile' = ofile /\ cdir' = cdir /\ hung' = hung
  BY DEF LookOut, OpenFiles
<1>2. PICK e : e = [call EXCEPT !.dp = 0]
  OBVIOUS
<1>3. /\ Ready(e) /\ call.dp \in Slot /\ call.pd = 0 /\ call.op # "getcwd"
      /\ call \in CallRecords /\ call # Idle /\ Sound(k)
  BY <1>1, <1>2, LookFacts, CallFacts
<1>4. e.op = call.op /\ e.step = call.step /\ e.old = call.old /\ e.new = call.new
      /\ e.flag = call.flag /\ e.ip = call.ip
  BY <1>2, <1>3, DpCleared
<1>5. PICK y : y = Iput(k, call.dp)
  OBVIOUS
<1>6. PICK d : d = Error(call)
  OBVIOUS
<1>7. /\ CallOK(y, d) /\ (d = Idle \/ d.p = call.p) /\ LockedBy(d) = {0}
      /\ \A t \in Slot : HeldBy(d, t) = Bit(call.op # "getcwd" /\ call.ip = t)
  BY <1>3, <1>4, <1>6, ErrorOK
<1>8. /\ Sound(y) /\ Calm(k, y) /\ ~Lck(y, call.dp)
      /\ \A t \in Slot : Net(y, t) = Net(k, t) - Bit(call.dp = t)
  BY <1>3, <1>5, IputDrops, DropsNet
<1>9. ASSUME NEW t \in Slot
      PROVE  Net(y, t) = Net(k, t) - HeldBy(call, t) + HeldBy(d, t)
  <2>1. HeldBy(call, t) = Bit(call.dp = t) + Bit(call.pd = t) + Bit(call.ip = t)
    BY HeldBits
  <2>2. Bit(call.pd = t) = 0 /\ HeldBy(d, t) = Bit(call.ip = t)
    BY <1>3, <1>7, SlotNat DEF Bit
  <2>3. Net(k, t) \in Int /\ Bit(call.dp = t) \in {0, 1} /\ Bit(call.ip = t) \in {0, 1}
    BY <1>3, NetInt, BitNat
  <2> QED
    BY <1>8, <2>1, <2>2, <2>3
<1>10. \A t \in Slot : t \in LockedBy(call) => ~Lck(y, t) \/ t \in LockedBy(d)
  BY <1>3, <1>8, SlotNat DEF LockedBy
<1>11. World(y, file, ofile, cdir, d, hung)
  BY <1>3, <1>7, <1>8, <1>9, <1>10, Settled DEF Inv
<1> QED
  BY <1>1, <1>5, <1>6, <1>11

(* A directory that is marked as changed.                                  *)
LEMMA UpdEdits ==
  ASSUME NEW x, Sound(x), NEW s \in Slot
  PROVE  Edits(x, [x EXCEPT !.core[s].upd = TRUE])
<1> DEFINE c == [x.core[s] EXCEPT !.upd = TRUE]
           y == [x EXCEPT !.core[s].upd = TRUE]
<1>1. x.core[s] \in CoreInodes
  BY TablesTypes
<1>2. /\ c \in CoreInodes /\ c.ino = x.core[s].ino /\ c.count = x.core[s].count
      /\ c.lock = x.core[s].lock /\ c.want = x.core[s].want
  BY <1>1 DEF CoreInodes
<1>3. y = Put(x, s, c, x.dir, x.short)
  BY DEF Put, Sound, InodeTables
<1>4. x.dir \in [Ino -> Seq(Entries)] /\ x.short \in SUBSET (Ino \cup {0})
  BY TablesTypes
<1> HIDE DEF c, y
<1>5. Edits(x, y)
  BY <1>2, <1>3, <1>4, PutEdits
<1> QED
  BY <1>5 DEF y

LEMMA KeepsNet ==
  ASSUME NEW x, Sound(x), NEW y, Keeps(x, y)
  PROVE  Sound(y) /\ Calm(x, y) /\ \A t \in Slot : Net(y, t) = Net(x, t)
<1>1. Sound(y) /\ Calm(x, y)
      /\ \A t \in Slot : Net(y, t) = Net(x, t) + (Cnt(y, t) - Cnt(x, t))
  BY SlackNet DEF Keeps
<1>2. \A t \in Slot : Cnt(y, t) = Cnt(x, t) /\ Cnt(x, t) \in Int /\ Net(x, t) \in Int
  BY NetInt DEF Keeps, Same
<1> QED
  BY <1>1, <1>2

LEMMA LookCreateStep ==
  ASSUME Inv, LookCreate
  PROVE  World(k', file', ofile', cdir', call', hung')
<1> DEFINE holes == {i \in DOMAIN k.dir[Dir] : k.dir[Dir][i].ino = 0}
           o == IF holes # {} THEN Min(holes) ELSE Len(k.dir[Dir]) + 1
<1>1. /\ file' = file /\ ofile' = ofile /\ cdir' = cdir /\ hung' = hung
      /\ call.pc = "look" /\ call.rest # <<>> /\ call.flag = 1
  BY DEF LookCreate, OpenFiles
<1>2. /\ call' = [call EXCEPT !.pc = "done", !.pd = call.dp, !.dp = 0,
                      !.name = Head(call.rest), !.rest = <<>>, !.first = FALSE,
                      !.off = o]
      /\ k' = IF holes # {} THEN k ELSE [k EXCEPT !.core[call.dp].upd = TRUE]
  BY DEF LookCreate
<1>3. /\ Ready([call EXCEPT !.dp = 0]) /\ call.dp \in Slot /\ call.pd = 0
      /\ call.op # "getcwd" /\ call \in CallRecords /\ call # Idle /\ Sound(k)
      /\ k.dir[Dir] \in Seq(Entries)
  BY <1>1, LookFacts, CallFacts
<1>4. o \in Nat
  <2>1. holes \in SUBSET Nat /\ Len(k.dir[Dir]) + 1 \in Nat
    BY <1>3
  <2> HIDE DEF holes
  <2>2. holes # {} => Min(holes) \in Nat
    BY <2>1, MinNat
  <2> QED
    BY <2>1, <2>2
<1> HIDE DEF holes, o
<1>5. Keeps(k, k') /\ Sound(k')
  <2>1. Keeps(k, k)
    BY <1>3 DEF Keeps, Slack, Same
  <2>2. Keeps(k, [k EXCEPT !.core[call.dp].upd = TRUE])
    BY <1>3, UpdEdits, EditsKeep
  <2> QED
    BY <1>2, <2>1, <2>2 DEF Keeps
<1>6. PICK z : z = <<>>
  OBVIOUS
<1>7. PICK name : name = Head(call.rest)
  OBVIOUS
<1>8. PICK d : d = [call EXCEPT !.pc = "done", !.pd = call.dp, !.dp = 0,
                      !.name = name, !.rest = z, !.first = FALSE, !.off = o]
  OBVIOUS
<1>9. name \in EntryName /\ z \in Seq(EntryName) /\ call.dp \in Slot \cup {0}
  <2>1. call.rest \in Seq(EntryName)
    BY <1>3 DEF CallRecords
  <2> QED
    BY <1>1, <1>3, <1>6, <1>7, <2>1, HeadTailProperties
<1>10. d \in CallRecords
  <2>1. call \in CallRecords
    BY <1>3
  <2> QED
    BY <1>4, <1>8, <1>9, <2>1 DEF CallRecords
<1>11. d.pc = "done" /\ d.pd = call.dp /\ d.dp = 0 /\ d.ip = call.ip /\ d.p = call.p
  BY <1>3, <1>4, <1>8, <1>9 DEF CallRecords
<1>12. d.op = call.op /\ d.step = call.step /\ d.old = call.old /\ d.new = call.new
       /\ d.flag = call.flag
  BY <1>3, <1>4, <1>8, <1>9 DEF CallRecords
<1>13. PICK f : f = [d EXCEPT !.dp = 0, !.pd = 0, !.first = TRUE]
  OBVIOUS
<1>14. /\ f \in CallRecords /\ f.dp = 0 /\ f.pd = 0 /\ f.first = TRUE
       /\ f.op = d.op /\ f.step = d.step /\ f.old = d.old /\ f.new = d.new
       /\ f.flag = d.flag /\ f.ip = d.ip
  BY <1>10, <1>13, Stripped
<1>15. PICK e : e = [call EXCEPT !.dp = 0]
  OBVIOUS
<1>16. /\ Ready(e) /\ e.op = call.op /\ e.step = call.step /\ e.old = call.old
       /\ e.new = call.new /\ e.flag = call.flag /\ e.ip = call.ip /\ e.pd = call.pd
  BY <1>3, <1>15, DpCleared
<1>17. Ready(f)
  BY <1>3, <1>11, <1>12, <1>14, <1>16, ReadySame
<1>18. CallOK(k', d)
  BY <1>1, <1>3, <1>10, <1>11, <1>12, <1>13, <1>17, SlotNat DEF CallOK, Placed, Present
<1>19. ASSUME NEW t \in Slot PROVE HeldBy(d, t) = HeldBy(call, t)
  <2>1. /\ HeldBy(call, t) = Bit(call.dp = t) + Bit(call.pd = t) + Bit(call.ip = t)
        /\ HeldBy(d, t) = Bit(d.dp = t) + Bit(d.pd = t) + Bit(d.ip = t)
    BY HeldBits
  <2> QED
    BY <1>3, <1>11, <2>1 DEF Bit
<1>20. LockedBy(d) = LockedBy(call)
  BY <1>3, <1>11, <1>12 DEF LockedBy
<1>21. Calm(k, k') /\ \A t \in Slot : Net(k', t) = Net(k, t) - HeldBy(call, t) + HeldBy(d, t)
  <2>1. Calm(k, k') /\ \A t \in Slot : Net(k', t) = Net(k, t)
    BY <1>3, <1>5, KeepsNet
  <2>2. \A t \in Slot : Net(k, t) \in Int /\ HeldBy(call, t) \in Nat
    BY <1>3, NetInt, HeldNat
  <2> QED
    BY <1>19, <2>1, <2>2
<1>22. World(k', file, ofile, cdir, d, hung)
  BY <1>3, <1>5, <1>11, <1>18, <1>20, <1>21, Settled DEF Inv
<1>23. call' = d
  BY <1>2, <1>6, <1>7, <1>8
<1> QED
  BY <1>1, <1>22, <1>23

LEMMA EntryType ==
  ASSUME Inv, call.pc = "look", Entry # 0
  PROVE  Entry \in Nat /\ k.dir[Dir][Entry].ino \in Ino \cup {0}
BY LookFacts, CallFacts, FindType DEF Entry

LEMMA LookDeleteStep ==
  ASSUME Inv, LookDelete
  PROVE  World(k', file', ofile', cdir', call', hung')
<1>1. /\ file' = file /\ ofile' = ofile /\ cdir' = cdir
      /\ call.pc = "look" /\ call.rest # <<>> /\ call.flag = 2 /\ Entry # 0
  BY DEF LookDelete, OpenFiles
<1>2. PICK name : name = Head(call.rest)
  OBVIOUS
<1>3. PICK o : o = Entry
  OBVIOUS
<1>4. PICK d : d = [call EXCEPT !.pd = call.dp, !.dp = 0, !.off = o, !.name = name]
  OBVIOUS
<1>5. PICK n : n = k.dir[Dir][Entry].ino
  OBVIOUS
<1>6. Reach(k, d, n)
  BY <1>2, <1>3, <1>4, <1>5 DEF LookDelete
<1>7. /\ Ready([call EXCEPT !.dp = 0]) /\ call.dp \in Slot /\ call.pd = 0
      /\ call.op # "getcwd" /\ call \in CallRecords /\ call # Idle /\ Sound(k)
      /\ hung[call.p] = Idle /\ cdir[call.p] # 0
  BY <1>1, LookFacts, CallFacts, SlotNat
<1>8. o \in Nat /\ n \in Ino \cup {0}
  BY <1>1, <1>3, <1>5, EntryType
<1>9. name \in EntryName /\ call.dp \in Slot \cup {0}
  <2>1. call.rest \in Seq(EntryName)
    BY <1>7 DEF CallRecords
  <2> QED
    BY <1>1, <1>2, <1>7, <2>1, HeadTailProperties
<1>10. d \in CallRecords
  <2>1. call \in CallRecords
    BY <1>7
  <2> QED
    BY <1>4, <1>8, <1>9, <2>1 DEF CallRecords
<1>11. d.pd = call.dp /\ d.dp = 0 /\ d.ip = call.ip /\ d.p = call.p
  BY <1>4, <1>7, <1>8, <1>9 DEF CallRecords
<1>12. d.op = call.op /\ d.step = call.step /\ d.old = call.old /\ d.new = call.new
       /\ d.flag = call.flag
  BY <1>4, <1>7, <1>8, <1>9 DEF CallRecords
<1>13. PICK e : e = [call EXCEPT !.dp = 0]
  OBVIOUS
<1>14. /\ Ready(e) /\ e.op = call.op /\ e.step = call.step /\ e.old = call.old
       /\ e.new = call.new /\ e.flag = call.flag /\ e.ip = call.ip /\ e.pd = call.pd
  BY <1>7, <1>13, DpCleared
<1>15. Ready(d)
  <2>1. Doing(d) = Doing(e)
    BY <1>12, <1>14 DEF Doing
  <2>2. FlagFor(d) = FlagFor(e)
    BY <1>11, <1>14, <2>1 DEF FlagFor
  <2>3. d.dp = 0 /\ d.pd # 0 /\ d.flag = 2 /\ d.op # "getcwd" /\ d.op = e.op
        /\ d.step = e.step /\ d.old = e.old /\ d.new = e.new /\ d.ip = e.ip
        /\ d.flag = e.flag
    BY <1>1, <1>7, <1>11, <1>12, <1>14, SlotNat
  <2> QED
    BY <1>10, <1>14, <2>1, <2>2, <2>3 DEF Ready
<1>16. ASSUME NEW t \in Slot PROVE HeldBy(d, t) = HeldBy(call, t)
  <2>1. /\ HeldBy(call, t) = Bit(call.dp = t) + Bit(call.pd = t) + Bit(call.ip = t)
        /\ HeldBy(d, t) = Bit(d.dp = t) + Bit(d.pd = t) + Bit(d.ip = t)
    BY HeldBits
  <2> QED
    BY <1>7, <1>11, <2>1 DEF Bit
<1>17. LockedBy(d) = LockedBy(call)
  BY <1>7, <1>11, <1>12 DEF LockedBy
<1>18. \A t \in Slot : Net(k, t) = Net(k, t) - HeldBy(call, t) + HeldBy(d, t)
  BY <1>7, <1>16, NetInt, HeldNat
<1>19. Asks(k, file, ofile, cdir, d, hung)
  BY <1>7, <1>11, <1>15, <1>17, <1>18, CalmSelf, AskSettled DEF Inv
<1> QED
  BY <1>1, <1>6, <1>8, <1>19, AfterReach

LEMMA LookNextStep ==
  ASSUME Inv, LookNext
  PROVE  World(k', file', ofile', cdir', call', hung')
<1>1. /\ file' = file /\ ofile' = ofile /\ cdir' = cdir
      /\ call.pc = "look" /\ call.rest # <<>> /\ Entry # 0
      /\ ~(call.flag = 2 /\ Len(call.rest) = 1)
  BY DEF LookNext, OpenFiles, Final
<1>2. PICK q : q = Tail(call.rest)
  OBVIOUS
<1>3. PICK d : d = [call EXCEPT !.dp = 0, !.first = FALSE, !.rest = q]
  OBVIOUS
<1>4. PICK n : n = k.dir[Dir][Entry].ino
  OBVIOUS
<1>5. PICK y : y = Iput(k, call.dp)
  OBVIOUS
<1>6. Reach(y, d, n)
  BY <1>2, <1>3, <1>4, <1>5 DEF LookNext
<1>7. /\ Ready([call EXCEPT !.dp = 0]) /\ call.dp \in Slot /\ call.pd = 0
      /\ call.op # "getcwd" /\ call \in CallRecords /\ call # Idle /\ Sound(k)
      /\ hung[call.p] = Idle /\ cdir[call.p] # 0
  BY <1>1, LookFacts, CallFacts, SlotNat
<1>8. n \in Ino \cup {0}
  BY <1>1, <1>4, EntryType
<1>9. q \in Seq(EntryName) /\ (call.flag = 2 => q # <<>>)
  <2>1. call.rest \in Seq(EntryName)
    BY <1>7 DEF CallRecords
  <2>2. q \in Seq(EntryName) /\ Len(q) = Len(call.rest) - 1
    BY <1>1, <1>2, <2>1, HeadTailProperties
  <2>3. Len(call.rest) \in Nat
    BY <2>1
  <2>4. q = <<>> => Len(q) = 0
    OBVIOUS
  <2> QED
    BY <1>1, <2>2, <2>3, <2>4
<1>10. d \in CallRecords
  <2>1. call \in CallRecords
    BY <1>7
  <2> QED
    BY <1>3, <1>9, <2>1 DEF CallRecords
<1>11. d.pd = call.pd /\ d.dp = 0 /\ d.ip = call.ip /\ d.p = call.p
       /\ d.first = FALSE /\ d.rest = q
  BY <1>3, <1>7, <1>9 DEF CallRecords
<1>12. d.op = call.op /\ d.step = call.step /\ d.old = call.old /\ d.new = call.new
       /\ d.flag = call.flag
  BY <1>3, <1>7, <1>9 DEF CallRecords
<1>13. PICK e : e = [call EXCEPT !.dp = 0]
  OBVIOUS
<1>14. /\ Ready(e) /\ e.op = call.op /\ e.step = call.step /\ e.old = call.old
       /\ e.new = call.new /\ e.flag = call.flag /\ e.ip = call.ip /\ e.pd = call.pd
  BY <1>7, <1>13, DpCleared
<1>15. Ready(d)
  <2>1. d.flag # 2 \/ d.rest # <<>>
    BY <1>9, <1>11, <1>12
  <2> QED
    BY <1>10, <1>11, <1>12, <1>14, <2>1, ReadySame
<1>16. /\ Sound(y) /\ Calm(k, y) /\ ~Lck(y, call.dp)
       /\ \A t \in Slot : Net(y, t) = Net(k, t) - Bit(call.dp = t)
  BY <1>5, <1>7, IputDrops, DropsNet
<1>17. ASSUME NEW t \in Slot
       PROVE  Net(y, t) = Net(k, t) - HeldBy(call, t) + HeldBy(d, t)
  <2>1. /\ HeldBy(call, t) = Bit(call.dp = t) + Bit(call.pd = t) + Bit(call.ip = t)
        /\ HeldBy(d, t) = Bit(d.dp = t) + Bit(d.pd = t) + Bit(d.ip = t)
    BY HeldBits
  <2>2. HeldBy(d, t) = Bit(call.ip = t) /\ Bit(call.pd = t) = 0
    BY <1>7, <1>11, <2>1, SlotNat DEF Bit
  <2>3. Net(k, t) \in Int /\ Bit(call.dp = t) \in {0, 1} /\ Bit(call.ip = t) \in {0, 1}
    BY <1>7, NetInt, BitNat
  <2> QED
    BY <1>16, <2>1, <2>2, <2>3
<1>18. \A t \in Slot : t \in LockedBy(call) => ~Lck(y, t) \/ t \in LockedBy(d)
  BY <1>7, <1>16, SlotNat DEF LockedBy
<1>19. Asks(y, file, ofile, cdir, d, hung)
  BY <1>7, <1>11, <1>15, <1>16, <1>17, <1>18, AskSettled DEF Inv
<1> QED
  BY <1>1, <1>6, <1>8, <1>19, AfterReach

LEMMA GetcwdStep ==
  ASSUME Inv, NEW p \in Proc, Getcwd(p)
  PROVE  World(k', file', ofile', cdir', call', hung')
<1>1. /\ call = Idle /\ hung[p] = Idle /\ cdir[p] # 0
      /\ file' = file /\ ofile' = ofile /\ cdir' = cdir
  BY DEF Getcwd, User, OpenFiles
<1>2. PICK d : d = [Idle EXCEPT !.p = p, !.op = "getcwd"]
  OBVIOUS
<1>3. PICK n : n = k.core[cdir[p]].ino
  OBVIOUS
<1>4. Reach(k, d, n)
  BY <1>2, <1>3 DEF Getcwd
<1>5. Sound(k) /\ cdir[p] \in Slot
  BY <1>1 DEF Inv, World
<1>6. n \in Ino \cup {0}
  BY <1>3, <1>5, TablesTypes DEF CoreInodes
<1>7. "getcwd" \in Calls \cup {"", "exit"} /\ "getcwd" \in Calls
  BY DEF Calls
<1>8. d \in CallRecords
  BY <1>2, <1>7, IdleRecord DEF CallRecords
<1>9. d.p = p /\ d.op = "getcwd" /\ d.dp = Idle.dp /\ d.pd = Idle.pd /\ d.ip = Idle.ip
      /\ d.flag = Idle.flag
  BY <1>2, <1>7, IdleRecord DEF CallRecords
<1>10. d.dp = 0 /\ d.pd = 0 /\ d.ip = 0 /\ d.flag = 0
  <2>1. Idle.flag = 0
    BY DEF Idle
  <2> QED
    BY <1>9, <2>1, IdleHolds
<1>11. Ready(d)
  BY <1>7, <1>8, <1>9, <1>10 DEF Ready, TwoPath
<1>12. \A t \in Slot : HeldBy(d, t) = HeldBy(call, t)
  BY <1>1, <1>10, HeldBits, IdleHolds
<1>13. \A t \in Slot : t \in LockedBy(call) => ~Lck(k, t) \/ t \in LockedBy(d)
  BY <1>1, IdleHolds, SlotNat
<1>14. \A t \in Slot : Net(k, t) = Net(k, t) - HeldBy(call, t) + HeldBy(d, t)
  BY <1>5, <1>12, NetInt, HeldNat
<1>15. Asks(k, file, ofile, cdir, d, hung)
  BY <1>1, <1>5, <1>9, <1>11, <1>13, <1>14, CalmSelf, AskSettled DEF Inv
<1> QED
  BY <1>1, <1>4, <1>6, <1>15, AfterReach

(* The end of a call that releases all that it holds.                      *)
LEMMA Ended ==
  ASSUME Inv, call.pc # "idle", NEW y, Sound(y), Calm(k, y),
         \A t \in Slot : Net(y, t) = Net(k, t) - HeldBy(call, t),
         \A t \in Slot : t \in LockedBy(call) => ~Lck(y, t)
  PROVE  World(y, file, ofile, cdir, Idle, hung)
<1>1. ASSUME NEW t \in Slot
      PROVE  Net(y, t) = Net(k, t) - HeldBy(call, t) + HeldBy(Idle, t)
  <2>1. HeldBy(Idle, t) = 0 /\ HeldBy(call, t) \in Nat
    BY IdleHolds, HeldNat
  <2>2. Sound(k)
    BY DEF Inv, World
  <2>3. Net(k, t) \in Int
    BY <2>2, NetInt
  <2> QED
    BY <2>1, <2>3
<1>2. CallOK(y, Idle)
  BY IdleOK
<1>3. World(k, file, ofile, cdir, call, hung)
  BY DEF Inv
<1> QED
  BY <1>1, <1>2, <1>3, Settled

LEMMA GetcwdUpStep ==
  ASSUME Inv, GetcwdUp
  PROVE  World(k', file', ofile', cdir', call', hung')
<1>1. /\ call.pc = "dotdot" /\ file' = file /\ ofile' = ofile /\ cdir' = cdir
  BY DEF GetcwdUp, OpenFiles
<1>2. PICK n : n = k.core[call.ip].ino
  OBVIOUS
<1>3. PICK up : up = Find(k, n, "..")
  OBVIOUS
<1>4. \/ up = 0 /\ k' = Iput(k, call.ip) /\ call' = Idle /\ hung' = hung
      \/ up # 0 /\ Reach(k, call, k.dir[n][up].ino)
  BY <1>2, <1>3 DEF GetcwdUp
<1>5. /\ Ready(call) /\ call.op = "getcwd" /\ call.ip # 0
      /\ k.core[call.ip].ino # 0
  BY <1>1 DEF Inv, World, CallOK, Placed, Present
<1>6. call.ip \in Slot /\ Sound(k) /\ call.dp = 0 /\ call.pd = 0
  BY <1>1, <1>5, CallFacts, ReadyHolds
<1>7. n \in Ino
  BY <1>2, <1>5, <1>6, TablesTypes DEF CoreInodes
<1>8. CASE up = 0 /\ k' = Iput(k, call.ip) /\ call' = Idle /\ hung' = hung
  <2>1. /\ Sound(k') /\ Calm(k, k') /\ ~Lck(k', call.ip)
        /\ \A t \in Slot : Net(k', t) = Net(k, t) - Bit(call.ip = t)
    BY <1>6, <1>8, IputDrops, DropsNet
  <2>2. ASSUME NEW t \in Slot PROVE HeldBy(call, t) = Bit(call.ip = t)
    <3>1. HeldBy(call, t) = Bit(call.dp = t) + Bit(call.pd = t) + Bit(call.ip = t)
      BY HeldBits
    <3> QED
      BY <1>6, <3>1, SlotNat DEF Bit
  <2>3. \A t \in Slot : t \in LockedBy(call) => ~Lck(k', t)
    BY <1>6, <2>1, SlotNat DEF LockedBy
  <2>4. World(k', file, ofile, cdir, Idle, hung)
    BY <1>1, <2>1, <2>2, <2>3, Ended
  <2> QED
    BY <1>1, <1>8, <2>4
<1>9. CASE up # 0 /\ Reach(k, call, k.dir[n][up].ino)
  <2>1. k.dir[n][up].ino \in Ino \cup {0}
    BY <1>3, <1>6, <1>7, <1>9, FindType
  <2>2. Asks(k, file, ofile, cdir, call, hung)
    BY <1>5 DEF Inv, World, Asks
  <2> QED
    BY <1>1, <1>9, <2>1, <2>2, AfterReach
<1> QED
  BY <1>4, <1>8, <1>9

LEMMA GetcwdSearchStep ==
  ASSUME Inv, GetcwdSearch
  PROVE  World(k', file', ofile', cdir', call', hung')
<1> DEFINE hits == {i \in DOMAIN k.dir[Dir] :
                    k.dir[Dir][i].ino = k.core[call.ip].ino}
<1>1. /\ call.pc = "search" /\ file' = file /\ ofile' = ofile /\ cdir' = cdir
  BY DEF GetcwdSearch, OpenFiles
<1>2. PICK y : y = Iput(Iput(k, call.ip), call.dp)
  OBVIOUS
<1>3. PICK q : q = <<k.dir[Dir][Min(hits)].name>> \o call.found
  OBVIOUS
<1>4. PICK d : d = [call EXCEPT !.ip = 0, !.dp = 0, !.found = q]
  OBVIOUS
<1>5. \/ k' = y /\ call' = Idle /\ hung' = hung
      \/ hits # {} /\ Reach(y, d, Dir)
  BY <1>2, <1>3, <1>4 DEF GetcwdSearch
<1>6. PICK e : e = [call EXCEPT !.dp = 0]
  OBVIOUS
<1>7. /\ Ready(e) /\ call.op = "getcwd" /\ call.ip # 0
      /\ call.dp # 0 /\ k.core[call.dp].ino # 0
  BY <1>1, <1>6 DEF Inv, World, CallOK, Placed, Present, Fetched
<1>8. /\ call.ip \in Slot /\ call.dp \in Slot /\ Sound(k) /\ call \in CallRecords
      /\ hung[call.p] = Idle /\ cdir[call.p] # 0 /\ call # Idle
  BY <1>1, <1>7, CallFacts, SlotNat
<1>9. /\ e.op = call.op /\ e.step = call.step /\ e.old = call.old
      /\ e.new = call.new /\ e.flag = call.flag /\ e.ip = call.ip /\ e.pd = call.pd
      /\ e.first = call.first /\ e.rest = call.rest
  BY <1>6, <1>8, DpCleared
<1>10. call.pd = 0 /\ call.flag = 0
  BY <1>7, <1>9, ReadyHolds
<1>11. Dir \in Ino
  BY <1>7, <1>8, TablesTypes DEF CoreInodes, Dir
<1>12. /\ Sound(y) /\ Calm(k, y) /\ ~Lck(y, call.ip) /\ ~Lck(y, call.dp)
       /\ \A t \in Slot : Net(y, t) = Net(k, t) - Bit(call.ip = t) - Bit(call.dp = t)
  BY <1>2, <1>8, DropTwo
<1>13. ASSUME NEW t \in Slot PROVE Net(y, t) = Net(k, t) - HeldBy(call, t)
  <2>1. HeldBy(call, t) = Bit(call.dp = t) + Bit(call.pd = t) + Bit(call.ip = t)
    BY HeldBits
  <2>2. Bit(call.pd = t) = 0 /\ Net(k, t) \in Int /\ Bit(call.dp = t) \in {0, 1}
        /\ Bit(call.ip = t) \in {0, 1}
    BY <1>8, <1>10, SlotNat, NetInt, BitNat DEF Bit
  <2> QED
    BY <1>12, <2>1, <2>2
<1>14. \A t \in Slot : t \in LockedBy(call) => ~Lck(y, t)
  BY <1>10, <1>12, SlotNat DEF LockedBy
<1>15. CASE k' = y /\ call' = Idle /\ hung' = hung
  <2>1. World(y, file, ofile, cdir, Idle, hung)
    BY <1>1, <1>12, <1>13, <1>14, Ended
  <2> QED
    BY <1>1, <1>15, <2>1
<1>16. CASE hits # {} /\ Reach(y, d, Dir)
  <2>1. q \in Seq(EntryName)
    <3>1. PICK r : r = k.dir[Dir]
      OBVIOUS
    <3>2. r \in Seq(Entries)
      BY <1>8, <1>11, <3>1, TablesTypes
    <3>3. hits \in SUBSET Nat /\ hits \in SUBSET DOMAIN r
      BY <3>1, <3>2
    <3>4. PICK i : i = Min(hits)
      OBVIOUS
    <3> HIDE DEF hits
    <3>5. i \in DOMAIN r
      BY <1>16, <3>3, <3>4, MinNat
    <3>6. r[i] \in Entries
      BY <3>2, <3>5
    <3>7. PICK m : m = r[i].name
      OBVIOUS
    <3>8. m \in EntryName
      BY <3>6, <3>7 DEF Entries
    <3>9. <<m>> \in Seq(EntryName)
      BY <3>8
    <3>10. call.found \in Seq(EntryName)
      BY <1>8 DEF CallRecords
    <3>11. q = <<m>> \o call.found
      BY <1>3, <3>1, <3>4, <3>7
    <3> QED
      BY <3>9, <3>10, <3>11, ConcatProperties
  <2>2. d \in CallRecords
    <3>1. call \in CallRecords
      BY <1>8
    <3> QED
      BY <1>4, <2>1, <3>1 DEF CallRecords
  <2>3. d.dp = 0 /\ d.ip = 0 /\ d.pd = call.pd /\ d.p = call.p /\ d.flag = call.flag
        /\ d.op = call.op
    BY <1>4, <1>8, <2>1 DEF CallRecords
  <2>4. Ready(d)
    BY <1>7, <1>10, <2>2, <2>3 DEF Ready, TwoPath, Calls
  <2>5. ASSUME NEW t \in Slot
        PROVE  Net(y, t) = Net(k, t) - HeldBy(call, t) + HeldBy(d, t)
    <3>1. HeldBy(d, t) = Bit(d.dp = t) + Bit(d.pd = t) + Bit(d.ip = t)
      BY HeldBits
    <3>2. HeldBy(d, t) = 0
      BY <1>10, <2>3, <3>1, SlotNat DEF Bit
    <3>3. Net(k, t) \in Int /\ HeldBy(call, t) \in Nat
      BY <1>8, NetInt, HeldNat
    <3> QED
      BY <1>13, <3>2, <3>3
  <2>6. Asks(y, file, ofile, cdir, d, hung)
    BY <1>8, <1>12, <1>14, <2>3, <2>4, <2>5, AskSettled DEF Inv
  <2> QED
    BY <1>1, <1>11, <1>16, <2>6, AfterReach
<1> QED
  BY <1>5, <1>15, <1>16

-----------------------------------------------------------------------------
(* The end of namei, and what the calls do then.                           *)
LEMMA DoneFacts ==
  ASSUME Inv, call.pc = "done"
  PROVE  /\ call.op \in Calls /\ call.op # "getcwd" /\ call.flag = FlagFor(call)
         /\ call.op = "rename" => call.step \in 1..4 /\ call.old \in Paths
         /\ call.op \in TwoPath => call.new \in Paths
         /\ call.ip # 0 => Doing(call) = "link"
         /\ call.flag = 0 => call.dp # 0 /\ call.pd = 0
         /\ call.flag = 1 => (call.dp = 0 \/ call.pd = 0)
                  /\ (call.dp # 0 \/ call.pd # 0 \/ Doing(call) = "link")
         /\ call.flag = 2 => call.dp # 0 /\ call.pd # 0
         /\ call.dp # 0 => k.core[call.dp].ino # 0
<1>1. call \in CallRecords /\ Placed(call) /\ Present(k, call)
  BY DEF Inv, World, CallOK
<1>2. PICK f : f = [call EXCEPT !.dp = 0, !.pd = 0, !.first = TRUE]
  OBVIOUS
<1>3. Ready(f) /\ call.op # "getcwd"
  BY <1>1, <1>2 DEF Placed
<1>4. /\ f.op = call.op /\ f.step = call.step /\ f.old = call.old
      /\ f.new = call.new /\ f.flag = call.flag /\ f.ip = call.ip
  BY <1>1, <1>2, Stripped
<1>5. Doing(f) = Doing(call)
  BY <1>4 DEF Doing
<1>6. FlagFor(f) = FlagFor(call)
  BY <1>4, <1>5 DEF FlagFor
<1>7. /\ call.op \in Calls /\ call.flag = FlagFor(call)
      /\ call.op = "rename" => call.step \in 1..4 /\ call.old \in Paths
      /\ call.op \in TwoPath => call.new \in Paths
      /\ call.ip # 0 => Doing(call) = "link"
  BY <1>3, <1>4, <1>5, <1>6 DEF Ready
<1>8. /\ call.flag = 0 => call.dp # 0 /\ call.pd = 0
      /\ call.flag = 1 => (call.dp = 0 \/ call.pd = 0)
                  /\ (call.dp # 0 \/ call.pd # 0 \/ Doing(call) = "link")
      /\ call.flag = 2 => call.dp # 0 /\ call.pd # 0
  BY <1>1 DEF Placed
<1>9. call.dp # 0 => k.core[call.dp].ino # 0
  BY <1>1 DEF Present
<1> QED
  BY <1>3, <1>7, <1>8, <1>9

(* Which inodes a call of each kind has then.                              *)
LEMMA DoneHas ==
  ASSUME Inv, NEW op, Done(op)
  PROVE  /\ op \in {"open", "chdir", "chmod", "exec"} =>
              call.dp \in Slot /\ call.pd = 0 /\ call.ip = 0
         /\ op \in {"creat", "mknod", "mkdir"} =>
              \/ call.dp \in Slot /\ call.pd = 0 /\ call.ip = 0
              \/ call.dp = 0 /\ call.pd \in Slot /\ call.ip = 0
         /\ op \in {"unlink", "rmdir"} =>
              call.dp \in Slot /\ call.pd \in Slot /\ call.ip = 0
         /\ op = "link" /\ call.ip = 0 => call.dp \in Slot /\ call.pd = 0
         /\ op = "link" /\ call.ip # 0 => call.ip \in Slot
         /\ op = "link" => call.dp = 0 \/ call.pd = 0
         /\ call.pc # "idle" /\ call.op # "getcwd"
<1>1. call.pc = "done" /\ Doing(call) = op
  BY DEF Done
<1>2. /\ call.dp \in Slot \cup {0} /\ call.pd \in Slot \cup {0}
      /\ call.ip \in Slot \cup {0}
  BY <1>1, CallFacts
<1>3. /\ call.flag = FlagFor(call) /\ call.op # "getcwd"
      /\ call.ip # 0 => Doing(call) = "link"
      /\ call.flag = 0 => call.dp # 0 /\ call.pd = 0
      /\ call.flag = 1 => (call.dp = 0 \/ call.pd = 0)
                  /\ (call.dp # 0 \/ call.pd # 0 \/ Doing(call) = "link")
      /\ call.flag = 2 => call.dp # 0 /\ call.pd # 0
  BY <1>1, DoneFacts
<1>4. /\ op \in {"open", "chdir", "chmod", "exec"} => call.flag = 0
      /\ op \in {"creat", "mknod", "mkdir"} => call.flag = 1
      /\ op \in {"unlink", "rmdir"} => call.flag = 2
      /\ op = "link" => call.flag = (IF call.ip = 0 THEN 0 ELSE 1)
  BY <1>1, <1>3 DEF FlagFor, FlagOf
<1>5. op \in {"open", "chdir", "chmod", "exec"} =>
              call.dp \in Slot /\ call.pd = 0 /\ call.ip = 0
  BY <1>1, <1>2, <1>3, <1>4
<1>6. op \in {"creat", "mknod", "mkdir"} =>
              \/ call.dp \in Slot /\ call.pd = 0 /\ call.ip = 0
              \/ call.dp = 0 /\ call.pd \in Slot /\ call.ip = 0
  BY <1>1, <1>2, <1>3, <1>4
<1>7. op \in {"unlink", "rmdir"} =>
              call.dp \in Slot /\ call.pd \in Slot /\ call.ip = 0
  BY <1>1, <1>2, <1>3, <1>4
<1>8. /\ op = "link" /\ call.ip = 0 => call.dp \in Slot /\ call.pd = 0
      /\ op = "link" /\ call.ip # 0 => call.ip \in Slot
      /\ op = "link" => call.dp = 0 \/ call.pd = 0
  BY <1>1, <1>2, <1>3, <1>4
<1>9. call.pc # "idle" /\ call.op # "getcwd"
  BY <1>1, <1>3
<1> QED
  BY <1>5, <1>6, <1>7, <1>8, <1>9

(* A call releases all that it holds, and ends or looks up a path again.   *)
LEMMA Goes ==
  ASSUME Inv, call.pc # "idle", NEW y, Sound(y), Calm(k, y), NEW d, CallOK(y, d),
         d = Idle \/ d.p = call.p, \A t \in Slot : HeldBy(d, t) = 0,
         \A t \in Slot : Net(y, t) = Net(k, t) - HeldBy(call, t),
         \A t \in Slot : t \in LockedBy(call) => ~Lck(y, t)
  PROVE  World(y, file, ofile, cdir, d, hung)
<1>1. ASSUME NEW t \in Slot
      PROVE  Net(y, t) = Net(k, t) - HeldBy(call, t) + HeldBy(d, t)
  <2>1. HeldBy(d, t) = 0 /\ HeldBy(call, t) \in Nat
    BY HeldNat
  <2>2. Sound(k)
    BY DEF Inv, World
  <2>3. Net(k, t) \in Int
    BY <2>2, NetInt
  <2> QED
    BY <2>1, <2>3
<1>2. World(k, file, ofile, cdir, call, hung) /\ call # Idle
  BY CallFacts DEF Inv
<1> QED
  BY <1>1, <1>2, Settled

LEMMA AfterOK ==
  ASSUME Inv, call.pc = "done", NEW ok, NEW eexist
  PROVE  LET d == After(call, ok, eexist)
         IN /\ \A y : CallOK(y, d)
            /\ d = Idle \/ d.p = call.p
            /\ \A t \in Slot : HeldBy(d, t) = 0
<1> DEFINE d == After(call, ok, eexist)
<1>1. /\ call \in CallRecords /\ call.p \in Proc /\ Sound(k)
      /\ cdir \in [Proc -> Slot \cup {0}] /\ cdir[call.p] # 0
  BY CallFacts, SlotNat DEF Inv, World
<1>2. CASE d = Idle
  BY <1>2, IdleOK, IdleHolds
<1>3. ASSUME NEW j \in {2, 3, 4}, NEW fl, NEW path,
             call.op = "rename",
             d = Namei([[call EXCEPT !.ip = 0] EXCEPT !.step = j], fl, path),
             \/ j = 3 /\ fl = 0 /\ path = call.old
             \/ j = 4 /\ fl = 2 /\ path = call.old
             \/ j = 2 /\ fl = 2 /\ path = call.new
      PROVE  /\ \A y : CallOK(y, d)
             /\ d = Idle \/ d.p = call.p
             /\ \A t \in Slot : HeldBy(d, t) = 0
  <2>1. PICK c : c = [[call EXCEPT !.ip = 0] EXCEPT !.step = j]
    OBVIOUS
  <2>2. d = Namei(c, fl, path)
    BY <1>3, <2>1
  <2> HIDE DEF d
  <2>3. c \in CallRecords
    <3>1. PICK b : b = [call EXCEPT !.ip = 0]
      OBVIOUS
    <3>2. call \in CallRecords
      BY <1>1
    <3>3. b \in CallRecords
      BY <3>1, <3>2 DEF CallRecords
    <3>4. c = [b EXCEPT !.step = j] /\ j \in Nat
      BY <2>1, <3>1
    <3> QED
      BY <3>3, <3>4 DEF CallRecords
  <2>4. /\ c.ip = 0 /\ c.step = j /\ c.op = call.op
        /\ c.old = call.old /\ c.new = call.new
    BY <1>1, <2>1 DEF CallRecords
  <2>5. c.p = call.p
    BY <1>1, <2>1 DEF CallRecords
  <2>6. call.old \in Paths /\ call.new \in Paths
    BY <1>3, DoneFacts DEF TwoPath
  <2>7. path \in Paths /\ fl \in 0..2
    BY <1>3, <2>6
  <2>8. Begin(c, path) \in Ino \cup {0}
    BY <1>1, <2>5, BeginType
  <2>9. fl = FlagFor(c)
    BY <1>3, <2>4 DEF FlagFor, Doing, FlagOf
  <2>10. c.op \in Calls /\ c.op # "getcwd" /\ c.step \in 1..4
    BY <1>3, <2>4 DEF Calls, TwoPath
  <2>11. d.dp = 0 /\ d.pd = 0 /\ d.ip = 0 /\ d.p = call.p /\ \A y : CallOK(y, d)
    BY <2>2, <2>3, <2>4, <2>5, <2>6, <2>7, <2>8, <2>9, <2>10, NameiReady
  <2>12. ASSUME NEW t \in Slot PROVE HeldBy(d, t) = 0
    <3>1. HeldBy(d, t) = Bit(d.dp = t) + Bit(d.pd = t) + Bit(d.ip = t)
      BY HeldBits
    <3> QED
      BY <2>11, <3>1, SlotNat DEF Bit
  <2> QED
    BY <2>11, <2>12
<1>4. \/ d = Idle
      \/ /\ call.op = "rename"
         /\ \/ d = Namei([[call EXCEPT !.ip = 0] EXCEPT !.step = 3], 0, call.old)
            \/ d = Namei([[call EXCEPT !.ip = 0] EXCEPT !.step = 4], 2, call.old)
            \/ d = Namei([[call EXCEPT !.ip = 0] EXCEPT !.step = 2], 2, call.new)
  BY DEF After
<1> QED
  BY <1>2, <1>3, <1>4

(* Changes of links, flags of a change and of the history of lost links.   *)
LEMMA LinksEdit ==
  ASSUME NEW x, Sound(x), NEW s \in Slot, NEW l \in Int,
         NEW Z \in SUBSET (Ino \cup {0})
  PROVE  /\ Edits(x, [x EXCEPT !.core[s].nlink = l])
         /\ Edits(x, [x EXCEPT !.core[s].nlink = l, !.core[s].upd = TRUE])
         /\ Edits(x, [x EXCEPT !.core[s].nlink = l, !.short = Z])
         /\ Edits(x, [x EXCEPT !.core[s].nlink = l, !.core[s].upd = TRUE,
                               !.short = Z])
<1> DEFINE c == [x.core[s] EXCEPT !.nlink = l]
           d == [x.core[s] EXCEPT !.nlink = l, !.upd = TRUE]
<1>1. x.core[s] \in CoreInodes
  BY TablesTypes
<1>2. /\ c \in CoreInodes /\ c.ino = x.core[s].ino /\ c.count = x.core[s].count
      /\ c.lock = x.core[s].lock /\ c.want = x.core[s].want
  BY <1>1 DEF CoreInodes
<1>3. /\ d \in CoreInodes /\ d.ino = x.core[s].ino /\ d.count = x.core[s].count
      /\ d.lock = x.core[s].lock /\ d.want = x.core[s].want
  BY <1>1 DEF CoreInodes
<1>4. x.dir \in [Ino -> Seq(Entries)] /\ x.short \in SUBSET (Ino \cup {0})
  BY TablesTypes
<1>5. [x EXCEPT !.core[s].nlink = l] = Put(x, s, c, x.dir, x.short)
  BY DEF Put, Sound, InodeTables
<1>6. [x EXCEPT !.core[s].nlink = l, !.core[s].upd = TRUE]
        = Put(x, s, d, x.dir, x.short)
  BY DEF Put, Sound, InodeTables
<1>7. [x EXCEPT !.core[s].nlink = l, !.short = Z] = Put(x, s, c, x.dir, Z)
  BY DEF Put, Sound, InodeTables
<1>8. [x EXCEPT !.core[s].nlink = l, !.core[s].upd = TRUE, !.short = Z]
        = Put(x, s, d, x.dir, Z)
  BY DEF Put, Sound, InodeTables
<1> HIDE DEF c, d
<1>9. Edits(x, Put(x, s, c, x.dir, x.short)) /\ Edits(x, Put(x, s, c, x.dir, Z))
  BY <1>2, <1>4, PutEdits
<1>10. Edits(x, Put(x, s, d, x.dir, x.short)) /\ Edits(x, Put(x, s, d, x.dir, Z))
  BY <1>3, <1>4, PutEdits
<1> QED
  BY <1>5, <1>6, <1>7, <1>8, <1>9, <1>10

LEMMA TouchEdits ==
  ASSUME NEW x, Sound(x), NEW s \in Slot, NEW u \in BOOLEAN, NEW a \in BOOLEAN
  PROVE  Edits(x, [x EXCEPT !.core[s].upd = @ \/ u, !.core[s].acc = @ \/ a])
<1> DEFINE c == [x.core[s] EXCEPT !.upd = @ \/ u, !.acc = @ \/ a]
           y == [x EXCEPT !.core[s].upd = @ \/ u, !.core[s].acc = @ \/ a]
<1>1. x.core[s] \in CoreInodes
  BY TablesTypes
<1>2. /\ c \in CoreInodes /\ c.ino = x.core[s].ino /\ c.count = x.core[s].count
      /\ c.lock = x.core[s].lock /\ c.want = x.core[s].want
  BY <1>1 DEF CoreInodes
<1>3. y = Put(x, s, c, x.dir, x.short)
  BY DEF Put, Sound, InodeTables
<1>4. x.dir \in [Ino -> Seq(Entries)] /\ x.short \in SUBSET (Ino \cup {0})
  BY TablesTypes
<1> HIDE DEF c, y
<1>5. Edits(x, y)
  BY <1>2, <1>3, <1>4, PutEdits
<1> QED
  BY <1>5 DEF y

LEMMA OneHeld ==
  ASSUME NEW c, NEW s \in Slot, c.ip = 0, c.op # "getcwd",
         (c.dp = s /\ c.pd = 0) \/ (c.dp = 0 /\ c.pd = s)
  PROVE  \A t \in Slot : /\ HeldBy(c, t) = Bit(s = t)
                         /\ t \in LockedBy(c) => t = s
<1> SUFFICES ASSUME NEW t \in Slot
             PROVE  HeldBy(c, t) = Bit(s = t) /\ (t \in LockedBy(c) => t = s)
  OBVIOUS
<1>1. HeldBy(c, t) = Bit(c.dp = t) + Bit(c.pd = t) + Bit(c.ip = t)
  BY HeldBits
<1>2. HeldBy(c, t) = Bit(s = t)
  BY <1>1, SlotNat DEF Bit
<1>3. t \in LockedBy(c) => t = s
  BY SlotNat DEF LockedBy
<1> QED
  BY <1>2, <1>3

LEMMA TwoHeld ==
  ASSUME NEW c, NEW s \in Slot, NEW u \in Slot, c.ip = 0, c.op # "getcwd",
         c.dp = s, c.pd = u
  PROVE  \A t \in Slot : /\ HeldBy(c, t) = Bit(s = t) + Bit(u = t)
                         /\ t \in LockedBy(c) => t = s \/ t = u
<1> SUFFICES ASSUME NEW t \in Slot
             PROVE  /\ HeldBy(c, t) = Bit(s = t) + Bit(u = t)
                    /\ t \in LockedBy(c) => t = s \/ t = u
  OBVIOUS
<1>1. HeldBy(c, t) = Bit(c.dp = t) + Bit(c.pd = t) + Bit(c.ip = t)
  BY HeldBits
<1>2. HeldBy(c, t) = Bit(s = t) + Bit(u = t)
  BY <1>1, SlotNat DEF Bit
<1>3. t \in LockedBy(c) => t = s \/ t = u
  BY SlotNat DEF LockedBy
<1> QED
  BY <1>2, <1>3

(* A call that holds one inode releases it, with changes made before.      *)
LEMMA EndOne ==
  ASSUME Inv, call.pc # "idle", NEW s \in Slot, call.ip = 0, call.op # "getcwd",
         (call.dp = s /\ call.pd = 0) \/ (call.dp = 0 /\ call.pd = s),
         NEW x, Keeps(k, x), NEW d, \A y : CallOK(y, d),
         d = Idle \/ d.p = call.p, \A t \in Slot : HeldBy(d, t) = 0
  PROVE  World(Iput(x, s), file, ofile, cdir, d, hung)
<1>1. Sound(k)
  BY DEF Inv, World
<1>2. Sound(x) /\ Calm(k, x) /\ \A t \in Slot : Net(x, t) = Net(k, t)
  BY <1>1, KeepsNet
<1>3. PICK y : y = Iput(x, s)
  OBVIOUS
<1>4. /\ Sound(y) /\ Calm(x, y) /\ ~Lck(y, s)
      /\ \A t \in Slot : Net(y, t) = Net(x, t) - Bit(s = t)
  BY <1>2, <1>3, IputDrops, DropsNet
<1>5. Calm(k, y)
  BY <1>2, <1>4, CalmTrans
<1>6. \A t \in Slot : HeldBy(call, t) = Bit(s = t) /\ (t \in LockedBy(call) => t = s)
  BY OneHeld
<1>7. \A t \in Slot : Net(y, t) = Net(k, t) - HeldBy(call, t)
  BY <1>2, <1>4, <1>6
<1>8. \A t \in Slot : t \in LockedBy(call) => ~Lck(y, t)
  BY <1>4, <1>6
<1>9. World(y, file, ofile, cdir, d, hung)
  BY <1>4, <1>5, <1>7, <1>8, Goes
<1> QED
  BY <1>3, <1>9

(* A call that holds two inodes releases both; changes are made before,    *)
(* between and after the one is unlocked or released.                      *)
LEMMA EndTwo ==
  ASSUME Inv, call.pc # "idle", NEW s \in Slot, NEW u \in Slot, call.ip = 0,
         call.op # "getcwd", call.dp \in Slot, call.pd \in Slot,
         {s, u} = {call.dp, call.pd}, s = u => call.dp = call.pd,
         NEW x, Keeps(k, x), NEW z, Keeps(Iput(x, s), z),
         NEW d, \A y : CallOK(y, d),
         d = Idle \/ d.p = call.p, \A t \in Slot : HeldBy(d, t) = 0
  PROVE  World(Iput(z, u), file, ofile, cdir, d, hung)
<1>1. Sound(k)
  BY DEF Inv, World
<1>2. Sound(x) /\ Calm(k, x) /\ \A t \in Slot : Net(x, t) = Net(k, t)
  BY <1>1, KeepsNet
<1>3. PICK w : w = Iput(x, s)
  OBVIOUS
<1>4. /\ Sound(w) /\ Calm(x, w) /\ ~Lck(w, s)
      /\ \A t \in Slot : Net(w, t) = Net(x, t) - Bit(s = t)
  BY <1>2, <1>3, IputDrops, DropsNet
<1>5. Sound(z) /\ Calm(w, z) /\ \A t \in Slot : Net(z, t) = Net(w, t)
  BY <1>3, <1>4, KeepsNet
<1>6. PICK y : y = Iput(z, u)
  OBVIOUS
<1>7. /\ Sound(y) /\ Calm(z, y) /\ ~Lck(y, u)
      /\ \A t \in Slot : Net(y, t) = Net(z, t) - Bit(u = t)
  BY <1>5, <1>6, IputDrops, DropsNet
<1>8. Calm(w, y)
  BY <1>5, <1>7, CalmTrans
<1>9. Calm(k, w)
  BY <1>2, <1>4, CalmTrans
<1>10. Calm(k, y) /\ ~Lck(y, s)
  BY <1>4, <1>8, <1>9, CalmTrans
<1>11. \A t \in Slot : /\ HeldBy(call, t) = Bit(call.dp = t) + Bit(call.pd = t)
                       /\ t \in LockedBy(call) => t = call.dp \/ t = call.pd
  BY TwoHeld
<1>12. ASSUME NEW t \in Slot PROVE Net(y, t) = Net(k, t) - HeldBy(call, t)
  <2>1. /\ Bit(s = t) \in {0, 1} /\ Bit(u = t) \in {0, 1}
        /\ Bit(call.dp = t) \in {0, 1} /\ Bit(call.pd = t) \in {0, 1}
    BY BitNat
  <2>2. Bit(call.dp = t) + Bit(call.pd = t) = Bit(s = t) + Bit(u = t)
    <3>1. (s = call.dp /\ u = call.pd) \/ (s = call.pd /\ u = call.dp)
      OBVIOUS
    <3> QED
      BY <2>1, <3>1
  <2>3. Net(k, t) \in Int
    BY <1>1, NetInt
  <2>4. Net(y, t) = Net(k, t) - Bit(s = t) - Bit(u = t)
    BY <1>2, <1>4, <1>5, <1>7
  <2> QED
    BY <1>11, <2>1, <2>2, <2>3, <2>4
<1>13. \A t \in Slot : t \in LockedBy(call) => ~Lck(y, t)
  BY <1>7, <1>10, <1>11
<1>14. World(y, file, ofile, cdir, d, hung)
  BY <1>7, <1>10, <1>12, <1>13, Goes
<1> QED
  BY <1>6, <1>14

LEMMA KeepsSelf ==
  ASSUME NEW x, Sound(x)
  PROVE  Keeps(x, x)
BY DEF Keeps, Slack, Same

(* The calls on one inode.                                                 *)
LEMMA TouchStep ==
  ASSUME Inv, NEW u \in BOOLEAN, NEW a \in BOOLEAN, Touch(u, a)
  PROVE  World(k', file', ofile', cdir', call', hung')
<1>1. PICK x : x = [k EXCEPT !.core[call.dp].upd = @ \/ u,
                             !.core[call.dp].acc = @ \/ a]
  OBVIOUS
<1>2. /\ Done("chmod") /\ k' = Iput(x, call.dp) /\ call' = Idle /\ hung' = hung
      /\ file' = file /\ ofile' = ofile /\ cdir' = cdir
  BY <1>1 DEF Touch, OpenFiles
<1>3. /\ call.dp \in Slot /\ call.pd = 0 /\ call.ip = 0 /\ call.pc # "idle"
      /\ call.op # "getcwd" /\ Sound(k)
  BY <1>2, DoneHas DEF Inv, World
<1>4. Edits(k, x)
  BY <1>1, <1>3, TouchEdits
<1>5. Keeps(k, x)
  BY <1>3, <1>4, EditsKeep
<1>6. World(Iput(x, call.dp), file, ofile, cdir, Idle, hung)
  BY <1>3, <1>5, EndOne, IdleOK, IdleHolds
<1> QED
  BY <1>2, <1>6

LEMMA ExecFailsStep ==
  ASSUME Inv, ExecFails
  PROVE  World(k', file', ofile', cdir', call', hung')
<1>1. /\ Done("exec") /\ k' = Iput(k, call.dp) /\ call' = Idle /\ hung' = hung
      /\ file' = file /\ ofile' = ofile /\ cdir' = cdir
  BY DEF ExecFails, OpenFiles
<1>2. /\ call.dp \in Slot /\ call.pd = 0 /\ call.ip = 0 /\ call.pc # "idle"
      /\ call.op # "getcwd" /\ Sound(k)
  BY <1>1, DoneHas DEF Inv, World
<1>3. Keeps(k, k)
  BY <1>2, KeepsSelf
<1>4. World(Iput(k, call.dp), file, ofile, cdir, Idle, hung)
  BY <1>2, <1>3, EndOne, IdleOK, IdleHolds
<1> QED
  BY <1>1, <1>4

LEMMA LoadFacts ==
  ASSUME Inv, call.pc = "load"
  PROVE  /\ call.dp \in Slot /\ call.pd = 0 /\ call.ip = 0 /\ call.op = "exec"
         /\ Sound(k)
<1>1. call.op = "exec" /\ call.dp # 0 /\ call.pd = 0 /\ call.ip = 0
  BY DEF Inv, World, CallOK, Placed
<1> QED
  BY <1>1, CallFacts

LEMMA ExecEndStep ==
  ASSUME Inv, ExecEnd
  PROVE  World(k', file', ofile', cdir', call', hung')
<1>1. /\ call.pc = "load" /\ k' = Iput(k, call.dp) /\ call' = Idle /\ hung' = hung
      /\ file' = file /\ ofile' = ofile /\ cdir' = cdir
  BY DEF ExecEnd, OpenFiles
<1>2. /\ call.dp \in Slot /\ call.pd = 0 /\ call.ip = 0 /\ call.pc # "idle"
      /\ call.op # "getcwd" /\ Sound(k)
  BY <1>1, LoadFacts
<1>3. Keeps(k, k)
  BY <1>2, KeepsSelf
<1>4. World(Iput(k, call.dp), file, ofile, cdir, Idle, hung)
  BY <1>2, <1>3, EndOne, IdleOK, IdleHolds
<1> QED
  BY <1>1, <1>4

LEMMA LinkDeniedStep ==
  ASSUME Inv, LinkDenied
  PROVE  World(k', file', ofile', cdir', call', hung')
<1>1. PICK l : l = k.core[call.dp].nlink - 1
  OBVIOUS
<1>2. PICK Z : Z = k.short \cup {Dir}
  OBVIOUS
<1>3. PICK x : x = [k EXCEPT !.core[call.dp].nlink = l, !.short = Z]
  OBVIOUS
<1>4. PICK d : d = After(call, FALSE, FALSE)
  OBVIOUS
<1>5. /\ Done("link") /\ call.ip = 0 /\ k' = Iput(x, call.dp) /\ call' = d
      /\ hung' = hung /\ file' = file /\ ofile' = ofile /\ cdir' = cdir
  BY <1>1, <1>2, <1>3, <1>4 DEF LinkDenied, OpenFiles
<1>6. /\ call.dp \in Slot /\ call.pd = 0 /\ call.pc = "done"
      /\ call.op # "getcwd" /\ Sound(k)
  BY <1>5, DoneHas DEF Inv, World, Done
<1>7. k.core[call.dp] \in CoreInodes /\ k.short \in SUBSET (Ino \cup {0})
  BY <1>6, TablesTypes
<1>8. l \in Int /\ Dir \in Ino \cup {0}
  BY <1>1, <1>7 DEF CoreInodes, Dir
<1>9. Z \in SUBSET (Ino \cup {0})
  BY <1>2, <1>7, <1>8
<1>10. Edits(k, x)
  BY <1>3, <1>6, <1>8, <1>9, LinksEdit
<1>11. Keeps(k, x)
  BY <1>6, <1>10, EditsKeep
<1>12. /\ \A y : CallOK(y, d)
       /\ d = Idle \/ d.p = call.p
       /\ \A t \in Slot : HeldBy(d, t) = 0
  BY <1>4, <1>6, AfterOK
<1>13. World(Iput(x, call.dp), file, ofile, cdir, d, hung)
  BY <1>5, <1>6, <1>11, <1>12, EndOne
<1> QED
  BY <1>5, <1>13

-----------------------------------------------------------------------------
(* unlink and rmdir.                                                       *)
LEMMA ReleaseBothOK ==
  ASSUME Inv, call.pc # "idle", call.dp \in Slot, call.pd \in Slot, call.ip = 0,
         call.op # "getcwd", NEW d, \A y : CallOK(y, d),
         d = Idle \/ d.p = call.p, \A t \in Slot : HeldBy(d, t) = 0
  PROVE  World(ReleaseBoth, file, ofile, cdir, d, hung)
<1>1. Sound(k)
  BY DEF Inv, World
<1>2. Keeps(k, k)
  BY <1>1, KeepsSelf
<1>3. PICK z : z = Iput(k, call.dp)
  OBVIOUS
<1>4. Sound(z)
  BY <1>1, <1>3, IputDrops DEF Drops
<1>5. Keeps(Iput(k, call.dp), z)
  BY <1>3, <1>4, KeepsSelf
<1>6. World(Iput(z, call.pd), file, ofile, cdir, d, hung)
  BY <1>2, <1>5, EndTwo
<1> QED
  BY <1>3, <1>6 DEF ReleaseBoth

LEMMA EmptyEntry == Empty \in Entries
BY DEF Empty, Entries, EntryName

LEMMA UnlinkStep ==
  ASSUME Inv, Unlink
  PROVE  World(k', file', ofile', cdir', call', hung')
<1>1. PICK x0 : x0 = Prele(k, call.dp)
  OBVIOUS
<1>2. PICK x : x = WriteEntry(x0, call.pd, call.off, Empty)
  OBVIOUS
<1>3. PICK w : w = Iput(x, call.pd)
  OBVIOUS
<1>4. PICK l : l = w.core[call.dp].nlink - 1
  OBVIOUS
<1>5. PICK z : z = [w EXCEPT !.core[call.dp].nlink = l, !.core[call.dp].upd = TRUE]
  OBVIOUS
<1>6. PICK d : d = After(call, ~Is("dir"), FALSE)
  OBVIOUS
<1>7. /\ Done("unlink") /\ call' = d /\ hung' = hung /\ file' = file
      /\ ofile' = ofile /\ cdir' = cdir
      /\ k' = ReleaseBoth \/ k' = Iput(z, call.dp)
  BY <1>1, <1>2, <1>3, <1>4, <1>5, <1>6 DEF Unlink, OpenFiles
<1>8. /\ call.dp \in Slot /\ call.pd \in Slot /\ call.ip = 0 /\ call.pc = "done"
      /\ call.op # "getcwd" /\ Sound(k)
  BY <1>7, DoneHas DEF Inv, World, Done
<1>9. /\ \A y : CallOK(y, d)
      /\ d = Idle \/ d.p = call.p
      /\ \A t \in Slot : HeldBy(d, t) = 0
  BY <1>6, <1>8, AfterOK
<1>10. Keeps(k, x0)
  BY <1>1, <1>8, PreleKeeps
<1>11. Sound(x0)
  BY <1>10 DEF Keeps
<1>12. Keeps(x0, x)
  BY <1>2, <1>8, <1>11, EmptyEntry, WriteEntryEdits, EditsKeep
<1>13. Keeps(k, x)
  BY <1>10, <1>12, KeepsTrans
<1>14. Sound(x)
  BY <1>12 DEF Keeps
<1>15. Sound(w)
  BY <1>3, <1>8, <1>14, IputDrops DEF Drops
<1>16. l \in Int
  BY <1>4, <1>8, <1>15, TablesTypes DEF CoreInodes
<1>17. Edits(w, z)
  BY <1>5, <1>8, <1>15, <1>16, LinksEdit
<1>18. Keeps(Iput(x, call.pd), z)
  BY <1>3, <1>15, <1>17, EditsKeep
<1>19. World(Iput(z, call.dp), file, ofile, cdir, d, hung)
  BY <1>8, <1>9, <1>13, <1>18, EndTwo
<1>20. World(ReleaseBoth, file, ofile, cdir, d, hung)
  BY <1>8, <1>9, ReleaseBothOK
<1> QED
  BY <1>7, <1>19, <1>20

LEMMA RmdirStep ==
  ASSUME Inv, Rmdir
  PROVE  World(k', file', ofile', cdir', call', hung')
<1>1. PICK x0 : x0 = WriteEntry(k, call.pd, call.off, Empty)
  OBVIOUS
<1>2. PICK l : l = x0.core[call.pd].nlink - 1
  OBVIOUS
<1>3. PICK x : x = [x0 EXCEPT !.core[call.pd].nlink = l]
  OBVIOUS
<1>4. PICK w : w = Iput(x, call.pd)
  OBVIOUS
<1>5. PICK v : v = Itrunc(w, call.dp)
  OBVIOUS
<1>6. PICK R : R = (IF NamesOf(x0, Dir) \ {<<Dir, i>> : i \in DOMAIN k.dir[Dir]} # {}
                    THEN {Dir} ELSE {})
  OBVIOUS
<1>7. PICK Q : Q = (IF {k.dir[Dir][i].ino : i \in {j \in DOMAIN k.dir[Dir] :
                                 k.dir[Dir][j].name = ".."}} = {Parent}
                    THEN {} ELSE {Parent})
  OBVIOUS
<1>8. PICK Z : Z = v.short \cup R \cup Q
  OBVIOUS
<1>9. PICK z : z = [v EXCEPT !.core[call.dp].nlink = 0, !.short = Z]
  OBVIOUS
<1>10. /\ Done("rmdir") /\ call' = Idle /\ hung' = hung /\ file' = file
       /\ ofile' = ofile /\ cdir' = cdir
       /\ k' = ReleaseBoth \/ k' = Iput(z, call.dp)
  BY <1>1, <1>2, <1>3, <1>4, <1>5, <1>6, <1>7, <1>8, <1>9 DEF Rmdir, OpenFiles
<1>11. /\ call.dp \in Slot /\ call.pd \in Slot /\ call.ip = 0 /\ call.pc # "idle"
       /\ call.op # "getcwd" /\ Sound(k)
  BY <1>10, DoneHas DEF Inv, World
<1>12. Keeps(k, x0)
  BY <1>1, <1>11, EmptyEntry, WriteEntryEdits, EditsKeep
<1>13. Sound(x0)
  BY <1>12 DEF Keeps
<1>14. l \in Int
  BY <1>2, <1>11, <1>13, TablesTypes DEF CoreInodes
<1>15. Edits(x0, x)
  BY <1>3, <1>11, <1>13, <1>14, LinksEdit
<1>16. Keeps(x0, x) /\ Sound(x)
  BY <1>13, <1>15, EditsKeep DEF Keeps
<1>17. Keeps(k, x)
  BY <1>12, <1>16, KeepsTrans
<1>18. Sound(w)
  BY <1>4, <1>11, <1>16, IputDrops DEF Drops
<1>19. Keeps(w, v) /\ Sound(v)
  BY <1>5, <1>11, <1>18, ItruncEdits, EditsKeep DEF Keeps
<1>20. Z \in SUBSET (Ino \cup {0})
  <2>1. Dir \in Ino \cup {0} /\ Parent \in Ino \cup {0}
    BY <1>11, TablesTypes DEF CoreInodes, Dir, Parent
  <2>2. v.short \in SUBSET (Ino \cup {0})
    BY <1>19, TablesTypes
  <2>3. R \in SUBSET (Ino \cup {0}) /\ Q \in SUBSET (Ino \cup {0})
    BY <1>6, <1>7, <2>1
  <2> QED
    BY <1>8, <2>2, <2>3
<1>21. Edits(v, z)
  <2>1. PICK o \in Int : o = 0
    OBVIOUS
  <2>2. z = [v EXCEPT !.core[call.dp].nlink = o, !.short = Z]
    BY <1>9, <2>1
  <2> QED
    BY <1>11, <1>19, <1>20, <2>2, LinksEdit
<1>22. Keeps(v, z)
  BY <1>19, <1>21, EditsKeep
<1>23. Keeps(Iput(x, call.pd), z)
  BY <1>4, <1>19, <1>22, KeepsTrans
<1>24. World(Iput(z, call.dp), file, ofile, cdir, Idle, hung)
  BY <1>11, <1>17, <1>23, EndTwo, IdleOK, IdleHolds
<1>25. World(ReleaseBoth, file, ofile, cdir, Idle, hung)
  BY <1>11, ReleaseBothOK, IdleOK, IdleHolds
<1> QED
  BY <1>10, <1>24, <1>25

(* As Settled, with changes of the files, descriptors and directories.     *)
LEMMA Shifted ==
  ASSUME NEW x, NEW fl, NEW of, NEW cd, NEW c, NEW h, NEW y, NEW d,
         NEW gl, NEW ug, NEW de,
         World(x, fl, of, cd, c, h), Sound(y), Calm(x, y), CallOK(y, d),
         FilesOK(gl, ug), de \in [Proc -> Slot \cup {0}], Callers(d, h, de, ug),
         \A t \in Slot : Net(y, t) = Net(x, t) - HeldBy(c, t) + HeldBy(d, t)
                                     - InDir(cd, t) + InDir(de, t)
                                     - InFile(fl, t) + InFile(gl, t),
         \A t \in Slot : t \in LockedBy(c) => ~Lck(y, t) \/ t \in LockedBy(d)
  PROVE  World(y, gl, ug, de, d, h)
<1>1. Balanced(y, d, h, gl, de)
  <2>1. ASSUME NEW t \in Slot
        PROVE  Net(y, t) = InDir(de, t) + InFile(gl, t) + HeldBy(d, t) + InHung(h, t)
    <3>1. Net(x, t) = InDir(cd, t) + InFile(fl, t) + HeldBy(c, t) + InHung(h, t)
      BY Netted DEF World
    <3>2. InDir(cd, t) \in Nat /\ InFile(fl, t) \in Nat /\ InHung(h, t) \in Nat
          /\ HeldBy(c, t) \in Nat /\ HeldBy(d, t) \in Nat
          /\ InDir(de, t) \in Nat /\ InFile(gl, t) \in Nat /\ Net(y, t) \in Int
      BY HoldersNat, HeldNat, NetInt
    <3> QED
      BY <3>1, <3>2
  <2> QED
    BY <2>1, Netted
<1>2. Locks(y, d, h)
  BY DEF World, Locks, Calm
<1>3. Jams(y, h)
  BY DEF World, Jams, Calm
<1> QED
  BY <1>1, <1>2, <1>3 DEF World

-----------------------------------------------------------------------------
(* link.                                                                   *)
LEMMA LinkFirstStep ==
  ASSUME Inv, LinkFirst
  PROVE  World(k', file', ofile', cdir', call', hung')
<1>1. PICK l : l = k.core[call.dp].nlink + 1
  OBVIOUS
<1>2. PICK x : x = [k EXCEPT !.core[call.dp].nlink = l, !.core[call.dp].upd = TRUE]
  OBVIOUS
<1>3. PICK c : c = [call EXCEPT !.ip = call.dp]
  OBVIOUS
<1>4. PICK d : d = Namei(c, 1, call.new)
  OBVIOUS
<1>5. /\ Done("link") /\ call.ip = 0 /\ call.dp # 0 /\ k' = Prele(x, call.dp)
      /\ call' = d
      /\ hung' = hung /\ file' = file /\ ofile' = ofile /\ cdir' = cdir
  BY <1>1, <1>2, <1>3, <1>4 DEF LinkFirst, OpenFiles
<1>6. /\ call.dp \in Slot /\ call.pd = 0 /\ call.pc = "done"
      /\ call.op # "getcwd" /\ Sound(k) /\ Doing(call) = "link"
  BY <1>5, DoneHas DEF Inv, World, Done
<1>7. /\ call \in CallRecords /\ call.p \in Proc /\ call # Idle
      /\ cdir \in [Proc -> Slot \cup {0}] /\ cdir[call.p] # 0
  BY <1>6, CallFacts, SlotNat DEF Inv, World
<1>8. /\ call.op \in Calls
      /\ call.op = "rename" => call.step \in 1..4 /\ call.old \in Paths
      /\ call.op \in TwoPath => call.new \in Paths
  BY <1>6, DoneFacts
<1>9. call.op \in TwoPath
  BY <1>6 DEF Doing, TwoPath
<1>10. l \in Int
  BY <1>1, <1>6, TablesTypes DEF CoreInodes
<1>11. Keeps(k, x) /\ Sound(x)
  BY <1>2, <1>6, <1>10, LinksEdit, EditsKeep DEF Keeps
<1>12. Keeps(x, k') /\ ~Lck(k', call.dp)
  BY <1>5, <1>6, <1>11, PreleKeeps
<1>13. Keeps(k, k')
  BY <1>11, <1>12, KeepsTrans
<1>14. Sound(k') /\ Calm(k, k') /\ \A t \in Slot : Net(k', t) = Net(k, t)
  BY <1>6, <1>13, KeepsNet
<1>15. c \in CallRecords
  BY <1>3, <1>6, <1>7 DEF CallRecords
<1>16. c.ip = call.dp /\ c.p = call.p /\ c.op = call.op /\ c.step = call.step
  BY <1>3, <1>7 DEF CallRecords
<1>17. c.old = call.old /\ c.new = call.new
  BY <1>3, <1>7 DEF CallRecords
<1>18. Doing(c) = "link"
  BY <1>6, <1>16 DEF Doing
<1>19. FlagFor(c) = 1
  BY <1>5, <1>16, <1>18 DEF FlagFor
<1>20. Begin(c, call.new) \in Ino \cup {0}
  BY <1>6, <1>7, <1>16, BeginType
<1>21. PICK g \in 0..2 : g = 1
  OBVIOUS
<1>22. /\ d.dp = 0 /\ d.pd = 0 /\ d.ip = call.dp /\ d.p = call.p
       /\ d.op = call.op /\ \A y : CallOK(y, d)
  <2>1. PICK path \in Paths : path = call.new
    BY <1>8, <1>9
  <2>2. /\ d = Namei(c, g, path) /\ g = FlagFor(c) /\ Begin(c, path) \in Ino \cup {0}
        /\ c.op \in Calls /\ c.op # "getcwd" /\ c.new \in Paths
        /\ c.op = "rename" => c.step \in 1..4 /\ c.old \in Paths
    BY <1>4, <1>6, <1>8, <1>9, <1>16, <1>17, <1>19, <1>20, <1>21, <2>1
  <2> QED
    BY <1>15, <1>16, <1>18, <2>2, NameiReady
<1>23. ASSUME NEW t \in Slot
       PROVE  Net(k', t) = Net(k, t) - HeldBy(call, t) + HeldBy(d, t)
  <2>1. HeldBy(d, t) = Bit(d.dp = t) + Bit(d.pd = t) + Bit(d.ip = t)
    BY HeldBits
  <2>2. HeldBy(call, t) = Bit(call.dp = t)
    BY <1>5, <1>6, OneHeld
  <2>3. Net(k, t) \in Int /\ Bit(call.dp = t) \in {0, 1}
    BY <1>6, NetInt, BitNat
  <2>4. HeldBy(d, t) = Bit(call.dp = t)
    BY <1>22, <2>1, <2>3, SlotNat DEF Bit
  <2> QED
    BY <1>14, <2>2, <2>3, <2>4
<1>24. \A t \in Slot : t \in LockedBy(call) => ~Lck(k', t)
  BY <1>5, <1>6, <1>12, OneHeld
<1>25. World(k', file, ofile, cdir, d, hung)
  BY <1>7, <1>14, <1>22, <1>23, <1>24, Settled DEF Inv
<1> QED
  BY <1>5, <1>25

(* A call that holds an inode and link's first one releases both.          *)
LEMMA EndPair ==
  ASSUME Inv, call.pc # "idle", NEW s \in Slot, NEW u \in Slot, call.ip = u,
         call.op # "getcwd",
         (call.dp = s /\ call.pd = 0) \/ (call.dp = 0 /\ call.pd = s),
         NEW x, Keeps(k, x), NEW z, Keeps(Iput(x, s), z),
         NEW d, \A y : CallOK(y, d),
         d = Idle \/ d.p = call.p, \A t \in Slot : HeldBy(d, t) = 0
  PROVE  World(Iput(z, u), file, ofile, cdir, d, hung)
<1>1. Sound(k)
  BY DEF Inv, World
<1>2. Sound(x) /\ Calm(k, x) /\ \A t \in Slot : Net(x, t) = Net(k, t)
  BY <1>1, KeepsNet
<1>3. PICK w : w = Iput(x, s)
  OBVIOUS
<1>4. /\ Sound(w) /\ Calm(x, w) /\ ~Lck(w, s)
      /\ \A t \in Slot : Net(w, t) = Net(x, t) - Bit(s = t)
  BY <1>2, <1>3, IputDrops, DropsNet
<1>5. Sound(z) /\ Calm(w, z) /\ \A t \in Slot : Net(z, t) = Net(w, t)
  BY <1>3, <1>4, KeepsNet
<1>6. PICK y : y = Iput(z, u)
  OBVIOUS
<1>7. /\ Sound(y) /\ Calm(z, y)
      /\ \A t \in Slot : Net(y, t) = Net(z, t) - Bit(u = t)
  BY <1>5, <1>6, IputDrops, DropsNet
<1>8. Calm(w, y)
  BY <1>5, <1>7, CalmTrans
<1>9. Calm(k, w)
  BY <1>2, <1>4, CalmTrans
<1>10. Calm(k, y) /\ ~Lck(y, s)
  BY <1>4, <1>8, <1>9, CalmTrans
<1>11. ASSUME NEW t \in Slot PROVE Net(y, t) = Net(k, t) - HeldBy(call, t)
  <2>1. HeldBy(call, t) = Bit(call.dp = t) + Bit(call.pd = t) + Bit(call.ip = t)
    BY HeldBits
  <2>2. Bit(s = t) \in {0, 1} /\ Bit(u = t) \in {0, 1} /\ Net(k, t) \in Int
    BY <1>1, BitNat, NetInt
  <2>3. Bit(call.dp = t) + Bit(call.pd = t) = Bit(s = t)
    BY SlotNat DEF Bit
  <2>4. HeldBy(call, t) = Bit(s = t) + Bit(u = t)
    BY <2>1, <2>2, <2>3
  <2> QED
    BY <1>2, <1>4, <1>5, <1>7, <2>2, <2>4
<1>12. \A t \in Slot : t \in LockedBy(call) => ~Lck(y, t)
  BY <1>10, SlotNat DEF LockedBy
<1>13. World(y, file, ofile, cdir, d, hung)
  BY <1>7, <1>10, <1>11, <1>12, Goes
<1> QED
  BY <1>6, <1>13

LEMMA EndLast ==
  ASSUME Inv, call.pc # "idle", NEW u \in Slot, call.ip = u, call.op # "getcwd",
         call.dp = 0, call.pd = 0, NEW z, Keeps(k, z),
         NEW d, \A y : CallOK(y, d),
         d = Idle \/ d.p = call.p, \A t \in Slot : HeldBy(d, t) = 0
  PROVE  World(Iput(z, u), file, ofile, cdir, d, hung)
<1>1. Sound(k)
  BY DEF Inv, World
<1>2. Sound(z) /\ Calm(k, z) /\ \A t \in Slot : Net(z, t) = Net(k, t)
  BY <1>1, KeepsNet
<1>3. PICK y : y = Iput(z, u)
  OBVIOUS
<1>4. /\ Sound(y) /\ Calm(z, y)
      /\ \A t \in Slot : Net(y, t) = Net(z, t) - Bit(u = t)
  BY <1>2, <1>3, IputDrops, DropsNet
<1>5. Calm(k, y)
  BY <1>2, <1>4, CalmTrans
<1>6. ASSUME NEW t \in Slot PROVE Net(y, t) = Net(k, t) - HeldBy(call, t)
  <2>1. HeldBy(call, t) = Bit(call.dp = t) + Bit(call.pd = t) + Bit(call.ip = t)
    BY HeldBits
  <2>2. Bit(call.dp = t) = 0 /\ Bit(call.pd = t) = 0 /\ Bit(u = t) \in {0, 1}
    BY SlotNat DEF Bit
  <2>3. HeldBy(call, t) = Bit(u = t)
    BY <2>1, <2>2
  <2> QED
    BY <1>2, <1>4, <2>3
<1>7. \A t \in Slot : t \in LockedBy(call) => ~Lck(y, t)
  BY SlotNat DEF LockedBy
<1>8. World(y, file, ofile, cdir, d, hung)
  BY <1>4, <1>5, <1>6, <1>7, Goes
<1> QED
  BY <1>3, <1>8

LEMMA LinkErrorStep ==
  ASSUME Inv, LinkError
  PROVE  World(k', file', ofile', cdir', call', hung')
<1>1. PICK w : w = IF call.dp # 0 THEN Iput(k, call.dp) ELSE k
  OBVIOUS
<1>2. PICK l : l = w.core[call.ip].nlink - 1
  OBVIOUS
<1>3. PICK z : z = [w EXCEPT !.core[call.ip].nlink = l]
  OBVIOUS
<1>4. PICK d : d = After(call, FALSE, call.dp # 0)
  OBVIOUS
<1>5. /\ Done("link") /\ call.ip # 0 /\ (NoName \/ call.dp # 0)
      /\ k' = Iput(z, call.ip) /\ call' = d
      /\ hung' = hung /\ file' = file /\ ofile' = ofile /\ cdir' = cdir
  BY <1>1, <1>2, <1>3, <1>4 DEF LinkError, OpenFiles
<1>6. /\ call.ip \in Slot /\ (call.dp = 0 \/ call.pd = 0) /\ call.pc = "done"
      /\ call.op # "getcwd" /\ Sound(k)
  BY <1>5, DoneHas DEF Inv, World, Done
<1>7. call.dp \in Slot \cup {0} /\ call.pd \in Slot \cup {0}
  BY <1>6, CallFacts
<1>8. Sound(w)
  BY <1>1, <1>6, <1>7, IputDrops DEF Drops
<1>9. l \in Int
  BY <1>2, <1>6, <1>8, TablesTypes DEF CoreInodes
<1>10. Keeps(w, z)
  BY <1>3, <1>6, <1>8, <1>9, LinksEdit, EditsKeep
<1>11. /\ \A y : CallOK(y, d)
       /\ d = Idle \/ d.p = call.p
       /\ \A t \in Slot : HeldBy(d, t) = 0
  BY <1>4, <1>6, AfterOK
<1>12. CASE call.dp # 0
  <2>1. Keeps(Iput(k, call.dp), z) /\ Keeps(k, k)
    BY <1>1, <1>6, <1>10, <1>12, KeepsSelf
  <2>2. World(Iput(z, call.ip), file, ofile, cdir, d, hung)
    BY <1>6, <1>7, <1>11, <1>12, <2>1, EndPair
  <2> QED
    BY <1>5, <2>2
<1>13. CASE call.dp = 0
  <2>1. Keeps(k, z) /\ call.pd = 0
    BY <1>1, <1>5, <1>10, <1>13 DEF NoName
  <2>2. World(Iput(z, call.ip), file, ofile, cdir, d, hung)
    BY <1>6, <1>11, <1>13, <2>1, EndLast
  <2> QED
    BY <1>5, <2>2
<1> QED
  BY <1>12, <1>13

LEMMA LinkStep ==
  ASSUME Inv, Link
  PROVE  World(k', file', ofile', cdir', call', hung')
<1>1. PICK e : e = [name |-> call.name, ino |-> k.core[call.ip].ino]
  OBVIOUS
<1>2. PICK x : x = WriteEntry(k, call.pd, call.off, e)
  OBVIOUS
<1>3. PICK z : z = Iput(x, call.pd)
  OBVIOUS
<1>4. PICK d : d = After(call, TRUE, FALSE)
  OBVIOUS
<1>5. /\ Done("link") /\ call.ip # 0 /\ ToMake /\ k' = Iput(z, call.ip) /\ call' = d
      /\ hung' = hung /\ file' = file /\ ofile' = ofile /\ cdir' = cdir
  BY <1>1, <1>2, <1>3, <1>4 DEF Link, OpenFiles, Wdir
<1>6. /\ call.ip \in Slot /\ call.dp = 0 /\ call.pd # 0 /\ call.pc = "done"
      /\ call.op # "getcwd" /\ Sound(k)
  BY <1>5, DoneHas DEF Inv, World, Done, ToMake
<1>7. call.pd \in Slot /\ call.name \in EntryName
  BY <1>6, CallFacts
<1>8. e \in Entries
  BY <1>1, <1>6, <1>7, TablesTypes DEF CoreInodes, Entries
<1>9. Keeps(k, x)
  BY <1>2, <1>6, <1>7, <1>8, WriteEntryEdits, EditsKeep
<1>10. Sound(x)
  BY <1>9 DEF Keeps
<1>11. Sound(z)
  BY <1>3, <1>7, <1>10, IputDrops DEF Drops
<1>12. Keeps(Iput(x, call.pd), z)
  BY <1>3, <1>11, KeepsSelf
<1>13. /\ \A y : CallOK(y, d)
       /\ d = Idle \/ d.p = call.p
       /\ \A t \in Slot : HeldBy(d, t) = 0
  BY <1>4, <1>6, AfterOK
<1>14. World(Iput(z, call.ip), file, ofile, cdir, d, hung)
  BY <1>6, <1>7, <1>9, <1>12, <1>13, EndPair
<1> QED
  BY <1>5, <1>14

LEMMA ChdirStep ==
  ASSUME Inv, NEW denied, Chdir(denied)
  PROVE  World(k', file', ofile', cdir', call', hung')
<1>1. /\ Done("chdir") /\ call' = Idle /\ hung' = hung /\ file' = file
      /\ ofile' = ofile
      /\ \/ k' = Iput(k, call.dp) /\ cdir' = cdir
         \/ /\ k' = Iput(Prele(k, call.dp), cdir[call.p])
            /\ cdir' = [cdir EXCEPT ![call.p] = call.dp]
  BY DEF Chdir, OpenFiles
<1>2. /\ call.dp \in Slot /\ call.pd = 0 /\ call.ip = 0 /\ call.pc # "idle"
      /\ call.op # "getcwd" /\ Sound(k)
  BY <1>1, DoneHas DEF Inv, World
<1>3. call.p \in Proc /\ cdir[call.p] \in Slot /\ cdir \in [Proc -> Slot \cup {0}]
  BY <1>2, CallFacts DEF Inv, World
<1>4. CASE k' = Iput(k, call.dp) /\ cdir' = cdir
  <2>1. Keeps(k, k)
    BY <1>2, KeepsSelf
  <2>2. World(Iput(k, call.dp), file, ofile, cdir, Idle, hung)
    BY <1>2, <2>1, EndOne, IdleOK, IdleHolds
  <2> QED
    BY <1>1, <1>4, <2>2
<1>5. CASE /\ k' = Iput(Prele(k, call.dp), cdir[call.p])
           /\ cdir' = [cdir EXCEPT ![call.p] = call.dp]
  <2>1. PICK x : x = Prele(k, call.dp)
    OBVIOUS
  <2>2. Keeps(k, x) /\ ~Lck(x, call.dp)
    BY <1>2, <2>1, PreleKeeps
  <2>3. Sound(x) /\ Calm(k, x) /\ \A t \in Slot : Net(x, t) = Net(k, t)
    BY <1>2, <2>2, KeepsNet
  <2>4. PICK u \in Slot : u = cdir[call.p]
    BY <1>3
  <2>5. PICK y : y = Iput(x, u)
    OBVIOUS
  <2>6. /\ Sound(y) /\ Calm(x, y)
        /\ \A t \in Slot : Net(y, t) = Net(x, t) - Bit(u = t)
    BY <2>3, <2>5, IputDrops, DropsNet
  <2>7. Calm(k, y) /\ ~Lck(y, call.dp)
    BY <1>2, <2>2, <2>3, <2>6, CalmTrans
  <2>8. PICK de : de = [cdir EXCEPT ![call.p] = call.dp]
    OBVIOUS
  <2>9. /\ de \in [Proc -> Slot \cup {0}] /\ de[call.p] = call.dp
        /\ \A q \in Proc : q # call.p => de[q] = cdir[q]
    BY <1>2, <1>3, <2>8
  <2>10. PICK i : i = cdir[call.p]
    OBVIOUS
  <2>11. PICK j : j = call.dp
    OBVIOUS
  <2>12. ButDir(cdir, de, call.p, i, j)
    BY <2>9, <2>10, <2>11 DEF ButDir
  <2>13. Callers(Idle, hung, de, ofile)
    BY <1>2, <2>9, SlotNat DEF Inv, World, Callers
  <2>14. ASSUME NEW t \in Slot
         PROVE  Net(y, t) = Net(k, t) - HeldBy(call, t) + HeldBy(Idle, t)
                                     - InDir(cdir, t) + InDir(de, t)
                                     - InFile(file, t) + InFile(file, t)
    <3>1. /\ InDir(de, t) = InDir(cdir, t) - Bit(i = t) + Bit(j = t)
          /\ InDir(cdir, t) \in Nat
      BY <1>3, <2>12, DirMoves
    <3>2. /\ InDir(de, t) = InDir(cdir, t) - Bit(cdir[call.p] = t) + Bit(call.dp = t)
          /\ InDir(cdir, t) \in Nat
      BY <2>10, <2>11, <3>1
    <3>3. HeldBy(call, t) = Bit(call.dp = t) /\ HeldBy(Idle, t) = 0
      <4>1. HeldBy(call, t) = Bit(call.dp = t)
        BY <1>2, OneHeld
      <4> QED
        BY <4>1, IdleHolds
    <3>4. /\ Bit(u = t) \in {0, 1} /\ Bit(call.dp = t) \in {0, 1}
          /\ Net(k, t) \in Int /\ InFile(file, t) \in Nat
      BY <1>2, BitNat, NetInt, HoldersNat
    <3>5. Net(y, t) = Net(k, t) - Bit(u = t)
      BY <2>3, <2>6
    <3>6. InDir(de, t) = InDir(cdir, t) - Bit(u = t) + Bit(call.dp = t)
      BY <2>4, <2>9, <3>2
    <3> QED
      BY <3>2, <3>3, <3>4, <3>5, <3>6
  <2>15. \A t \in Slot : t \in LockedBy(call) => ~Lck(y, t)
    BY <1>2, <2>7, OneHeld
  <2>16. FilesOK(file, ofile) /\ World(k, file, ofile, cdir, call, hung)
         /\ CallOK(y, Idle)
    BY IdleOK DEF Inv, World
  <2>17. World(y, file, ofile, de, Idle, hung)
    BY <2>6, <2>7, <2>9, <2>13, <2>14, <2>15, <2>16, Shifted
  <2> QED
    BY <1>1, <1>5, <2>1, <2>4, <2>5, <2>8, <2>17
<1> QED
  BY <1>1, <1>4, <1>5

-----------------------------------------------------------------------------
(* maknode and mkdir.                                                      *)

(* ialloc fails in maknode: the parent is left locked.                     *)
LEMMA StrandOK ==
  ASSUME Inv, call.pc # "idle", NEW s \in Slot, call.dp = 0, call.pd = s,
         call.ip = 0, call.op # "getcwd", NEW y, Sound(y), y.jam,
         y.text = k.text, Same(k, y),
         \A t \in Slot : y.skew[t] = k.skew[t] + Bit(t = s),
         \A t \in Slot : Lck(y, t) => Lck(k, t),
         \A t \in Slot : Lck(y, t) /\ (t = s \/ t \in k.stranded)
                           => t \in y.stranded
  PROVE  World(y, file, ofile, cdir, Idle, hung)
<1>1. Sound(k)
  BY DEF Inv, World
<1>2. \A t \in Slot : /\ HeldBy(call, t) = Bit(s = t)
                      /\ t \in LockedBy(call) => t = s
  BY OneHeld
<1>3. Balanced(y, Idle, hung, file, cdir)
  <2>1. ASSUME NEW t \in Slot
        PROVE  Net(y, t) = InDir(cdir, t) + InFile(file, t) + HeldBy(Idle, t)
                             + InHung(hung, t)
    <3>1. Net(k, t) = InDir(cdir, t) + InFile(file, t) + HeldBy(call, t)
                        + InHung(hung, t)
      BY Netted DEF Inv, World
    <3>2. InDir(cdir, t) \in Nat /\ InFile(file, t) \in Nat /\ InHung(hung, t) \in Nat
          /\ HeldBy(Idle, t) = 0 /\ Bit(s = t) \in {0, 1}
      BY HoldersNat, IdleHolds, BitNat
    <3>3. Fixed(y, t) = Fixed(k, t)
      BY DEF Fixed, Itext
    <3>4. Cnt(y, t) = Cnt(k, t) /\ y.skew[t] = k.skew[t] + Bit(s = t)
      BY DEF Same, Bit
    <3>5. Cnt(k, t) \in Int /\ Fixed(k, t) \in Int /\ k.skew[t] \in Int
      BY <1>1, NetInt
    <3>6. Net(y, t) = Net(k, t) - Bit(s = t)
      BY <3>2, <3>3, <3>4, <3>5 DEF Net
    <3>7. HeldBy(call, t) = Bit(s = t)
      BY <1>2
    <3> QED
      BY <3>1, <3>2, <3>6, <3>7
  <2> QED
    BY <2>1, Netted
<1>4. Locks(y, Idle, hung)
  BY <1>2 DEF Inv, World, Locks
<1>5. Jams(y, hung)
  BY DEF Jams
<1>6. CallOK(y, Idle) /\ Callers(Idle, hung, cdir, ofile)
  BY IdleOK DEF Inv, World, Callers
<1> QED
  BY <1>3, <1>4, <1>5, <1>6 DEF Inv, World

LEMMA MadeNet ==
  ASSUME NEW x, Sound(x), NEW pd \in Slot, NEW off, NEW name \in EntryName,
         NEW mode \in Modes, Maknode(x, pd, off, name, mode).s # 0
  PROVE  LET m == Maknode(x, pd, off, name, mode)
         IN /\ m.s \in Slot /\ Sound(m.k) /\ Calm(x, m.k)
            /\ ~Lck(m.k, m.s) /\ ~Lck(m.k, pd)
            /\ \A t \in Slot : Net(m.k, t) = Net(x, t) + Bit(m.s = t) - Bit(pd = t)
<1>1. PICK s : s = Maknode(x, pd, off, name, mode).s
  OBVIOUS
<1>2. PICK y : y = Maknode(x, pd, off, name, mode).k
  OBVIOUS
<1>3. /\ s \in Slot /\ Sound(y) /\ Slack(x, y) /\ ~Lck(y, s) /\ ~Lck(y, pd)
      /\ \A t \in Slot : Cnt(y, t) = Cnt(x, t) + Bit(t = s) - Bit(t = pd)
  BY <1>1, <1>2, MaknodeMakes
<1>4. /\ Calm(x, y)
      /\ \A t \in Slot : Net(y, t) = Net(x, t) + (Cnt(y, t) - Cnt(x, t))
  BY <1>3, SlackNet
<1>5. ASSUME NEW t \in Slot PROVE Net(y, t) = Net(x, t) + Bit(s = t) - Bit(pd = t)
  <2>1. Net(x, t) \in Int /\ Cnt(x, t) \in Int
    BY NetInt
  <2>2. Bit(s = t) \in {0, 1} /\ Bit(pd = t) \in {0, 1}
    BY BitNat
  <2>3. Bit(t = s) = Bit(s = t) /\ Bit(t = pd) = Bit(pd = t)
    BY DEF Bit
  <2>4. Cnt(y, t) = Cnt(x, t) + Bit(s = t) - Bit(pd = t)
    BY <1>3, <2>3
  <2>5. Net(y, t) = Net(x, t) + (Cnt(y, t) - Cnt(x, t))
    BY <1>4
  <2> QED
    BY <2>1, <2>2, <2>4, <2>5
<1> QED
  BY <1>1, <1>2, <1>3, <1>4, <1>5

LEMMA MknodStep ==
  ASSUME Inv, Mknod
  PROVE  World(k', file', ofile', cdir', call', hung')
<1>1. PICK s : s = Maknode(k, call.pd, call.off, call.name, "dev").s
  OBVIOUS
<1>2. PICK m : m = Maknode(k, call.pd, call.off, call.name, "dev").k
  OBVIOUS
<1>3. /\ Done("mknod") /\ call' = Idle /\ hung' = hung /\ file' = file
      /\ ofile' = ofile /\ cdir' = cdir
      /\ \/ call.dp # 0 /\ k' = Iput(k, call.dp)
         \/ ToMake /\ s = 0 /\ k' = m
         \/ ToMake /\ s # 0 /\ k' = Iput(m, s)
  BY <1>1, <1>2 DEF Mknod, OpenFiles
<1>4. /\ call.pc # "idle" /\ call.op # "getcwd" /\ Sound(k)
      /\ \/ call.dp \in Slot /\ call.pd = 0 /\ call.ip = 0
         \/ call.dp = 0 /\ call.pd \in Slot /\ call.ip = 0
  BY <1>3, DoneHas DEF Inv, World
<1>5. call.name \in EntryName /\ "dev" \in Modes
  BY <1>4, CallFacts DEF Modes
<1>6. CASE call.dp # 0 /\ k' = Iput(k, call.dp)
  <2>1. Keeps(k, k) /\ call.dp \in Slot /\ call.pd = 0 /\ call.ip = 0
    BY <1>4, <1>6, KeepsSelf
  <2>2. World(Iput(k, call.dp), file, ofile, cdir, Idle, hung)
    BY <1>4, <2>1, EndOne, IdleOK, IdleHolds
  <2> QED
    BY <1>3, <1>6, <2>2
<1>7. CASE ToMake /\ s = 0 /\ k' = m
  <2>1. call.dp = 0 /\ call.pd \in Slot /\ call.ip = 0
    BY <1>4, <1>7, SlotNat DEF ToMake
  <2>2. /\ Sound(m) /\ m.jam /\ m.text = k.text /\ Same(k, m)
        /\ \A t \in Slot : m.skew[t] = k.skew[t] + Bit(t = call.pd)
        /\ \A t \in Slot : Lck(m, t) => Lck(k, t)
        /\ \A t \in Slot : Lck(m, t) /\ (t = call.pd \/ t \in k.stranded)
                             => t \in m.stranded
    BY <1>1, <1>2, <1>4, <1>5, <1>7, <2>1, MaknodeFails
  <2>3. World(m, file, ofile, cdir, Idle, hung)
    BY <1>4, <2>1, <2>2, StrandOK
  <2> QED
    BY <1>3, <1>7, <2>3
<1>8. CASE ToMake /\ s # 0 /\ k' = Iput(m, s)
  <2>1. call.dp = 0 /\ call.pd \in Slot /\ call.ip = 0
    BY <1>4, <1>8, SlotNat DEF ToMake
  <2>2. /\ s \in Slot /\ Sound(m) /\ Calm(k, m) /\ ~Lck(m, call.pd)
        /\ \A t \in Slot : Net(m, t) = Net(k, t) + Bit(s = t) - Bit(call.pd = t)
    BY <1>1, <1>2, <1>4, <1>5, <1>8, <2>1, MadeNet
  <2>3. PICK y : y = Iput(m, s)
    OBVIOUS
  <2>4. /\ Sound(y) /\ Calm(m, y)
        /\ \A t \in Slot : Net(y, t) = Net(m, t) - Bit(s = t)
    BY <2>2, <2>3, IputDrops, DropsNet
  <2>5. Calm(k, y) /\ ~Lck(y, call.pd)
    BY <2>1, <2>2, <2>4, CalmTrans
  <2>6. \A t \in Slot : /\ HeldBy(call, t) = Bit(call.pd = t)
                        /\ t \in LockedBy(call) => t = call.pd
    BY <1>4, <2>1, OneHeld
  <2>7. ASSUME NEW t \in Slot PROVE Net(y, t) = Net(k, t) - HeldBy(call, t)
    <3>1. Net(k, t) \in Int /\ Bit(s = t) \in {0, 1} /\ Bit(call.pd = t) \in {0, 1}
      BY <1>4, NetInt, BitNat
    <3> QED
      BY <2>2, <2>4, <2>6, <3>1
  <2>8. \A t \in Slot : t \in LockedBy(call) => ~Lck(y, t)
    BY <2>5, <2>6
  <2>9. World(y, file, ofile, cdir, Idle, hung)
    BY <1>4, <2>4, <2>5, <2>7, <2>8, Ended
  <2> QED
    BY <1>3, <1>8, <2>3, <2>9
<1> QED
  BY <1>3, <1>6, <1>7, <1>8

(* mkdir has a new inode, and releases it and the parent.                  *)
LEMMA MkdirEnd ==
  ASSUME Inv, call.pc # "idle", NEW pd \in Slot, call.dp = 0, call.pd = pd,
         call.ip = 0, call.op # "getcwd", NEW s \in Slot, NEW x, Sound(x),
         Calm(k, x), \A t \in Slot : Net(x, t) = Net(k, t) + Bit(s = t)
  PROVE  World(Iput(Iput(x, s), pd), file, ofile, cdir, Idle, hung)
<1>1. PICK y : y = Iput(Iput(x, s), pd)
  OBVIOUS
<1>2. /\ Sound(y) /\ Calm(x, y) /\ ~Lck(y, pd)
      /\ \A t \in Slot : Net(y, t) = Net(x, t) - Bit(s = t) - Bit(pd = t)
  BY <1>1, DropTwo
<1>3. Calm(k, y)
  BY <1>2, CalmTrans
<1>4. \A t \in Slot : /\ HeldBy(call, t) = Bit(pd = t)
                      /\ t \in LockedBy(call) => t = pd
  BY OneHeld
<1>5. ASSUME NEW t \in Slot PROVE Net(y, t) = Net(k, t) - HeldBy(call, t)
  <2>1. Sound(k)
    BY DEF Inv, World
  <2>2. Net(k, t) \in Int /\ Bit(s = t) \in {0, 1} /\ Bit(pd = t) \in {0, 1}
    BY <2>1, NetInt, BitNat
  <2> QED
    BY <1>2, <1>4, <2>2
<1>6. \A t \in Slot : t \in LockedBy(call) => ~Lck(y, t)
  BY <1>2, <1>4
<1>7. World(y, file, ofile, cdir, Idle, hung)
  BY <1>2, <1>3, <1>5, <1>6, Ended
<1> QED
  BY <1>1, <1>7

(* The parent has been released once before: the skew makes up for it.     *)
LEMMA SkewNet ==
  ASSUME NEW x, Sound(x), NEW pd \in Slot
  PROVE  LET y == Skew(x, pd, -1)
         IN /\ Sound(y) /\ Calm(x, y)
            /\ \A t \in Slot : Net(y, t) = Net(x, t) + Bit(pd = t)
<1>1. PICK d \in Int : d = -1
  OBVIOUS
<1>2. PICK y : y = Skew(x, pd, d)
  OBVIOUS
<1>3. /\ Sound(y) /\ y.core = x.core /\ y.text = x.text /\ y.jam = x.jam
      /\ y.stranded = x.stranded
      /\ \A t \in Slot : y.skew[t] = IF t = pd THEN x.skew[t] + d ELSE x.skew[t]
  BY <1>2, Skewed
<1>4. Calm(x, y)
  BY <1>3 DEF Calm, Lck
<1>5. ASSUME NEW t \in Slot PROVE Net(y, t) = Net(x, t) + Bit(pd = t)
  <2>1. Cnt(y, t) = Cnt(x, t) /\ Fixed(y, t) = Fixed(x, t)
    BY <1>3 DEF Cnt, Fixed, Itext
  <2>2. Cnt(x, t) \in Int /\ Fixed(x, t) \in Int /\ x.skew[t] \in Int
    BY NetInt
  <2> QED
    BY <1>1, <1>3, <2>1, <2>2 DEF Net, Bit
<1> QED
  BY <1>1, <1>2, <1>3, <1>4, <1>5

LEMMA NewDirEdits ==
  ASSUME NEW x, Sound(x), NEW s \in Slot, NEW up \in Ino \cup {0}
  PROVE  Edits(x, NewDir(x, s, up))
<1>1. PICK n : n = x.core[s].ino
  OBVIOUS
<1>2. PICK c : c = Made(x.core[s], "dir", 2)
  OBVIOUS
<1>3. PICK q : q = <<[name |-> ".", ino |-> n], [name |-> "..", ino |-> up]>>
  OBVIOUS
<1>4. PICK D : D = [x.dir EXCEPT ![n] = q]
  OBVIOUS
<1>5. x.core[s] \in CoreInodes
  BY TablesTypes
<1>6. "dir" \in Modes
  BY DEF Modes
<1>7. /\ c \in CoreInodes /\ c.ino = x.core[s].ino /\ c.count = x.core[s].count
      /\ c.lock = x.core[s].lock /\ c.want = x.core[s].want
  BY <1>2, <1>5, <1>6 DEF CoreInodes, Made
<1>8. n \in Ino \cup {0}
  BY <1>1, <1>5 DEF CoreInodes
<1>9. q \in Seq(Entries)
  <2>1. PICK a : a = [name |-> ".", ino |-> n]
    OBVIOUS
  <2>2. PICK b : b = [name |-> "..", ino |-> up]
    OBVIOUS
  <2>3. a \in Entries /\ b \in Entries
    BY <1>8, <2>1, <2>2 DEF Entries, EntryName
  <2> QED
    BY <1>3, <2>1, <2>2, <2>3
<1>10. D \in [Ino -> Seq(Entries)] /\ x.short \in SUBSET (Ino \cup {0})
  BY <1>4, <1>9, TablesTypes
<1>11. NewDir(x, s, up) = Put(x, s, c, D, x.short)
  BY <1>1, <1>2, <1>3, <1>4 DEF NewDir, Put, Sound, InodeTables
<1> QED
  BY <1>7, <1>10, <1>11, PutEdits

LEMMA MkdirStep ==
  ASSUME Inv, NEW full, Mkdir(full)
  PROVE  World(k', file', ofile', cdir', call', hung')
<1>1. PICK s : s = Ialloc(k).s
  OBVIOUS
<1>2. PICK a : a = Ialloc(k).k
  OBVIOUS
<1>3. PICK new : new = NewDir(a, s, Parent)
  OBVIOUS
<1>4. PICK w : w = Wdir(new, call.pd, 3, call.name, s)
  OBVIOUS
<1>5. PICK Z : Z = IF w.core[call.pd].count = 0
                   THEN w.short \cup {Parent} ELSE w.short
  OBVIOUS
<1>6. PICK l : l = w.core[call.pd].nlink + 1
  OBVIOUS
<1>7. PICK up : up = [w EXCEPT !.core[call.pd].nlink = l,
                               !.core[call.pd].upd = TRUE, !.short = Z]
  OBVIOUS
<1>8. PICK dots : dots = [new EXCEPT !.core[s].nlink = 0]
  OBVIOUS
<1>9. PICK bad : bad = [Itrunc(w, s) EXCEPT !.core[s].nlink = 0]
  OBVIOUS
<1>10. /\ Done("mkdir") /\ call' = Idle /\ hung' = hung /\ file' = file
       /\ ofile' = ofile /\ cdir' = cdir
       /\ \/ call.dp # 0 /\ k' = Iput(k, call.dp)
          \/ ToMake /\ s = 0 /\ k' = Iput(a, call.pd)
          \/ ToMake /\ s # 0 /\ k' = Iput(Iput(dots, s), call.pd)
          \/ ToMake /\ s # 0 /\ k' = Iput(Iput(Skew(bad, call.pd, -1), s), call.pd)
          \/ ToMake /\ s # 0 /\ k' = Iput(Iput(Skew(up, call.pd, -1), s), call.pd)
  BY <1>1, <1>2, <1>3, <1>4, <1>5, <1>6, <1>7, <1>8, <1>9
     DEF Mkdir, OpenFiles
<1>11. /\ call.pc # "idle" /\ call.op # "getcwd" /\ Sound(k)
       /\ \/ call.dp \in Slot /\ call.pd = 0 /\ call.ip = 0
          \/ call.dp = 0 /\ call.pd \in Slot /\ call.ip = 0
  BY <1>10, DoneHas DEF Inv, World
<1>12. call.name \in EntryName
  BY <1>11, CallFacts
<1>13. CASE call.dp # 0 /\ k' = Iput(k, call.dp)
  <2>1. Keeps(k, k) /\ call.dp \in Slot /\ call.pd = 0 /\ call.ip = 0
    BY <1>11, <1>13, KeepsSelf
  <2>2. World(Iput(k, call.dp), file, ofile, cdir, Idle, hung)
    BY <1>11, <2>1, EndOne, IdleOK, IdleHolds
  <2> QED
    BY <1>10, <1>13, <2>2
<1>14. CASE ToMake /\ s = 0 /\ k' = Iput(a, call.pd)
  <2>1. call.dp = 0 /\ call.pd \in Slot /\ call.ip = 0
    BY <1>11, <1>14, SlotNat DEF ToMake
  <2>2. Keeps(k, a)
    BY <1>1, <1>2, <1>11, <1>14, IallocTakes
  <2>3. World(Iput(a, call.pd), file, ofile, cdir, Idle, hung)
    BY <1>11, <2>1, <2>2, EndOne, IdleOK, IdleHolds
  <2> QED
    BY <1>10, <1>14, <2>3
<1>15. CASE ToMake /\ s # 0
  <2>1. call.dp = 0 /\ call.pd \in Slot /\ call.ip = 0
    BY <1>11, <1>15, SlotNat DEF ToMake
  <2>2. PICK pd \in Slot : pd = call.pd
    BY <2>1
  <2>3. s \in Slot /\ Sound(a) /\ Slack(k, a) /\ More(k, a, s)
    BY <1>1, <1>2, <1>11, <1>15, Allocated
  <2>4. Calm(k, a) /\ \A t \in Slot : Net(a, t) = Net(k, t) + Bit(s = t)
    <3>1. /\ Calm(k, a)
          /\ \A t \in Slot : Net(a, t) = Net(k, t) + (Cnt(a, t) - Cnt(k, t))
      BY <1>11, <2>3, SlackNet
    <3>2. ASSUME NEW t \in Slot PROVE Net(a, t) = Net(k, t) + Bit(s = t)
      <4>1. Net(k, t) \in Int /\ Cnt(k, t) \in Int /\ Bit(s = t) \in {0, 1}
        BY <1>11, NetInt, BitNat
      <4>2. Cnt(a, t) = Cnt(k, t) + Bit(s = t)
        BY <2>3 DEF More, Bit
      <4>3. Net(a, t) = Net(k, t) + (Cnt(a, t) - Cnt(k, t))
        BY <3>1
      <4> QED
        BY <4>1, <4>2, <4>3
    <3> QED
      BY <3>1, <3>2
  <2>5. Parent \in Ino \cup {0}
    BY <1>11, <2>1, TablesTypes DEF CoreInodes, Parent
  <2>6. Keeps(a, new) /\ Sound(new)
    BY <1>3, <2>3, <2>5, NewDirEdits, EditsKeep DEF Keeps
  <2>7. Calm(a, new) /\ \A t \in Slot : Net(new, t) = Net(a, t)
    BY <2>3, <2>6, KeepsNet
  <2>8. Calm(k, new) /\ \A t \in Slot : Net(new, t) = Net(k, t) + Bit(s = t)
    BY <2>4, <2>7, CalmTrans
  <2>9. PICK o \in Int : o = 0
    OBVIOUS
  <2>10. Keeps(new, dots) /\ Sound(dots)
    BY <1>8, <2>3, <2>6, <2>9, LinksEdit, EditsKeep DEF Keeps
  <2>11. Calm(new, dots) /\ \A t \in Slot : Net(dots, t) = Net(new, t)
    BY <2>6, <2>10, KeepsNet
  <2>12. Calm(k, dots) /\ \A t \in Slot : Net(dots, t) = Net(k, t) + Bit(s = t)
    BY <2>8, <2>11, CalmTrans
  <2>13. World(Iput(Iput(dots, s), pd), file, ofile, cdir, Idle, hung)
    BY <1>11, <2>1, <2>2, <2>3, <2>10, <2>12, MkdirEnd
  <2>14. Drops(new, w, pd)
    BY <1>4, <1>12, <2>2, <2>3, <2>6, WdirDrops
  <2>15. /\ Sound(w) /\ Calm(new, w)
         /\ \A t \in Slot : Net(w, t) = Net(new, t) - Bit(pd = t)
    BY <2>6, <2>14, DropsNet
  <2>16. Calm(k, w)
    BY <2>8, <2>15, CalmTrans
  <2>17. ASSUME NEW y, Keeps(w, y)
         PROVE  World(Iput(Iput(Skew(y, pd, -1), s), pd), file, ofile, cdir, Idle, hung)
    <3>1. Sound(y) /\ Calm(w, y) /\ \A t \in Slot : Net(y, t) = Net(w, t)
      BY <2>15, <2>17, KeepsNet
    <3>2. PICK z : z = Skew(y, pd, -1)
      OBVIOUS
    <3>3. Sound(z) /\ Calm(y, z) /\ \A t \in Slot : Net(z, t) = Net(y, t) + Bit(pd = t)
      BY <3>1, <3>2, SkewNet
    <3>4. Calm(k, y)
      BY <2>16, <3>1, CalmTrans
    <3>5. Calm(k, z)
      BY <3>3, <3>4, CalmTrans
    <3>6. ASSUME NEW t \in Slot PROVE Net(z, t) = Net(k, t) + Bit(s = t)
      <4>1. Net(k, t) \in Int /\ Bit(s = t) \in {0, 1} /\ Bit(pd = t) \in {0, 1}
        BY <1>11, NetInt, BitNat
      <4>2. Net(new, t) = Net(k, t) + Bit(s = t) /\ Net(w, t) = Net(new, t) - Bit(pd = t)
        BY <2>8, <2>15
      <4>3. Net(z, t) = Net(w, t) + Bit(pd = t)
        BY <3>1, <3>3
      <4> QED
        BY <4>1, <4>2, <4>3
    <3>7. World(Iput(Iput(z, s), pd), file, ofile, cdir, Idle, hung)
      BY <1>11, <2>1, <2>2, <2>3, <3>3, <3>5, <3>6, MkdirEnd
    <3> QED
      BY <3>2, <3>7
  <2>18. Keeps(w, up)
    <3>1. l \in Int /\ w.short \in SUBSET (Ino \cup {0})
      BY <1>6, <2>1, <2>15, TablesTypes DEF CoreInodes
    <3>2. Z \in SUBSET (Ino \cup {0})
      BY <1>5, <2>5, <3>1
    <3>3. Edits(w, up)
      BY <1>7, <2>1, <2>15, <3>1, <3>2, LinksEdit
    <3> QED
      BY <2>15, <3>3, EditsKeep
  <2>19. Keeps(w, bad)
    <3>1. PICK v : v = Itrunc(w, s)
      OBVIOUS
    <3>2. Keeps(w, v) /\ Sound(v)
      BY <2>3, <2>15, <3>1, ItruncEdits, EditsKeep DEF Keeps
    <3>3. bad = [v EXCEPT !.core[s].nlink = o]
      BY <1>9, <2>9, <3>1
    <3>4. Edits(v, bad)
      BY <2>3, <3>2, <3>3, LinksEdit
    <3> QED
      BY <3>2, <3>4, EditsKeep, KeepsTrans
  <2>20. /\ World(Iput(Iput(Skew(bad, pd, -1), s), pd), file, ofile, cdir, Idle, hung)
         /\ World(Iput(Iput(Skew(up, pd, -1), s), pd), file, ofile, cdir, Idle, hung)
    BY <2>17, <2>18, <2>19
  <2>21. \/ k' = Iput(Iput(dots, s), pd)
         \/ k' = Iput(Iput(Skew(bad, pd, -1), s), pd)
         \/ k' = Iput(Iput(Skew(up, pd, -1), s), pd)
    BY <1>10, <1>15, <2>1, <2>2
  <2> QED
    BY <1>10, <2>13, <2>20, <2>21
<1> QED
  BY <1>10, <1>13, <1>14, <1>15

-----------------------------------------------------------------------------
(* open1.                                                                  *)
LEMMA FallocFinds ==
  ASSUME NEW p, Falloc(p) # <<>>
  PROVE  /\ Falloc(p)[1] \in Fd /\ ofile[p][Falloc(p)[1]] = 0
         /\ Falloc(p)[2] \in File /\ file[Falloc(p)[2]].count = 0
<1>1. PICK A : A = {fd \in Fd : ofile[p][fd] = 0}
  OBVIOUS
<1>2. PICK B : B = {f \in File : file[f].count = 0}
  OBVIOUS
<1>3. Falloc(p) = IF A = {} \/ B = {} THEN <<>> ELSE <<Min(A), Min(B)>>
  BY <1>1, <1>2 DEF Falloc
<1>4. A # {} /\ B # {} /\ Falloc(p) = <<Min(A), Min(B)>>
  BY <1>3
<1>5. A \in SUBSET Nat /\ B \in SUBSET Nat
  BY <1>1, <1>2, NamesAssumption DEF Fd, File
<1>6. Min(A) \in A /\ Min(B) \in B
  BY <1>4, <1>5, MinNat
<1>7. Falloc(p)[1] = Min(A) /\ Falloc(p)[2] = Min(B)
  BY <1>4
<1> QED
  BY <1>1, <1>2, <1>6, <1>7

(* A file slot and a descriptor come into use.                             *)
Opened(fl, of, gl, ug, p, fd, f, s) ==
  /\ fl[f].count = 0 /\ of[p][fd] = 0
  /\ gl = [fl EXCEPT ![f] = [count |-> 1, inode |-> s]]
  /\ ug = [of EXCEPT ![p][fd] = f]

LEMMA OpenFile ==
  ASSUME NEW fl, NEW of, FilesOK(fl, of), NEW p \in Proc, NEW fd \in Fd,
         NEW f \in File, NEW s \in Slot, NEW gl, NEW ug,
         Opened(fl, of, gl, ug, p, fd, f, s)
  PROVE  /\ FilesOK(gl, ug)
         /\ \A t : InFile(gl, t) = InFile(fl, t) + Bit(s = t)
         /\ \A q \in Proc : q # p => ug[q] = of[q]
<1>1. PICK z : z = 0
  OBVIOUS
<1>2. z \notin File
  BY <1>1, NamesAssumption DEF File
<1>3. /\ fl \in [File -> [count : Nat, inode : Slot \cup {0}]]
      /\ of \in [Proc -> [Fd -> File \cup {0}]]
      /\ \A g \in File : /\ fl[g].count = Cardinality(Descriptor(of, g))
                         /\ fl[g].count > 0 => fl[g].inode # 0
  BY DEF FilesOK
<1>4. /\ gl \in [File -> [count : Nat, inode : Slot \cup {0}]]
      /\ gl[f].count = 1 /\ gl[f].inode = s
      /\ \A g \in File : g # f => gl[g] = fl[g]
  BY <1>3 DEF Opened
<1>5. /\ ug \in [Proc -> [Fd -> File \cup {0}]]
      /\ \A q \in Proc : q # p => ug[q] = of[q]
  BY <1>3 DEF Opened
<1>6. ButFd(of, ug, p, fd, z, f)
  BY <1>1, <1>3 DEF Opened, ButFd
<1>7. ASSUME NEW g \in File
      PROVE  gl[g].count = Cardinality(Descriptor(ug, g))
  <2>1. Uses(ug, g) = Uses(of, g) - Bit(z = g) + Bit(f = g)
    BY <1>6, DescriptorMoves
  <2>2. Uses(of, g) \in Nat
    BY <1>6, DescriptorMoves
  <2>3. Bit(z = g) = 0
    BY <1>2 DEF Bit
  <2>4. fl[g].count = Uses(of, g)
    BY <1>3 DEF Uses
  <2>5. gl[g].count = fl[g].count + Bit(f = g)
    BY <1>3, <1>4 DEF Bit, Opened
  <2>6. gl[g].count = Uses(ug, g)
    BY <2>1, <2>2, <2>3, <2>4, <2>5, BitNat
  <2> QED
    BY <2>6 DEF Uses
<1>8. \A g \in File : gl[g].count > 0 => gl[g].inode # 0
  BY <1>3, <1>4, SlotNat
<1>9. ASSUME NEW t PROVE InFile(gl, t) = InFile(fl, t) + Bit(s = t)
  <2>1. ButFile(fl, gl, f)
    BY <1>4 DEF ButFile
  <2>2. /\ InFile(gl, t) = InFile(fl, t)
                 - Bit(fl[f].count > 0 /\ fl[f].inode = t)
                 + Bit(gl[f].count > 0 /\ gl[f].inode = t)
        /\ InFile(fl, t) \in Nat
    BY <2>1, FileMoves
  <2>3. Bit(fl[f].count > 0 /\ fl[f].inode = t) = 0
    BY DEF Bit, Opened
  <2>4. Bit(gl[f].count > 0 /\ gl[f].inode = t) = Bit(s = t)
    BY <1>4 DEF Bit
  <2>5. Bit(s = t) \in {0, 1}
    BY BitNat
  <2> QED
    BY <2>2, <2>3, <2>4, <2>5
<1>10. FilesOK(gl, ug)
  BY <1>4, <1>5, <1>7, <1>8 DEF FilesOK
<1> QED
  BY <1>5, <1>9, <1>10

LEMMA Open1OK ==
  ASSUME Inv, call.pc # "idle", NEW x, Sound(x), Calm(k, x), NEW s \in Slot,
         \A t \in Slot : Net(x, t) = Net(k, t) - HeldBy(call, t) + Bit(s = t),
         \A t \in Slot : t \in LockedBy(call) => t = s \/ ~Lck(x, t),
         NEW trf, NEW bad, Open1(x, s, trf, bad),
         call' = Idle, cdir' = cdir, hung' = hung
  PROVE  World(k', file', ofile', cdir', call', hung')
<1>1. PICK v : v = IF trf # 0 THEN Itrunc(x, s) ELSE x
  OBVIOUS
<1>2. PICK y : y = Prele(v, s)
  OBVIOUS
<1>3. PICK new : new = Falloc(call.p)
  OBVIOUS
<1>4. \/ k' = Iput(x, s) /\ file' = file /\ ofile' = ofile
      \/ k' = Iput(y, s) /\ file' = file /\ ofile' = ofile
      \/ /\ new # <<>> /\ k' = y
         /\ file' = [file EXCEPT ![new[2]] = [count |-> 1, inode |-> s]]
         /\ ofile' = [ofile EXCEPT ![call.p][new[1]] = new[2]]
  BY <1>1, <1>2, <1>3 DEF Open1, OpenFiles
<1>5. Keeps(x, v) /\ Sound(v)
  <2>1. Keeps(x, Itrunc(x, s)) /\ Keeps(x, x)
    BY ItruncEdits, EditsKeep, KeepsSelf
  <2> QED
    BY <1>1, <2>1 DEF Keeps
<1>6. Keeps(v, y) /\ ~Lck(y, s)
  BY <1>2, <1>5, PreleKeeps
<1>7. Keeps(x, y)
  BY <1>5, <1>6, KeepsTrans
<1>8. Sound(k)
  BY DEF Inv, World
<1>9. ASSUME NEW z, Keeps(x, z)
      PROVE  World(Iput(z, s), file, ofile, cdir, Idle, hung)
  <2>1. Sound(z) /\ Calm(x, z) /\ \A t \in Slot : Net(z, t) = Net(x, t)
    BY <1>9, KeepsNet
  <2>2. PICK u : u = Iput(z, s)
    OBVIOUS
  <2>3. /\ Sound(u) /\ Calm(z, u) /\ ~Lck(u, s)
        /\ \A t \in Slot : Net(u, t) = Net(z, t) - Bit(s = t)
    BY <2>1, <2>2, IputDrops, DropsNet
  <2>4. Calm(x, u) /\ \A t \in Slot : ~Lck(x, t) => ~Lck(u, t)
    <3>1. Calm(x, u)
      BY <2>1, <2>3, CalmTrans
    <3> QED
      BY <3>1 DEF Calm
  <2>5. Calm(k, u)
    BY <2>4, CalmTrans
  <2>6. ASSUME NEW t \in Slot PROVE Net(u, t) = Net(k, t) - HeldBy(call, t)
    <3>1. Net(k, t) \in Int /\ HeldBy(call, t) \in Nat /\ Bit(s = t) \in {0, 1}
      BY <1>8, NetInt, HeldNat, BitNat
    <3>2. Net(u, t) = Net(x, t) - Bit(s = t)
      BY <2>1, <2>3
    <3>3. Net(x, t) = Net(k, t) - HeldBy(call, t) + Bit(s = t)
      OBVIOUS
    <3> QED
      BY <3>1, <3>2, <3>3
  <2>7. \A t \in Slot : t \in LockedBy(call) => ~Lck(u, t)
    BY <2>3, <2>4
  <2>8. World(u, file, ofile, cdir, Idle, hung)
    BY <2>3, <2>5, <2>6, <2>7, Ended
  <2> QED
    BY <2>2, <2>8
<1>10. CASE k' = Iput(x, s) /\ file' = file /\ ofile' = ofile
  <2>1. Keeps(x, x)
    BY KeepsSelf
  <2>2. World(Iput(x, s), file, ofile, cdir, Idle, hung)
    BY <1>9, <2>1
  <2> QED
    BY <1>10, <2>2
<1>11. CASE k' = Iput(y, s) /\ file' = file /\ ofile' = ofile
  <2>1. World(Iput(y, s), file, ofile, cdir, Idle, hung)
    BY <1>7, <1>9
  <2> QED
    BY <1>11, <2>1
<1>12. CASE /\ new # <<>> /\ k' = y
            /\ file' = [file EXCEPT ![new[2]] = [count |-> 1, inode |-> s]]
            /\ ofile' = [ofile EXCEPT ![call.p][new[1]] = new[2]]
  <2>1. /\ new[1] \in Fd /\ ofile[call.p][new[1]] = 0
        /\ new[2] \in File /\ file[new[2]].count = 0
    BY <1>3, <1>12, FallocFinds
  <2>2. call.p \in Proc /\ cdir[call.p] # 0
    BY CallFacts, SlotNat
  <2>3. FilesOK(file, ofile) /\ cdir \in [Proc -> Slot \cup {0}]
        /\ Callers(call, hung, cdir, ofile)
    BY DEF Inv, World
  <2>4. PICK f \in File : f = new[2]
    BY <2>1
  <2>5. PICK fd \in Fd : fd = new[1]
    BY <2>1
  <2>6. PICK gl : gl = [file EXCEPT ![f] = [count |-> 1, inode |-> s]]
    OBVIOUS
  <2>7. PICK p \in Proc : p = call.p
    BY <2>2
  <2>8. PICK ug : ug = [ofile EXCEPT ![p][fd] = f]
    OBVIOUS
  <2>9. ofile[p][fd] = 0 /\ file[f].count = 0
    BY <2>1, <2>4, <2>5, <2>7
  <2>10. Opened(file, ofile, gl, ug, p, fd, f, s)
    BY <2>6, <2>8, <2>9 DEF Opened
  <2>11. FilesOK(gl, ug)
    BY <2>3, <2>10, OpenFile
  <2>12. \A t : InFile(gl, t) = InFile(file, t) + Bit(s = t)
    BY <2>3, <2>10, OpenFile
  <2>13. \A q \in Proc : q # p => ug[q] = ofile[q]
    BY <2>3, <2>10, OpenFile
  <2>14. Callers(Idle, hung, cdir, ug)
    BY <2>2, <2>3, <2>7, <2>13 DEF Callers
  <2>15. Sound(y) /\ Calm(x, y) /\ \A t \in Slot : Net(y, t) = Net(x, t)
    BY <1>7, KeepsNet
  <2>16. Calm(k, y)
    BY <2>15, CalmTrans
  <2>17. ASSUME NEW t \in Slot
         PROVE  Net(y, t) = Net(k, t) - HeldBy(call, t) + HeldBy(Idle, t)
                                     - InDir(cdir, t) + InDir(cdir, t)
                                     - InFile(file, t) + InFile(gl, t)
    <3>1. Net(k, t) \in Int /\ HeldBy(call, t) \in Nat /\ Bit(s = t) \in {0, 1}
      BY <1>8, NetInt, HeldNat, BitNat
    <3>2. InDir(cdir, t) \in Nat /\ InFile(file, t) \in Nat
      BY HoldersNat
    <3>3. HeldBy(Idle, t) = 0
      BY IdleHolds
    <3>4. Net(y, t) = Net(k, t) - HeldBy(call, t) + Bit(s = t)
      BY <2>15
    <3>5. InFile(gl, t) = InFile(file, t) + Bit(s = t)
      BY <2>12
    <3> QED
      BY <3>1, <3>2, <3>3, <3>4, <3>5
  <2>18. \A t \in Slot : t \in LockedBy(call) => ~Lck(y, t)
    BY <1>6, <2>15 DEF Calm
  <2>19. World(k, file, ofile, cdir, call, hung) /\ CallOK(y, Idle)
    BY IdleOK DEF Inv
  <2>20. World(y, gl, ug, cdir, Idle, hung)
    BY <2>3, <2>11, <2>14, <2>15, <2>16, <2>17, <2>18, <2>19, Shifted
  <2>21. file' = gl /\ ofile' = ug
    BY <1>12, <2>4, <2>5, <2>6, <2>7, <2>8
  <2> QED
    BY <1>12, <2>20, <2>21
<1> QED
  BY <1>4, <1>10, <1>11, <1>12

(* open and creat of a file that exists.                                   *)
LEMMA OpenOld ==
  ASSUME Inv, call.pc # "idle", call.op # "getcwd", call.dp \in Slot,
         call.pd = 0, call.ip = 0, NEW trf, NEW bad,
         Open1(k, call.dp, trf, bad), call' = Idle, cdir' = cdir, hung' = hung
  PROVE  World(k', file', ofile', cdir', call', hung')
<1>1. Sound(k) /\ Calm(k, k)
  BY CalmSelf DEF Inv, World
<1>2. \A t \in Slot : /\ HeldBy(call, t) = Bit(call.dp = t)
                      /\ t \in LockedBy(call) => t = call.dp
  BY OneHeld
<1>3. ASSUME NEW t \in Slot
      PROVE  Net(k, t) = Net(k, t) - HeldBy(call, t) + Bit(call.dp = t)
  <2>1. Net(k, t) \in Int /\ Bit(call.dp = t) \in {0, 1}
    BY <1>1, NetInt, BitNat
  <2> QED
    BY <1>2, <2>1
<1> QED
  BY <1>1, <1>2, <1>3, Open1OK

LEMMA SysOpenStep ==
  ASSUME Inv, NEW b, SysOpen(b)
  PROVE  World(k', file', ofile', cdir', call', hung')
<1>1. /\ Done("open") /\ Open1(k, call.dp, 0, b)
      /\ call' = Idle /\ cdir' = cdir /\ hung' = hung
  BY DEF SysOpen
<1>2. /\ call.dp \in Slot /\ call.pd = 0 /\ call.ip = 0 /\ call.pc # "idle"
      /\ call.op # "getcwd"
  BY <1>1, DoneHas
<1> QED
  BY <1>1, <1>2, OpenOld

LEMMA CreatOldStep ==
  ASSUME Inv, NEW b, CreatOld(b)
  PROVE  World(k', file', ofile', cdir', call', hung')
<1>1. PICK bad : bad = (b \/ Is("dir"))
  OBVIOUS
<1>2. /\ Done("creat") /\ call.dp # 0 /\ Open1(k, call.dp, 1, bad)
      /\ call' = Idle /\ cdir' = cdir /\ hung' = hung
  BY <1>1 DEF CreatOld
<1>3. /\ call.dp \in Slot /\ call.pd = 0 /\ call.ip = 0 /\ call.pc # "idle"
      /\ call.op # "getcwd"
  BY <1>2, DoneHas
<1> QED
  BY <1>2, <1>3, OpenOld

LEMMA CreatNewStep ==
  ASSUME Inv, NEW full, CreatNew(full)
  PROVE  World(k', file', ofile', cdir', call', hung')
<1>1. PICK s : s = Maknode(k, call.pd, call.off, call.name, "reg").s
  OBVIOUS
<1>2. PICK m : m = Maknode(k, call.pd, call.off, call.name, "reg").k
  OBVIOUS
<1>3. /\ Done("creat") /\ ToMake /\ call' = Idle /\ cdir' = cdir /\ hung' = hung
      /\ \/ s = 0 /\ k' = m /\ file' = file /\ ofile' = ofile
         \/ s # 0 /\ Open1(m, s, 2, full)
  BY <1>1, <1>2 DEF CreatNew, OpenFiles
<1>4. /\ call.pc # "idle" /\ call.op # "getcwd" /\ Sound(k)
      /\ call.dp = 0 /\ call.pd \in Slot /\ call.ip = 0
  BY <1>3, DoneHas, SlotNat DEF Inv, World, ToMake
<1>5. call.name \in EntryName /\ "reg" \in Modes
  BY <1>4, CallFacts DEF Modes
<1>6. CASE s = 0 /\ k' = m /\ file' = file /\ ofile' = ofile
  <2>1. /\ Sound(m) /\ m.jam /\ m.text = k.text /\ Same(k, m)
        /\ \A t \in Slot : m.skew[t] = k.skew[t] + Bit(t = call.pd)
        /\ \A t \in Slot : Lck(m, t) => Lck(k, t)
        /\ \A t \in Slot : Lck(m, t) /\ (t = call.pd \/ t \in k.stranded)
                             => t \in m.stranded
    BY <1>1, <1>2, <1>4, <1>5, <1>6, MaknodeFails
  <2>2. World(m, file, ofile, cdir, Idle, hung)
    BY <1>4, <2>1, StrandOK
  <2> QED
    BY <1>3, <1>6, <2>2
<1>7. CASE s # 0 /\ Open1(m, s, 2, full)
  <2>1. /\ s \in Slot /\ Sound(m) /\ Calm(k, m) /\ ~Lck(m, call.pd)
        /\ \A t \in Slot : Net(m, t) = Net(k, t) + Bit(s = t) - Bit(call.pd = t)
    BY <1>1, <1>2, <1>4, <1>5, <1>7, MadeNet
  <2>2. \A t \in Slot : /\ HeldBy(call, t) = Bit(call.pd = t)
                        /\ t \in LockedBy(call) => t = call.pd
    BY <1>4, OneHeld
  <2>3. ASSUME NEW t \in Slot
        PROVE  Net(m, t) = Net(k, t) - HeldBy(call, t) + Bit(s = t)
    <3>1. Net(k, t) \in Int /\ Bit(s = t) \in {0, 1} /\ Bit(call.pd = t) \in {0, 1}
      BY <1>4, NetInt, BitNat
    <3> QED
      BY <2>1, <2>2, <3>1
  <2>4. \A t \in Slot : t \in LockedBy(call) => t = s \/ ~Lck(m, t)
    BY <2>1, <2>2
  <2> QED
    BY <1>3, <1>4, <1>7, <2>1, <2>3, <2>4, Open1OK
<1> QED
  BY <1>3, <1>6, <1>7

-----------------------------------------------------------------------------
(* Descriptors come and go.                                                *)
LEMMA Used ==
  ASSUME NEW fl, NEW of, FilesOK(fl, of), NEW p \in Proc, NEW fd \in Fd,
         NEW f \in File, of[p][fd] = f
  PROVE  fl[f].count \in Nat /\ fl[f].count > 0 /\ fl[f].inode \in Slot
<1>1. /\ fl[f] \in [count : Nat, inode : Slot \cup {0}]
      /\ fl[f].count = Cardinality(Descriptor(of, f))
      /\ fl[f].count > 0 => fl[f].inode # 0
  BY DEF FilesOK
<1>2. <<p, fd>> \in Descriptor(of, f)
  BY DEF Descriptor
<1>3. Descriptor(of, f) \in SUBSET (Proc \X Fd)
  BY DEF Descriptor
<1>4. IsFiniteSet(Descriptor(of, f))
  BY <1>3, Finite, FS_Subset
<1>5. Cardinality(Descriptor(of, f)) # 0
  BY <1>2, <1>4, FS_EmptySet
<1>6. fl[f].count \in Nat /\ fl[f].inode \in Slot \cup {0}
  BY <1>1
<1>7. fl[f].count > 0
  BY <1>1, <1>5, <1>6
<1> QED
  BY <1>1, <1>6, <1>7

Closed(x, fl, of, y, gl, ug, p, fd, f) ==
  /\ of[p][fd] = f
  /\ y = (IF fl[f].count <= 1 THEN Iput(x, fl[f].inode) ELSE x)
  /\ gl = [fl EXCEPT ![f].count = @ - 1]
  /\ ug = [of EXCEPT ![p][fd] = 0]

LEMMA CloseFile ==
  ASSUME NEW x, Sound(x), NEW fl, NEW of, FilesOK(fl, of), NEW p \in Proc,
         NEW fd \in Fd, NEW f \in File, NEW y, NEW gl, NEW ug,
         Closed(x, fl, of, y, gl, ug, p, fd, f)
  PROVE  /\ FilesOK(gl, ug) /\ Sound(y) /\ Calm(x, y)
         /\ \A t \in Slot : Net(y, t) = Net(x, t) - InFile(fl, t) + InFile(gl, t)
         /\ \A q \in Proc : q # p => ug[q] = of[q]
         /\ \A i \in Fd : i # fd => ug[p][i] = of[p][i]
         /\ ug[p][fd] = 0
<1>1. PICK z : z = 0
  OBVIOUS
<1>2. z \notin File
  BY <1>1, NamesAssumption DEF File
<1>3. of[p][fd] = f
  BY DEF Closed
<1>4. /\ fl \in [File -> [count : Nat, inode : Slot \cup {0}]]
      /\ of \in [Proc -> [Fd -> File \cup {0}]]
      /\ \A g \in File : /\ fl[g].count = Cardinality(Descriptor(of, g))
                         /\ fl[g].count > 0 => fl[g].inode # 0
  BY DEF FilesOK
<1>5. fl[f].count \in Nat /\ fl[f].count > 0 /\ fl[f].inode \in Slot
  BY <1>3, Used
<1>6. PICK c : c = fl[f].count - 1
  OBVIOUS
<1>7. c \in Nat
  BY <1>5, <1>6
<1>8. /\ gl \in [File -> [count : Nat, inode : Slot \cup {0}]]
      /\ gl[f].count = c /\ gl[f].inode = fl[f].inode
      /\ \A g \in File : g # f => gl[g] = fl[g]
  <2>1. gl = [fl EXCEPT ![f].count = c]
    BY <1>6 DEF Closed
  <2> QED
    BY <1>4, <1>7, <2>1
<1>9. ug = [of EXCEPT ![p][fd] = z]
  BY <1>1 DEF Closed
<1>10. /\ ug \in [Proc -> [Fd -> File \cup {0}]] /\ ug[p][fd] = 0
       /\ \A q \in Proc : q # p => ug[q] = of[q]
       /\ \A i \in Fd : i # fd => ug[p][i] = of[p][i]
  BY <1>1, <1>4, <1>9
<1>11. ButFd(of, ug, p, fd, f, z)
  BY <1>1, <1>3, <1>10 DEF ButFd
<1>12. ASSUME NEW g \in File
       PROVE  gl[g].count = Cardinality(Descriptor(ug, g))
  <2>1. Uses(ug, g) = Uses(of, g) - Bit(f = g) + Bit(z = g)
    BY <1>11, DescriptorMoves
  <2>2. Uses(of, g) \in Nat
    BY <1>11, DescriptorMoves
  <2>3. Bit(z = g) = 0
    BY <1>2 DEF Bit
  <2>4. fl[g].count = Uses(of, g)
    BY <1>4 DEF Uses
  <2>5. gl[g].count = fl[g].count - Bit(f = g)
    <3>1. fl[g].count \in Nat
      BY <1>4
    <3>2. CASE g = f
      BY <1>6, <1>8, <3>2 DEF Bit
    <3>3. CASE g # f
      BY <1>8, <3>1, <3>3 DEF Bit
    <3> QED
      BY <3>2, <3>3
  <2>6. gl[g].count = Uses(ug, g)
    BY <2>1, <2>2, <2>3, <2>4, <2>5, BitNat
  <2> QED
    BY <2>6 DEF Uses
<1>13. \A g \in File : gl[g].count > 0 => gl[g].inode # 0
  BY <1>4, <1>5, <1>8, SlotNat
<1>14. FilesOK(gl, ug)
  BY <1>8, <1>10, <1>12, <1>13 DEF FilesOK
<1>15. ASSUME NEW t \in Slot
       PROVE  /\ InFile(fl, t) \in Nat
              /\ InFile(gl, t) = InFile(fl, t) - Bit(c = 0 /\ fl[f].inode = t)
  <2>1. ButFile(fl, gl, f)
    BY <1>8 DEF ButFile
  <2>2. InFile(gl, t) = InFile(fl, t) - Bit(fl[f].count > 0 /\ fl[f].inode = t)
                                      + Bit(gl[f].count > 0 /\ gl[f].inode = t)
    BY <2>1, FileMoves
  <2>3. InFile(fl, t) \in Nat
    BY HoldersNat
  <2>4. Bit(fl[f].count > 0 /\ fl[f].inode = t) = Bit(fl[f].inode = t)
    BY <1>5 DEF Bit
  <2>5. Bit(gl[f].count > 0 /\ gl[f].inode = t) = Bit(c > 0 /\ fl[f].inode = t)
    BY <1>8 DEF Bit
  <2>6. InFile(gl, t) = InFile(fl, t) - Bit(fl[f].inode = t)
                                      + Bit(c > 0 /\ fl[f].inode = t)
    BY <2>2, <2>4, <2>5
  <2>7. CASE c = 0
    BY <2>3, <2>6, <2>7 DEF Bit
  <2>8. CASE c # 0
    BY <1>7, <2>3, <2>6, <2>8 DEF Bit
  <2> QED
    BY <2>3, <2>7, <2>8
<1>16. PICK s \in Slot : s = fl[f].inode
  BY <1>5
<1>17. CASE c = 0
  <2>1. y = Iput(x, s)
    BY <1>5, <1>6, <1>16, <1>17 DEF Closed
  <2>2. /\ Sound(y) /\ Calm(x, y)
        /\ \A t \in Slot : Net(y, t) = Net(x, t) - Bit(s = t)
    BY <2>1, IputDrops, DropsNet
  <2>3. ASSUME NEW t \in Slot
        PROVE  Net(y, t) = Net(x, t) - InFile(fl, t) + InFile(gl, t)
    <3>1. Net(y, t) = Net(x, t) - Bit(s = t) /\ Net(x, t) \in Int
      BY <2>2, NetInt
    <3>2. InFile(fl, t) \in Nat /\ Bit(s = t) \in {0, 1}
      BY <1>15, BitNat
    <3>3. InFile(gl, t) = InFile(fl, t) - Bit(s = t)
      BY <1>15, <1>16, <1>17 DEF Bit
    <3> QED
      BY <3>1, <3>2, <3>3
  <2> QED
    BY <1>10, <1>14, <2>2, <2>3
<1>18. CASE c # 0
  <2>1. y = x
    BY <1>5, <1>6, <1>18 DEF Closed
  <2>2. Calm(x, y)
    BY <2>1, CalmSelf
  <2>3. ASSUME NEW t \in Slot
        PROVE  Net(y, t) = Net(x, t) - InFile(fl, t) + InFile(gl, t)
    <3>1. Net(x, t) \in Int /\ InFile(fl, t) \in Nat
      BY <1>15, NetInt
    <3>2. InFile(gl, t) = InFile(fl, t) - Bit(c = 0 /\ fl[f].inode = t)
      BY <1>15
    <3>3. Bit(c = 0 /\ fl[f].inode = t) = 0
      BY <1>18 DEF Bit
    <3>4. InFile(gl, t) = InFile(fl, t)
      BY <3>1, <3>2, <3>3
    <3> QED
      BY <2>1, <3>1, <3>4
  <2> QED
    BY <1>10, <1>14, <2>1, <2>2, <2>3
<1> QED
  BY <1>17, <1>18

(* One more descriptor for an open file.                                   *)
Duped(fl, of, gl, ug, p, fd, f) ==
  /\ of[p][fd] = 0 /\ fl[f].count > 0
  /\ gl = [fl EXCEPT ![f].count = @ + 1]
  /\ ug = [of EXCEPT ![p][fd] = f]

LEMMA DupFile ==
  ASSUME NEW fl, NEW of, FilesOK(fl, of), NEW p \in Proc,
         NEW fd \in Fd, NEW f \in File, NEW gl, NEW ug,
         Duped(fl, of, gl, ug, p, fd, f)
  PROVE  /\ FilesOK(gl, ug)
         /\ \A t \in Slot : InFile(gl, t) = InFile(fl, t)
         /\ \A q \in Proc : q # p => ug[q] = of[q]
<1>1. PICK z : z = 0
  OBVIOUS
<1>2. z \notin File
  BY <1>1, NamesAssumption DEF File
<1>3. of[p][fd] = z /\ fl[f].count > 0
  BY <1>1 DEF Duped
<1>4. /\ fl \in [File -> [count : Nat, inode : Slot \cup {0}]]
      /\ of \in [Proc -> [Fd -> File \cup {0}]]
      /\ \A g \in File : /\ fl[g].count = Cardinality(Descriptor(of, g))
                         /\ fl[g].count > 0 => fl[g].inode # 0
  BY DEF FilesOK
<1>5. PICK c : c = fl[f].count + 1
  OBVIOUS
<1>6. c \in Nat /\ c > 0
  BY <1>3, <1>4, <1>5
<1>7. /\ gl \in [File -> [count : Nat, inode : Slot \cup {0}]]
      /\ gl[f].count = c /\ gl[f].inode = fl[f].inode
      /\ \A g \in File : g # f => gl[g] = fl[g]
  <2>1. gl = [fl EXCEPT ![f].count = c]
    BY <1>5 DEF Duped
  <2> QED
    BY <1>4, <1>6, <2>1
<1>8. /\ ug \in [Proc -> [Fd -> File \cup {0}]]
      /\ \A q \in Proc : q # p => ug[q] = of[q]
  BY <1>4 DEF Duped
<1>9. ButFd(of, ug, p, fd, z, f)
  BY <1>3, <1>4 DEF ButFd, Duped
<1>10. ASSUME NEW g \in File
       PROVE  gl[g].count = Cardinality(Descriptor(ug, g))
  <2>1. Uses(ug, g) = Uses(of, g) - Bit(z = g) + Bit(f = g)
    BY <1>9, DescriptorMoves
  <2>2. Uses(of, g) \in Nat
    BY <1>9, DescriptorMoves
  <2>3. Bit(z = g) = 0
    BY <1>2 DEF Bit
  <2>4. fl[g].count = Uses(of, g)
    BY <1>4 DEF Uses
  <2>5. gl[g].count = fl[g].count + Bit(f = g)
    <3>1. fl[g].count \in Nat
      BY <1>4
    <3>2. CASE g = f
      BY <1>5, <1>7, <3>2 DEF Bit
    <3>3. CASE g # f
      BY <1>7, <3>1, <3>3 DEF Bit
    <3> QED
      BY <3>2, <3>3
  <2>6. gl[g].count = Uses(ug, g)
    BY <2>1, <2>2, <2>3, <2>4, <2>5, BitNat
  <2> QED
    BY <2>6 DEF Uses
<1>11. \A g \in File : gl[g].count > 0 => gl[g].inode # 0
  BY <1>3, <1>4, <1>7
<1>12. FilesOK(gl, ug)
  BY <1>7, <1>8, <1>10, <1>11 DEF FilesOK
<1>13. ASSUME NEW t \in Slot PROVE InFile(gl, t) = InFile(fl, t)
  <2>1. {g \in File : gl[g].count > 0 /\ gl[g].inode = t}
          = {g \in File : fl[g].count > 0 /\ fl[g].inode = t}
    BY <1>3, <1>6, <1>7
  <2> QED
    BY <2>1 DEF InFile
<1> QED
  BY <1>8, <1>12, <1>13

-----------------------------------------------------------------------------
(* exec and exit.                                                          *)
LEMMA ExecStep ==
  ASSUME Inv, NEW pure, Exec(pure)
  PROVE  World(k', file', ofile', cdir', call', hung')
<1>1. PICK y : y = IF pure THEN Xalloc(k, call.dp) ELSE k
  OBVIOUS
<1>2. PICK d : d = [call EXCEPT !.pc = "load"]
  OBVIOUS
<1>3. /\ Done("exec") /\ k' = y /\ call' = d /\ hung' = hung
      /\ file' = file /\ ofile' = ofile /\ cdir' = cdir
  BY <1>1, <1>2 DEF Exec, OpenFiles
<1>4. /\ call.dp \in Slot /\ call.pd = 0 /\ call.ip = 0 /\ call.pc = "done"
      /\ call.op # "getcwd" /\ Sound(k)
  BY <1>3, DoneHas DEF Inv, World, Done
<1>5. call.op = "exec"
  BY <1>3 DEF Done, Doing
<1>6. call \in CallRecords /\ call # Idle
  BY <1>4, CallFacts
<1>7. d \in CallRecords
  BY <1>2, <1>6 DEF CallRecords
<1>8. /\ d.pc = "load" /\ d.op = call.op /\ d.dp = call.dp /\ d.pd = call.pd
      /\ d.ip = call.ip
  BY <1>2, <1>6 DEF CallRecords
<1>9. d.p = call.p
  BY <1>2, <1>6 DEF CallRecords
<1>10. k.core[call.dp].ino # 0
  BY <1>4, DoneFacts, SlotNat
<1>11. Cnt(k, call.dp) > 0
  <2>1. Cnt(k, call.dp) \in Int
    BY <1>4, CntInt
  <2>2. ~(Cnt(k, call.dp) <= 0)
    BY <1>4, <1>10 DEF Sound, Vacant, Cnt
  <2> QED
    BY <2>1, <2>2
<1>12. /\ Sound(y) /\ Calm(k, y)
       /\ \A t \in Slot : Net(y, t) = Net(k, t)
  <2>1. PICK x : x = Xalloc(k, call.dp)
    OBVIOUS
  <2>2. /\ Sound(x) /\ x.skew = k.skew /\ x.jam = k.jam
        /\ x.stranded = k.stranded
        /\ \A t \in Slot : Cnt(x, t) - Fixed(x, t) = Cnt(k, t) - Fixed(k, t)
        /\ \A t \in Slot : Lck(x, t) => Lck(k, t)
    BY <1>4, <1>11, <2>1, XallocAdds
  <2>3. Calm(k, x)
    BY <2>2 DEF Calm
  <2>4. \A t \in Slot : Net(x, t) = Net(k, t)
    BY <2>2 DEF Net
  <2>5. y = x \/ y = k
    BY <1>1, <2>1
  <2> QED
    BY <1>4, <2>2, <2>3, <2>4, <2>5, CalmSelf
<1>13. CallOK(y, d)
  <2>1. Placed(d)
    BY <1>4, <1>5, <1>8, SlotNat DEF Placed
  <2>2. Present(y, d)
    BY <1>8 DEF Present
  <2> QED
    BY <1>7, <2>1, <2>2 DEF CallOK
<1>14. ASSUME NEW t \in Slot
       PROVE  Net(y, t) = Net(k, t) - HeldBy(call, t) + HeldBy(d, t)
  <2>1. HeldBy(call, t) = HeldBy(d, t)
    BY <1>8, HeldBits
  <2>2. Net(k, t) \in Int /\ HeldBy(d, t) \in Nat
    BY <1>4, NetInt, HeldNat
  <2>3. Net(y, t) = Net(k, t)
    BY <1>12
  <2> QED
    BY <2>1, <2>2, <2>3
<1>15. \A t \in Slot : t \in LockedBy(call) => t \in LockedBy(d)
  BY <1>8 DEF LockedBy
<1>16. World(y, file, ofile, cdir, d, hung)
  BY <1>6, <1>9, <1>12, <1>13, <1>14, <1>15, Settled DEF Inv
<1> QED
  BY <1>3, <1>16

(* A descriptor is closed, by a call that goes on as d.                    *)
LEMMA ClosesOK ==
  ASSUME Inv, NEW p \in Proc, NEW fd \in Fd, NEW f \in File, NEW y, NEW gl, NEW ug,
         Closed(k, file, ofile, y, gl, ug, p, fd, f), NEW d, CallOK(y, d),
         Callers(d, hung, cdir, ofile), d.dp = call.dp, d.pd = call.pd,
         d.ip = call.ip, d.op = call.op
  PROVE  World(y, gl, ug, cdir, d, hung)
<1>1. /\ Sound(k) /\ FilesOK(file, ofile) /\ cdir \in [Proc -> Slot \cup {0}]
  BY DEF Inv, World
<1>2. FilesOK(gl, ug) /\ Sound(y) /\ Calm(k, y)
  BY <1>1, CloseFile
<1>3. \A t \in Slot : Net(y, t) = Net(k, t) - InFile(file, t) + InFile(gl, t)
  BY <1>1, CloseFile
<1>4. /\ \A q \in Proc : q # p => ug[q] = ofile[q]
      /\ \A i \in Fd : i # fd => ug[p][i] = ofile[p][i]
      /\ ug[p][fd] = 0
  BY <1>1, CloseFile
<1>5. Callers(d, hung, cdir, ug)
  BY <1>4 DEF Callers
<1>6. ASSUME NEW t \in Slot
      PROVE  Net(y, t) = Net(k, t) - HeldBy(call, t) + HeldBy(d, t)
                                   - InDir(cdir, t) + InDir(cdir, t)
                                   - InFile(file, t) + InFile(gl, t)
  <2>1. HeldBy(call, t) = HeldBy(d, t)
    BY HeldBits
  <2>2. /\ Net(k, t) \in Int /\ HeldBy(d, t) \in Nat /\ InDir(cdir, t) \in Nat
        /\ InFile(file, t) \in Nat /\ InFile(gl, t) \in Nat
    BY <1>1, NetInt, HeldNat, HoldersNat
  <2>3. Net(y, t) = Net(k, t) - InFile(file, t) + InFile(gl, t)
    BY <1>3
  <2> QED
    BY <2>1, <2>2, <2>3
<1>7. \A t \in Slot : t \in LockedBy(call) => t \in LockedBy(d)
  BY DEF LockedBy
<1>8. World(k, file, ofile, cdir, call, hung)
  BY DEF Inv
<1> QED
  BY <1>1, <1>2, <1>5, <1>6, <1>7, <1>8, Shifted

LEMMA CloseNextStep ==
  ASSUME Inv, NEW fd \in Fd, call.pc \in {"load", "exit"}, CloseNext(fd)
  PROVE  World(k', file', ofile', cdir', call', hung')
<1>1. PICK p : p = call.p
  OBVIOUS
<1>2. PICK f : f = ofile[p][fd]
  OBVIOUS
<1>3. PICK y : y = IF file[f].count <= 1 THEN Iput(k, file[f].inode) ELSE k
  OBVIOUS
<1>4. PICK gl : gl = [file EXCEPT ![f].count = @ - 1]
  OBVIOUS
<1>5. PICK ug : ug = [ofile EXCEPT ![p][fd] = 0]
  OBVIOUS
<1>6. PICK d : d = [call EXCEPT !.step = fd]
  OBVIOUS
<1>7. /\ ofile[p][fd] # 0 /\ k' = y /\ file' = gl /\ ofile' = ug /\ call' = d
      /\ cdir' = cdir /\ hung' = hung
  BY <1>1, <1>2, <1>3, <1>4, <1>5, <1>6 DEF CloseNext, Closef, Tables
<1>8. call \in CallRecords /\ p \in Proc /\ call # Idle
  BY <1>1, CallFacts
<1>9. f \in File
  BY <1>2, <1>7, <1>8 DEF Inv, World, FilesOK
<1>10. Closed(k, file, ofile, y, gl, ug, p, fd, f)
  BY <1>2, <1>3, <1>4, <1>5 DEF Closed
<1>11. d \in CallRecords
  <2>1. fd \in Nat
    BY NamesAssumption DEF Fd
  <2> QED
    BY <1>6, <1>8, <2>1 DEF CallRecords
<1>12. d.dp = call.dp /\ d.pd = call.pd /\ d.ip = call.ip /\ d.op = call.op
  BY <1>6, <1>8 DEF CallRecords
<1>13. d.pc = call.pc /\ d.p = call.p
  BY <1>6, <1>8 DEF CallRecords
<1>14. CallOK(y, d)
  <2>1. Placed(call)
    BY DEF Inv, World, CallOK
  <2>2. Placed(d)
    BY <1>12, <1>13, <2>1 DEF Placed
  <2>3. Present(y, d)
    BY <1>13 DEF Present
  <2> QED
    BY <1>11, <2>2, <2>3 DEF CallOK
<1>15. Callers(d, hung, cdir, ofile)
  BY <1>8, <1>13 DEF Inv, World, Callers
<1>16. World(y, gl, ug, cdir, d, hung)
  BY <1>8, <1>9, <1>10, <1>12, <1>14, <1>15, ClosesOK
<1> QED
  BY <1>7, <1>16

LEMMA ExitStep ==
  ASSUME Inv, NEW p \in Proc, Exit(p)
  PROVE  World(k', file', ofile', cdir', call', hung')
<1>1. PICK d : d = [Idle EXCEPT !.pc = "exit", !.p = p, !.op = "exit"]
  OBVIOUS
<1>2. /\ call = Idle /\ hung[p] = Idle /\ cdir[p] # 0 /\ k' = k /\ call' = d
      /\ file' = file /\ ofile' = ofile /\ cdir' = cdir /\ hung' = hung
  BY <1>1 DEF Exit, User, OpenFiles
<1>3. d \in CallRecords
  BY <1>1, IdleRecord DEF CallRecords
<1>4. d.pc = "exit" /\ d.p = p /\ d.op = "exit"
  BY <1>1, IdleRecord DEF CallRecords
<1>5. d.dp = Idle.dp /\ d.pd = Idle.pd /\ d.ip = Idle.ip
  BY <1>1, IdleRecord DEF CallRecords
<1>6. d.dp = 0 /\ d.pd = 0 /\ d.ip = 0
  BY <1>5, IdleHolds
<1>7. CallOK(k, d)
  <2>1. Placed(d)
    BY <1>4, <1>6 DEF Placed
  <2>2. Present(k, d)
    BY <1>4 DEF Present
  <2> QED
    BY <1>3, <2>1, <2>2 DEF CallOK
<1>8. /\ Sound(k) /\ FilesOK(file, ofile) /\ cdir \in [Proc -> Slot \cup {0}]
      /\ World(k, file, ofile, cdir, call, hung) /\ Calm(k, k)
  BY CalmSelf DEF Inv, World
<1>9. Callers(d, hung, cdir, ofile)
  BY <1>2, <1>4 DEF Inv, World, Callers
<1>10. ASSUME NEW t \in Slot
       PROVE  Net(k, t) = Net(k, t) - HeldBy(call, t) + HeldBy(d, t)
                                    - InDir(cdir, t) + InDir(cdir, t)
                                    - InFile(file, t) + InFile(file, t)
  <2>1. HeldBy(call, t) = HeldBy(d, t)
    BY <1>2, <1>5, HeldBits
  <2>2. /\ Net(k, t) \in Int /\ HeldBy(d, t) \in Nat /\ InDir(cdir, t) \in Nat
        /\ InFile(file, t) \in Nat
    BY <1>8, NetInt, HeldNat, HoldersNat
  <2> QED
    BY <2>1, <2>2
<1>11. \A t \in Slot : t \in LockedBy(call) => ~Lck(k, t) \/ t \in LockedBy(d)
  BY <1>2, IdleHolds, SlotNat
<1>12. World(k, file, ofile, cdir, d, hung)
  BY <1>7, <1>8, <1>9, <1>10, <1>11, Shifted
<1> QED
  BY <1>2, <1>12

LEMMA ExitEndStep ==
  ASSUME Inv, ExitEnd
  PROVE  World(k', file', ofile', cdir', call', hung')
<1>1. PICK p : p = call.p
  OBVIOUS
<1>2. PICK u : u = cdir[p]
  OBVIOUS
<1>3. PICK y : y = Iput(k, u)
  OBVIOUS
<1>4. PICK de : de = [cdir EXCEPT ![p] = 0]
  OBVIOUS
<1>5. /\ call.pc = "exit" /\ \A fd \in Fd : ofile[p][fd] = 0
      /\ k' = y /\ cdir' = de /\ call' = Idle /\ hung' = hung
      /\ file' = file /\ ofile' = ofile
  BY <1>1, <1>2, <1>3, <1>4 DEF ExitEnd, OpenFiles
<1>6. p \in Proc /\ u \in Slot /\ call # Idle /\ Sound(k) /\ hung[p] = Idle
  BY <1>1, <1>2, <1>5, CallFacts
<1>7. call.dp = 0 /\ call.pd = 0 /\ call.ip = 0 /\ call.op = "exit"
  BY <1>5 DEF Inv, World, CallOK, Placed
<1>8. /\ Sound(y) /\ Calm(k, y)
      /\ \A t \in Slot : Net(y, t) = Net(k, t) - Bit(u = t)
  BY <1>3, <1>6, IputDrops, DropsNet
<1>9. FilesOK(file, ofile) /\ cdir \in [Proc -> Slot \cup {0}]
      /\ World(k, file, ofile, cdir, call, hung) /\ CallOK(y, Idle)
  BY IdleOK DEF Inv, World
<1>10. /\ de \in [Proc -> Slot \cup {0}] /\ de[p] = 0
       /\ \A q \in Proc : q # p => de[q] = cdir[q]
  BY <1>4, <1>6, <1>9
<1>11. PICK o : o = 0
  OBVIOUS
<1>12. ButDir(cdir, de, p, u, o)
  BY <1>2, <1>10, <1>11 DEF ButDir
<1>13. p \in Proc
  BY <1>6
<1>14. Callers(Idle, hung, de, ofile)
  BY <1>5, <1>6, <1>10 DEF Inv, World, Callers
<1>15. ASSUME NEW t \in Slot
       PROVE  Net(y, t) = Net(k, t) - HeldBy(call, t) + HeldBy(Idle, t)
                                    - InDir(cdir, t) + InDir(de, t)
                                    - InFile(file, t) + InFile(file, t)
  <2>1. HeldBy(call, t) = HeldBy(Idle, t)
    <3>1. HeldBy(call, t) = Bit(call.dp = t) + Bit(call.pd = t) + Bit(call.ip = t)
      BY HeldBits
    <3>2. Bit(call.dp = t) = 0
      BY <1>7, SlotNat DEF Bit
    <3>3. Bit(call.pd = t) = 0
      BY <1>7, SlotNat DEF Bit
    <3>4. Bit(call.ip = t) = 0
      BY <1>7, SlotNat DEF Bit
    <3>5. HeldBy(call, t) = 0
      BY <3>1, <3>2, <3>3, <3>4
    <3> QED
      BY <3>5, IdleHolds
  <2>2. InDir(de, t) = InDir(cdir, t) - Bit(u = t) + Bit(o = t)
    BY <1>12, <1>13, DirMoves
  <2>3. Bit(o = t) = 0
    BY <1>11, SlotNat DEF Bit
  <2>4. /\ Net(k, t) \in Int /\ HeldBy(Idle, t) \in Nat /\ InDir(cdir, t) \in Nat
        /\ InFile(file, t) \in Nat /\ Bit(u = t) \in {0, 1}
    BY <1>6, NetInt, HeldNat, HoldersNat, BitNat
  <2>5. InDir(de, t) = InDir(cdir, t) - Bit(u = t)
    BY <2>2, <2>3, <2>4
  <2>6. Net(y, t) = Net(k, t) - Bit(u = t)
    BY <1>8
  <2> QED
    BY <2>1, <2>4, <2>5, <2>6
<1>16. \A t \in Slot : t \in LockedBy(call) => ~Lck(y, t)
  BY <1>7, SlotNat DEF LockedBy
<1>17. World(y, file, ofile, de, Idle, hung)
  BY <1>8, <1>9, <1>10, <1>14, <1>15, <1>16, Shifted
<1> QED
  BY <1>5, <1>17

-----------------------------------------------------------------------------
(* The calls on descriptors.                                               *)
LEMMA CloseStep ==
  ASSUME Inv, NEW p \in Proc, NEW fd \in Fd, Close(p, fd)
  PROVE  World(k', file', ofile', cdir', call', hung')
<1>1. PICK f : f = ofile[p][fd]
  OBVIOUS
<1>2. PICK y : y = IF file[f].count <= 1 THEN Iput(k, file[f].inode) ELSE k
  OBVIOUS
<1>3. PICK gl : gl = [file EXCEPT ![f].count = @ - 1]
  OBVIOUS
<1>4. PICK ug : ug = [ofile EXCEPT ![p][fd] = 0]
  OBVIOUS
<1>5. /\ ofile[p][fd] # 0 /\ k' = y /\ file' = gl /\ ofile' = ug /\ call' = call
      /\ cdir' = cdir /\ hung' = hung /\ call = Idle
  BY <1>1, <1>2, <1>3, <1>4 DEF Close, Closef, Tables, User
<1>6. f \in File
  BY <1>1, <1>5 DEF Inv, World, FilesOK
<1>7. Closed(k, file, ofile, y, gl, ug, p, fd, f)
  BY <1>1, <1>2, <1>3, <1>4 DEF Closed
<1>8. CallOK(y, call) /\ Callers(call, hung, cdir, ofile)
  BY <1>5, IdleOK DEF Inv, World
<1>9. World(y, gl, ug, cdir, call, hung)
  BY <1>6, <1>7, <1>8, ClosesOK
<1> QED
  BY <1>5, <1>9

(* Only the files and descriptors change, and no file is opened or closed. *)
LEMMA SharesOK ==
  ASSUME NEW x, NEW fl, NEW of, NEW cd, NEW h, NEW gl, NEW ug,
         World(x, fl, of, cd, Idle, h), NEW p \in Proc, cd[p] # 0,
         NEW fd \in Fd, NEW f \in File, Duped(fl, of, gl, ug, p, fd, f)
  PROVE  World(x, gl, ug, cd, Idle, h)
<1>1. FilesOK(fl, of) /\ Callers(Idle, h, cd, of)
  BY DEF World
<1>2. FilesOK(gl, ug)
  BY <1>1, DupFile
<1>3. \A t \in Slot : InFile(gl, t) = InFile(fl, t)
  BY <1>1, DupFile
<1>4. \A q \in Proc : q # p => ug[q] = of[q]
  BY <1>1, DupFile
<1>5. Callers(Idle, h, cd, ug)
  BY <1>1, <1>4 DEF Callers
<1>6. Balanced(x, Idle, h, gl, cd)
  BY <1>3 DEF World, Balanced, Owed
<1> QED
  BY <1>2, <1>5, <1>6 DEF World

LEMMA DupStep ==
  ASSUME Inv, NEW p \in Proc, NEW fd \in Fd, NEW low \in Fd, Dup(p, fd, low)
  PROVE  World(k', file', ofile', cdir', call', hung')
<1>1. PICK f : f = ofile[p][fd]
  OBVIOUS
<1>2. PICK i \in low..NOFILE : ofile[p][i] = 0 /\ ofile' = [ofile EXCEPT ![p][i] = f]
  BY <1>1 DEF Dup
<1>3. i \in Fd
  BY <1>2, NamesAssumption DEF Fd
<1>4. /\ f # 0 /\ k' = k /\ call' = call /\ call = Idle /\ cdir' = cdir
      /\ hung' = hung /\ cdir[p] # 0 /\ file' = [file EXCEPT ![f].count = @ + 1]
  BY <1>1 DEF Dup, User
<1>5. f \in File /\ FilesOK(file, ofile)
  BY <1>1, <1>4 DEF Inv, World, FilesOK
<1>6. file[f].count > 0
  BY <1>1, <1>5, Used
<1>7. Duped(file, ofile, file', ofile', p, i, f)
  BY <1>2, <1>4, <1>6 DEF Duped
<1>8. World(k, file, ofile, cdir, Idle, hung)
  BY <1>4 DEF Inv
<1>9. World(k, file', ofile', cdir, Idle, hung)
  BY <1>3, <1>4, <1>5, <1>7, <1>8, SharesOK
<1> QED
  BY <1>4, <1>9

LEMMA Dup2Step ==
  ASSUME Inv, NEW p \in Proc, NEW fd \in Fd, NEW new \in Fd, Dup2(p, fd, new)
  PROVE  World(k', file', ofile', cdir', call', hung')
<1>1. PICK f : f = ofile[p][fd]
  OBVIOUS
<1>2. /\ f # 0 /\ fd # new /\ call' = call /\ call = Idle /\ cdir' = cdir
      /\ hung' = hung /\ cdir[p] # 0 /\ ofile' = [ofile EXCEPT ![p][new] = f]
  BY <1>1 DEF Dup2, User
<1>3. /\ Sound(k) /\ FilesOK(file, ofile) /\ World(k, file, ofile, cdir, Idle, hung)
      /\ ofile \in [Proc -> [Fd -> File \cup {0}]]
      /\ CallOK(k, Idle) /\ Callers(Idle, hung, cdir, ofile)
  BY <1>2 DEF Inv, World, FilesOK
<1>4. f \in File
  BY <1>1, <1>2, <1>3
<1>5. CASE ofile[p][new] = 0
  <2>1. k' = k /\ file' = [file EXCEPT ![f].count = @ + 1]
    BY <1>1, <1>5 DEF Dup2, Tables
  <2>2. file[f].count > 0
    BY <1>1, <1>3, <1>4, Used
  <2>3. Duped(file, ofile, file', ofile', p, new, f)
    BY <1>2, <1>5, <2>1, <2>2 DEF Duped
  <2>4. World(k, file', ofile', cdir, Idle, hung)
    BY <1>2, <1>3, <1>4, <2>3, SharesOK
  <2> QED
    BY <1>2, <2>1, <2>4
<1>6. CASE ofile[p][new] # 0
  <2>1. PICK e : e = ofile[p][new]
    OBVIOUS
  <2>2. PICK y : y = IF file[e].count <= 1 THEN Iput(k, file[e].inode) ELSE k
    OBVIOUS
  <2>3. PICK gl : gl = [file EXCEPT ![e].count = @ - 1]
    OBVIOUS
  <2>4. PICK ug : ug = [ofile EXCEPT ![p][new] = 0]
    OBVIOUS
  <2>5. k' = y /\ file' = [gl EXCEPT ![f].count = @ + 1]
    BY <1>1, <1>6, <2>1, <2>2, <2>3 DEF Dup2, Tables, Closef
  <2>6. e \in File
    BY <1>3, <1>6, <2>1
  <2>7. Closed(k, file, ofile, y, gl, ug, p, new, e)
    BY <2>1, <2>2, <2>3, <2>4 DEF Closed
  <2>8. CallOK(y, call) /\ Callers(call, hung, cdir, ofile)
    BY <1>2, <1>3, IdleOK
  <2>9. World(y, gl, ug, cdir, call, hung)
    BY <2>6, <2>7, <2>8, ClosesOK
  <2>10. World(y, gl, ug, cdir, Idle, hung) /\ FilesOK(gl, ug)
    BY <1>2, <2>9 DEF World
  <2>11. ug[p][fd] = f /\ ug[p][new] = 0
    BY <1>1, <1>2, <1>3, <2>4
  <2>12. gl[f].count > 0
    BY <1>4, <2>10, <2>11, Used
  <2>13. ofile' = [ug EXCEPT ![p][new] = f]
    BY <1>2, <1>3, <2>4
  <2>14. Duped(gl, ug, file', ofile', p, new, f)
    BY <2>5, <2>11, <2>12, <2>13 DEF Duped
  <2>15. World(y, file', ofile', cdir, Idle, hung)
    BY <1>2, <1>4, <2>10, <2>14, SharesOK
  <2> QED
    BY <1>2, <2>5, <2>15
<1> QED
  BY <1>5, <1>6

LEMMA SyncOK ==
  ASSUME Inv, call = Idle, NEW x, Keeps(k, x)
  PROVE  World(Update(x), file, ofile, cdir, call, hung)
<1>1. Sound(k) /\ Sound(x)
  BY DEF Inv, World, Keeps
<1>2. PICK y : y = Update(x)
  OBVIOUS
<1>3. Keeps(x, y)
  BY <1>1, <1>2, UpdateEdits, EditsKeep
<1>4. Keeps(k, y)
  BY <1>3, KeepsTrans
<1>5. Sound(y) /\ Calm(k, y) /\ \A t \in Slot : Net(y, t) = Net(k, t)
  BY <1>1, <1>4, KeepsNet
<1>6. ASSUME NEW t \in Slot
      PROVE  Net(y, t) = Net(k, t) - HeldBy(call, t) + HeldBy(Idle, t)
  <2>1. Net(k, t) \in Int /\ HeldBy(Idle, t) = 0 /\ HeldBy(call, t) = 0
    BY <1>1, NetInt, IdleHolds
  <2> QED
    BY <1>5, <2>1
<1>7. \A t \in Slot : t \in LockedBy(call) => t \in LockedBy(Idle)
  OBVIOUS
<1>8. World(y, file, ofile, cdir, Idle, hung)
  BY <1>5, <1>6, <1>7, IdleOK, Settled DEF Inv
<1> QED
  BY <1>2, <1>8

LEMMA SyncStep ==
  ASSUME Inv, NEW p \in Proc, Sync(p)
  PROVE  World(k', file', ofile', cdir', call', hung')
<1>1. /\ call = Idle /\ k' = Update(k) /\ file' = file /\ ofile' = ofile
      /\ cdir' = cdir /\ call' = call /\ hung' = hung
  BY DEF Sync, User, OpenFiles
<1>2. Keeps(k, k)
  BY KeepsSelf DEF Inv, World
<1> QED
  BY <1>1, <1>2, SyncOK

LEMMA FsyncStep ==
  ASSUME Inv, NEW p \in Proc, NEW fd \in Fd, Fsync(p, fd)
  PROVE  World(k', file', ofile', cdir', call', hung')
<1>1. PICK f : f = ofile[p][fd]
  OBVIOUS
<1>2. PICK x : x = [k EXCEPT !.core[file[f].inode].upd = TRUE]
  OBVIOUS
<1>3. /\ call = Idle /\ k' = Update(x) /\ file' = file /\ ofile' = ofile
      /\ cdir' = cdir /\ call' = call /\ hung' = hung /\ f # 0
  BY <1>1, <1>2 DEF Fsync, User, OpenFiles
<1>4. Sound(k) /\ FilesOK(file, ofile)
  BY DEF Inv, World
<1>5. f \in File
  BY <1>1, <1>3, <1>4 DEF FilesOK
<1>6. file[f].inode \in Slot
  BY <1>1, <1>4, <1>5, Used
<1>7. Keeps(k, x)
  BY <1>2, <1>4, <1>6, UpdEdits, EditsKeep
<1> QED
  BY <1>3, <1>7, SyncOK

-----------------------------------------------------------------------------
(* fork.                                                                   *)
FdsOf(of, p, f) == Cardinality({fd \in Fd : of[p][fd] = f})

(* q's descriptors, of which none was open, become those of p.             *)
Copied(of, ug, p, q) ==
  /\ \A fd \in Fd : of[q][fd] \notin File
  /\ \A r \in Proc : r # q => ug[r] = of[r]
  /\ ug[q] = of[p]

LEMMA ForkCount ==
  ASSUME NEW of, NEW ug, NEW p \in Proc, NEW q \in Proc, q # p, NEW f \in File,
         Copied(of, ug, p, q)
  PROVE  /\ Uses(ug, f) = Uses(of, f) + FdsOf(of, p, f)
         /\ Uses(of, f) \in Nat /\ FdsOf(of, p, f) \in Nat
         /\ Uses(of, f) = 0 => FdsOf(of, p, f) = 0
<1> DEFINE D == Descriptor(of, f)
           F == {fd \in Fd : of[p][fd] = f}
           N == {q} \X F
<1>1. D \in SUBSET (Proc \X Fd) /\ F \in SUBSET Fd
  BY DEF Descriptor
<1>2. IsFiniteSet(D) /\ IsFiniteSet(F) /\ IsFiniteSet({q}) /\ Cardinality({q}) = 1
  BY <1>1, Finite, FS_Subset, FS_Singleton
<1>3. Descriptor(ug, f) = D \cup N /\ D \cap N = {}
  BY DEF Descriptor, Copied
<1>4. F # {} => D # {}
  <2>1. SUFFICES ASSUME NEW fd \in F PROVE D # {}
    OBVIOUS
  <2>2. <<p, fd>> \in D
    BY <2>1 DEF Descriptor
  <2> QED
    BY <2>2
<1> HIDE DEF D, F
<1>5. IsFiniteSet(N) /\ Cardinality(N) = 1 * Cardinality(F) /\ Cardinality(F) \in Nat
      /\ Cardinality(D) \in Nat
  BY <1>2, FS_Product, FS_CardinalityType
<1> HIDE DEF N
<1>6. Cardinality(D \cap N) = 0
  BY <1>3, FS_EmptySet
<1>7. Cardinality(D \cup N) = Cardinality(D) + Cardinality(N) - Cardinality(D \cap N)
  BY <1>2, <1>5, FS_Union
<1>8. Cardinality(D \cup N) = Cardinality(D) + Cardinality(F)
  BY <1>5, <1>6, <1>7
<1>9. Cardinality(D) = 0 => Cardinality(F) = 0
  BY <1>2, <1>4, FS_EmptySet
<1>10. Uses(ug, f) = Cardinality(D \cup N) /\ Uses(of, f) = Cardinality(D)
  BY <1>3 DEF Uses, D
<1>11. FdsOf(of, p, f) = Cardinality(F)
  BY DEF FdsOf, F
<1> QED
  BY <1>5, <1>8, <1>9, <1>10, <1>11

(* fork's change of the file table and of the descriptors.                 *)
Forked(fl, of, gl, ug, p, q) ==
  /\ \A fd \in Fd : of[q][fd] = 0
  /\ gl = [f \in File |-> [fl[f] EXCEPT !.count = @ + FdsOf(of, p, f)]]
  /\ ug = [of EXCEPT ![q] = of[p]]

LEMMA ForkFiles ==
  ASSUME NEW fl, NEW of, FilesOK(fl, of), NEW p \in Proc, NEW q \in Proc, q # p,
         NEW gl, NEW ug, Forked(fl, of, gl, ug, p, q)
  PROVE  FilesOK(gl, ug) /\ \A t \in Slot : InFile(gl, t) = InFile(fl, t)
<1>1. /\ fl \in [File -> [count : Nat, inode : Slot \cup {0}]]
      /\ of \in [Proc -> [Fd -> File \cup {0}]]
      /\ \A g \in File : /\ fl[g].count = Cardinality(Descriptor(of, g))
                         /\ fl[g].count > 0 => fl[g].inode # 0
  BY DEF FilesOK
<1>2. /\ ug \in [Proc -> [Fd -> File \cup {0}]] /\ ug[q] = of[p]
      /\ \A r \in Proc : r # q => ug[r] = of[r]
  BY <1>1 DEF Forked
<1>3. \A fd \in Fd : of[q][fd] \notin File
  BY NamesAssumption DEF File, Forked
<1>4. Copied(of, ug, p, q)
  BY <1>2, <1>3 DEF Copied
<1>5. ASSUME NEW g \in File
      PROVE  /\ gl[g] \in [count : Nat, inode : Slot \cup {0}]
             /\ gl[g].inode = fl[g].inode
             /\ gl[g].count = Uses(ug, g)
             /\ gl[g].count > 0 <=> fl[g].count > 0
  <2>1. PICK n : n = FdsOf(of, p, g)
    OBVIOUS
  <2>2. /\ Uses(ug, g) = Uses(of, g) + n
        /\ Uses(of, g) \in Nat /\ n \in Nat /\ (Uses(of, g) = 0 => n = 0)
    BY <1>4, <2>1, ForkCount
  <2>3. gl[g] = [fl[g] EXCEPT !.count = @ + n]
    BY <2>1 DEF Forked
  <2>4. fl[g] \in [count : Nat, inode : Slot \cup {0}] /\ fl[g].count = Uses(of, g)
    BY <1>1 DEF Uses
  <2>5. /\ gl[g] \in [count : Nat, inode : Slot \cup {0}]
        /\ gl[g].inode = fl[g].inode /\ gl[g].count = fl[g].count + n
    BY <2>2, <2>3, <2>4
  <2>6. gl[g].count = Uses(ug, g)
    BY <2>2, <2>4, <2>5
  <2>7. gl[g].count > 0 <=> fl[g].count > 0
    BY <2>2, <2>4, <2>5
  <2> QED
    BY <2>5, <2>6, <2>7
<1>6. gl \in [File -> [count : Nat, inode : Slot \cup {0}]]
  <2>1. gl = [g \in File |-> gl[g]]
    BY DEF Forked
  <2> QED
    BY <1>5, <2>1
<1>7. FilesOK(gl, ug)
  BY <1>1, <1>2, <1>5, <1>6 DEF FilesOK, Uses
<1>8. ASSUME NEW t \in Slot PROVE InFile(gl, t) = InFile(fl, t)
  <2>1. {g \in File : gl[g].count > 0 /\ gl[g].inode = t}
          = {g \in File : fl[g].count > 0 /\ fl[g].inode = t}
    BY <1>5
  <2> QED
    BY <2>1 DEF InFile
<1> QED
  BY <1>7, <1>8

LEMMA InUse ==
  ASSUME Inv, Intact, NEW p \in Proc, cdir[p] # 0
  PROVE  cdir[p] \in Slot /\ Cnt(k, cdir[p]) > 0
<1>1. cdir[p] \in Slot
  BY DEF Inv, World
<1>2. PICK s \in Slot : s = cdir[p]
  BY <1>1
<1>3. InDir(cdir, s) \in Nat /\ InFile(file, s) \in Nat /\ InHung(hung, s) \in Nat
      /\ HeldBy(call, s) \in Nat
  BY HoldersNat, HeldNat
<1>4. InDir(cdir, s) # 0
  <2>1. PICK T : T = {q \in Proc : cdir[q] = s}
    OBVIOUS
  <2>2. p \in T /\ T \in SUBSET Proc
    BY <1>2, <2>1
  <2>3. Cardinality(T) # 0
    BY <2>2, Finite, FS_Subset, FS_EmptySet
  <2> QED
    BY <2>1, <2>3 DEF InDir
<1>5. Refs(s) = (IF s = RootSlot THEN 1 ELSE 0) + (IF Itext(k, s) THEN 1 ELSE 0)
                + InDir(cdir, s) + InFile(file, s) + HeldBy(call, s) + InHung(hung, s)
  BY DEF Refs, InDir, InFile, InHung
<1>6. Refs(s) > 0
  BY <1>3, <1>4, <1>5
<1> QED
  BY <1>1, <1>2, <1>6 DEF Intact, Cnt

LEMMA ForkStep ==
  ASSUME Inv, NEW p \in Proc, NEW q \in Proc, Fork(p, q)
  PROVE  World(k', file', ofile', cdir', call', hung')
<1>1. PICK s : s = cdir[p]
  OBVIOUS
<1>2. /\ call = Idle /\ cdir[p] # 0 /\ Intact /\ cdir[q] = 0 /\ call' = call
      /\ hung' = hung /\ k' = AddRef(k, s, 1) /\ cdir' = [cdir EXCEPT ![q] = s]
      /\ ofile' = [ofile EXCEPT ![q] = ofile[p]]
      /\ file' = [f \in File |-> [file[f] EXCEPT !.count = @ +
                 Cardinality({fd \in Fd : ofile[p][fd] = f})]]
  BY <1>1 DEF Fork, User
<1>3. /\ Sound(k) /\ FilesOK(file, ofile) /\ World(k, file, ofile, cdir, Idle, hung)
      /\ cdir \in [Proc -> Slot \cup {0}]
      /\ CallOK(k, Idle) /\ Callers(Idle, hung, cdir, ofile)
  BY <1>2 DEF Inv, World
<1>4. q # p /\ \A fd \in Fd : ofile[q][fd] = 0
  BY <1>2, <1>3 DEF Callers
<1>5. Forked(file, ofile, file', ofile', p, q)
  BY <1>2, <1>4 DEF Forked, FdsOf
<1>6. PICK gl : gl = file'
  OBVIOUS
<1>7. PICK ug : ug = ofile'
  OBVIOUS
<1>8. Forked(file, ofile, gl, ug, p, q) /\ FilesOK(file, ofile) /\ q # p
  BY <1>3, <1>4, <1>5, <1>6, <1>7
<1>9. FilesOK(gl, ug) /\ \A t \in Slot : InFile(gl, t) = InFile(file, t)
  BY <1>8, ForkFiles
<1>10. FilesOK(file', ofile')
  BY <1>6, <1>7, <1>9
<1>11. \A t \in Slot : InFile(file', t) = InFile(file, t)
  BY <1>6, <1>9
<1>12. s \in Slot /\ Cnt(k, s) > 0
  BY <1>1, <1>2, InUse
<1>13. PICK d \in Int : d = 1
  OBVIOUS
<1>14. Cnt(k, s) + d <= 0 <=> Cnt(k, s) <= 0
  BY <1>3, <1>12, <1>13, CntInt
<1>15. /\ Sound(k') /\ Slack(k, k')
       /\ \A t \in Slot : Cnt(k', t) = IF t = s THEN Cnt(k, t) + d ELSE Cnt(k, t)
  BY <1>2, <1>3, <1>12, <1>13, <1>14, Counted
<1>16. /\ Calm(k, k')
       /\ \A t \in Slot : Net(k', t) = Net(k, t) + (Cnt(k', t) - Cnt(k, t))
  BY <1>3, <1>15, SlackNet
<1>17. /\ cdir' \in [Proc -> Slot \cup {0}] /\ cdir'[q] = s
       /\ \A r \in Proc : r # q => cdir'[r] = cdir[r]
  BY <1>2, <1>3, <1>12
<1>18. \A r \in Proc : r # q => ofile'[r] = ofile[r]
  BY <1>2, <1>3 DEF FilesOK
<1>19. Callers(Idle, hung, cdir', ofile')
  BY <1>3, <1>12, <1>17, <1>18, SlotNat DEF Callers
<1>20. ASSUME NEW t \in Slot
       PROVE  Net(k', t) = Net(k, t) - HeldBy(Idle, t) + HeldBy(Idle, t)
                                    - InDir(cdir, t) + InDir(cdir', t)
                                    - InFile(file, t) + InFile(file', t)
  <2>1. PICK de : de = cdir'
    OBVIOUS
  <2>2. PICK o : o = 0
    OBVIOUS
  <2>3. ButDir(cdir, de, q, o, s)
    BY <1>2, <1>17, <2>1, <2>2 DEF ButDir
  <2>4. InDir(de, t) = InDir(cdir, t) - Bit(o = t) + Bit(s = t)
    BY <2>3, DirMoves
  <2>5. Bit(o = t) = 0
    BY <2>2, SlotNat DEF Bit
  <2>6. /\ Net(k, t) \in Int /\ HeldBy(Idle, t) \in Nat /\ InDir(cdir, t) \in Nat
        /\ InFile(file, t) \in Nat /\ Bit(s = t) \in {0, 1} /\ Cnt(k, t) \in Int
    BY <1>3, NetInt, HeldNat, HoldersNat, BitNat
  <2>7. InDir(cdir', t) = InDir(cdir, t) + Bit(s = t)
    BY <2>1, <2>4, <2>5, <2>6
  <2>8. Cnt(k', t) = Cnt(k, t) + Bit(s = t)
    BY <1>13, <1>15, <2>6 DEF Bit
  <2>9. Net(k', t) = Net(k, t) + (Cnt(k', t) - Cnt(k, t))
    BY <1>16
  <2>10. Net(k', t) = Net(k, t) + Bit(s = t)
    BY <2>6, <2>8, <2>9
  <2>11. InFile(file', t) = InFile(file, t)
    BY <1>11
  <2> QED
    BY <2>6, <2>7, <2>10, <2>11
<1>21. CallOK(k', Idle) /\ \A t \in Slot : t \in LockedBy(Idle) => t \in LockedBy(Idle)
  BY IdleOK
<1>22. World(k', file', ofile', cdir', Idle, hung)
  BY <1>3, <1>10, <1>15, <1>16, <1>17, <1>19, <1>20, <1>21, Shifted
<1> QED
  BY <1>2, <1>22

-----------------------------------------------------------------------------
(* Every step.                                                             *)
LEMMA StartStep ==
  ASSUME Inv, Start
  PROVE  World(k', file', ofile', cdir', call', hung')
<1>1. PICK p \in Proc :
        \/ \E op \in Simple, path \in Paths : Enter(p, op, path, <<>>)
        \/ \E op \in TwoPath, old \in Paths, new \in NewPaths : Enter(p, op, old, new)
  BY DEF Start
<1>2. CASE \E op \in Simple, path \in Paths : Enter(p, op, path, <<>>)
  <2>1. PICK op \in Simple, path \in Paths : Enter(p, op, path, <<>>)
    BY <1>2
  <2>2. PICK e : e = <<>>
    OBVIOUS
  <2>3. Enter(p, op, path, e)
    BY <2>1, <2>2, Zenon
  <2>4. \/ op \in Simple /\ e = <<>>
        \/ op \in TwoPath /\ e \in NewPaths
    BY <2>2
  <2> QED
    BY <2>3, <2>4, EnterStep
<1>3. CASE \E op \in TwoPath, old \in Paths, new \in NewPaths : Enter(p, op, old, new)
  <2>1. PICK op \in TwoPath, old \in Paths, new \in NewPaths : Enter(p, op, old, new)
    BY <1>3
  <2> QED
    BY <2>1, EnterStep
<1> QED
  BY <1>1, <1>2, <1>3

LEMMA HandlerStep ==
  ASSUME Inv, Handler
  PROVE  World(k', file', ofile', cdir', call', hung')
<1>1. CASE Mknod \/ LinkFirst \/ LinkDenied \/ LinkError \/ Link \/ Unlink \/ Rmdir
  BY <1>1, MknodStep, LinkFirstStep, LinkDeniedStep, LinkErrorStep, LinkStep,
     UnlinkStep, RmdirStep
<1>2. CASE Stat \/ Chmod \/ Utime
  BY <1>2, TouchStep DEF Stat, Chmod, Utime
<1>3. CASE ExecFails \/ ExecEnd \/ ExitEnd
  BY <1>3, ExecFailsStep, ExecEndStep, ExitEndStep
<1>4. ASSUME NEW fd \in Fd, ExecClose(fd) \/ ExitClose(fd)
      PROVE  World(k', file', ofile', cdir', call', hung')
  <2>1. call.pc \in {"load", "exit"} /\ CloseNext(fd)
    BY <1>4 DEF ExecClose, ExitClose
  <2> QED
    BY <2>1, CloseNextStep
<1>5. ASSUME NEW b \in BOOLEAN,
             SysOpen(b) \/ CreatOld(b) \/ CreatNew(b) \/ Chdir(b) \/ Exec(b)
      PROVE  World(k', file', ofile', cdir', call', hung')
  BY <1>5, SysOpenStep, CreatOldStep, CreatNewStep, ChdirStep, ExecStep
<1>6. ASSUME NEW full \in {"no", "dots", "name"}, Mkdir(full)
      PROVE  World(k', file', ofile', cdir', call', hung')
  BY <1>6, MkdirStep
<1> QED
  BY <1>1, <1>2, <1>3, <1>4, <1>5, <1>6 DEF Handler

LEMMA DescriptorsStep ==
  ASSUME Inv, Descriptors
  PROVE  World(k', file', ofile', cdir', call', hung')
<1>1. ASSUME NEW p \in Proc, NEW fd \in Fd, Close(p, fd) \/ Fsync(p, fd)
      PROVE  World(k', file', ofile', cdir', call', hung')
  BY <1>1, CloseStep, FsyncStep
<1>2. ASSUME NEW p \in Proc, NEW fd \in Fd, NEW new \in Fd,
             Dup(p, fd, new) \/ Dup2(p, fd, new)
      PROVE  World(k', file', ofile', cdir', call', hung')
  BY <1>2, DupStep, Dup2Step
<1>3. ASSUME NEW p \in Proc, NEW q \in Proc, Fork(p, q)
      PROVE  World(k', file', ofile', cdir', call', hung')
  BY <1>3, ForkStep
<1>4. ASSUME NEW p \in Proc, Exit(p) \/ Sync(p)
      PROVE  World(k', file', ofile', cdir', call', hung')
  BY <1>4, ExitStep, SyncStep
<1> QED
  BY <1>1, <1>2, <1>3, <1>4 DEF Descriptors

LEMMA NextStep ==
  ASSUME Inv, Next
  PROVE  World(k', file', ofile', cdir', call', hung')
<1>1. CASE Start \/ Handler \/ Descriptors
  BY <1>1, StartStep, HandlerStep, DescriptorsStep
<1>2. ASSUME NEW p \in Proc, Resume(p) \/ Getcwd(p)
      PROVE  World(k', file', ofile', cdir', call', hung')
  BY <1>2, ResumeStep, GetcwdStep
<1>3. CASE Iget2 \/ LookOut \/ LookCreate \/ LookDelete \/ LookNext
  BY <1>3, Iget2Step, LookOutStep, LookCreateStep, LookDeleteStep, LookNextStep
<1>4. CASE GetcwdUp \/ GetcwdSearch
  BY <1>4, GetcwdUpStep, GetcwdSearchStep
<1> QED
  BY <1>1, <1>2, <1>3, <1>4 DEF Next

-----------------------------------------------------------------------------
(* The ramdisk as rd_mkfs makes it, and the first state.                   *)
LEMMA RamdiskSizes ==
  /\ Len(Dirs) \in Nat /\ Len(Files) \in Nat
  /\ DOMAIN Dirs = 1..Len(Dirs) /\ DOMAIN Files = 1..Len(Files)
  /\ DOMAIN Dirs \in SUBSET Ino /\ Root \in DOMAIN Dirs
  /\ \A i \in DOMAIN Files : FileIno(i) \in Ino
<1>1. /\ Len(Dirs) \in Nat /\ DOMAIN Dirs = 1..Len(Dirs)
      /\ Len(Files) \in Nat /\ DOMAIN Files = 1..Len(Files)
  <2>1. PICK A : A = [name : EntryName, up : Nat]
    OBVIOUS
  <2>2. PICK B : B = [name : EntryName, dir : Nat, mode : Modes]
    OBVIOUS
  <2>3. Dirs \in Seq(A) /\ Files \in Seq(B)
    BY <2>1, <2>2, NamesAssumption
  <2> QED
    BY <2>3
<1>2. Len(Dirs) > 0 /\ Len(Dirs) + Len(Files) <= NINO /\ NINO \in Nat
  BY NamesAssumption, InodesAssumption
<1> QED
  BY <1>1, <1>2 DEF Ino, Root, FileIno

LEMMA RamdiskTypes ==
  /\ \A d \in DOMAIN Dirs : Dirs[d].name \in EntryName /\ Dirs[d].up \in Ino
  /\ \A i \in DOMAIN Files : Files[i].name \in EntryName /\ Files[i].mode \in Modes
<1>1. PICK A : A = [name : EntryName, up : Nat]
  OBVIOUS
<1>2. PICK B : B = [name : EntryName, dir : Nat, mode : Modes]
  OBVIOUS
<1>3. Dirs \in Seq(A) /\ Files \in Seq(B)
  BY <1>1, <1>2, NamesAssumption
<1>4. (\A d \in DOMAIN Dirs : Dirs[d] \in A) /\ \A i \in DOMAIN Files : Files[i] \in B
  BY <1>3
<1>5. ASSUME NEW d \in DOMAIN Dirs PROVE Dirs[d].up \in Ino
  <2>1. d \in 1..Len(Dirs) /\ Len(Dirs) \in Nat /\ Len(Dirs) <= NINO /\ NINO \in Nat
    BY RamdiskSizes, NamesAssumption, InodesAssumption
  <2>2. CASE d = 1
    BY <2>1, <2>2, NamesAssumption DEF Ino
  <2>3. CASE d # 1
    <3>1. d \in 2..Len(Dirs)
      BY <2>1, <2>3
    <3>2. Dirs[d].up \in 1..d - 1
      BY <3>1, NamesAssumption
    <3> QED
      BY <2>1, <3>2 DEF Ino
  <2> QED
    BY <2>2, <2>3
<1> QED
  BY <1>1, <1>2, <1>4, <1>5

LEMMA MkfsInodeType ==
  ASSUME NEW n \in Ino
  PROVE  MkfsInode(n) \in [mode : Modes, nlink : Int]
<1>1. CASE n \in DOMAIN Dirs
  BY <1>1 DEF MkfsInode, Modes
<1>2. CASE n \notin DOMAIN Dirs /\ \E i \in DOMAIN Files \ Removed : n = FileIno(i)
  <2>1. PICK i \in DOMAIN Files \ Removed : n = FileIno(i)
    BY <1>2
  <2>2. n - Len(Dirs) = i
    BY <2>1, RamdiskSizes DEF FileIno
  <2>3. Files[n - Len(Dirs)].mode \in Modes
    BY <2>1, <2>2, RamdiskTypes
  <2>4. MkfsInode(n) = [mode |-> Files[n - Len(Dirs)].mode, nlink |-> 1]
    BY <1>2 DEF MkfsInode
  <2> QED
    BY <2>3, <2>4
<1>3. CASE n \notin DOMAIN Dirs /\ ~\E i \in DOMAIN Files \ Removed : n = FileIno(i)
  <2>1. MkfsInode(n) = [mode |-> "free", nlink |-> 0]
    BY <1>3 DEF MkfsInode
  <2> QED
    BY <2>1 DEF Modes
<1> QED
  BY <1>1, <1>2, <1>3

LEMMA MkfsDirType ==
  ASSUME NEW n \in Ino
  PROVE  MkfsDir(n) \in Seq(Entries)
<1>1. CASE n \in DOMAIN Dirs
  <2>1. Dots(n) \in Seq(Entries)
    <3>1. PICK a : a = [name |-> ".", ino |-> n]
      OBVIOUS
    <3>2. PICK b : b = [name |-> "..", ino |-> Dirs[n].up]
      OBVIOUS
    <3>3. a \in Entries /\ b \in Entries
      BY <1>1, <3>1, <3>2, RamdiskTypes DEF Entries, EntryName
    <3>4. <<a, b>> \in Seq(Entries)
      BY <3>3
    <3> QED
      BY <3>1, <3>2, <3>4 DEF Dots
  <2>2. SubDirs(n) \in Seq(Entries)
    <3>1. PICK S : S = {c \in DOMAIN Dirs : c # Root /\ Dirs[c].up = n}
      OBVIOUS
    <3>2. S \in SUBSET (1..Len(Dirs)) /\ Len(Dirs) \in Nat
      BY <3>1, RamdiskSizes
    <3>3. PICK q : q = Ascending(S)
      OBVIOUS
    <3>4. q \in Seq(S)
      BY <3>2, <3>3, AscendingType
    <3>5. PICK r : r = [j \in DOMAIN q |-> [name |-> Dirs[q[j]].name, ino |-> q[j]]]
      OBVIOUS
    <3>6. \A j \in DOMAIN q : q[j] \in DOMAIN Dirs
      BY <3>1, <3>4
    <3>7. ASSUME NEW j \in DOMAIN q PROVE r[j] \in Entries
      <4>1. q[j] \in Ino /\ Dirs[q[j]].name \in EntryName
        BY <3>6, RamdiskSizes, RamdiskTypes
      <4>2. r[j] = [name |-> Dirs[q[j]].name, ino |-> q[j]]
        BY <3>5
      <4> QED
        BY <4>1, <4>2 DEF Entries
    <3>8. Len(q) \in Nat /\ DOMAIN q = 1..Len(q) /\ DOMAIN r = DOMAIN q
      BY <3>4, <3>5
    <3>9. r = [j \in 1..Len(q) |-> r[j]]
      BY <3>5, <3>8
    <3>10. r \in Seq(Entries)
      BY <3>7, <3>8, <3>9, IsASeq
    <3> QED
      BY <3>1, <3>3, <3>5, <3>10 DEF SubDirs
  <2>3. FilesIn(n) \in Seq(Entries)
    <3>1. PICK S : S = {i \in DOMAIN Files : Files[i].dir = n}
      OBVIOUS
    <3>2. S \in SUBSET (1..Len(Files)) /\ Len(Files) \in Nat
      BY <3>1, RamdiskSizes
    <3>3. PICK q : q = Ascending(S)
      OBVIOUS
    <3>4. q \in Seq(S)
      BY <3>2, <3>3, AscendingType
    <3>5. PICK r : r = [j \in DOMAIN q |->
                         IF q[j] \in Removed THEN Empty
                         ELSE [name |-> Files[q[j]].name, ino |-> FileIno(q[j])]]
      OBVIOUS
    <3>6. \A j \in DOMAIN q : q[j] \in DOMAIN Files
      BY <3>1, <3>4
    <3>7. ASSUME NEW j \in DOMAIN q PROVE r[j] \in Entries
      <4>1. FileIno(q[j]) \in Ino /\ Files[q[j]].name \in EntryName
        BY <3>6, RamdiskSizes, RamdiskTypes
      <4>2. CASE q[j] \in Removed
        <5>1. r[j] = Empty
          BY <3>5, <4>2
        <5> QED
          BY <5>1, EmptyEntry
      <4>3. CASE q[j] \notin Removed
        <5>1. r[j] = [name |-> Files[q[j]].name, ino |-> FileIno(q[j])]
          BY <3>5, <4>3
        <5> QED
          BY <4>1, <5>1 DEF Entries
      <4> QED
        BY <4>2, <4>3
    <3>8. Len(q) \in Nat /\ DOMAIN q = 1..Len(q) /\ DOMAIN r = DOMAIN q
      BY <3>4, <3>5
    <3>9. r = [j \in 1..Len(q) |-> r[j]]
      BY <3>5, <3>8
    <3>10. r \in Seq(Entries)
      BY <3>7, <3>8, <3>9, IsASeq
    <3> QED
      BY <3>1, <3>3, <3>5, <3>10 DEF FilesIn
  <2>4. MkfsDir(n) = Dots(n) \o SubDirs(n) \o FilesIn(n)
    BY <1>1 DEF MkfsDir
  <2>5. Dots(n) \o SubDirs(n) \in Seq(Entries)
    BY <2>1, <2>2
  <2> QED
    BY <2>3, <2>4, <2>5
<1>2. CASE n \notin DOMAIN Dirs
  BY <1>2 DEF MkfsDir
<1> QED
  BY <1>1, <1>2

LEMMA NobodyCounts ==
  ASSUME NEW h, h = [p \in Proc |-> Idle], NEW s \in Slot
  PROVE  InHung(h, s) = 0
<1>1. PICK e : e = Idle
  OBVIOUS
<1>2. e.dp = 0 /\ e.pd = 0 /\ e.ip = 0
  BY <1>1, IdleHolds
<1>3. \A p \in Proc : h[p] = e
  BY <1>1
<1>4. \A d \in Proc \X Holds : h[d[1]][d[2]] # s
  BY <1>2, <1>3, SlotNat DEF Holds
<1>5. {d \in Proc \X Holds : h[d[1]][d[2]] = s} = {}
  BY <1>4
<1> QED
  BY <1>5, FS_EmptySet DEF InHung

LEMMA FirstFiles ==
  ASSUME NEW fl, fl = [f \in File |-> [count |-> 0, inode |-> 0]],
         NEW of, of = [p \in Proc |-> [fd \in Fd |-> 0]]
  PROVE  FilesOK(fl, of) /\ \A s \in Slot : InFile(fl, s) = 0
<1>1. \A f \in File : fl[f] = [count |-> 0, inode |-> 0]
  OBVIOUS
<1>2. \A f \in File : fl[f].count = 0
  BY <1>1
<1>3. fl \in [File -> [count : Nat, inode : Slot \cup {0}]]
  OBVIOUS
<1>4. of \in [Proc -> [Fd -> File \cup {0}]]
  OBVIOUS
<1>5. ASSUME NEW f \in File PROVE Cardinality(Descriptor(of, f)) = 0
  <2>1. f # 0
    BY NamesAssumption DEF File
  <2>2. \A d \in Proc \X Fd : of[d[1]][d[2]] = 0
    OBVIOUS
  <2>3. Descriptor(of, f) = {}
    BY <2>1, <2>2 DEF Descriptor
  <2> QED
    BY <2>3, FS_EmptySet
<1>6. FilesOK(fl, of)
  BY <1>2, <1>3, <1>4, <1>5 DEF FilesOK
<1>7. ASSUME NEW s \in Slot PROVE InFile(fl, s) = 0
  <2>1. {f \in File : fl[f].count > 0 /\ fl[f].inode = s} = {}
    BY <1>2
  <2> QED
    BY <2>1, FS_EmptySet DEF InFile
<1> QED
  BY <1>6, <1>7

LEMMA FirstDir ==
  ASSUME NEW cd, cd = [p \in Proc |-> IF p = 1 THEN RootSlot ELSE 0], NEW s \in Slot
  PROVE  InDir(cd, s) = IF s = RootSlot THEN 1 ELSE 0
<1>1. 1 \in Proc
  BY InodesAssumption DEF Proc
<1>2. CASE s = RootSlot
  <2>1. RootSlot # 0
    BY DEF RootSlot
  <2>2. {p \in Proc : cd[p] = s} = {1}
    BY <1>1, <1>2, <2>1
  <2> QED
    BY <1>2, <2>2, FS_Singleton DEF InDir
<1>3. CASE s # RootSlot
  <2>1. {p \in Proc : cd[p] = s} = {}
    BY <1>3, SlotNat
  <2> QED
    BY <1>3, <2>1, FS_EmptySet DEF InDir
<1> QED
  BY <1>2, <1>3

LEMMA FirstTables ==
  ASSUME Init
  PROVE  /\ Sound(k) /\ k.jam = FALSE /\ k.stranded = {}
         /\ \A s \in Slot : /\ ~Lck(k, s) /\ Fixed(k, s) = (IF s = RootSlot THEN 1 ELSE 0)
                            /\ k.skew[s] = 0
                            /\ Cnt(k, s) = IF s = RootSlot THEN 2 ELSE 0
<1>1. PICK gone : gone = Ascending({FileIno(i) : i \in Removed})
  OBVIOUS
<1>2. PICK co : co = [s \in Slot |->
            IF s = RootSlot
            THEN [EmptySlot EXCEPT !.ino = Root, !.count = 2, !.mode = "dir",
                                   !.nlink = MkfsInode(Root).nlink]
            ELSE EmptySlot]
  OBVIOUS
<1>3. PICK di : di = [n \in Ino |-> MkfsInode(n)]
  OBVIOUS
<1>4. PICK dr : dr = [n \in Ino |-> MkfsDir(n)]
  OBVIOUS
<1>5. PICK si : si = SubSeq(gone, 1, Min({Len(gone), NICINOD}))
  OBVIOUS
<1>6. PICK tx : tx = <<>>
  OBVIOUS
<1>7. PICK wa : wa = [p \in Proc |-> 0]
  OBVIOUS
<1>8. PICK sk : sk = [s \in Slot |-> 0]
  OBVIOUS
<1>9. k = [core |-> co, disk |-> di, dir |-> dr, sinode |-> si, wait |-> wa,
           skew |-> sk, text |-> tx, stranded |-> {}, forgotten |-> {},
           jam |-> FALSE, short |-> {}]
  BY <1>1, <1>2, <1>3, <1>4, <1>5, <1>6, <1>7, <1>8, Zenon DEF Init
<1>10. co \in [Slot -> CoreInodes] /\ di \in [Ino -> [mode : Modes, nlink : Int]]
       /\ dr \in [Ino -> Seq(Entries)]
  <2>1. PICK l : l = MkfsInode(Root).nlink
    OBVIOUS
  <2>2. l \in Int
    BY <2>1, RamdiskSizes, MkfsInodeType
  <2>3. Root \in Ino
    BY RamdiskSizes
  <2>4. EmptySlot \in CoreInodes
    BY DEF EmptySlot, CoreInodes, Modes
  <2>5. PICK r : r = [EmptySlot EXCEPT !.ino = Root, !.count = 2, !.mode = "dir", !.nlink = l]
    OBVIOUS
  <2>6. r \in CoreInodes
    <3>1. "dir" \in Modes /\ 2 \in Int
      BY DEF Modes
    <3> QED
      BY <2>2, <2>3, <2>4, <2>5, <3>1 DEF CoreInodes
  <2>7. co = [s \in Slot |-> IF s = RootSlot THEN r ELSE EmptySlot]
    BY <1>2, <2>1, <2>5
  <2>8. co \in [Slot -> CoreInodes]
    BY <2>4, <2>6, <2>7
  <2>9. di \in [Ino -> [mode : Modes, nlink : Int]]
    BY <1>3, MkfsInodeType
  <2>10. dr \in [Ino -> Seq(Entries)]
    BY <1>4, MkfsDirType
  <2> QED
    BY <2>8, <2>9, <2>10
<1>11. si \in Seq(Ino) /\ Len(si) <= NICINOD
  <2>1. PICK S : S = {FileIno(i) : i \in Removed}
    OBVIOUS
  <2>2. S \in SUBSET Ino /\ NICINOD \in Nat
    BY <2>1, RamdiskSizes, NamesAssumption, InodesAssumption
  <2>3. si = SubSeq(Ascending(S), 1, Min({Len(Ascending(S)), NICINOD}))
    BY <1>1, <1>5, <2>1
  <2>4. si \in Seq(S) /\ Len(si) <= NICINOD
    BY <2>2, <2>3, FirstOnes
  <2> QED
    BY <2>2, <2>4
<1>12. tx \in Seq(Slot) /\ Len(tx) = 0 /\ ToSet(tx) = {}
  BY <1>6 DEF ToSet
<1>13. wa \in [Proc -> Slot \cup {0}] /\ sk \in [Slot -> Int]
  BY <1>7, <1>8
<1>14. k \in InodeTables
  <2>1. {} \in SUBSET Slot /\ {} \in SUBSET Proc /\ {} \in SUBSET (Ino \cup {0})
        /\ FALSE \in BOOLEAN
    OBVIOUS
  <2> QED
    BY <1>9, <1>10, <1>11, <1>12, <1>13, <2>1 DEF InodeTables
<1>15. /\ k.core = co /\ k.sinode = si /\ k.wait = wa /\ k.skew = sk /\ k.text = tx
       /\ k.stranded = {} /\ k.jam = FALSE
  BY <1>9
<1>16. ASSUME NEW s \in Slot
       PROVE  /\ co[s].count = IF s = RootSlot THEN 2 ELSE 0
              /\ co[s].ino = IF s = RootSlot THEN 1 ELSE 0
              /\ co[s].lock = FALSE
  BY <1>2 DEF EmptySlot, Root
<1>17. Fits(k)
  BY <1>11, <1>12, <1>15, InodesAssumption DEF Fits
<1>18. Vacant(k)
  <2>1. ASSUME NEW s \in Slot PROVE co[s].ino = 0 <=> co[s].count <= 0
    <3>1. CASE s = RootSlot
      <4>1. co[s].count = 2
        BY <1>16, <3>1
      <4>2. co[s].ino = 1
        BY <1>16, <3>1
      <4> QED
        BY <4>1, <4>2
    <3>2. CASE s # RootSlot
      <4>1. co[s].count = 0
        BY <1>16, <3>2
      <4>2. co[s].ino = 0
        BY <1>16, <3>2
      <4> QED
        BY <4>1, <4>2
    <3> QED
      BY <3>1, <3>2
  <2> QED
    BY <1>15, <2>1 DEF Vacant
<1>19. Single(k)
  BY <1>15, <1>16 DEF Single
<1>20. Wakes(k)
  BY <1>7, <1>15 DEF Wakes
<1>21. ASSUME NEW s \in Slot
       PROVE  Fixed(k, s) = IF s = RootSlot THEN 1 ELSE 0
  <2>1. ~Itext(k, s)
    BY <1>12, <1>15 DEF Itext
  <2> QED
    BY <2>1 DEF Fixed
<1>22. \A s \in Slot : k.skew[s] = 0 /\ ~Lck(k, s)
  BY <1>8, <1>15, <1>16 DEF Lck
<1>23. \A s \in Slot : Cnt(k, s) = IF s = RootSlot THEN 2 ELSE 0
  BY <1>15, <1>16 DEF Cnt
<1>24. Sound(k)
  BY <1>14, <1>17, <1>18, <1>19, <1>20 DEF Sound
<1> QED
  BY <1>15, <1>21, <1>22, <1>23, <1>24

LEMMA InitOK ==
  ASSUME Init
  PROVE  World(k, file, ofile, cdir, call, hung)
<1>1. /\ file = [f \in File |-> [count |-> 0, inode |-> 0]]
      /\ ofile = [p \in Proc |-> [fd \in Fd |-> 0]]
      /\ cdir = [p \in Proc |-> IF p = 1 THEN RootSlot ELSE 0]
      /\ call = Idle /\ hung = [p \in Proc |-> Idle]
  BY DEF Init
<1>2. FilesOK(file, ofile) /\ \A s \in Slot : InFile(file, s) = 0
  BY <1>1, FirstFiles
<1>3. cdir \in [Proc -> Slot \cup {0}]
  BY <1>1, InodesAssumption DEF RootSlot, Slot
<1>4. CallOK(k, call)
  BY <1>1, IdleOK
<1>5. \A p \in Proc : hung[p] = Idle
  BY <1>1
<1>6. HungOK(hung)
  BY <1>1, <1>5, IdleRecord DEF HungOK
<1>7. Callers(call, hung, cdir, ofile)
  BY <1>1, <1>5 DEF Callers
<1>8. ASSUME NEW s \in Slot
      PROVE  Cnt(k, s) = Owed(k, file, cdir, s) + HeldBy(call, s) + InHung(hung, s)
  <2>1. HeldBy(call, s) = 0
    BY <1>1, IdleHolds
  <2>2. InHung(hung, s) = 0
    BY <1>1, NobodyCounts
  <2>3. InDir(cdir, s) = IF s = RootSlot THEN 1 ELSE 0
    BY <1>1, FirstDir
  <2>4. InFile(file, s) = 0
    BY <1>2
  <2>5. /\ Fixed(k, s) = (IF s = RootSlot THEN 1 ELSE 0)
        /\ k.skew[s] = 0
        /\ Cnt(k, s) = IF s = RootSlot THEN 2 ELSE 0
    BY FirstTables
  <2>6. Owed(k, file, cdir, s) = IF s = RootSlot THEN 2 ELSE 0
    BY <2>3, <2>4, <2>5 DEF Owed
  <2> QED
    BY <2>1, <2>2, <2>5, <2>6
<1>9. Balanced(k, call, hung, file, cdir)
  BY <1>8 DEF Balanced
<1>10. Locks(k, call, hung)
  BY FirstTables DEF Locks
<1>11. Jams(k, hung)
  BY <1>5, FirstTables DEF Jams
<1> QED
  BY <1>2, <1>3, <1>4, <1>6, <1>7, <1>9, <1>10, <1>11, FirstTables DEF World

-----------------------------------------------------------------------------
(* The inductive invariant holds throughout: every call, from its start    *)
(* through the waits and errors on its way, leaves the tables, files,      *)
(* directories, references and locks as World describes them.              *)
THEOREM NamesInvariant == Spec => []Inv
<1>1. Init => Inv
  BY InitOK DEF Inv
<1>2. Inv /\ [Next]_vars => Inv'
  <2>1. SUFFICES ASSUME Inv, [Next]_vars PROVE Inv'
    OBVIOUS
  <2>2. CASE Next
    <3>1. World(k', file', ofile', cdir', call', hung')
      BY <2>1, <2>2, NextStep
    <3> QED
      BY <3>1 DEF Inv
  <2>3. CASE UNCHANGED vars
    <3>1. /\ k' = k /\ file' = file /\ ofile' = ofile /\ cdir' = cdir
          /\ call' = call /\ hung' = hung
      BY <2>3 DEF vars
    <3>2. World(k', file', ofile', cdir', call', hung')
      BY <2>1, <3>1 DEF Inv
    <3> QED
      BY <3>2 DEF Inv
  <2> QED
    BY <2>1, <2>2, <2>3
<1> QED
  BY <1>1, <1>2, PTL DEF Spec

(* Every table keeps its type and its size: s_inode never exceeds NICINOD, *)
(* the text table NTEXT, nor a file's count the descriptors there are      *)
(* (ialloc, xalloc, falloc and the handlers of sys.c).                     *)
THEOREM NamesTypeOK == Spec => []TypeOK
<1>1. Inv => TypeOK
  <2>1. SUFFICES ASSUME Inv PROVE TypeOK
    OBVIOUS
  <2>2. /\ Sound(k) /\ FilesOK(file, ofile) /\ cdir \in [Proc -> Slot \cup {0}]
        /\ CallOK(k, call) /\ HungOK(hung)
    BY <2>1 DEF Inv, World
  <2>3. k \in InodeTables /\ Len(k.sinode) <= NICINOD /\ Len(k.text) <= NTEXT
    BY <2>2 DEF Sound, Fits
  <2>4. /\ file \in [File -> [count : Nat, inode : Slot \cup {0}]]
        /\ ofile \in [Proc -> [Fd -> File \cup {0}]]
        /\ \A f \in File : file[f].count = Cardinality(Descriptor(ofile, f))
    BY <2>2 DEF FilesOK
  <2>5. ASSUME NEW f \in File
        PROVE  file[f] \in [count : 0..NPROC * NOFILE, inode : Slot \cup {0}]
    <3>1. Descriptor(ofile, f) \in SUBSET (Proc \X Fd)
      BY DEF Descriptor
    <3>2. Cardinality(Descriptor(ofile, f)) <= NPROC * NOFILE
      BY <3>1, Finite, FS_Subset
    <3>3. file[f].count \in Nat /\ file[f].count <= NPROC * NOFILE
      BY <2>4, <3>2
    <3>4. NPROC * NOFILE \in Nat
      BY InodesAssumption, NamesAssumption
    <3>5. file[f].count \in 0..NPROC * NOFILE
      BY <3>3, <3>4
    <3>6. PICK N : N = 0..NPROC * NOFILE
      OBVIOUS
    <3>7. file[f].count \in N /\ file[f] \in [count : Nat, inode : Slot \cup {0}]
      BY <2>4, <3>5, <3>6
    <3>8. file[f] \in [count : N, inode : Slot \cup {0}]
      BY <3>7
    <3> QED
      BY <3>6, <3>8
  <2>6. file \in [File -> [count : 0..NPROC * NOFILE, inode : Slot \cup {0}]]
    BY <2>4, <2>5
  <2>7. call \in CallRecords /\ hung \in [Proc -> CallRecords]
    BY <2>2 DEF CallOK, HungOK
  <2> QED
    BY <2>2, <2>3, <2>4, <2>6, <2>7 DEF TypeOK
<1> QED
  BY <1>1, NamesInvariant, PTL

(* f_count is the number of descriptors for the file in all processes,     *)
(* after any sequence of open, creat, dup, dup2, fork, close, exec and     *)
(* exit (fs/fio.c).                                                        *)
THEOREM NamesFilesCounted == Spec => []FilesCounted
<1>1. Inv => FilesCounted
  BY DEF Inv, World, FilesOK, FilesCounted, Descriptor
<1> QED
  BY <1>1, NamesInvariant, PTL

(* i_count is the number of references that are held, up to those that the *)
(* errors of maknode and mkdir leave or take (skew), and an inode is in    *)
(* core once: on every path through namei, iget, iput and the handlers.    *)
THEOREM NamesInodesCounted == Spec => []InodesCounted
<1>1. Inv => InodesCounted
  <2>1. SUFFICES ASSUME Inv PROVE InodesCounted
    OBVIOUS
  <2>2. Sound(k) /\ Balanced(k, call, hung, file, cdir)
    BY <2>1 DEF Inv, World
  <2>3. ASSUME NEW s \in Slot PROVE k.core[s].count = Refs(s) + k.skew[s]
    <3>1. Cnt(k, s) = Owed(k, file, cdir, s) + HeldBy(call, s) + InHung(hung, s)
      BY <2>2 DEF Balanced
    <3>2. Refs(s) = (IF s = RootSlot THEN 1 ELSE 0) + (IF Itext(k, s) THEN 1 ELSE 0)
                    + InDir(cdir, s) + InFile(file, s) + HeldBy(call, s) + InHung(hung, s)
      BY DEF Refs, InDir, InFile, InHung
    <3>3. /\ InDir(cdir, s) \in Nat /\ InFile(file, s) \in Nat /\ InHung(hung, s) \in Nat
          /\ HeldBy(call, s) \in Nat /\ k.skew[s] \in Int /\ Fixed(k, s) \in Int
      BY <2>2, HoldersNat, HeldNat, NetInt
    <3>4. Refs(s) = Fixed(k, s) + InDir(cdir, s) + InFile(file, s) + HeldBy(call, s)
                    + InHung(hung, s)
      BY <3>2 DEF Fixed
    <3>5. Cnt(k, s) = Refs(s) + k.skew[s]
      BY <3>1, <3>3, <3>4 DEF Owed
    <3> QED
      BY <3>5 DEF Cnt
  <2> QED
    BY <2>2, <2>3 DEF InodesCounted, Sound, Single
<1> QED
  BY <1>1, NamesInvariant, PTL

(* A locked inode has a call that will unlock it, or was left locked by a  *)
(* failed maknode; and a sleeper that iput did not forget will be woken:   *)
(* iget, prele and the i_flag stores of fs/iget.c.                         *)
THEOREM NamesLocksReleased == Spec => []LocksReleased
<1>1. Inv => LocksReleased
  BY DEF Inv, World, Locks, Lck, Sound, Wakes, LocksReleased
<1> QED
  BY <1>1, NamesInvariant, PTL

(* No call waits in iget before a failed maknode has left a directory      *)
(* locked or a call has met a lock of its own: neither namei's descent,    *)
(* nor getcwd's climb, nor link's two lookups blocks another call.         *)
THEOREM NamesWaitsOnlyJammed == Spec => []WaitsOnlyJammed
<1>1. Inv => WaitsOnlyJammed
  BY DEF Inv, World, Jams, WaitsOnlyJammed
<1> QED
  BY <1>1, NamesInvariant, PTL
=============================================================================
