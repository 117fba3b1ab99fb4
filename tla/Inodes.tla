------------------------------- MODULE Inodes -------------------------------
(***************************************************************************)
(* The tables below the calls on names: the inodes in core (fs/iget.c),    *)
(* the inodes on disk, the free inode numbers of the superblock            *)
(* (fs/alloc.c) and the contents of directories.  An operator named after  *)
(* a C function takes the tables k before the call to those after it.      *)
(*                                                                         *)
(* A directory is a sequence of entries as long as its i_size says.  Of an *)
(* inode only its type and link count are kept; one device is modelled and *)
(* its transfers succeed.                                                  *)
(***************************************************************************)
EXTENDS Integers, Sequences, FiniteSets, SequencesExt, FiniteSetsExt

CONSTANTS
  NPROC,      (* number of processes                                       *)
  NINO,       (* inodes on the device                                      *)
  NINODE,     (* slots for inodes in core                                  *)
  NICINOD,    (* free inode numbers kept in the superblock                 *)
  NTEXT       (* slots for shared texts                                    *)

ASSUME InodesAssumption ==
  /\ NPROC \in Nat \ {0} /\ NINO \in Nat \ {0}
  /\ NINODE \in Nat \ {0} /\ NICINOD \in Nat \ {0} /\ NTEXT \in Nat

Proc == 1..NPROC
Ino  == 1..NINO
Slot == 1..NINODE

Root  == 1                                    (* ROOTINO                   *)
Modes == {"free", "reg", "dir", "dev"}        (* "free" is i_mode = 0      *)

(* The names in directories, those the kernel itself writes among them.    *)
EntryName == STRING \cup {"", ".", ".."}

Entries   == [name : EntryName, ino : Ino \cup {0}]
Empty     == [name |-> "", ino |-> 0]         (* a free directory entry    *)
EmptySlot == [ino |-> 0, count |-> 0, lock |-> FALSE, want |-> FALSE,
              upd |-> FALSE, acc |-> FALSE, mode |-> "free", nlink |-> 0]

CoreInodes == [ino : Ino \cup {0}, count : Int, lock : BOOLEAN, want : BOOLEAN,
               upd : BOOLEAN, acc : BOOLEAN, mode : Modes, nlink : Int]

(* The tables: inodes in core and on disk, contents of directories, the    *)
(* superblock's s_inode, the slot each process sleeps for, and the texts.  *)
(* The others only record what happened: references that a call left       *)
(* behind or released twice (skew), directories left locked (stranded),    *)
(* sleepers that nobody will wake (forgotten), that calls may have to wait *)
(* (jam), and inodes with a link lost (short).                             *)
InodeTables ==
  [core : [Slot -> CoreInodes],
   disk : [Ino -> [mode : Modes, nlink : Int]],
   dir  : [Ino -> Seq(Entries)],
   sinode : Seq(Ino),
   wait : [Proc -> Slot \cup {0}],
   text : Seq(Slot),
   skew : [Slot -> Int], stranded : SUBSET Slot, forgotten : SUBSET Proc,
   jam : BOOLEAN, short : SUBSET (Ino \cup {0})]

-----------------------------------------------------------------------------
InCore(k, n) == {s \in Slot : k.core[s].ino = n}

(* The type of inode n now: in core if it is there, else on disk.          *)
ModeOf(k, n) ==
  IF InCore(k, n) = {} THEN k.disk[n].mode
  ELSE k.core[Min(InCore(k, n))].mode

Sleepers(k, s) == {p \in Proc : k.wait[p] = s}

(* Mutant: a process that waits for the inode is not woken.                *)
PreleSilent(k, s) ==
  [k EXCEPT !.core[s].lock = FALSE, !.core[s].want = FALSE,
            !.stranded = @ \ {s}]

(* prele wakes the processes that sleep on the inode, if IWANT says there  *)
(* are any.                                                                *)
Prele(k, s) ==
  LET woken == IF k.core[s].want THEN Sleepers(k, s) ELSE {}
  IN [k EXCEPT !.core[s].lock = FALSE, !.core[s].want = FALSE,
               !.wait = [p \in Proc |-> IF p \in woken THEN 0 ELSE k.wait[p]],
               !.forgotten = @ \ woken,
               !.stranded = @ \ {s}]

(* iget, iput and ialloc store i_flag as a whole, and IWANT goes with it:  *)
(* nobody will wake the processes that sleep on the slot.                  *)
Forget(k, s) == [k EXCEPT !.forgotten = @ \cup Sleepers(k, s)]

Iupdat(k, s) ==
  LET c == k.core[s]
  IN IF c.upd \/ c.acc
     THEN [k EXCEPT !.disk[c.ino] = [mode |-> c.mode, nlink |-> c.nlink]]
     ELSE k

(* Mutant: the number is kept even when the list is full.                  *)
IfreeAlways(k, n) == [k EXCEPT !.sinode = Append(@, n)]

Ifree(k, n) ==
  IF Len(k.sinode) >= NICINOD THEN k
  ELSE [k EXCEPT !.sinode = Append(@, n)]

Itrunc(k, s) ==
  IF k.core[s].mode = "dev" THEN k
  ELSE [k EXCEPT !.core[s].upd = TRUE, !.dir[k.core[s].ino] = <<>>]

(* An inode without links is freed with its last reference.                *)
Deallocate(k, s) ==
  IF k.core[s].nlink <= 0
  THEN Ifree([Itrunc(k, s) EXCEPT !.core[s].mode = "free"], k.core[s].ino)
  ELSE k

Vacate(k, s) ==
  [Forget(k, s) EXCEPT !.core[s] = EmptySlot, !.stranded = @ \ {s}]

(* d more references to the inode in slot s.                               *)
AddRef(k, s, d) == [k EXCEPT !.core[s].count = @ + d]

(* iput: the last reference also writes the inode out and gives its slot   *)
(* up.                                                                     *)
Iput(k, s) ==
  IF k.core[s].count = 1 THEN Vacate(Iupdat(Deallocate(k, s), s), s)
  ELSE Prele(AddRef(k, s, -1), s)

(* The slot in which iget finds or puts inode n: 0 if the table is full.   *)
IgetSlot(k, n) ==
  LET vacant == {s \in Slot : k.core[s].count = 0}
  IN IF InCore(k, n) # {} THEN Min(InCore(k, n))
     ELSE IF vacant # {} THEN Min(vacant) ELSE 0

(* iget once its slot is not locked by another.                            *)
Iget(k, n) ==
  LET s == IgetSlot(k, n)
  IN IF k.core[s].ino = n
     THEN [AddRef(k, s, 1) EXCEPT !.core[s].lock = TRUE]
     ELSE [Forget(k, s) EXCEPT !.core[s] =
            [ino |-> n, count |-> 1, lock |-> TRUE, want |-> FALSE,
             upd |-> FALSE, acc |-> FALSE, mode |-> k.disk[n].mode,
             nlink |-> k.disk[n].nlink]]

(* xalloc: a new text keeps a reference to its inode and sets ITEXT.  No   *)
(* process ever gives the text back, as exec does not store the pointer it *)
(* gets in p_textp.                                                        *)
Itext(k, s) == s \in ToSet(k.text)

Xalloc(k, s) ==
  IF Itext(k, s) \/ Len(k.text) >= NTEXT THEN k
  ELSE [AddRef(k, s, 1) EXCEPT !.text = Append(@, s)]

-----------------------------------------------------------------------------
(* The numbers of a set in ascending order.                                *)
Ascending(S) ==
  CHOOSE q \in [1..Cardinality(S) -> S] :
     \A i, j \in DOMAIN q : i < j => q[i] < q[j]

(* ialloc's search of the i-list for up to NICINOD numbers.                *)
Search(k) ==
  LET found == Ascending({n \in Ino : /\ k.disk[n].mode = "free"
                                      /\ InCore(k, n) = {}})
  IN SubSeq(found, 1, Min({Len(found), NICINOD}))

(* A core inode as ialloc leaves it: no flag is set.                       *)
Cleared(c) ==
  [ino |-> c.ino, count |-> c.count, lock |-> FALSE, want |-> FALSE,
   upd |-> FALSE, acc |-> FALSE, mode |-> c.mode, nlink |-> 0]

Clear(k, s) == [Forget(k, s) EXCEPT !.core[s] = Cleared(@)]

(* ialloc takes the last number of the superblock's list that is free, and *)
(* searches when there is none.  The inode it returns is not locked.  s is *)
(* 0 when there is no inode or no slot.  A number on the list that is in   *)
(* use is skipped: the iget and iput by which the code learns its type,    *)
(* which may wait for a lock or find no slot, are left out.                *)
Ialloc(k) ==
  LET Usable(q) == {j \in DOMAIN q : ModeOf(k, q[j]) = "free"}
      q  == IF Usable(k.sinode) # {} THEN k.sinode ELSE Search(k)
      j  == Max(Usable(q))
      k1 == [k EXCEPT !.sinode = SubSeq(q, 1, j - 1)]
      s  == IgetSlot(k1, q[j])
  IN IF q = <<>> THEN [k |-> [k EXCEPT !.sinode = <<>>], s |-> 0]
     ELSE IF s = 0 THEN [k |-> k1, s |-> 0]
     ELSE [k |-> Clear(Iget(k1, q[j]), s), s |-> s]

-----------------------------------------------------------------------------
(* A core inode with a type and links, changed and used (IUPD and IACC).   *)
Made(c, mode, nlink) ==
  [ino |-> c.ino, count |-> c.count, lock |-> c.lock, want |-> c.want,
   upd |-> TRUE, acc |-> TRUE, mode |-> mode, nlink |-> nlink]

(* writei of one entry.  It does not enlarge a directory (IFDIR shares a   *)
(* bit with IFBLK | IFCHR), so an entry behind the end is never seen.      *)
WriteEntry(k, s, off, entry) ==
  [k EXCEPT !.core[s] = Made(@, @.mode, @.nlink),
            !.dir[k.core[s].ino] =
               IF off \in DOMAIN @ THEN [@ EXCEPT ![off] = entry] ELSE @]

(* wdir enters slot s under a name in u_pdir and releases u_pdir.          *)
Wdir(k, pd, off, name, s) ==
  Iput(WriteEntry(k, pd, off, [name |-> name, ino |-> k.core[s].ino]), pd)

(* Histories: the references to the inode in slot s are off by d; it stays *)
(* locked and referenced though no call has it.                            *)
Skew(k, s, d) == [k EXCEPT !.skew[s] = @ + d]
Strand(k, s)  == [Skew(k, s, 1) EXCEPT !.stranded = @ \cup {s}, !.jam = TRUE]

(* maknode.  When ialloc fails u_pdir stays locked and referenced.         *)
Maknode(k, pd, off, name, mode) ==
  LET a == Ialloc(k)
      c == [a.k EXCEPT !.core[a.s] = Made(@, mode, 1)]
  IN IF a.s = 0
     THEN [k |-> Strand(a.k, pd), s |-> 0]
     ELSE [k |-> Wdir(c, pd, off, name, a.s), s |-> a.s]

(* The first entry of directory n with a name, 0 if there is none.         *)
Find(k, n, name) ==
  LET hits == {i \in DOMAIN k.dir[n] : k.dir[n][i].ino # 0
                                       /\ k.dir[n][i].name = name}
  IN IF hits = {} THEN 0 ELSE Min(hits)

(* dir_empty: nothing but "." and "..".                                    *)
DirEmpty(k, n) ==
  \A i \in DOMAIN k.dir[n] :
     k.dir[n][i].ino = 0 \/ k.dir[n][i].name \in {".", ".."}

(* All the names of inode n in the directories.                            *)
NamesOf(k, n) ==
  {d \in UNION {{<<m, i>> : i \in DOMAIN k.dir[m]} : m \in Ino} :
     k.dir[d[1]][d[2]].ino = n}
=============================================================================
