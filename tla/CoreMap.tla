------------------------------- MODULE CoreMap -------------------------------
(***************************************************************************)
(* The core allocator: malloc and mfree of kernel/malloc.c on coremap, an  *)
(* array of (m_addr, m_size) entries in address order that ends with an    *)
(* entry of size 0, driven by its callers newproc, expand (from exec) and  *)
(* wait/waitpid.  None of them sleeps, so each is one step.                *)
(***************************************************************************)
EXTENDS Integers, FiniteSets

CONSTANTS
  Proc, InitProc, NoSeg, Start, MemSize, USIZE,
  ExecSizes,   (* bound: the image sizes exec asks for                     *)
  NMAP         (* entries of coremap: CMAPSIZ words, two to an entry       *)

ASSUME CoreAssumption ==
  /\ InitProc \in Proc
  /\ Start \in Nat \ {0} /\ USIZE \in Nat \ {0}
  /\ MemSize \in Nat /\ USIZE < MemSize
  /\ ExecSizes \subseteq {n \in Nat : n > USIZE}
  /\ NMAP \in Nat \ {0, 1}
  /\ NoSeg \notin [addr : Nat, size : Nat]

VARIABLES
  coremap,     (* the array                                                *)
  seg,         (* p_addr, p_size of each process that has an image         *)
  execing,     (* processes between exec's two calls of expand             *)
  leaks        (* history: runs dropped by expand and never given back     *)

vars == <<coremap, seg, execing, leaks>>

Slots   == 1..NMAP
Entry   == [addr : Nat, size : Nat]
Nothing == [addr |-> 0, size |-> 0]

Clicks(a, n) == a..(a + n - 1)
FreeIn(m)    == UNION {Clicks(m[i].addr, m[i].size) : i \in Slots}
FreeClicks   == FreeIn(coremap)
LiveProcs    == {p \in Proc : seg[p] # NoSeg}
LostClicks   == UNION {Clicks(l.addr, l.size) : l \in leaks}

-----------------------------------------------------------------------------
(* The entries from k on move down by one, the terminator included.        *)
Delete(m, k) ==
  [i \in Slots |-> IF i < k THEN m[i]
                   ELSE IF i = NMAP THEN Nothing ELSE m[i + 1]]

(* The entries from k on move up by one.                                   *)
Insert(m, k, e) ==
  [i \in Slots |-> IF i < k THEN m[i] ELSE IF i = k THEN e ELSE m[i - 1]]

(* Mutant: the test for a large enough entry is off by one.                *)
FirstFitShort(m, n, k) ==
  /\ m[k].size # 0 /\ m[k].size >= n - 1
  /\ \A i \in Slots : i < k => m[i].size # 0 /\ m[i].size < n

(* malloc's loop stops at entry k, the first that is large enough.         *)
FirstFit(m, n, k) ==
  /\ m[k].size # 0 /\ m[k].size >= n
  /\ \A i \in Slots : i < k => m[i].size # 0 /\ m[i].size < n

NoFit(m, n) == \A k \in Slots : ~FirstFit(m, n, k)

(* Mutant: an entry that is only partly used keeps its address.            *)
MallocKeepsBase(m, n, k) ==
  IF m[k].size = n
  THEN Delete(m, k)
  ELSE [m EXCEPT ![k] = [addr |-> m[k].addr, size |-> m[k].size - n]]

(* malloc takes n clicks from the front of entry k.                        *)
Malloc(m, n, k) ==
  IF m[k].size = n
  THEN Delete(m, k)
  ELSE [m EXCEPT ![k] = [addr |-> m[k].addr + n, size |-> m[k].size - n]]

(* mfree's loop stops at entry k, the first one beyond the address.        *)
FreeSlot(m, a, k) ==
  /\ m[k].addr > a \/ m[k].size = 0
  /\ \A i \in Slots : i < k => m[i].addr <= a /\ m[i].size # 0

(* The run at a begins where the entry before slot k ends.                 *)
JoinsPrev(m, a, k) == k > 1 /\ m[k - 1].addr + m[k - 1].size = a

(* Mutant: a run is not joined with the entry after it.                    *)
MfreeNoNext(m, n, a, k) ==
  IF JoinsPrev(m, a, k)
  THEN [m EXCEPT ![k - 1] = [addr |-> m[k - 1].addr, size |-> m[k - 1].size + n]]
  ELSE Insert(m, k, [addr |-> a, size |-> n])

(* mfree joins n clicks at a with the entry before, the entry after, both, *)
(* or makes a new entry.                                                   *)
Mfree(m, n, a, k) ==
  IF JoinsPrev(m, a, k)
  THEN IF a + n = m[k].addr
       THEN Delete([m EXCEPT ![k - 1] = [addr |-> m[k - 1].addr,
                                 size |-> m[k - 1].size + n + m[k].size]], k)
       ELSE [m EXCEPT ![k - 1] = [addr |-> m[k - 1].addr,
                                  size |-> m[k - 1].size + n]]
  ELSE IF a + n = m[k].addr /\ m[k].size # 0
       THEN [m EXCEPT ![k] = [addr |-> a, size |-> m[k].size + n]]
       ELSE Insert(m, k, [addr |-> a, size |-> n])

(* mfree does not look at the size of the array.  The model stops where it *)
(* would overwrite the last terminator.                                     *)
MapHasRoom(m) == m[NMAP - 1].size = 0

-----------------------------------------------------------------------------
(* kmain frees all of memory into an empty map; newproc in proc0_main then *)
(* takes the u-area of the first process.                                  *)
Init ==
  /\ coremap = [i \in Slots |->
                  IF i = 1 THEN [addr |-> Start + USIZE, size |-> MemSize - USIZE]
                           ELSE Nothing]
  /\ seg = [p \in Proc |-> IF p = InitProc THEN [addr |-> Start, size |-> USIZE]
                                           ELSE NoSeg]
  /\ execing = {}
  /\ leaks = {}

(* newproc: the child's image is as large as the parent's; on failure it   *)
(* has none.                                                               *)
Newproc(p, q) ==
  /\ seg[p] # NoSeg /\ seg[q] = NoSeg /\ p \notin execing
  /\ \/ \E k \in Slots :
          /\ FirstFit(coremap, seg[p].size, k)
          /\ coremap' = Malloc(coremap, seg[p].size, k)
          /\ seg' = [seg EXCEPT ![q] = [addr |-> coremap[k].addr,
                                        size |-> seg[p].size]]
     \/ /\ NoFit(coremap, seg[p].size)
        /\ UNCHANGED <<coremap, seg>>
  /\ UNCHANGED <<execing, leaks>>

(* exec calls expand(USIZE), which shrinks the image without giving any of *)
(* it back.                                                                *)
Shrunk(p) ==
  IF seg[p].size = USIZE THEN {}
  ELSE {[addr |-> seg[p].addr + USIZE, size |-> seg[p].size - USIZE]}

Contract(p) ==
  /\ seg[p] # NoSeg /\ p \notin execing
  /\ leaks' = leaks \cup Shrunk(p)
  /\ seg' = [seg EXCEPT ![p] = [addr |-> seg[p].addr, size |-> USIZE]]
  /\ execing' = execing \cup {p}
  /\ UNCHANGED coremap

(* Mutant: p_size is set before the old image is freed.                    *)
ExpandFreesNewSize(p, n) ==
  /\ p \in execing
  /\ \E k, j \in Slots :
       /\ FirstFit(coremap, n, k)
       /\ LET m == Malloc(coremap, n, k)
          IN /\ FreeSlot(m, seg[p].addr, j) /\ MapHasRoom(m)
             /\ coremap' = Mfree(m, n, seg[p].addr, j)
       /\ seg' = [seg EXCEPT ![p] = [addr |-> coremap[k].addr, size |-> n]]
  /\ execing' = execing \ {p}
  /\ UNCHANGED leaks

(* exec then calls expand(n), possibly after sleeping in xalloc: it takes a *)
(* new image and frees the u-area left of the old one, or fails.           *)
Expand(p, n) ==
  /\ p \in execing
  /\ \/ \E k, j \in Slots :
          /\ FirstFit(coremap, n, k)
          /\ LET m == Malloc(coremap, n, k)
             IN /\ FreeSlot(m, seg[p].addr, j) /\ MapHasRoom(m)
                /\ coremap' = Mfree(m, seg[p].size, seg[p].addr, j)
          /\ seg' = [seg EXCEPT ![p] = [addr |-> coremap[k].addr, size |-> n]]
     \/ /\ NoFit(coremap, n)
        /\ UNCHANGED <<coremap, seg>>
  /\ execing' = execing \ {p}
  /\ UNCHANGED leaks

(* syswait and sys_waitpid give back the image of a zombie child.          *)
Wait(p) ==
  /\ p # InitProc /\ seg[p] # NoSeg /\ p \notin execing
  /\ \E k \in Slots :
       /\ FreeSlot(coremap, seg[p].addr, k) /\ MapHasRoom(coremap)
       /\ coremap' = Mfree(coremap, seg[p].size, seg[p].addr, k)
  /\ seg' = [seg EXCEPT ![p] = NoSeg]
  /\ UNCHANGED <<execing, leaks>>

Next ==
  \/ \E p, q \in Proc : Newproc(p, q)
  \/ \E p \in Proc : Contract(p) \/ Wait(p)
  \/ \E p \in Proc, n \in ExecSizes : Expand(p, n)

Spec == Init /\ [][Next]_vars

-----------------------------------------------------------------------------
TypeOK ==
  /\ coremap \in [Slots -> Entry]
  /\ seg \in [Proc -> Entry \cup {NoSeg}]
  /\ execing \subseteq LiveProcs
  /\ leaks \subseteq Entry

(* The shape of a map: the entries in use come first, in address order,    *)
(* and never touch.                                                        *)
Ordered(m) ==
  \A i, j \in Slots :
    i < j /\ m[j].size # 0 =>
      m[i].size # 0 /\ m[i].addr + m[i].size < m[j].addr

(* malloc's first fit and mfree's search rely on the shape of the map, and *)
(* keep it: mfree has joined whatever could be joined.                     *)
MapOrdered == Ordered(coremap)

(* No click is handed out twice and none vanishes: every click above the   *)
(* kernel is free, part of one image, or was dropped by expand.            *)
Accounted ==
  /\ \A p, q \in LiveProcs : p # q =>
       Clicks(seg[p].addr, seg[p].size) \cap Clicks(seg[q].addr, seg[q].size) = {}
  /\ \A p \in LiveProcs :
       Clicks(seg[p].addr, seg[p].size) \cap (FreeClicks \cup LostClicks) = {}
  /\ FreeClicks \cap LostClicks = {}
  /\ FreeClicks \cup LostClicks
       \cup UNION {Clicks(seg[p].addr, seg[p].size) : p \in LiveProcs}
     = Clicks(Start, MemSize)

(* The allocator implements the set of free clicks of CoreSpace.           *)
Space == INSTANCE CoreSpace WITH free <- FreeClicks, lost <- LostClicks

SpaceRefined == Space!SpaceSpec
=============================================================================
