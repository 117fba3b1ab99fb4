---------------------------- MODULE CoreMapProofs ----------------------------
(***************************************************************************)
(* Proofs about CoreMap for any number of processes, any amount of memory  *)
(* and any size of the array.  What malloc and mfree do to the free clicks *)
(* is proved first, for any map of the right shape; the invariants and the *)
(* refinement of CoreSpace follow from that by reasoning about sets.       *)
(***************************************************************************)
EXTENDS CoreMap, TLAPS

(* A map as malloc and mfree leave it: ordered, with a terminator at the   *)
(* end, whose unused entries are blank and whose used ones lie above 0.    *)
GoodMap(m) ==
  /\ m \in [Slots -> Entry]
  /\ Ordered(m)
  /\ m[NMAP].size = 0
  /\ \A i \in Slots : m[i].size = 0 <=> m[i].addr = 0

(* An image has at least the u-area, and just that between exec's two      *)
(* calls of expand; images and lost runs lie above the kernel.             *)
SizesOK ==
  /\ \A p \in LiveProcs : seg[p].size >= USIZE /\ seg[p].addr >= Start
  /\ \A p \in execing : seg[p].size = USIZE
  /\ \A l \in leaks : l.addr >= Start

IInv == TypeOK /\ GoodMap(coremap) /\ SizesOK /\ Accounted

-----------------------------------------------------------------------------
(* What the shape of a map says of two entries in use.                     *)
LEMMA EntriesApart ==
  ASSUME NEW m, GoodMap(m), NEW i \in Slots, NEW j \in Slots, i < j, m[j].size # 0
  PROVE  m[i].size # 0 /\ m[i].addr + m[i].size < m[j].addr
BY DEF GoodMap, Ordered

LEMMA EntryTypes ==
  ASSUME NEW m, GoodMap(m), NEW i \in Slots
  PROVE  /\ m[i] \in Entry /\ m[i].addr \in Nat /\ m[i].size \in Nat
         /\ m[i].size # 0 => m[i].addr > 0
BY DEF GoodMap, Entry

(* A click is free when some entry covers it.                              *)
LEMMA FreeInDef ==
  ASSUME NEW m \in [Slots -> Entry], NEW c
  PROVE  c \in FreeIn(m) <=>
           c \in Int /\ \E i \in Slots : m[i].addr <= c /\ c < m[i].addr + m[i].size
<1>1. ASSUME NEW i \in Slots
      PROVE  /\ m[i].addr \in Nat /\ m[i].size \in Nat
             /\ c \in Clicks(m[i].addr, m[i].size) <=>
                  c \in Int /\ m[i].addr <= c /\ c < m[i].addr + m[i].size
  BY DEF Entry, Clicks
<1> QED
  BY <1>1 DEF FreeIn

(* Different entries cover different clicks.                               *)
LEMMA EntriesDisjoint ==
  ASSUME NEW m, GoodMap(m), NEW i \in Slots, NEW j \in Slots, i # j, NEW c \in Int,
         m[i].addr <= c, c < m[i].addr + m[i].size
  PROVE  ~(m[j].addr <= c /\ c < m[j].addr + m[j].size)
<1>1. /\ m[i].addr \in Nat /\ m[i].size \in Nat /\ m[i].size # 0
      /\ m[j].addr \in Nat /\ m[j].size \in Nat
  BY EntryTypes
<1>2. CASE m[j].size = 0
  BY <1>1, <1>2
<1>3. CASE i < j /\ m[j].size # 0
  BY <1>1, <1>3, EntriesApart
<1>4. CASE j < i
  BY <1>1, <1>4, EntriesApart
<1> QED
  BY <1>2, <1>3, <1>4 DEF Slots

(* Deleting an entry moves those behind it down, and frees nothing else.   *)
LEMMA DeleteEntry ==
  ASSUME NEW m, GoodMap(m), NEW k \in Slots, m[k].size # 0
  PROVE  /\ GoodMap(Delete(m, k))
         /\ FreeIn(Delete(m, k)) = FreeIn(m) \ Clicks(m[k].addr, m[k].size)
<1> DEFINE w == Delete(m, k)
<1>0. NMAP \in Nat /\ NMAP > 1 /\ NMAP \in Slots /\ k \in 1..NMAP
  BY CoreAssumption DEF Slots
<1>1. m \in [Slots -> Entry] /\ m[NMAP].size = 0 /\ k < NMAP
  BY <1>0 DEF GoodMap
<1>2. /\ \A i \in Slots : i < k => w[i] = m[i]
      /\ \A i \in Slots : i >= k /\ i # NMAP => w[i] = m[i + 1] /\ i + 1 \in Slots
      /\ w[NMAP] = Nothing
  BY <1>0, <1>1 DEF Delete, Slots
<1>3. w \in [Slots -> Entry]
  <2>1. Nothing \in Entry
    BY DEF Nothing, Entry
  <2>2. \A i \in Slots : (IF i < k THEN m[i] ELSE IF i = NMAP THEN Nothing ELSE m[i + 1])
                           \in Entry
    BY <1>0, <1>1, <2>1 DEF Slots
  <2> QED
    BY <2>2 DEF Delete
<1> HIDE DEF w
<1>4. Ordered(w)
  <2> SUFFICES ASSUME NEW i \in Slots, NEW j \in Slots, i < j, w[j].size # 0
               PROVE  w[i].size # 0 /\ w[i].addr + w[i].size < w[j].addr
    BY DEF Ordered
  <2>1. j # NMAP /\ i # NMAP /\ i \in 1..NMAP /\ j \in 1..NMAP
    BY <1>0, <1>2 DEF Nothing, Slots
  <2>2. CASE j < k
    <3>1. w[i] = m[i] /\ w[j] = m[j]
      BY <1>0, <1>2, <2>1, <2>2
    <3> QED
      BY <3>1, EntriesApart
  <2>3. CASE i < k /\ k <= j
    <3>1. w[i] = m[i] /\ w[j] = m[j + 1] /\ j + 1 \in Slots /\ i < j + 1
      BY <1>0, <1>2, <2>1, <2>3
    <3> QED
      BY <3>1, EntriesApart
  <2>4. CASE k <= i
    <3>1. /\ w[i] = m[i + 1] /\ w[j] = m[j + 1] /\ i + 1 < j + 1
          /\ i + 1 \in Slots /\ j + 1 \in Slots
      BY <1>0, <1>2, <2>1, <2>4
    <3> QED
      BY <3>1, EntriesApart
  <2> QED
    BY <1>0, <2>1, <2>2, <2>3, <2>4
<1>5. w[NMAP].size = 0 /\ \A i \in Slots : w[i].size = 0 <=> w[i].addr = 0
  <2>1. w[NMAP].size = 0 /\ w[NMAP].addr = 0
    BY <1>2 DEF Nothing
  <2> QED
    BY <1>0, <1>2, <2>1 DEF GoodMap, Slots
<1>6. ASSUME NEW c
      PROVE  c \in FreeIn(w) <=> c \in FreeIn(m) /\ c \notin Clicks(m[k].addr, m[k].size)
  <2>1. c \in Clicks(m[k].addr, m[k].size) <=>
          c \in Int /\ m[k].addr <= c /\ c < m[k].addr + m[k].size
    BY EntryTypes DEF Clicks
  <2>2. ASSUME c \in FreeIn(w)
        PROVE  c \in FreeIn(m) /\ c \notin Clicks(m[k].addr, m[k].size)
    <3>1. PICK i \in Slots : c \in Int /\ w[i].addr <= c /\ c < w[i].addr + w[i].size
      BY <2>2, <1>3, FreeInDef
    <3>2. PICK j \in Slots : j # k /\ w[i] = m[j]
      <4>1. i # NMAP
        BY <1>2, <3>1 DEF Nothing
      <4> QED
        BY <4>1, <1>0, <1>2 DEF Slots
    <3>3. c \in FreeIn(m)
      BY <1>1, <3>1, <3>2, FreeInDef
    <3> QED
      BY <2>1, <3>1, <3>2, <3>3, EntriesDisjoint
  <2>3. ASSUME c \in FreeIn(m), c \notin Clicks(m[k].addr, m[k].size)
        PROVE  c \in FreeIn(w)
    <3>1. PICK i \in Slots : c \in Int /\ m[i].addr <= c /\ c < m[i].addr + m[i].size
      BY <1>1, <2>3, FreeInDef
    <3>2. PICK j \in Slots : w[j] = m[i]
      <4>1. i < k \/ (i > k /\ i - 1 \in Slots /\ i - 1 >= k /\ i - 1 # NMAP)
        BY <1>0, <2>1, <2>3, <3>1 DEF Slots
      <4>2. CASE i < k
        BY <4>2, <1>2
      <4>3. CASE i > k /\ i - 1 \in Slots /\ i - 1 >= k /\ i - 1 # NMAP
        <5>1. w[i - 1] = m[(i - 1) + 1] /\ (i - 1) + 1 = i
          BY <1>2, <4>3 DEF Slots
        <5> QED
          BY <4>3, <5>1
      <4> QED
        BY <4>1, <4>2, <4>3
    <3> QED
      BY <3>1, <3>2, <1>3, FreeInDef
  <2> QED
    BY <2>2, <2>3
<1>7. GoodMap(w)
  BY <1>3, <1>4, <1>5 DEF GoodMap
<1>8. FreeIn(w) = FreeIn(m) \ Clicks(m[k].addr, m[k].size)
  BY <1>6
<1> QED
  BY <1>7, <1>8 DEF w

(* An entry that shrinks or grows but stays between its neighbours.        *)
LEMMA ResizeEntry ==
  ASSUME NEW m, GoodMap(m), NEW k \in Slots, m[k].size # 0,
         NEW w \in [Slots -> Entry], \A i \in Slots : i # k => w[i] = m[i],
         w[k].addr > 0, w[k].size > 0,
         \A i \in Slots : i < k => m[i].addr + m[i].size < w[k].addr,
         \A i \in Slots : k < i /\ m[i].size # 0 =>
                             w[k].addr + w[k].size < m[i].addr
  PROVE  /\ GoodMap(w)
         /\ FreeIn(w) = (FreeIn(m) \ Clicks(m[k].addr, m[k].size))
                        \cup Clicks(w[k].addr, w[k].size)
<1>0. NMAP \in Nat /\ NMAP > 1 /\ NMAP \in Slots
  BY CoreAssumption DEF Slots
<1>1. m \in [Slots -> Entry] /\ m[NMAP].size = 0 /\ k # NMAP
  BY DEF GoodMap
<1>2. /\ w \in [Slots -> Entry]
      /\ w[k].addr \in Nat /\ w[k].size \in Nat /\ w[k].size # 0
      /\ \A i \in Slots : i # k => w[i] = m[i]
  BY <1>1 DEF Entry
<1> DEFINE a == w[k].addr
           n == w[k].size
<1>3. Ordered(w)
  <2> SUFFICES ASSUME NEW i \in Slots, NEW j \in Slots, i < j, w[j].size # 0
               PROVE  w[i].size # 0 /\ w[i].addr + w[i].size < w[j].addr
    BY DEF Ordered
  <2>1. CASE i # k /\ j # k
    BY <1>2, <2>1, EntriesApart
  <2>2. CASE j = k
    <3>1. i # k /\ w[i] = m[i]
      BY <1>2, <2>2 DEF Slots
    <3> QED
      BY <1>2, <2>2, <3>1, EntriesApart
  <2>3. CASE i = k
    <3>1. j # k /\ w[j] = m[j]
      BY <1>2, <2>3 DEF Slots
    <3> QED
      BY <1>2, <2>3, <3>1
  <2> QED
    BY <2>1, <2>2, <2>3
<1>4. w[NMAP].size = 0 /\ \A i \in Slots : w[i].size = 0 <=> w[i].addr = 0
  <2>1. \A i \in Slots : m[i].size = 0 <=> m[i].addr = 0
    BY DEF GoodMap
  <2> QED
    BY <1>0, <1>1, <1>2, <2>1
<1>5. ASSUME NEW c
      PROVE  c \in FreeIn(w) <=>
               (c \in FreeIn(m) /\ c \notin Clicks(m[k].addr, m[k].size)) \/ c \in Clicks(a, n)
  <2>1. /\ c \in Clicks(m[k].addr, m[k].size) <=>
             c \in Int /\ m[k].addr <= c /\ c < m[k].addr + m[k].size
        /\ c \in Clicks(a, n) <=> c \in Int /\ a <= c /\ c < a + n
    BY <1>2, EntryTypes DEF Clicks
  <2>2. c \in FreeIn(m) <=>
          c \in Int /\ \E i \in Slots : m[i].addr <= c /\ c < m[i].addr + m[i].size
    BY <1>1, FreeInDef
  <2>3. c \in FreeIn(w) <=>
          c \in Int /\ \E i \in Slots : w[i].addr <= c /\ c < w[i].addr + w[i].size
    BY <1>2, FreeInDef
  <2>4. ASSUME NEW i \in Slots, i # k, c \in Int,
               m[i].addr <= c, c < m[i].addr + m[i].size
        PROVE  ~(m[k].addr <= c /\ c < m[k].addr + m[k].size)
    BY <2>4, EntriesDisjoint
  <2> QED
    BY <1>2, <2>1, <2>2, <2>3, <2>4
<1> QED
  BY <1>2, <1>3, <1>4, <1>5 DEF GoodMap

(* malloc takes the first n clicks of the entry, all of them free, and     *)
(* nothing else; the map keeps its shape.                                  *)
LEMMA MallocTakes ==
  ASSUME NEW m, GoodMap(m), NEW n \in Nat, n > 0, NEW k \in Slots,
         FirstFit(m, n, k)
  PROVE  /\ GoodMap(Malloc(m, n, k))
         /\ m[k].addr \in Nat
         /\ Clicks(m[k].addr, n) \subseteq FreeIn(m)
         /\ FreeIn(Malloc(m, n, k)) = FreeIn(m) \ Clicks(m[k].addr, n)
<1>0. /\ m \in [Slots -> Entry] /\ m[k].size # 0 /\ m[k].addr # 0
      /\ m[k].addr \in Nat /\ m[k].size \in Nat /\ m[k].size >= n
  BY DEF FirstFit, Entry, GoodMap
<1>1. \A i \in Slots : m[i].addr \in Nat /\ m[i].size \in Nat
  BY DEF Entry, GoodMap
<1>2. Clicks(m[k].addr, n) \subseteq FreeIn(m)
  BY <1>0, FreeInDef DEF Clicks
<1>3. CASE m[k].size = n
  BY <1>0, <1>2, <1>3, DeleteEntry DEF Malloc
<1>4. CASE m[k].size # n
  <2> DEFINE w == Malloc(m, n, k)
  <2>1. w = [m EXCEPT ![k] = [addr |-> m[k].addr + n, size |-> m[k].size - n]]
    BY <1>4 DEF Malloc
  <2>2. /\ w \in [Slots -> Entry] /\ \A i \in Slots : i # k => w[i] = m[i]
        /\ w[k].addr = m[k].addr + n /\ w[k].size = m[k].size - n
    <3>1. [addr |-> m[k].addr + n, size |-> m[k].size - n] \in Entry
      BY <1>0 DEF Entry
    <3> QED
      BY <1>0, <2>1, <3>1
  <2> HIDE DEF w
  <2>3. w[k].addr > 0 /\ w[k].size > 0
    BY <1>0, <1>4, <2>2
  <2>4. ASSUME NEW i \in Slots, i < k PROVE m[i].addr + m[i].size < w[k].addr
    BY <1>0, <1>1, <2>2, <2>4, EntriesApart
  <2>5. ASSUME NEW i \in Slots, k < i, m[i].size # 0
        PROVE  w[k].addr + w[k].size < m[i].addr
    BY <1>0, <1>1, <2>2, <2>5, EntriesApart
  <2>6. /\ GoodMap(w)
        /\ FreeIn(w) = (FreeIn(m) \ Clicks(m[k].addr, m[k].size))
                       \cup Clicks(w[k].addr, w[k].size)
    BY <1>0, <2>2, <2>3, <2>4, <2>5, ResizeEntry
  <2>7. Clicks(w[k].addr, w[k].size)
          = Clicks(m[k].addr, m[k].size) \ Clicks(m[k].addr, n)
    BY <1>0, <2>2 DEF Clicks
  <2>8. Clicks(m[k].addr, m[k].size) \subseteq FreeIn(m)
    BY <1>0, FreeInDef DEF Clicks
  <2>9. Clicks(m[k].addr, n) \subseteq Clicks(m[k].addr, m[k].size)
    BY <1>0 DEF Clicks
  <2> QED
    BY <1>0, <1>2, <2>6, <2>7, <2>8, <2>9 DEF w
<1> QED
  BY <1>3, <1>4

(* Inserting an entry that touches no other moves those behind it up.      *)
LEMMA InsertEntry ==
  ASSUME NEW m, GoodMap(m), NEW k \in Slots, MapHasRoom(m),
         NEW a \in Nat, NEW n \in Nat, a > 0, n > 0,
         \A i \in Slots : i < k => m[i].size # 0 /\ m[i].addr + m[i].size < a,
         \A i \in Slots : k <= i /\ m[i].size # 0 => a + n < m[i].addr
  PROVE  /\ GoodMap(Insert(m, k, [addr |-> a, size |-> n]))
         /\ FreeIn(Insert(m, k, [addr |-> a, size |-> n])) = FreeIn(m) \cup Clicks(a, n)
<1> DEFINE e == [addr |-> a, size |-> n]
           w == Insert(m, k, e)
<1>0. /\ NMAP \in Nat /\ NMAP > 1 /\ NMAP \in Slots /\ NMAP - 1 \in Slots
      /\ k \in 1..NMAP
  BY CoreAssumption DEF Slots
<1>1. /\ m \in [Slots -> Entry] /\ m[NMAP].size = 0 /\ m[NMAP - 1].size = 0
      /\ k < NMAP
  BY <1>0 DEF GoodMap, MapHasRoom
<1>2. /\ \A i \in Slots : i < k => w[i] = m[i]
      /\ \A i \in Slots : i > k => w[i] = m[i - 1] /\ i - 1 \in Slots
      /\ w[k].addr = a /\ w[k].size = n
  BY <1>0, <1>1 DEF Insert, Slots
<1>3. w \in [Slots -> Entry]
  <2>1. e \in Entry
    BY DEF Entry
  <2>2. \A i \in Slots : (IF i < k THEN m[i] ELSE IF i = k THEN e ELSE m[i - 1])
                           \in Entry
    BY <1>0, <1>1, <2>1 DEF Slots
  <2> QED
    BY <2>2 DEF Insert
<1> HIDE DEF w
<1>4. Ordered(w)
  <2> SUFFICES ASSUME NEW i \in Slots, NEW j \in Slots, i < j, w[j].size # 0
               PROVE  w[i].size # 0 /\ w[i].addr + w[i].size < w[j].addr
    BY DEF Ordered
  <2>0. i \in 1..NMAP /\ j \in 1..NMAP
    BY DEF Slots
  <2>1. CASE j < k
    <3>1. w[i] = m[i] /\ w[j] = m[j]
      BY <1>0, <1>2, <2>0, <2>1
    <3> QED
      BY <3>1, EntriesApart
  <2>2. CASE j = k
    <3>1. w[i] = m[i] /\ i < k
      BY <1>2, <2>2
    <3> QED
      BY <1>2, <2>2, <3>1
  <2>3. CASE i < k /\ k < j
    <3>1. w[i] = m[i] /\ w[j] = m[j - 1] /\ j - 1 \in Slots /\ i < j - 1
      BY <1>0, <1>2, <2>0, <2>3
    <3> QED
      BY <3>1, EntriesApart
  <2>4. CASE i = k
    <3>1. w[j] = m[j - 1] /\ j - 1 \in Slots /\ k <= j - 1
      BY <1>0, <1>2, <2>0, <2>4
    <3> QED
      BY <1>2, <2>4, <3>1
  <2>5. CASE k < i
    <3>1. /\ w[i] = m[i - 1] /\ w[j] = m[j - 1] /\ i - 1 < j - 1
          /\ i - 1 \in Slots /\ j - 1 \in Slots
      BY <1>0, <1>2, <2>0, <2>5
    <3> QED
      BY <3>1, EntriesApart
  <2> QED
    BY <1>0, <2>0, <2>1, <2>2, <2>3, <2>4, <2>5
<1>5. w[NMAP].size = 0 /\ \A i \in Slots : w[i].size = 0 <=> w[i].addr = 0
  <2>1. w[NMAP] = m[NMAP - 1]
    BY <1>0, <1>1, <1>2
  <2>2. \A i \in Slots : m[i].size = 0 <=> m[i].addr = 0
    BY DEF GoodMap
  <2> QED
    BY <1>0, <1>1, <1>2, <2>1, <2>2 DEF Slots
<1>6. ASSUME NEW c
      PROVE  c \in FreeIn(w) <=> c \in FreeIn(m) \/ c \in Clicks(a, n)
  <2>1. c \in Clicks(a, n) <=> c \in Int /\ a <= c /\ c < a + n
    BY DEF Clicks
  <2>2. ASSUME c \in FreeIn(w)
        PROVE  c \in FreeIn(m) \/ c \in Clicks(a, n)
    <3>1. PICK i \in Slots : c \in Int /\ w[i].addr <= c /\ c < w[i].addr + w[i].size
      BY <2>2, <1>3, FreeInDef
    <3>2. CASE i = k
      BY <1>2, <2>1, <3>1, <3>2
    <3>3. CASE i # k
      <4>1. PICK j \in Slots : w[i] = m[j]
        BY <3>3, <1>0, <1>2 DEF Slots
      <4> QED
        BY <1>1, <3>1, <4>1, FreeInDef
    <3> QED
      BY <3>2, <3>3
  <2>3. ASSUME c \in FreeIn(m)
        PROVE  c \in FreeIn(w)
    <3>1. PICK i \in Slots : c \in Int /\ m[i].addr <= c /\ c < m[i].addr + m[i].size
      BY <1>1, <2>3, FreeInDef
    <3>2. i # NMAP
      <4>1. m[NMAP].addr \in Nat
        BY <1>0, EntryTypes
      <4> QED
        BY <1>1, <3>1, <4>1
    <3>3. PICK j \in Slots : w[j] = m[i]
      <4>1. CASE i < k
        BY <4>1, <1>2
      <4>2. CASE i >= k
        <5>1. w[i + 1] = m[(i + 1) - 1] /\ (i + 1) - 1 = i /\ i + 1 \in Slots
          BY <1>0, <1>2, <3>2, <4>2 DEF Slots
        <5> QED
          BY <5>1
      <4> QED
        BY <1>0, <4>1, <4>2 DEF Slots
    <3> QED
      BY <3>1, <3>3, <1>3, FreeInDef
  <2>4. ASSUME c \in Clicks(a, n) PROVE c \in FreeIn(w)
    BY <1>2, <1>3, <2>1, <2>4, FreeInDef
  <2> QED
    BY <2>2, <2>3, <2>4
<1>7. GoodMap(w)
  BY <1>3, <1>4, <1>5 DEF GoodMap
<1>8. FreeIn(w) = FreeIn(m) \cup Clicks(a, n)
  BY <1>6
<1> QED
  BY <1>7, <1>8 DEF w

(* mfree gives the n clicks at a back and nothing else, whichever of its   *)
(* four cases applies, if they were not free before.                       *)
LEMMA MfreeReturns ==
  ASSUME NEW m, GoodMap(m), NEW k \in Slots, MapHasRoom(m),
         NEW a \in Nat, NEW n \in Nat, a > 0, n > 0,
         FreeSlot(m, a, k), Clicks(a, n) \cap FreeIn(m) = {}
  PROVE  /\ GoodMap(Mfree(m, n, a, k))
         /\ FreeIn(Mfree(m, n, a, k)) = FreeIn(m) \cup Clicks(a, n)
<1> DEFINE end(i) == m[i].addr + m[i].size
<1>0. /\ m \in [Slots -> Entry]
      /\ \A i \in Slots : m[i].addr \in Nat /\ m[i].size \in Nat
      /\ k \in 1..NMAP /\ NMAP \in Nat
  BY CoreAssumption, EntryTypes DEF GoodMap, Slots
<1>1. \A i \in Slots : i < k => m[i].size # 0 /\ end(i) <= a
  <2> SUFFICES ASSUME NEW i \in Slots, i < k PROVE m[i].size # 0 /\ end(i) <= a
    OBVIOUS
  <2>1. m[i].addr <= a /\ m[i].size # 0
    BY DEF FreeSlot
  <2>2. a \in Clicks(a, n)
    BY DEF Clicks
  <2>3. ~(m[i].addr <= a /\ a < end(i))
    BY <1>0, <2>2, FreeInDef
  <2> QED
    BY <1>0, <2>1, <2>3
<1>2. \A i \in Slots : k <= i /\ m[i].size # 0 => a + n <= m[i].addr
  <2> SUFFICES ASSUME NEW i \in Slots, k <= i, m[i].size # 0
               PROVE  a + n <= m[i].addr
    OBVIOUS
  <2>1. m[k].size # 0 /\ m[k].addr <= m[i].addr
    <3>1. CASE k = i
      BY <1>0, <3>1
    <3>2. CASE k < i
      BY <1>0, <3>2, EntriesApart
    <3> QED
      BY <3>1, <3>2 DEF Slots
  <2>2. a < m[k].addr
    BY <2>1 DEF FreeSlot
  <2>3. m[k].addr \in FreeIn(m)
    BY <1>0, <2>1, FreeInDef
  <2>4. m[k].addr \notin Clicks(a, n)
    BY <2>3
  <2> QED
    BY <1>0, <2>1, <2>2, <2>4 DEF Clicks
<1>3. CASE ~JoinsPrev(m, a, k)
  <2>1. \A i \in Slots : i < k => m[i].size # 0 /\ end(i) < a
    <3> SUFFICES ASSUME NEW i \in Slots, i < k PROVE end(i) < a
      BY <1>1
    <3>1. k - 1 \in Slots /\ end(k - 1) # a /\ k - 1 < k
      BY <1>0, <1>3 DEF JoinsPrev, Slots
    <3>2. m[k - 1].size # 0 /\ end(k - 1) < a
      BY <1>0, <1>1, <3>1
    <3>3. CASE i = k - 1
      BY <3>2, <3>3
    <3>4. CASE i < k - 1
      <4>1. end(i) < m[k - 1].addr
        BY <3>1, <3>2, <3>4, EntriesApart
      <4> QED
        BY <1>0, <3>1, <3>2, <4>1
    <3> QED
      BY <1>0, <3>3, <3>4 DEF Slots
  <2>2. CASE a + n = m[k].addr /\ m[k].size # 0
    <3> DEFINE w == Mfree(m, n, a, k)
    <3>1. w = [m EXCEPT ![k] = [addr |-> a, size |-> m[k].size + n]]
      BY <1>3, <2>2 DEF Mfree
    <3>2. /\ w \in [Slots -> Entry] /\ \A i \in Slots : i # k => w[i] = m[i]
          /\ w[k].addr = a /\ w[k].size = m[k].size + n
      <4>1. [addr |-> a, size |-> m[k].size + n] \in Entry
        BY <1>0 DEF Entry
      <4> QED
        BY <1>0, <3>1, <4>1
    <3> HIDE DEF w
    <3>3. w[k].addr > 0 /\ w[k].size > 0
      BY <1>0, <3>2
    <3>4. \A i \in Slots : i < k => m[i].addr + m[i].size < w[k].addr
      BY <2>1, <3>2
    <3>5. ASSUME NEW i \in Slots, k < i, m[i].size # 0
          PROVE  w[k].addr + w[k].size < m[i].addr
      BY <1>0, <2>2, <3>2, <3>5, EntriesApart
    <3>6. /\ GoodMap(w)
          /\ FreeIn(w) = (FreeIn(m) \ Clicks(m[k].addr, m[k].size))
                         \cup Clicks(w[k].addr, w[k].size)
      BY <2>2, <3>2, <3>3, <3>4, <3>5, ResizeEntry
    <3>7. Clicks(w[k].addr, w[k].size) = Clicks(a, n) \cup Clicks(m[k].addr, m[k].size)
      BY <1>0, <2>2, <3>2 DEF Clicks
    <3>8. Clicks(m[k].addr, m[k].size) \subseteq FreeIn(m)
      BY <1>0, FreeInDef DEF Clicks
    <3>9. FreeIn(w) = FreeIn(m) \cup Clicks(a, n)
      BY <3>6, <3>7, <3>8
    <3> QED
      BY <3>6, <3>9 DEF w
  <2>3. CASE ~(a + n = m[k].addr /\ m[k].size # 0)
    <3>1. ASSUME NEW i \in Slots, k <= i, m[i].size # 0 PROVE a + n < m[i].addr
      <4>1. CASE i = k
        BY <1>0, <1>2, <2>3, <3>1, <4>1
      <4>2. CASE k < i
        <5>1. m[k].size # 0 /\ m[k].addr + m[k].size < m[i].addr
          BY <3>1, <4>2, EntriesApart
        <5> QED
          BY <1>0, <1>2, <5>1
      <4> QED
        BY <3>1, <4>1, <4>2 DEF Slots
    <3>2. Mfree(m, n, a, k) = Insert(m, k, [addr |-> a, size |-> n])
      BY <1>3, <2>3 DEF Mfree
    <3>3. /\ GoodMap(Insert(m, k, [addr |-> a, size |-> n]))
          /\ FreeIn(Insert(m, k, [addr |-> a, size |-> n])) = FreeIn(m) \cup Clicks(a, n)
      BY <2>1, <3>1, InsertEntry
    <3> QED
      BY <3>2, <3>3
  <2> QED
    BY <2>2, <2>3
<1>4. CASE JoinsPrev(m, a, k)
  <2> DEFINE j == k - 1
  <2>0. j \in Slots /\ j < k /\ j \in Nat /\ end(j) = a /\ m[j].size # 0
    BY <1>0, <1>1, <1>4 DEF JoinsPrev, Slots
  <2>1. CASE a + n = m[k].addr
    <3>1. m[k].size # 0
      BY <1>0, <2>1 DEF GoodMap
    <3> DEFINE v == Delete(m, k)
               e == [addr |-> m[j].addr, size |-> m[j].size + n + m[k].size]
               w == Mfree(m, n, a, k)
    <3>2. GoodMap(v) /\ FreeIn(v) = FreeIn(m) \ Clicks(m[k].addr, m[k].size)
      BY <3>1, DeleteEntry
    <3>3. /\ \A i \in Slots : i < k => v[i] = m[i]
          /\ \A i \in Slots : k <= i /\ v[i] # Nothing =>
                                i + 1 \in Slots /\ v[i] = m[i + 1]
      <4>1. \A i \in Slots : v[i] = IF i < k THEN m[i]
                                    ELSE IF i = NMAP THEN Nothing ELSE m[i + 1]
        BY DEF Delete
      <4> HIDE DEF v
      <4> QED
        BY <1>0, <4>1 DEF Slots
    <3>4. w = Delete([m EXCEPT ![j] = e], k)
      BY <1>4, <2>1 DEF Mfree
    <3>5. e \in Entry
      BY <1>0, <2>0 DEF Entry
    <3>6. /\ w \in [Slots -> Entry] /\ \A i \in Slots : i # j => w[i] = v[i]
          /\ w[j] = e
      <4>1. \A i \in Slots : w[i] = IF i = j THEN e ELSE v[i]
        <5> SUFFICES ASSUME NEW i \in Slots PROVE w[i] = IF i = j THEN e ELSE v[i]
          OBVIOUS
        <5>1. CASE i < k
          BY <1>0, <2>0, <3>4, <5>1 DEF Delete
        <5>2. CASE k <= i /\ i = NMAP
          BY <1>0, <2>0, <3>4, <5>2 DEF Delete, Slots
        <5>3. CASE k <= i /\ i # NMAP
          <6>1. i + 1 # j /\ i # j /\ i + 1 \in Slots /\ ~(i < k)
            BY <1>0, <2>0, <5>3 DEF Slots
          <6> QED
            BY <1>0, <2>0, <3>4, <5>3, <6>1 DEF Delete
        <5> QED
          BY <1>0, <5>1, <5>2, <5>3 DEF Slots
      <4>2. v \in [Slots -> Entry]
        BY <3>2 DEF GoodMap
      <4>3. w = [i \in Slots |-> w[i]]
        BY <3>4 DEF Delete
      <4> QED
        BY <2>0, <3>5, <4>1, <4>2, <4>3
    <3>7. /\ w[j].addr = m[j].addr /\ w[j].size = m[j].size + n + m[k].size
          /\ v[j] = m[j]
      BY <2>0, <3>3, <3>6
    <3> HIDE DEF v, w, e
    <3>8. w[j].addr > 0 /\ w[j].size > 0
      BY <1>0, <2>0, <3>7, EntryTypes
    <3>9. ASSUME NEW i \in Slots, i < j PROVE v[i].addr + v[i].size < w[j].addr
      <4>1. v[i] = m[i]
        BY <1>0, <2>0, <3>3, <3>9 DEF Slots
      <4> QED
        BY <2>0, <3>7, <3>9, <4>1, EntriesApart
    <3>10. ASSUME NEW i \in Slots, j < i, v[i].size # 0
           PROVE  w[j].addr + w[j].size < v[i].addr
      <4>1. k <= i /\ i + 1 \in Slots /\ v[i] = m[i + 1] /\ k < i + 1
        <5>1. k <= i /\ v[i] # Nothing
          BY <1>0, <2>0, <3>10 DEF Slots, Nothing
        <5> QED
          BY <1>0, <3>3, <5>1 DEF Slots
      <4>2. m[k].addr + m[k].size < m[i + 1].addr
        BY <3>10, <4>1, EntriesApart
      <4> QED
        BY <1>0, <2>0, <2>1, <3>7, <4>1, <4>2
    <3>11. /\ GoodMap(w)
           /\ FreeIn(w) = (FreeIn(v) \ Clicks(v[j].addr, v[j].size))
                          \cup Clicks(w[j].addr, w[j].size)
      BY <2>0, <3>2, <3>6, <3>7, <3>8, <3>9, <3>10, ResizeEntry
    <3>12. Clicks(w[j].addr, w[j].size)
             = Clicks(m[j].addr, m[j].size) \cup Clicks(a, n)
               \cup Clicks(m[k].addr, m[k].size)
      BY <1>0, <2>0, <2>1, <3>7 DEF Clicks
    <3>13. /\ Clicks(m[j].addr, m[j].size) \subseteq FreeIn(m)
           /\ Clicks(m[k].addr, m[k].size) \subseteq FreeIn(m)
      BY <1>0, <2>0, FreeInDef DEF Clicks
    <3>14. FreeIn(w) = FreeIn(m) \cup Clicks(a, n)
      BY <3>2, <3>7, <3>11, <3>12, <3>13
    <3> QED
      BY <3>11, <3>14 DEF w
  <2>2. CASE a + n # m[k].addr
    <3> DEFINE w == Mfree(m, n, a, k)
    <3>1. w = [m EXCEPT ![j] = [addr |-> m[j].addr, size |-> m[j].size + n]]
      BY <1>4, <2>2 DEF Mfree
    <3>2. /\ w \in [Slots -> Entry] /\ \A i \in Slots : i # j => w[i] = m[i]
          /\ w[j].addr = m[j].addr /\ w[j].size = m[j].size + n
      <4>1. [addr |-> m[j].addr, size |-> m[j].size + n] \in Entry
        BY <1>0, <2>0 DEF Entry
      <4> QED
        BY <1>0, <2>0, <3>1, <4>1
    <3> HIDE DEF w
    <3>3. w[j].addr > 0 /\ w[j].size > 0
      BY <1>0, <2>0, <3>2, EntryTypes
    <3>4. ASSUME NEW i \in Slots, i < j PROVE m[i].addr + m[i].size < w[j].addr
      BY <2>0, <3>2, <3>4, EntriesApart
    <3>5. ASSUME NEW i \in Slots, j < i, m[i].size # 0
          PROVE  w[j].addr + w[j].size < m[i].addr
      <4>1. a + n < m[i].addr
        <5>1. CASE i = k
          BY <1>0, <1>2, <2>2, <3>5, <5>1
        <5>2. CASE k < i
          <6>1. m[k].size # 0 /\ m[k].addr + m[k].size < m[i].addr
            BY <3>5, <5>2, EntriesApart
          <6> QED
            BY <1>0, <1>2, <6>1
        <5> QED
          BY <1>0, <2>0, <3>5, <5>1, <5>2 DEF Slots
      <4> QED
        BY <1>0, <2>0, <3>2, <4>1
    <3>6. /\ GoodMap(w)
          /\ FreeIn(w) = (FreeIn(m) \ Clicks(m[j].addr, m[j].size))
                         \cup Clicks(w[j].addr, w[j].size)
      BY <2>0, <3>2, <3>3, <3>4, <3>5, ResizeEntry
    <3>7. Clicks(w[j].addr, w[j].size) = Clicks(m[j].addr, m[j].size) \cup Clicks(a, n)
      BY <1>0, <2>0, <3>2 DEF Clicks
    <3>8. Clicks(m[j].addr, m[j].size) \subseteq FreeIn(m)
      BY <1>0, <2>0, FreeInDef DEF Clicks
    <3>9. FreeIn(w) = FreeIn(m) \cup Clicks(a, n)
      BY <3>6, <3>7, <3>8
    <3> QED
      BY <3>6, <3>9 DEF w
  <2> QED
    BY <2>1, <2>2
<1> QED
  BY <1>3, <1>4

-----------------------------------------------------------------------------
(* The clicks of an image.                                                 *)
Image(p) == Clicks(seg[p].addr, seg[p].size)

LEMMA InvFacts ==
  ASSUME IInv
  PROVE  /\ FreeClicks \subseteq Clicks(Start, MemSize)
         /\ Start \in Nat /\ Start > 0 /\ USIZE \in Nat /\ USIZE > 0
         /\ \A p \in LiveProcs :
              /\ p \in Proc /\ seg[p] \in Entry /\ seg[p].addr \in Nat /\ seg[p].size \in Nat
              /\ seg[p].addr > 0 /\ seg[p].size > 0
              /\ Image(p) \cap FreeClicks = {}
<1>1. FreeClicks \subseteq Clicks(Start, MemSize)
  BY DEF IInv, Accounted
<1>2. Start \in Nat /\ Start > 0 /\ USIZE \in Nat /\ USIZE > 0
  BY CoreAssumption
<1>3. ASSUME NEW p \in LiveProcs
      PROVE  /\ p \in Proc /\ seg[p] \in Entry /\ seg[p].addr \in Nat /\ seg[p].size \in Nat
             /\ seg[p].addr > 0 /\ seg[p].size > 0
  <2>1. p \in Proc /\ seg[p] \in Entry
    BY DEF IInv, TypeOK, LiveProcs
  <2>2. seg[p].addr \in Nat /\ seg[p].size \in Nat
    BY <2>1 DEF Entry
  <2> QED
    BY <1>2, <2>1, <2>2 DEF IInv, SizesOK
<1>4. \A p \in LiveProcs : Image(p) \cap FreeClicks = {}
  BY DEF IInv, Accounted, Image
<1> QED
  BY <1>1, <1>2, <1>3, <1>4

(* A run taken from free clicks lies above the kernel.                     *)
LEMMA TakenAboveKernel ==
  ASSUME IInv, NEW a \in Nat, NEW n \in Nat, n > 0, Clicks(a, n) \subseteq FreeClicks
  PROVE  a >= Start /\ a \in Clicks(Start, MemSize)
<1>1. a \in Clicks(a, n)
  BY DEF Clicks
<1>2. a \in Clicks(Start, MemSize)
  BY <1>1, InvFacts
<1> QED
  BY <1>2, CoreAssumption DEF Clicks

LEMMA InitInv ==
  Init => IInv /\ FreeClicks = Clicks(Start + USIZE, MemSize - USIZE) /\ LostClicks = {}
<1> SUFFICES ASSUME Init
             PROVE  /\ IInv
                    /\ FreeClicks = Clicks(Start + USIZE, MemSize - USIZE)
                    /\ LostClicks = {}
  OBVIOUS
<1> USE CoreAssumption
<1> DEFINE e == [addr |-> Start + USIZE, size |-> MemSize - USIZE]
           u == [addr |-> Start, size |-> USIZE]
<1>1. /\ e \in Entry /\ u \in Entry /\ Nothing \in Entry
      /\ u # NoSeg /\ 1 \in Slots
  BY DEF Entry, Nothing, Slots
<1>2. /\ coremap = [i \in Slots |-> IF i = 1 THEN e ELSE Nothing]
      /\ seg = [p \in Proc |-> IF p = InitProc THEN u ELSE NoSeg]
      /\ execing = {} /\ leaks = {}
  BY DEF Init
<1>3. coremap \in [Slots -> Entry] /\ seg \in [Proc -> Entry \cup {NoSeg}]
  BY <1>1, <1>2
<1>4. LiveProcs = {InitProc} /\ seg[InitProc] = u
  BY <1>1, <1>2 DEF LiveProcs
<1>5. TypeOK
  BY <1>2, <1>3 DEF TypeOK
<1>6. GoodMap(coremap)
  <2>1. /\ coremap[1].addr = Start + USIZE /\ coremap[1].size = MemSize - USIZE
        /\ \A i \in Slots : i # 1 => coremap[i].addr = 0 /\ coremap[i].size = 0
    BY <1>1, <1>2 DEF Nothing
  <2>2. Ordered(coremap)
    BY <2>1 DEF Ordered, Slots
  <2> QED
    BY <1>3, <2>1, <2>2 DEF GoodMap, Slots
<1>7. SizesOK
  BY <1>2, <1>4 DEF SizesOK
<1>8. FreeClicks = Clicks(Start + USIZE, MemSize - USIZE)
  <2>1. ASSUME NEW c
        PROVE  c \in FreeClicks <=> c \in Clicks(Start + USIZE, MemSize - USIZE)
    <3>1. c \in FreeClicks <=>
            c \in Int /\ \E i \in Slots : coremap[i].addr <= c
                                          /\ c < coremap[i].addr + coremap[i].size
      BY <1>3, FreeInDef DEF FreeClicks
    <3> QED
      BY <3>1, <1>1, <1>2 DEF Clicks, Nothing
  <2> QED
    BY <2>1
<1>9. LostClicks = {}
  BY <1>2 DEF LostClicks
<1>10. Accounted
  <2>1. seg[InitProc].addr = Start /\ seg[InitProc].size = USIZE
    BY <1>4
  <2>2. /\ Clicks(Start, USIZE) \cap Clicks(Start + USIZE, MemSize - USIZE) = {}
        /\ Clicks(Start, USIZE) \cup Clicks(Start + USIZE, MemSize - USIZE)
             = Clicks(Start, MemSize)
    BY DEF Clicks
  <2> QED
    BY <1>4, <1>8, <1>9, <2>1, <2>2 DEF Accounted
<1> QED
  BY <1>5, <1>6, <1>7, <1>8, <1>9, <1>10 DEF IInv

(* malloc failed, or nothing happens at all.                               *)
LEMMA QuietInv ==
  ASSUME IInv, UNCHANGED <<coremap, seg, leaks>>, execing' \subseteq execing
  PROVE  IInv'
<1>1. FreeClicks' = FreeClicks /\ LostClicks' = LostClicks /\ LiveProcs' = LiveProcs
  BY DEF FreeClicks, LostClicks, LiveProcs
<1>2. TypeOK'
  BY <1>1 DEF IInv, TypeOK
<1>3. GoodMap(coremap)'
  BY DEF IInv
<1>4. SizesOK'
  BY <1>1 DEF IInv, SizesOK
<1>5. Accounted'
  BY <1>1 DEF IInv, Accounted
<1> QED
  BY <1>2, <1>3, <1>4, <1>5 DEF IInv

(* fork takes free clicks for the child.                                   *)
LEMMA NewprocInv ==
  ASSUME IInv, NEW p \in Proc, NEW q \in Proc, Newproc(p, q)
  PROVE  IInv'
<1>1. CASE UNCHANGED <<coremap, seg>>
  BY <1>1, QuietInv DEF Newproc
<1>2. CASE \E k \in Slots :
             /\ FirstFit(coremap, seg[p].size, k)
             /\ coremap' = Malloc(coremap, seg[p].size, k)
             /\ seg' = [seg EXCEPT ![q] = [addr |-> coremap[k].addr,
                                           size |-> seg[p].size]]
  <2>1. PICK k \in Slots :
             /\ FirstFit(coremap, seg[p].size, k)
             /\ coremap' = Malloc(coremap, seg[p].size, k)
             /\ seg' = [seg EXCEPT ![q] = [addr |-> coremap[k].addr,
                                           size |-> seg[p].size]]
    BY <1>2
  <2> DEFINE n == seg[p].size
             a == coremap[k].addr
  <2>2. /\ p \in LiveProcs /\ q \notin LiveProcs /\ p \notin execing /\ q \notin execing
        /\ UNCHANGED <<execing, leaks>>
    BY DEF Newproc, LiveProcs, IInv, TypeOK
  <2>3. n \in Nat /\ n >= USIZE /\ n > 0
    BY <2>2, InvFacts DEF IInv, SizesOK
  <2>4. /\ GoodMap(coremap') /\ a \in Nat /\ Clicks(a, n) \subseteq FreeClicks
        /\ FreeClicks' = FreeClicks \ Clicks(a, n)
    BY <2>1, <2>3, MallocTakes DEF FreeClicks, IInv
  <2>5. a >= Start
    BY <2>3, <2>4, TakenAboveKernel
  <2>6. [addr |-> a, size |-> n] \in Entry
    BY <2>3, <2>4 DEF Entry
  <2>7. /\ seg' \in [Proc -> Entry \cup {NoSeg}]
        /\ seg'[q].addr = a /\ seg'[q].size = n /\ seg'[q] # NoSeg
        /\ \A r \in Proc : r # q => seg'[r] = seg[r]
    BY <2>1, <2>6, CoreAssumption DEF IInv, TypeOK, Entry
  <2> HIDE DEF a, n
  <2>8. LiveProcs' = LiveProcs \cup {q} /\ LostClicks' = LostClicks
    BY <2>2, <2>7 DEF LiveProcs, LostClicks
  <2>9. TypeOK'
    BY <2>2, <2>4, <2>7, <2>8 DEF IInv, TypeOK, GoodMap
  <2>10. SizesOK'
    <3>1. \A r \in LiveProcs' : seg'[r].size >= USIZE /\ seg'[r].addr >= Start
      BY <2>3, <2>5, <2>7, <2>8 DEF IInv, SizesOK, LiveProcs
    <3>2. \A r \in execing : seg'[r].size = USIZE
      BY <2>2, <2>7 DEF IInv, SizesOK, TypeOK, LiveProcs
    <3> QED
      BY <2>2, <3>1, <3>2 DEF IInv, SizesOK
  <2>11. Accounted'
    <3>1. \A r \in LiveProcs : Clicks(seg'[r].addr, seg'[r].size) = Image(r)
      BY <2>2, <2>7 DEF Image, LiveProcs
    <3>2. Clicks(seg'[q].addr, seg'[q].size) = Clicks(a, n)
      BY <2>7
    <3> QED
      BY <2>2, <2>4, <2>8, <3>1, <3>2 DEF IInv, Accounted, Image
  <2> QED
    BY <2>4, <2>9, <2>10, <2>11 DEF IInv
<1> QED
  BY <1>1, <1>2 DEF Newproc

(* The first expand moves what it cuts off from the image to the lost      *)
(* clicks.                                                                 *)
LEMMA ContractInv ==
  ASSUME IInv, NEW p \in Proc, Contract(p)
  PROVE  /\ IInv' /\ FreeClicks' = FreeClicks
         /\ LostClicks' = LostClicks
                            \cup Clicks(seg[p].addr + USIZE, seg[p].size - USIZE)
<1> DEFINE a == seg[p].addr
           n == seg[p].size
           r == [addr |-> a + USIZE, size |-> n - USIZE]
<1>1. /\ p \in LiveProcs /\ p \notin execing
      /\ leaks' = leaks \cup Shrunk(p)
      /\ seg' = [seg EXCEPT ![p] = [addr |-> a, size |-> USIZE]]
      /\ execing' = execing \cup {p} /\ coremap' = coremap
  BY DEF Contract, LiveProcs
<1>2. /\ a \in Nat /\ n \in Nat /\ n >= USIZE /\ a >= Start
      /\ Start \in Nat /\ USIZE \in Nat /\ USIZE > 0
  BY <1>1, InvFacts DEF IInv, SizesOK
<1>3. r \in Entry /\ [addr |-> a, size |-> USIZE] \in Entry
  BY <1>2 DEF Entry
<1>4. /\ seg' \in [Proc -> Entry \cup {NoSeg}]
      /\ seg'[p].addr = a /\ seg'[p].size = USIZE /\ seg'[p] # NoSeg
      /\ \A q \in Proc : q # p => seg'[q] = seg[q]
  BY <1>1, <1>3, CoreAssumption DEF IInv, TypeOK, Entry
<1>5. LiveProcs' = LiveProcs /\ FreeClicks' = FreeClicks
  BY <1>1, <1>4 DEF LiveProcs, FreeClicks
<1>6. LostClicks' = LostClicks \cup Clicks(a + USIZE, n - USIZE)
  <2>1. CASE n = USIZE
    <3>1. Clicks(a + USIZE, n - USIZE) = {}
      BY <1>2, <2>1 DEF Clicks
    <3>2. leaks' = leaks
      BY <1>1, <2>1 DEF Shrunk
    <3> QED
      BY <3>1, <3>2 DEF LostClicks
  <2>2. CASE n # USIZE
    <3>1. leaks' = leaks \cup {r}
      BY <1>1, <2>2 DEF Shrunk
    <3>2. r.addr = a + USIZE /\ r.size = n - USIZE
      OBVIOUS
    <3> HIDE DEF r
    <3> QED
      BY <3>1, <3>2 DEF LostClicks
  <2> QED
    BY <2>1, <2>2
<1>7. leaks' \subseteq Entry /\ \A l \in leaks' : l.addr >= Start
  <2>1. r.addr >= Start
    BY <1>2
  <2>2. leaks' \subseteq leaks \cup {r}
    BY <1>1 DEF Shrunk
  <2> HIDE DEF r
  <2> QED
    BY <1>3, <2>1, <2>2 DEF IInv, TypeOK, SizesOK
<1>8. TypeOK'
  BY <1>1, <1>4, <1>5, <1>7 DEF IInv, TypeOK
<1>9. GoodMap(coremap)'
  BY <1>1 DEF IInv
<1>10. SizesOK'
  <2>1. \A q \in LiveProcs' : seg'[q].size >= USIZE /\ seg'[q].addr >= Start
    BY <1>2, <1>4, <1>5 DEF IInv, SizesOK, LiveProcs
  <2>2. \A q \in execing' : seg'[q].size = USIZE
    BY <1>1, <1>4 DEF IInv, SizesOK, TypeOK, LiveProcs
  <2> QED
    BY <1>7, <2>1, <2>2 DEF SizesOK
<1>11. Accounted'
  <2>1. \A q \in LiveProcs : q # p => Clicks(seg'[q].addr, seg'[q].size) = Image(q)
    BY <1>4 DEF Image, LiveProcs
  <2>2. Clicks(seg'[p].addr, seg'[p].size) = Clicks(a, USIZE)
    BY <1>4
  <2>3. /\ Image(p) = Clicks(a, USIZE) \cup Clicks(a + USIZE, n - USIZE)
        /\ Clicks(a, USIZE) \cap Clicks(a + USIZE, n - USIZE) = {}
    BY <1>2 DEF Image, Clicks
  <2> DEFINE x == Clicks(a + USIZE, n - USIZE)
  <2>4. /\ Image(p) = Clicks(a, USIZE) \cup x
        /\ Clicks(a, USIZE) \cap x = {} /\ LostClicks' = LostClicks \cup x
    BY <1>6, <2>3
  <2> HIDE DEF a, n, r, x
  <2>5. /\ \A q \in LiveProcs : Image(q) \cap (FreeClicks \cup LostClicks) = {}
        /\ \A q, q2 \in LiveProcs : q # q2 => Image(q) \cap Image(q2) = {}
        /\ FreeClicks \cap LostClicks = {}
        /\ FreeClicks \cup LostClicks \cup UNION {Image(q) : q \in LiveProcs}
             = Clicks(Start, MemSize)
    BY DEF IInv, Accounted, Image
  <2>6. \A q, q2 \in LiveProcs : q # q2 =>
          Clicks(seg'[q].addr, seg'[q].size) \cap Clicks(seg'[q2].addr, seg'[q2].size) = {}
    BY <2>1, <2>2, <2>4, <2>5
  <2>7. \A q \in LiveProcs :
          Clicks(seg'[q].addr, seg'[q].size) \cap (FreeClicks \cup LostClicks') = {}
    BY <1>1, <2>1, <2>2, <2>4, <2>5
  <2>8. FreeClicks \cap LostClicks' = {}
    BY <1>1, <2>4, <2>5
  <2>9. FreeClicks \cup LostClicks'
          \cup UNION {Clicks(seg'[q].addr, seg'[q].size) : q \in LiveProcs}
        = Clicks(Start, MemSize)
    BY <1>1, <2>1, <2>2, <2>4, <2>5
  <2> QED
    BY <1>5, <2>6, <2>7, <2>8, <2>9 DEF Accounted
<1> QED
  BY <1>5, <1>6, <1>8, <1>9, <1>10, <1>11 DEF IInv

(* What the successful second expand does to the free clicks: it takes the *)
(* new image and gives the old one back.                                   *)
LEMMA ExpandMap ==
  ASSUME IInv, NEW p \in Proc, NEW n \in ExecSizes, p \in execing,
         NEW k \in Slots, NEW j \in Slots,
         FirstFit(coremap, n, k),
         FreeSlot(Malloc(coremap, n, k), seg[p].addr, j),
         MapHasRoom(Malloc(coremap, n, k)),
         coremap' = Mfree(Malloc(coremap, n, k), seg[p].size, seg[p].addr, j)
  PROVE  /\ n \in Nat /\ n > USIZE /\ coremap[k].addr \in Nat
         /\ GoodMap(coremap')
         /\ Clicks(coremap[k].addr, n) \subseteq FreeClicks
         /\ FreeClicks' = (FreeClicks \ Clicks(coremap[k].addr, n)) \cup Image(p)
<1> DEFINE m == Malloc(coremap, n, k)
<1>0. n \in Nat /\ n > USIZE /\ n > 0
  BY CoreAssumption
<1>1. /\ GoodMap(m) /\ coremap[k].addr \in Nat
      /\ Clicks(coremap[k].addr, n) \subseteq FreeClicks
      /\ FreeIn(m) = FreeClicks \ Clicks(coremap[k].addr, n)
  BY <1>0, MallocTakes DEF IInv, FreeClicks
<1>2. /\ p \in LiveProcs /\ seg[p].addr \in Nat /\ seg[p].size \in Nat
      /\ seg[p].addr > 0 /\ seg[p].size > 0 /\ Image(p) \cap FreeClicks = {}
  BY InvFacts DEF IInv, TypeOK
<1> HIDE DEF m
<1>3. Clicks(seg[p].addr, seg[p].size) \cap FreeIn(m) = {}
  BY <1>1, <1>2 DEF Image
<1>4. /\ GoodMap(Mfree(m, seg[p].size, seg[p].addr, j))
      /\ FreeIn(Mfree(m, seg[p].size, seg[p].addr, j))
           = FreeIn(m) \cup Clicks(seg[p].addr, seg[p].size)
  <2>1. FreeSlot(m, seg[p].addr, j) /\ MapHasRoom(m)
    BY DEF m
  <2> QED
    BY <1>1, <1>2, <1>3, <2>1, MfreeReturns
<1>5. coremap' = Mfree(m, seg[p].size, seg[p].addr, j)
  BY DEF m
<1> QED
  BY <1>0, <1>1, <1>4, <1>5 DEF FreeClicks, Image

LEMMA ExpandInv ==
  ASSUME IInv, NEW p \in Proc, NEW n \in ExecSizes, Expand(p, n)
  PROVE  IInv'
<1>0. p \in execing /\ execing' = execing \ {p} /\ leaks' = leaks
  BY DEF Expand
<1>1. CASE UNCHANGED <<coremap, seg>>
  BY <1>0, <1>1, QuietInv
<1>2. ASSUME NEW k \in Slots, NEW j \in Slots,
             FirstFit(coremap, n, k),
             FreeSlot(Malloc(coremap, n, k), seg[p].addr, j),
             MapHasRoom(Malloc(coremap, n, k)),
             coremap' = Mfree(Malloc(coremap, n, k), seg[p].size, seg[p].addr, j),
             seg' = [seg EXCEPT ![p] = [addr |-> coremap[k].addr, size |-> n]]
      PROVE  IInv'
  <2> DEFINE a == coremap[k].addr
  <2>1. /\ n \in Nat /\ n > USIZE /\ n > 0 /\ a \in Nat
        /\ GoodMap(coremap') /\ Clicks(a, n) \subseteq FreeClicks
        /\ FreeClicks' = (FreeClicks \ Clicks(a, n)) \cup Image(p)
    BY <1>0, <1>2, ExpandMap, CoreAssumption
  <2>2. a >= Start
    BY <2>1, TakenAboveKernel
  <2>3. [addr |-> a, size |-> n] \in Entry
    BY <2>1 DEF Entry
  <2>4. /\ seg' \in [Proc -> Entry \cup {NoSeg}]
        /\ seg'[p].addr = a /\ seg'[p].size = n /\ seg'[p] # NoSeg
        /\ \A q \in Proc : q # p => seg'[q] = seg[q]
    BY <1>2, <2>3, CoreAssumption DEF IInv, TypeOK, Entry
  <2> HIDE DEF a
  <2>5. p \in LiveProcs /\ LiveProcs' = LiveProcs /\ LostClicks' = LostClicks
    BY <1>0, <2>4 DEF LiveProcs, LostClicks, IInv, TypeOK
  <2>6. TypeOK'
    BY <1>0, <2>1, <2>4, <2>5 DEF IInv, TypeOK, GoodMap
  <2>7. SizesOK'
    <3>1. \A q \in LiveProcs' : seg'[q].size >= USIZE /\ seg'[q].addr >= Start
      BY <2>1, <2>2, <2>4, <2>5, CoreAssumption DEF IInv, SizesOK, LiveProcs
    <3>2. \A q \in execing' : seg'[q].size = USIZE
      BY <1>0, <2>4 DEF IInv, SizesOK, TypeOK, LiveProcs
    <3> QED
      BY <1>0, <3>1, <3>2 DEF IInv, SizesOK
  <2>8. Accounted'
    <3>1. \A q \in LiveProcs : q # p => Clicks(seg'[q].addr, seg'[q].size) = Image(q)
      BY <2>4 DEF Image, LiveProcs
    <3>2. Clicks(seg'[p].addr, seg'[p].size) = Clicks(a, n)
      BY <2>4
    <3> QED
      BY <2>1, <2>5, <3>1, <3>2 DEF IInv, Accounted, Image
  <2> QED
    BY <2>1, <2>6, <2>7, <2>8 DEF IInv
<1> QED
  BY <1>1, <1>2 DEF Expand

(* wait gives the image of a dead child back.                              *)
LEMMA WaitInv ==
  ASSUME IInv, NEW p \in Proc, Wait(p)
  PROVE  /\ IInv'
         /\ FreeClicks' = FreeClicks \cup Image(p) /\ LostClicks' = LostClicks
<1>1. /\ p \in LiveProcs /\ p \notin execing
      /\ seg' = [seg EXCEPT ![p] = NoSeg]
      /\ UNCHANGED <<execing, leaks>>
  BY DEF Wait, LiveProcs
<1>2. PICK k \in Slots :
        /\ FreeSlot(coremap, seg[p].addr, k) /\ MapHasRoom(coremap)
        /\ coremap' = Mfree(coremap, seg[p].size, seg[p].addr, k)
  BY DEF Wait
<1>3. /\ seg[p].addr \in Nat /\ seg[p].size \in Nat
      /\ seg[p].addr > 0 /\ seg[p].size > 0 /\ Image(p) \cap FreeClicks = {}
  BY <1>1, InvFacts
<1>4. GoodMap(coremap') /\ FreeClicks' = FreeClicks \cup Image(p)
  BY <1>2, <1>3, MfreeReturns DEF IInv, FreeClicks, Image
<1>5. /\ seg' \in [Proc -> Entry \cup {NoSeg}] /\ seg'[p] = NoSeg
      /\ \A q \in Proc : q # p => seg'[q] = seg[q]
  BY <1>1 DEF IInv, TypeOK
<1>6. LiveProcs' = LiveProcs \ {p} /\ LostClicks' = LostClicks
  BY <1>1, <1>5 DEF LiveProcs, LostClicks
<1>7. TypeOK'
  BY <1>1, <1>4, <1>5, <1>6 DEF IInv, TypeOK, GoodMap
<1>8. SizesOK'
  <2>1. \A q \in LiveProcs' : seg'[q].size >= USIZE /\ seg'[q].addr >= Start
    BY <1>5, <1>6 DEF IInv, SizesOK, LiveProcs
  <2>2. \A q \in execing' : seg'[q].size = USIZE
    BY <1>1, <1>5 DEF IInv, SizesOK, TypeOK, LiveProcs
  <2> QED
    BY <1>1, <2>1, <2>2 DEF IInv, SizesOK
<1>9. Accounted'
  <2>1. \A q \in LiveProcs' : Clicks(seg'[q].addr, seg'[q].size) = Image(q)
    BY <1>5, <1>6 DEF Image, LiveProcs
  <2>2. /\ \A q \in LiveProcs : Image(q) \cap (FreeClicks \cup LostClicks) = {}
        /\ \A q, q2 \in LiveProcs : q # q2 => Image(q) \cap Image(q2) = {}
        /\ FreeClicks \cap LostClicks = {}
        /\ FreeClicks \cup LostClicks \cup UNION {Image(q) : q \in LiveProcs}
             = Clicks(Start, MemSize)
    BY DEF IInv, Accounted, Image
  <2>3. /\ \A q, q2 \in LiveProcs' : q # q2 =>
             Clicks(seg'[q].addr, seg'[q].size)
               \cap Clicks(seg'[q2].addr, seg'[q2].size) = {}
        /\ FreeClicks' \cap LostClicks' = {}
    BY <1>1, <1>4, <1>6, <2>1, <2>2
  <2>4. \A q \in LiveProcs' :
          Clicks(seg'[q].addr, seg'[q].size) \cap (FreeClicks' \cup LostClicks') = {}
    BY <1>1, <1>4, <1>6, <2>1, <2>2
  <2>5. FreeClicks' \cup LostClicks'
          \cup UNION {Clicks(seg'[q].addr, seg'[q].size) : q \in LiveProcs'}
        = Clicks(Start, MemSize)
    BY <1>1, <1>4, <1>6, <2>1, <2>2
  <2> QED
    BY <2>3, <2>4, <2>5 DEF Accounted
<1> QED
  BY <1>4, <1>6, <1>7, <1>8, <1>9 DEF IInv

LEMMA NextInv == IInv /\ [Next]_vars => IInv'
<1> SUFFICES ASSUME IInv, [Next]_vars PROVE IInv'
  OBVIOUS
<1>1. CASE UNCHANGED vars
  BY <1>1, QuietInv DEF vars
<1>2. CASE Next
  BY <1>2, NewprocInv, ContractInv, ExpandInv, WaitInv DEF Next
<1> QED
  BY <1>1, <1>2

LEMMA CoreInvariant == Spec => []IInv
<1> QED
  BY InitInv, NextInv, PTL DEF Spec

-----------------------------------------------------------------------------
(* The map and the images keep their types.                                *)
THEOREM CoreTypeCorrect == Spec => []TypeOK
<1>1. IInv => TypeOK
  BY DEF IInv
<1> QED
  BY <1>1, CoreInvariant, PTL

(* malloc and mfree keep coremap in address order with all neighbours      *)
(* joined.                                                                 *)
THEOREM CoreMapOrdered == Spec => []MapOrdered
<1>1. IInv => MapOrdered
  BY DEF IInv, GoodMap, MapOrdered
<1> QED
  BY <1>1, CoreInvariant, PTL

(* No click of core is given to two processes or vanishes from the         *)
(* accounts.                                                               *)
THEOREM CoreAccounted == Spec => []Accounted
<1>1. IInv => Accounted
  BY DEF IInv
<1> QED
  BY <1>1, CoreInvariant, PTL

-----------------------------------------------------------------------------
(* A step that leaves the map, the images and the leaks alone is a         *)
(* stuttering step of CoreSpace.                                           *)
LEMMA QuietMaps ==
  ASSUME UNCHANGED <<coremap, seg, leaks>>
  PROVE  UNCHANGED Space!svars
<1>1. FreeClicks' = FreeClicks /\ LostClicks' = LostClicks /\ seg' = seg
  BY DEF FreeClicks, LostClicks
<1> QED
  BY <1>1 DEF Space!svars

(* A successful newproc is a Fork at the address malloc found.             *)
LEMMA NewprocMaps ==
  ASSUME IInv, NEW p \in Proc, NEW q \in Proc, Newproc(p, q)
  PROVE  [Space!SpaceNext]_(Space!svars)
<1>1. CASE UNCHANGED <<coremap, seg>>
  BY <1>1, QuietMaps DEF Newproc
<1>2. ASSUME NEW k \in Slots, FirstFit(coremap, seg[p].size, k),
             coremap' = Malloc(coremap, seg[p].size, k),
             seg' = [seg EXCEPT ![q] = [addr |-> coremap[k].addr,
                                        size |-> seg[p].size]]
      PROVE  Space!SpaceNext
  <2>1. /\ seg[p] # NoSeg /\ seg[q] = NoSeg /\ p \in LiveProcs
        /\ LostClicks' = LostClicks
    BY DEF Newproc, LiveProcs, LostClicks
  <2>2. seg[p].size \in Nat /\ seg[p].size > 0
    BY <2>1, InvFacts
  <2>3. /\ coremap[k].addr \in Nat
        /\ Clicks(coremap[k].addr, seg[p].size) \subseteq FreeClicks
        /\ FreeClicks' = FreeClicks \ Clicks(coremap[k].addr, seg[p].size)
    BY <1>2, <2>2, MallocTakes DEF FreeClicks, IInv
  <2>4. coremap[k].addr \in Clicks(Start, MemSize)
    BY <2>2, <2>3, TakenAboveKernel
  <2>5. Space!Fork(p, q, coremap[k].addr)
    BY <1>2, <2>1, <2>3 DEF Space!Fork, Space!Clicks, Clicks
  <2> QED
    BY <2>4, <2>5 DEF Space!SpaceNext, Space!Core, Space!Clicks, Clicks
<1> QED
  BY <1>1, <1>2 DEF Newproc

(* A successful second expand is an Exchange.                              *)
LEMMA ExpandMaps ==
  ASSUME IInv, NEW p \in Proc, NEW n \in ExecSizes, Expand(p, n)
  PROVE  [Space!SpaceNext]_(Space!svars)
<1>0. p \in execing /\ leaks' = leaks
  BY DEF Expand
<1>1. CASE UNCHANGED <<coremap, seg>>
  BY <1>0, <1>1, QuietMaps
<1>2. ASSUME NEW k \in Slots, NEW j \in Slots,
             FirstFit(coremap, n, k),
             FreeSlot(Malloc(coremap, n, k), seg[p].addr, j),
             MapHasRoom(Malloc(coremap, n, k)),
             coremap' = Mfree(Malloc(coremap, n, k), seg[p].size, seg[p].addr, j),
             seg' = [seg EXCEPT ![p] = [addr |-> coremap[k].addr, size |-> n]]
      PROVE  Space!SpaceNext
  <2> DEFINE a == coremap[k].addr
  <2>1. /\ n \in Nat /\ n > 0 /\ a \in Nat /\ Clicks(a, n) \subseteq FreeClicks
        /\ FreeClicks' = (FreeClicks \ Clicks(a, n)) \cup Image(p)
    BY <1>0, <1>2, ExpandMap, CoreAssumption
  <2>2. a \in Clicks(Start, MemSize)
    BY <2>1, TakenAboveKernel
  <2>3. seg[p] # NoSeg /\ LostClicks' = LostClicks
    BY <1>0 DEF IInv, TypeOK, LiveProcs, LostClicks
  <2>4. Space!Exchange(p, n, a)
    BY <1>2, <2>1, <2>3 DEF Space!Exchange, Space!Clicks, Clicks, Image
  <2> QED
    BY <2>2, <2>4 DEF Space!SpaceNext, Space!Core, Space!Clicks, Clicks
<1> QED
  BY <1>1, <1>2 DEF Expand

(* Every step of the allocator is a step of CoreSpace or leaves its state  *)
(* alone.                                                                  *)
LEMMA StepMaps == IInv /\ [Next]_vars => [Space!SpaceNext]_(Space!svars)
<1> SUFFICES ASSUME IInv, [Next]_vars
             PROVE  [Space!SpaceNext]_(Space!svars)
  OBVIOUS
<1>1. CASE UNCHANGED vars
  BY <1>1, QuietMaps DEF vars
<1>2. ASSUME NEW p \in Proc, Contract(p)
      PROVE  Space!SpaceNext
  <2>1. Space!Drop(p)
    BY <1>2, ContractInv DEF Contract, Space!Drop, Space!Clicks, Clicks
  <2> QED
    BY <2>1 DEF Space!SpaceNext
<1>3. ASSUME NEW p \in Proc, Wait(p)
      PROVE  Space!SpaceNext
  <2>1. Space!Reap(p)
    BY <1>3, WaitInv DEF Wait, Space!Reap, Space!Clicks, Clicks, Image
  <2> QED
    BY <2>1 DEF Space!SpaceNext
<1> QED
  BY <1>1, <1>2, <1>3, NewprocMaps, ExpandMaps DEF Next

(* malloc and mfree on coremap implement a plain set of free clicks: fork  *)
(* and exec take runs of free clicks, wait gives them back, and nothing    *)
(* else changes the set.                                                   *)
THEOREM CoreSpaceRefined == Spec => SpaceRefined
<1>1. Init => Space!SpaceInit
  BY InitInv DEF Init, Space!SpaceInit, Space!Clicks, Clicks
<1> QED
  BY <1>1, StepMaps, CoreInvariant, PTL DEF Spec, SpaceRefined, Space!SpaceSpec
=============================================================================
