-------------------------- MODULE FileBlocksProofs --------------------------
(***************************************************************************)
(* Proofs that the blocks of files are accounted for and keep their data:  *)
(* OneOwner, ReadBack and ShortTransfer of FileBlocks.                     *)
(***************************************************************************)
EXTENDS FileBlocks, TLAPS

-----------------------------------------------------------------------------
(* The inductive invariant.                                                *)
Calling == {"loop", "direct", "convert", "inode", "double", "indirect", "move"}

TypesOK ==
  /\ i_addr \in [File -> [Slot -> 0..NBLK]]
  /\ ilarg \in [File -> BOOLEAN]
  /\ i_size \in [File -> Nat]
  /\ disk \in [Block -> [Cell -> Nat]]
  /\ free \in SUBSET Block
  /\ written \in [File -> SUBSET Nat]
  /\ spilled \in [File -> SUBSET Nat]

(* A place names no free block, no two places name the same one, and every *)
(* block that is not free is named.                                        *)
PlacesOK ==
  /\ \A x \in Place : At(x) \in 0..NBLK /\ At(x) \notin free
  /\ \A x, y \in Place : At(x) # 0 /\ At(x) = At(y) => x = y
  /\ \A b \in Block : b \notin free => \E x \in Place : At(x) = b

(* The place of a block of a file.                                         *)
Pl(f, j, k, l) == [f |-> f, j |-> j, k |-> k, l |-> l]

LBlock == 0..MaxBlocks - 1
Small  == NINDIR * Double

Leaf(f, n) ==
  IF ~ilarg[f] THEN Pl(f, n, Here, Here)
  ELSE IF n < Small THEN Pl(f, n \div NINDIR, n % NINDIR, Here)
  ELSE Pl(f, Double, (n - Small) \div NINDIR, (n - Small) % NINDIR)

CellOK(f, n, k) ==
  LET o == n * NINDIR + k
      b == Lookup(f, n)
  IN IF b = 0 THEN o \notin written[f] \cup spilled[f]
     ELSE disk[b][k] = Holds(f, o)

DataOK == \A f \in File, n \in LBlock, k \in Cell : CellOK(f, n, k)

SizeOK == \A f \in File \ Dirs : \A o \in written[f] : o < i_size[f]

(* A call of readi or writei: what is left of it fits, and a read is still *)
(* before the end of the file.                                             *)
CallTypes ==
  /\ call \in [pc : Calling \cup {"idle", "return"}, f : File,
               rw : {"read", "write", "truncate"}, off : Nat, count : Nat,
               nb : 0..NBLK, fault : BOOLEAN]
  /\ call.pc \in Calling =>
       call.count > 0 /\ call.off + call.count - 1 \in Offset
  /\ call.pc \in Calling \ {"loop"} => Writing \/ call.off < i_size[call.f]

(* bmap has the block that belongs to the step it is in.                   *)
IndirectPlace ==
  Pl(call.f, IndirectSlot, IF InDouble THEN DoubleEntry ELSE Here, Here)

BmapOK ==
  /\ call.pc = "direct"   => ~ilarg[call.f] /\ Lbn < NADDR
  /\ call.pc = "convert"  => ~ilarg[call.f] /\ ~(Lbn < NADDR) /\ Writing
  /\ call.pc = "inode"    => ilarg[call.f]
  /\ call.pc = "double"   =>
       /\ ilarg[call.f] /\ InDouble /\ call.nb # 0
       /\ call.nb = At(Pl(call.f, Double, Here, Here))
  /\ call.pc = "indirect" =>
       ilarg[call.f] /\ call.nb # 0 /\ call.nb = At(IndirectPlace)
  /\ call.pc = "move"     => call.nb # 0 /\ call.nb = Lookup(call.f, Lbn)

IInv == TypesOK /\ PlacesOK /\ DataOK /\ SizeOK /\ CallTypes /\ BmapOK /\ ShortTransfer

-----------------------------------------------------------------------------
(* Division, with which bmap cuts an offset.                               *)
LEMMA DivMod ==
  ASSUME NEW N \in Nat \ {0}, NEW n \in Nat
  PROVE  /\ n \div N \in Nat /\ n % N \in 0..N - 1
         /\ n = N * (n \div N) + (n % N)
<1>1. n \div N \in Nat
  OBVIOUS
<1>2. n % N \in 0..N - 1
  OBVIOUS
<1>3. n = N * (n \div N) + (n % N)
  BY <1>1, <1>2, Z3
<1> QED BY <1>1, <1>2, <1>3


LEMMA Mult ==
  ASSUME NEW N \in Nat \ {0}, NEW a \in Int, NEW c \in Int, a < c
  PROVE  N * a + N <= N * c
  OBVIOUS

LEMMA Unique ==
  ASSUME NEW N \in Nat \ {0}, NEW a \in Int, NEW b \in 0..N - 1, NEW c \in Int,
         NEW d \in 0..N - 1, N * a + b = N * c + d
  PROVE  a = c /\ b = d
<1>1. ~(a < c)
  BY Mult
<1>2. ~(c < a)
  BY Mult
<1> QED
  BY <1>1, <1>2

LEMMA DivIs ==
  ASSUME NEW N \in Nat \ {0}, NEW a \in Nat, NEW b \in 0..N - 1
  PROVE  (N * a + b) \div N = a /\ (N * a + b) % N = b
<1>1. PICK n \in Nat : n = N * a + b
  OBVIOUS
<1>2. n \div N \in Nat /\ n % N \in 0..N - 1 /\ n = N * (n \div N) + (n % N)
  BY DivMod
<1> QED
  BY <1>1, <1>2, Unique

LEMMA DivLess ==
  ASSUME NEW N \in Nat \ {0}, NEW D \in Nat, NEW n \in Nat, n < N * D
  PROVE  n \div N < D
<1>1. n \div N \in Nat /\ n % N \in 0..N - 1 /\ n = N * (n \div N) + (n % N)
  BY DivMod
<1>2. PICK q \in Nat : q = n \div N
  BY <1>1
<1>3. ~(D < q)
  BY <1>1, <1>2, Mult
<1>4. D # q
  BY <1>1, <1>2
<1> QED
  BY <1>2, <1>3, <1>4

-----------------------------------------------------------------------------
(* The sizes of the file system, and the places of the blocks of a file.   *)
LEMMA Sizes ==
  /\ NINDIR \in Nat \ {0} /\ NADDR \in Nat /\ NADDR >= 2 /\ NADDR <= NINDIR
  /\ Double \in Nat \ {0} /\ Double \in Slot /\ 0 \in Slot /\ Double + 1 = NADDR
  /\ Slot \subseteq Cell /\ Cell \subseteq Nat /\ Here \notin Cell
  /\ Small \in Nat /\ NINDIR * NINDIR \in Nat
  /\ MaxBlocks = Small + NINDIR * NINDIR
  /\ NBLK \in Nat /\ NFILES \in Nat \ {0} /\ 1 \in File /\ Starts \subseteq Nat
  BY FileBlocksAssumption DEF Double, Slot, Cell, Small, MaxBlocks, File, Offset, Here

LEMMA SmallIs ==
  ASSUME NEW n \in LBlock
  PROVE  /\ n < Small => n \div NINDIR \in 0..Double - 1 /\ n % NINDIR \in Cell
         /\ ~(n < Small) => /\ (n - Small) \div NINDIR \in Cell
                            /\ (n - Small) % NINDIR \in Cell
<1>1. n \in Nat /\ n < Small + NINDIR * NINDIR
  BY Sizes DEF LBlock
<1>2. CASE n < Small
  <2>1. n \div NINDIR \in Nat /\ n % NINDIR \in 0..NINDIR - 1
    BY <1>1, Sizes, DivMod
  <2>2. n \div NINDIR < Double
    BY <1>1, <1>2, Sizes, DivLess DEF Small
  <2> QED
    BY <1>2, <2>1, <2>2, Sizes DEF Cell
<1>3. CASE ~(n < Small)
  <2>1. n - Small \in Nat /\ n - Small < NINDIR * NINDIR
    BY <1>1, <1>3, Sizes
  <2>2. PICK m \in Nat : m = n - Small /\ m < NINDIR * NINDIR
    BY <2>1
  <2>3. m \div NINDIR \in Nat /\ m % NINDIR \in 0..NINDIR - 1
    BY Sizes, DivMod
  <2>4. m \div NINDIR < NINDIR
    BY <2>2, Sizes, DivLess
  <2> QED
    BY <1>3, <2>2, <2>3, <2>4, Sizes DEF Cell
<1> QED
  BY <1>2, <1>3

(* A block of a small file beyond the addresses has no place.              *)
Placed(f, n) == ilarg[f] \/ n < NADDR

LEMMA LeafPlace ==
  ASSUME NEW f \in File, NEW n \in LBlock, Placed(f, n)
  PROVE  Leaf(f, n) \in Place /\ Leaf(f, n).f = f
<1>1. n \in Nat
  BY Sizes DEF LBlock
<1>2. CASE ~ilarg[f]
  BY <1>1, <1>2, Sizes DEF Leaf, Pl, Place, Placed, Slot, Here
<1>3. CASE ilarg[f] /\ n < Small
  BY <1>3, SmallIs, Sizes DEF Leaf, Pl, Place, Slot
<1>4. CASE ilarg[f] /\ ~(n < Small)
  BY <1>4, SmallIs, Sizes DEF Leaf, Pl, Place
<1> QED
  BY <1>2, <1>3, <1>4

LEMMA LookupAt ==
  ASSUME NEW f \in File, NEW n \in LBlock
  PROVE  Lookup(f, n) = IF Placed(f, n) THEN At(Leaf(f, n)) ELSE 0
<1>1. n \in Nat /\ (n - NINDIR * Double < 0 <=> n < Small)
  BY Sizes DEF LBlock, Small
<1>2. CASE ~ilarg[f]
  BY <1>2 DEF Leaf, Pl, Placed, Lookup, At
<1>3. CASE ilarg[f] /\ n < Small
  <2>1. n % NINDIR # Here
    BY <1>3, SmallIs, Sizes
  <2> QED
    BY <1>1, <1>3, <2>1 DEF Leaf, Pl, Placed, Lookup, At
<1>4. CASE ilarg[f] /\ ~(n < Small)
  <2>1. (n - Small) % NINDIR # Here /\ (n - Small) \div NINDIR # Here
    BY <1>4, SmallIs, Sizes
  <2> QED
    BY <1>1, <1>4, <2>1 DEF Leaf, Pl, Placed, Lookup, At, Small
<1> QED
  BY <1>2, <1>3, <1>4

LEMMA LeafInjective ==
  ASSUME NEW f \in File, NEW g \in File, NEW n \in LBlock, NEW m \in LBlock,
         Leaf(f, n) = Leaf(g, m)
  PROVE  f = g /\ n = m
<1>1. n \in Nat /\ m \in Nat
  BY Sizes DEF LBlock
<1>2. f = g
  BY DEF Leaf, Pl
<1>3. CASE ~ilarg[f]
  BY <1>2, <1>3 DEF Leaf, Pl
<1>4. CASE ilarg[f] /\ n < Small
  <2>1. n \div NINDIR # Double /\ n % NINDIR # Here
    BY <1>4, SmallIs, Sizes
  <2>2. m < Small /\ n \div NINDIR = m \div NINDIR /\ n % NINDIR = m % NINDIR
    BY <1>2, <1>4, <2>1 DEF Leaf, Pl
  <2> QED
    BY <1>1, <1>2, <2>2, Sizes, DivMod
<1>5. CASE ilarg[f] /\ ~(n < Small)
  <2>1. (n - Small) % NINDIR # Here
    BY <1>5, SmallIs, Sizes
  <2>2. ~(m < Small)
    BY <1>2, <1>5, <2>1 DEF Leaf, Pl
  <2>3. /\ (n - Small) \div NINDIR = (m - Small) \div NINDIR
        /\ (n - Small) % NINDIR = (m - Small) % NINDIR
    BY <1>2, <1>5, <2>2 DEF Leaf, Pl
  <2>4. PICK a \in Nat, b \in Nat : a = n - Small /\ b = m - Small
    BY <1>1, <1>5, <2>2, Sizes
  <2>5. a = b
    BY <2>3, <2>4, Sizes, DivMod
  <2> QED
    BY <1>1, <1>2, <2>4, <2>5, Sizes
<1> QED
  BY <1>2, <1>3, <1>4, <1>5

LEMMA LookupAtNext ==
  ASSUME NEW f \in File, NEW n \in LBlock
  PROVE  Lookup(f, n)' = IF Placed(f, n)' THEN At(Leaf(f, n))' ELSE 0
<1> DEFINE Is == \A g \in File, m \in LBlock :
                   Lookup(g, m) = IF Placed(g, m) THEN At(Leaf(g, m)) ELSE 0
<1>1. Is
  BY LookupAt
<1> HIDE DEF Is
<1>2. Is'
  BY <1>1, PTL
<1> QED
  BY <1>2 DEF Is

-----------------------------------------------------------------------------
(* The tree of places: an address of the inode, or an entry of the block   *)
(* named one place up.                                                     *)
Root(x)  == x.k = Here /\ x.l = Here
Below(x) == x.k # Here /\ ilarg[x.f] /\ (x.l = Here \/ x.j = Double)
Up(x)    == Pl(x.f, x.j, IF x.l = Here THEN Here ELSE x.k, Here)
Idx(x)   == IF x.l = Here THEN x.k ELSE x.l

AtIs(x) ==
  /\ Root(x) => At(x) = i_addr[x.f][x.j]
  /\ Below(x) => At(x) = Entry(At(Up(x)), Idx(x))
  /\ ~Root(x) /\ ~Below(x) => At(x) = 0

LEMMA UpPlace ==
  ASSUME NEW x \in Place
  PROVE  /\ x.f \in File /\ x.j \in Slot /\ Up(x) \in Place
         /\ Below(x) => Idx(x) \in Cell /\ ~Root(x)
         /\ Up(x).f = x.f /\ Up(x).j = x.j /\ Up(x).l = Here
         /\ x.l = Here => Root(Up(x))
         /\ x.l # Here /\ Below(x) => Below(Up(x))
  BY DEF Place, Up, Pl, Idx, Root, Below

LEMMA AtTree ==
  ASSUME NEW x \in Place
  PROVE  AtIs(x) /\ AtIs(x)'
<1> DEFINE Is == \A y \in Place : AtIs(y)
<1>1. ASSUME NEW y \in Place PROVE AtIs(y)
  <2>1. CASE Root(y)
    BY <2>1 DEF AtIs, At, Root, Below
  <2>2. CASE Below(y) /\ y.l = Here
    BY <2>2 DEF AtIs, At, Root, Below, Up, Pl, Idx
  <2>3. CASE Below(y) /\ y.l # Here
    BY <2>3 DEF AtIs, At, Root, Below, Up, Pl, Idx
  <2>4. CASE ~Root(y) /\ ~Below(y)
    BY <2>4 DEF AtIs, At, Root, Below
  <2> QED
    BY <2>1, <2>2, <2>3, <2>4
<1>2. Is
  BY <1>1
<1> HIDE DEF Is
<1>3. Is'
  BY <1>2, PTL
<1> QED
  BY <1>2, <1>3 DEF Is

LEMMA SameUp ==
  ASSUME NEW x \in Place, NEW y \in Place, Below(x), Below(y),
         Up(x) = Up(y), Idx(x) = Idx(y)
  PROVE  x = y
  BY Sizes DEF Place, Below, Up, Pl, Idx

(* A leaf is below an address of a large file, and nothing is below it.    *)
LEMMA LeafIsLeaf ==
  ASSUME NEW f \in File, NEW n \in LBlock, Placed(f, n),
         NEW x \in Place, Below(x)
  PROVE  Up(x) # Leaf(f, n)
<1>1. n < Small => n % NINDIR # Here /\ n \div NINDIR # Double
  BY SmallIs, Sizes
<1>2. ~(n < Small) => (n - Small) % NINDIR # Here
  BY SmallIs, Sizes
<1> QED
  BY <1>1, <1>2 DEF Below, Up, Pl, Leaf

-----------------------------------------------------------------------------
(* alloc: the new block is named at one place, which named none before.    *)
LEMMA NewBlockIs ==
  ASSUME TypesOK, free # {}
  PROVE  NewBlock \in free /\ NewBlock \in Block /\ NewBlock # 0
<1>1. NewBlock \in free
  BY DEF NewBlock
<1> QED
  BY <1>1 DEF TypesOK, Block

Gets(x, p) == At(x)' = IF x = p THEN NewBlock ELSE At(x)

LEMMA TreeGets ==
  ASSUME NEW p, ilarg' = ilarg,
         \A y \in Place : Root(y) => Gets(y, p),
         \A y \in Place : Below(y) /\ Gets(Up(y), p) => Gets(y, p),
         ~Root(p) => Below(p)
  PROVE  \A x \in Place : Gets(x, p)
<1> SUFFICES ASSUME NEW x \in Place PROVE Gets(x, p)
  OBVIOUS
<1>1. Root(x)' = Root(x) /\ Below(x)' = Below(x)
  BY DEF Root, Below
<1>2. CASE Root(x)
  BY <1>2
<1>3. ASSUME NEW y \in Place, Below(y), y.l = Here PROVE Gets(y, p)
  BY <1>3, UpPlace
<1>4. CASE Below(x)
  <2>1. CASE x.l = Here
    BY <1>3, <1>4, <2>1
  <2>2. CASE x.l # Here
    <3>1. Up(x) \in Place /\ Below(Up(x)) /\ Up(x).l = Here
      BY <1>4, <2>2, UpPlace
    <3> QED
      BY <1>3, <1>4, <3>1
  <2> QED
    BY <2>1, <2>2
<1>5. CASE ~Root(x) /\ ~Below(x)
  BY <1>1, <1>5, AtTree DEF AtIs, Gets
<1> QED
  BY <1>2, <1>4, <1>5

(* Direct and Inode: an address gets the block.                            *)
LEMMA TopGets ==
  ASSUME TypesOK, PlacesOK, NEW f \in File, NEW j \in Slot,
         i_addr[f][j] = 0, free # {}, ilarg' = ilarg,
         i_addr' = [i_addr EXCEPT ![f][j] = NewBlock],
         disk' = [disk EXCEPT ![NewBlock] = Zero]
  PROVE  /\ Pl(f, j, Here, Here) \in Place /\ At(Pl(f, j, Here, Here)) = 0
         /\ \A x \in Place : Gets(x, Pl(f, j, Here, Here))
<1> DEFINE p == Pl(f, j, Here, Here)
<1>0. p \in Place /\ Root(p) /\ p.f = f /\ p.j = j
  BY DEF Pl, Place, Root
<1>1. NewBlock \in free /\ NewBlock \in Block /\ NewBlock # 0
  BY NewBlockIs
<1>2. At(p) = 0
  BY <1>0, AtTree DEF AtIs
<1>3. ASSUME NEW y \in Place, Root(y) PROVE Gets(y, p)
  <2>1. y = p <=> y.f = f /\ y.j = j
    BY <1>3 DEF Root, Place, Pl
  <2>2. At(y)' = i_addr'[y.f][y.j] /\ At(y) = i_addr[y.f][y.j]
    BY <1>3, AtTree DEF AtIs, Root
  <2>3. i_addr'[y.f][y.j] = IF y.f = f /\ y.j = j THEN NewBlock ELSE i_addr[y.f][y.j]
    BY UpPlace DEF TypesOK
  <2> HIDE DEF p
  <2> QED
    BY <2>1, <2>2, <2>3 DEF Gets
<1>4. ASSUME NEW y \in Place, Below(y), Gets(Up(y), p) PROVE Gets(y, p)
  <2>1. Up(y) \in Place /\ Idx(y) \in Cell /\ ~Root(y) /\ y # p
    BY <1>4, UpPlace, <1>0
  <2>2. Below(y)'
    BY <1>4 DEF Below
  <2>3. /\ At(y) = Entry(At(Up(y)), Idx(y))
        /\ At(y)' = IF At(Up(y))' = 0 THEN 0 ELSE disk'[At(Up(y))'][Idx(y)]
    BY <1>4, <2>2, AtTree DEF AtIs, Entry
  <2>4. PICK a : a = At(Up(y))
    OBVIOUS
  <2>5. a \in 0..NBLK /\ a \notin free
    BY <2>1, <2>4 DEF PlacesOK
  <2>6. disk'[NewBlock] = Zero /\ Zero[Idx(y)] = 0
    BY <1>1, <2>1 DEF TypesOK, Zero
  <2>7. a # 0 => disk'[a] = disk[a]
    BY <1>1, <2>5 DEF TypesOK, Block
  <2> HIDE DEF p
  <2>8. At(Up(y))' = IF Up(y) = p THEN NewBlock ELSE a
    BY <1>4, <2>4 DEF Gets
  <2>9. Up(y) = p => a = 0
    BY <1>2, <2>4
  <2>10. At(y) = IF a = 0 THEN 0 ELSE disk[a][Idx(y)]
    BY <2>3, <2>4 DEF Entry
  <2> QED
    BY <1>1, <2>1, <2>3, <2>6, <2>7, <2>8, <2>9, <2>10 DEF Gets
<1> HIDE DEF p
<1>5. \A x \in Place : Gets(x, p)
  BY <1>0, <1>3, <1>4, TreeGets
<1> QED
  BY <1>0, <1>2, <1>5 DEF p

(* DoubleIndirect and Indirect: an entry of a named block gets it.         *)
LEMMA EntryGets ==
  ASSUME TypesOK, PlacesOK, NEW p \in Place, Below(p),
         At(Up(p)) # 0, At(p) = 0, free # {}, ilarg' = ilarg, i_addr' = i_addr,
         disk' = [disk EXCEPT ![NewBlock] = Zero,
                              ![At(Up(p))][Idx(p)] = NewBlock]
  PROVE  \A x \in Place : Gets(x, p)
<1>1. NewBlock \in free /\ NewBlock \in Block /\ NewBlock # 0
  BY NewBlockIs
<1>2. ASSUME NEW y \in Place, Root(y) PROVE Gets(y, p)
  <2>1. y # p
    BY <1>2, UpPlace
  <2>2. At(y)' = At(y)
    BY <1>2, AtTree DEF AtIs, Root
  <2> QED
    BY <2>1, <2>2 DEF Gets
<1>3. PICK q : q = At(Up(p))
  OBVIOUS
<1>4. Up(p) \in Place /\ Idx(p) \in Cell
  BY UpPlace
<1>5. q \in Block /\ q \notin free /\ q # 0
  BY <1>3, <1>4 DEF PlacesOK, Block
<1>6. disk' = [disk EXCEPT ![NewBlock] = Zero, ![q][Idx(p)] = NewBlock]
  BY <1>3
<1>7. ASSUME NEW y \in Place, Below(y), Gets(Up(y), p) PROVE Gets(y, p)
  <2>1. Up(y) \in Place /\ Idx(y) \in Cell
    BY <1>7, UpPlace
  <2>2. Below(y)'
    BY <1>7 DEF Below
  <2>3. /\ At(y) = Entry(At(Up(y)), Idx(y))
        /\ At(y)' = IF At(Up(y))' = 0 THEN 0 ELSE disk'[At(Up(y))'][Idx(y)]
    BY <1>7, <2>2, AtTree DEF AtIs, Entry
  <2>4. PICK a : a = At(Up(y))
    OBVIOUS
  <2>5. a \in 0..NBLK /\ a \notin free
    BY <2>1, <2>4 DEF PlacesOK
  <2>6. disk'[NewBlock][Idx(y)] = 0
    <3>1. disk'[NewBlock] = Zero
      BY <1>1, <1>5, <1>6 DEF TypesOK
    <3> QED
      BY <2>1, <3>1 DEF Zero
  <2>7. a # 0 => disk'[a][Idx(y)] = IF a = q /\ Idx(y) = Idx(p) THEN NewBlock
                                    ELSE disk[a][Idx(y)]
    <3>1. a # 0 => a \in Block /\ a # NewBlock
      BY <1>1, <2>5 DEF Block
    <3>2. disk'[q] = [disk[q] EXCEPT ![Idx(p)] = NewBlock]
      BY <1>1, <1>5, <1>6 DEF TypesOK
    <3>3. disk[q] \in [Cell -> Nat]
      BY <1>5 DEF TypesOK
    <3>4. disk'[q][Idx(y)] = IF Idx(y) = Idx(p) THEN NewBlock ELSE disk[q][Idx(y)]
      BY <2>1, <3>2, <3>3
    <3>5. a # 0 /\ a # q => disk'[a] = disk[a]
      BY <1>6, <3>1 DEF TypesOK
    <3> QED
      BY <3>4, <3>5
  <2>8. At(Up(y))' = IF Up(y) = p THEN NewBlock ELSE a
    BY <1>7, <2>4 DEF Gets
  <2>9. Up(y) = p => a = 0 /\ y # p
    BY <1>3, <1>5, <2>4
  <2>10. At(y) = IF a = 0 THEN 0 ELSE disk[a][Idx(y)]
    BY <2>3, <2>4 DEF Entry
  <2>11. a # 0 => (y = p <=> a = q /\ Idx(y) = Idx(p))
    <3>1. y = p => a = q /\ Idx(y) = Idx(p)
      BY <1>3, <2>4
    <3>2. a # 0 /\ a = q => Up(y) = Up(p)
      BY <1>3, <1>4, <2>1, <2>4 DEF PlacesOK
    <3> QED
      BY <1>7, <3>1, <3>2, SameUp
  <2>12. a = 0 => y # p
    BY <1>3, <1>5, <2>4
  <2> QED
    BY <1>1, <2>3, <2>6, <2>7, <2>8, <2>9, <2>10, <2>11, <2>12 DEF Gets
<1> QED
  BY <1>2, <1>7, TreeGets

(* The new block changes neither what the other places name nor the data.  *)
LEMMA AllocPlaces ==
  ASSUME TypesOK, PlacesOK, NEW p \in Place, At(p) = 0, free # {},
         free' = free \ {NewBlock}, \A x \in Place : Gets(x, p)
  PROVE  PlacesOK'
<1>1. NewBlock \in free /\ NewBlock \in Block /\ NewBlock # 0
  BY NewBlockIs
<1>2. ASSUME NEW x \in Place PROVE At(x)' \in 0..NBLK /\ At(x)' \notin free'
  BY <1>1, Sizes DEF PlacesOK, Gets, Block
<1>3. ASSUME NEW x \in Place, NEW y \in Place, At(x)' # 0, At(x)' = At(y)'
      PROVE  x = y
  BY <1>1, <1>3 DEF PlacesOK, Gets
<1>4. ASSUME NEW b \in Block, b \notin free' PROVE \E x \in Place : At(x)' = b
  <2>1. CASE b = NewBlock
    BY <2>1 DEF Gets
  <2>2. CASE b # NewBlock
    <3>1. PICK x \in Place : At(x) = b
      BY <1>4, <2>2 DEF PlacesOK
    <3>2. b # 0
      BY DEF Block
    <3> QED
      BY <3>1, <3>2 DEF Gets
  <2> QED
    BY <2>1, <2>2
<1> QED
  BY <1>2, <1>3, <1>4 DEF PlacesOK, Place

(* A block of a file stays where it is, or a hole becomes a clear block.   *)
Kept(f, n) ==
  \/ /\ Lookup(f, n)' = Lookup(f, n)
     /\ Lookup(f, n) # 0 => disk'[Lookup(f, n)] = disk[Lookup(f, n)]
  \/ /\ Lookup(f, n) = 0 /\ Lookup(f, n)' # 0
     /\ disk'[Lookup(f, n)'] = Zero

LEMMA DataKept ==
  ASSUME DataOK, UNCHANGED <<written, spilled>>, \A f \in File, n \in LBlock : Kept(f, n)
  PROVE  DataOK'
<1> SUFFICES ASSUME NEW f \in File, NEW n \in LBlock, NEW k \in Cell
             PROVE  CellOK(f, n, k)'
  BY DEF DataOK, LBlock, MaxBlocks
<1>1. PICK b, c, o : b = Lookup(f, n) /\ c = Lookup(f, n)' /\ o = n * NINDIR + k
  OBVIOUS
<1>2. IF b = 0 THEN o \notin written[f] \cup spilled[f]
      ELSE disk[b][k] = Holds(f, o)
  BY <1>1 DEF DataOK, CellOK
<1>3. \/ c = b /\ (b # 0 => disk'[b] = disk[b])
      \/ b = 0 /\ c # 0 /\ disk'[c] = Zero
  BY <1>1 DEF Kept
<1>4. k \in Cell /\ (o \notin written[f] \cup spilled[f] => Holds(f, o) = 0)
  BY DEF Holds
<1>5. IF c = 0 THEN o \notin written[f] \cup spilled[f]
      ELSE disk'[c][k] = Holds(f, o)
  BY <1>2, <1>3, <1>4 DEF Zero
<1> QED
  BY <1>1, <1>5 DEF CellOK, Holds, Tag

LEMMA AllocKeeps ==
  ASSUME TypesOK, PlacesOK, DataOK, NEW p \in Place, At(p) = 0, free # {},
         free' = free \ {NewBlock}, ilarg' = ilarg, UNCHANGED <<written, spilled>>,
         \A x \in Place : Gets(x, p),
         disk'[NewBlock] = Zero,
         \A f \in File, n \in LBlock :
           Lookup(f, n) # 0 => disk'[Lookup(f, n)] = disk[Lookup(f, n)]
  PROVE  PlacesOK' /\ DataOK'
<1>1. PlacesOK'
  BY AllocPlaces
<1>2. NewBlock # 0
  BY NewBlockIs
<1>3. ASSUME NEW f \in File, NEW n \in LBlock PROVE Kept(f, n)
  <2>1. Placed(f, n)' = Placed(f, n) /\ Leaf(f, n)' = Leaf(f, n)
    BY DEF Placed, Leaf
  <2>2. CASE ~Placed(f, n)
    BY <2>1, <2>2, LookupAt, LookupAtNext DEF Kept
  <2>3. CASE Placed(f, n)
    <3>1. PICK x \in Place : x = Leaf(f, n)
      BY <2>3, LeafPlace
    <3>2. Lookup(f, n) = At(x)
      BY <2>3, <3>1, LookupAt
    <3>3. Lookup(f, n)' = At(x)'
      <4>1. At(Leaf(f, n))' = At(x)'
        BY <2>1, <3>1 DEF At, Entry
      <4> QED
        BY <2>1, <2>3, <4>1, LookupAtNext
    <3>4. At(x)' = IF x = p THEN NewBlock ELSE At(x)
      BY DEF Gets
    <3> QED
      BY <1>2, <3>2, <3>3, <3>4 DEF Kept
  <2> QED
    BY <2>2, <2>3
<1>4. DataOK'
  BY <1>3, DataKept
<1> QED
  BY <1>1, <1>4

-----------------------------------------------------------------------------
(* The call in progress.                                                   *)
LEMMA LbnIs ==
  ASSUME CallTypes, call.pc \in Calling
  PROVE  /\ call.f \in File /\ call.off \in Nat /\ call.count \in Nat
         /\ Lbn \in LBlock /\ Lbn \in Nat
         /\ call.off % NINDIR \in Cell
         /\ call.off = NINDIR * Lbn + (call.off % NINDIR)
         /\ InDouble <=> ~(Lbn < Small)
<1>1. call.f \in File /\ call.off \in Nat /\ call.count \in Nat
  BY DEF CallTypes
<1>2. call.count > 0 /\ call.off + call.count - 1 \in Offset
  BY DEF CallTypes
<1>3. MaxBlocks \in Nat /\ NINDIR * MaxBlocks \in Int
  BY Sizes
<1>4. call.off < NINDIR * MaxBlocks
  BY <1>1, <1>2, <1>3 DEF Offset
<1>5. Lbn < MaxBlocks
  BY <1>1, <1>3, <1>4, Sizes, DivLess DEF Lbn
<1>6. /\ Lbn \in Nat /\ call.off % NINDIR \in 0..NINDIR - 1
      /\ call.off = NINDIR * Lbn + (call.off % NINDIR)
  BY <1>1, Sizes, DivMod DEF Lbn
<1>7. Lbn \in LBlock
  BY <1>3, <1>5, <1>6 DEF LBlock
<1>8. InDouble <=> ~(Lbn < Small)
  BY <1>6, Sizes DEF InDouble, Small
<1> QED
  BY <1>1, <1>6, <1>7, <1>8 DEF Cell

SameCall(pc, nb) ==
  /\ call'.pc = pc /\ call'.nb = nb
  /\ call'.f = call.f /\ call'.rw = call.rw /\ call'.off = call.off
  /\ call'.count = call.count /\ call'.fault = call.fault
  /\ Lbn' = Lbn /\ (InDouble' <=> InDouble) /\ (Writing' <=> Writing)
  /\ IndirectPlace' = IndirectPlace

LEMMA CallFrame ==
  ASSUME CallTypes, NEW pc \in Calling \cup {"return"}, NEW nb \in 0..NBLK,
         call' = [call EXCEPT !.pc = pc, !.nb = nb]
  PROVE  /\ SameCall(pc, nb)
         /\ call' \in [pc : Calling \cup {"idle", "return"}, f : File,
               rw : {"read", "write", "truncate"}, off : Nat, count : Nat,
               nb : 0..NBLK, fault : BOOLEAN]
<1>1. /\ call'.pc = pc /\ call'.nb = nb
      /\ call'.f = call.f /\ call'.rw = call.rw /\ call'.off = call.off
      /\ call'.count = call.count /\ call'.fault = call.fault
  BY DEF CallTypes
<1>2. Lbn' = Lbn
  BY <1>1 DEF Lbn
<1>3. InDouble' <=> InDouble
  BY <1>2 DEF InDouble
<1>4. IndirectPlace' = IndirectPlace
  BY <1>1, <1>2, <1>3 DEF IndirectPlace, IndirectSlot, DoubleEntry
<1>5. Writing' <=> Writing
  BY <1>1 DEF Writing
<1>6. call' \in [pc : Calling \cup {"idle", "return"}, f : File,
               rw : {"read", "write", "truncate"}, off : Nat, count : Nat,
               nb : 0..NBLK, fault : BOOLEAN]
  BY DEF CallTypes
<1> QED
  BY <1>1, <1>2, <1>3, <1>4, <1>5, <1>6 DEF SameCall

(* A step that leaves the files alone.                                     *)
LEMMA Quiet ==
  ASSUME IInv, UNCHANGED <<i_addr, ilarg, i_size, disk, free, written, spilled>>
  PROVE  /\ TypesOK' /\ PlacesOK' /\ DataOK' /\ SizeOK'
         /\ \A x \in Place : At(x)' = At(x)
         /\ \A f \in File, n \in LBlock : Lookup(f, n)' = Lookup(f, n)
<1>1. ASSUME NEW x PROVE At(x)' = At(x)
  BY DEF At, Entry
<1>2. ASSUME NEW f, NEW n PROVE Lookup(f, n)' = Lookup(f, n)
  BY DEF Lookup, Entry
<1>3. TypesOK'
  BY DEF IInv, TypesOK
<1>4. PlacesOK'
  BY <1>1 DEF IInv, PlacesOK, Place
<1>5. DataOK'
  <2>1. \A f \in File, n \in LBlock : Kept(f, n)
    BY <1>2 DEF Kept
  <2> QED
    BY <2>1, DataKept DEF IInv
<1>6. SizeOK'
  BY DEF IInv, SizeOK
<1> QED
  BY <1>1, <1>2, <1>3, <1>4, <1>5, <1>6

(* The call returns where it may.                                          *)
MayStop ==
  IF Writing THEN free = {}
  ELSE call.off >= i_size[call.f] \/ Lookup(call.f, Lbn) = 0

LEMMA ReturnStep ==
  ASSUME IInv, call.pc \in Calling, Return, MayStop,
         UNCHANGED <<i_addr, ilarg, i_size, disk, free, written, spilled>>
  PROVE  IInv'
<1>0. CallTypes /\ call.f \in File /\ Lbn \in LBlock
  BY LbnIs DEF IInv
<1>1. /\ SameCall("return", 0)
      /\ call' \in [pc : Calling \cup {"idle", "return"}, f : File,
               rw : {"read", "write", "truncate"}, off : Nat, count : Nat,
               nb : 0..NBLK, fault : BOOLEAN]
  <2>1. /\ 0 \in 0..NBLK
        /\ call' = [call EXCEPT !.pc = "return", !.nb = 0]
    BY Sizes DEF Return
  <2> QED
    BY <1>0, <2>1, CallFrame
<1>2. CallTypes' /\ BmapOK'
  BY <1>1 DEF CallTypes, BmapOK, SameCall, Calling
<1>3. ShortTransfer'
  <2>1. Lookup(call.f, Lbn)' = Lookup(call.f, Lbn)
    BY <1>1 DEF SameCall, Lookup, Entry
  <2> QED
    BY <1>1, <2>1 DEF ShortTransfer, MayStop, SameCall
<1> QED
  BY <1>2, <1>3, Quiet DEF IInv

(* bmap finds the next block and goes on with it.                          *)
LEMMA FoundStep ==
  ASSUME IInv, call.pc \in Calling \ {"loop"},
         NEW pc \in {"double", "indirect", "move"}, NEW nb \in 0..NBLK,
         call' = [call EXCEPT !.pc = pc, !.nb = nb],
         UNCHANGED <<i_addr, ilarg, i_size, disk, free, written, spilled>>,
         BmapOK'
  PROVE  IInv'
<1>1. /\ SameCall(pc, nb)
      /\ call' \in [pc : Calling \cup {"idle", "return"}, f : File,
               rw : {"read", "write", "truncate"}, off : Nat, count : Nat,
               nb : 0..NBLK, fault : BOOLEAN]
  <2>1. CallTypes /\ pc \in Calling \cup {"return"}
    BY DEF IInv, Calling
  <2> QED
    BY <2>1, CallFrame
<1>2. CallTypes'
  <2>1. pc \in Calling \ {"loop"}
    BY DEF Calling
  <2> QED
    BY <1>1, <2>1 DEF CallTypes, SameCall, IInv, Writing, Offset, MaxBlocks
<1>3. ShortTransfer'
  BY <1>1 DEF ShortTransfer, SameCall, Returned
<1> QED
  BY <1>2, <1>3, Quiet DEF IInv

(* bmap allocates the next block and goes on with it.                      *)
LEMMA AllocStep ==
  ASSUME IInv, call.pc \in Calling \ {"loop"}, Writing,
         NEW pc \in {"double", "indirect", "move"}, Alloc(pc),
         UNCHANGED <<ilarg, i_size, written, spilled>>,
         TypesOK', PlacesOK', DataOK', BmapOK'
  PROVE  IInv'
<1>0. NewBlock \in 0..NBLK /\ call' = [call EXCEPT !.pc = pc, !.nb = NewBlock]
  <2>1. NewBlock \in Block
    BY NewBlockIs DEF IInv, Alloc
  <2> QED
    BY <2>1, Sizes DEF Block, Alloc
<1>1. /\ SameCall(pc, NewBlock)
      /\ call' \in [pc : Calling \cup {"idle", "return"}, f : File,
               rw : {"read", "write", "truncate"}, off : Nat, count : Nat,
               nb : 0..NBLK, fault : BOOLEAN]
  <2>1. CallTypes /\ pc \in Calling \cup {"return"}
    BY DEF IInv, Calling
  <2> QED
    BY <1>0, <2>1, CallFrame
<1>2. CallTypes'
  <2>1. pc \in Calling \ {"loop"}
    BY DEF Calling
  <2> QED
    BY <1>1, <2>1 DEF CallTypes, SameCall, IInv, Writing, Offset, MaxBlocks
<1>3. ShortTransfer'
  BY <1>1 DEF ShortTransfer, SameCall, Returned
<1>4. SizeOK'
  BY DEF IInv, SizeOK
<1> QED
  BY <1>2, <1>3, <1>4 DEF IInv

-----------------------------------------------------------------------------
(* The steps of bmap.                                                      *)
LEMMA LookupUsed ==
  ASSUME PlacesOK, NEW f \in File, NEW n \in LBlock, Lookup(f, n) # 0
  PROVE  /\ Lookup(f, n) \in Block /\ Lookup(f, n) \notin free
         /\ Placed(f, n) /\ Lookup(f, n) = At(Leaf(f, n)) /\ Leaf(f, n) \in Place
<1>1. Placed(f, n) /\ Lookup(f, n) = At(Leaf(f, n))
  BY LookupAt
<1>2. Leaf(f, n) \in Place
  BY <1>1, LeafPlace
<1> QED
  BY <1>1, <1>2 DEF PlacesOK, Block

LEMMA TopAlloc ==
  ASSUME IInv, NEW f \in File, NEW j \in Slot, i_addr[f][j] = 0,
         free # {}, free' = free \ {NewBlock},
         UNCHANGED <<ilarg, i_size, written, spilled>>,
         i_addr' = [i_addr EXCEPT ![f][j] = NewBlock],
         disk' = [disk EXCEPT ![NewBlock] = Zero]
  PROVE  /\ TypesOK' /\ PlacesOK' /\ DataOK'
         /\ i_addr'[f][j] = NewBlock /\ NewBlock # 0
<1>0. TypesOK /\ PlacesOK /\ DataOK
  BY DEF IInv
<1>1. NewBlock \in free /\ NewBlock \in Block /\ NewBlock # 0
  BY <1>0, NewBlockIs
<1>2. Zero \in [Cell -> Nat] /\ NewBlock \in 0..NBLK
  BY <1>1, Sizes DEF Zero, Block
<1>3. TypesOK' /\ i_addr'[f][j] = NewBlock
  BY <1>0, <1>1, <1>2 DEF TypesOK
<1>4. PICK p \in Place : p = Pl(f, j, Here, Here) /\ At(p) = 0
                         /\ \A x \in Place : Gets(x, p)
  BY <1>0, TopGets
<1>5. disk'[NewBlock] = Zero
  BY <1>0, <1>1 DEF TypesOK
<1>6. ASSUME NEW g \in File, NEW n \in LBlock, Lookup(g, n) # 0
      PROVE  disk'[Lookup(g, n)] = disk[Lookup(g, n)]
  <2>1. Lookup(g, n) # NewBlock /\ Lookup(g, n) \in Block
    BY <1>0, <1>1, <1>6, LookupUsed
  <2> QED
    BY <1>0, <2>1 DEF TypesOK
<1>7. PlacesOK' /\ DataOK'
  BY <1>0, <1>4, <1>5, <1>6, AllocKeeps
<1> QED
  BY <1>1, <1>3, <1>7

LEMMA EntryAlloc ==
  ASSUME IInv, NEW p \in Place, Below(p), At(Up(p)) # 0, At(p) = 0,
         free # {}, free' = free \ {NewBlock},
         UNCHANGED <<i_addr, ilarg, i_size, written, spilled>>,
         disk' = [disk EXCEPT ![NewBlock] = Zero,
                              ![At(Up(p))][Idx(p)] = NewBlock]
  PROVE  /\ TypesOK' /\ PlacesOK' /\ DataOK'
         /\ At(p)' = NewBlock /\ NewBlock # 0
<1>0. TypesOK /\ PlacesOK /\ DataOK
  BY DEF IInv
<1>1. NewBlock \in free /\ NewBlock \in Block /\ NewBlock # 0
  BY <1>0, NewBlockIs
<1>2. Up(p) \in Place /\ Idx(p) \in Cell
  BY UpPlace
<1>3. PICK q : q = At(Up(p))
  OBVIOUS
<1>4. q \in Block /\ q # NewBlock
  BY <1>0, <1>1, <1>2, <1>3 DEF PlacesOK, Block
<1>5. disk' = [disk EXCEPT ![NewBlock] = Zero, ![q][Idx(p)] = NewBlock]
  BY <1>3
<1>6. Zero \in [Cell -> Nat] /\ NewBlock \in Nat
  BY <1>1, Sizes DEF Zero, Block
<1>7. TypesOK'
  <2>1. PICK d \in [Block -> [Cell -> Nat]] : d = [disk EXCEPT ![NewBlock] = Zero]
    BY <1>0, <1>6 DEF TypesOK
  <2>2. PICK r \in [Cell -> Nat] : r = [d[q] EXCEPT ![Idx(p)] = NewBlock]
    BY <1>4, <1>6
  <2>3. disk' = [d EXCEPT ![q] = r]
    BY <1>5, <2>1, <2>2
  <2>4. disk' \in [Block -> [Cell -> Nat]]
    BY <2>3
  <2>5. free' \in SUBSET Block
    BY <1>0 DEF TypesOK
  <2> QED
    BY <1>0, <2>4, <2>5 DEF TypesOK
<1>8. \A x \in Place : Gets(x, p)
  BY <1>0, EntryGets
<1>9. disk'[NewBlock] = Zero
  BY <1>0, <1>1, <1>4, <1>5 DEF TypesOK
<1>10. ASSUME NEW g \in File, NEW n \in LBlock, Lookup(g, n) # 0
       PROVE  disk'[Lookup(g, n)] = disk[Lookup(g, n)]
  <2>1. /\ Lookup(g, n) # NewBlock /\ Lookup(g, n) \in Block
        /\ Placed(g, n) /\ Lookup(g, n) = At(Leaf(g, n)) /\ Leaf(g, n) \in Place
    BY <1>0, <1>1, <1>10, LookupUsed
  <2>2. Up(p) # Leaf(g, n)
    BY <2>1, LeafIsLeaf
  <2>3. Lookup(g, n) # q
    BY <1>0, <1>2, <1>3, <1>10, <2>1, <2>2 DEF PlacesOK
  <2> QED
    BY <1>0, <1>1, <1>4, <1>5, <2>1, <2>3 DEF TypesOK
<1>11. PlacesOK' /\ DataOK'
  BY <1>0, <1>8, <1>9, <1>10, AllocKeeps
<1> QED
  BY <1>1, <1>7, <1>8, <1>11 DEF Gets

LEMMA LoopStep ==
  ASSUME IInv, Loop
  PROVE  IInv'
<1>0. /\ CallTypes /\ BmapOK /\ ShortTransfer /\ call.pc = "loop"
      /\ call.pc \in Calling
  BY DEF IInv, Loop, Calling
<1>1. UNCHANGED <<i_addr, ilarg, i_size, disk, free, written, spilled>>
  BY DEF Loop
<1>2. PICK pc : /\ pc = IF ~Writing /\ call.off >= i_size[call.f] THEN "return"
                        ELSE IF ilarg[call.f] THEN "inode"
                        ELSE IF Lbn < NADDR THEN "direct"
                        ELSE IF Writing THEN "convert" ELSE "return"
                /\ call' = [call EXCEPT !.pc = pc]
  BY DEF Loop
<1>3. /\ SameCall(pc, call.nb)
      /\ call' \in [pc : Calling \cup {"idle", "return"}, f : File,
               rw : {"read", "write", "truncate"}, off : Nat, count : Nat,
               nb : 0..NBLK, fault : BOOLEAN]
  <2>1. call.nb \in 0..NBLK /\ pc \in Calling \cup {"return"}
    BY <1>0, <1>2 DEF CallTypes, Calling
  <2>2. call' = [call EXCEPT !.pc = pc, !.nb = call.nb]
    BY <1>0, <1>2 DEF CallTypes
  <2> QED
    BY <1>0, <2>1, <2>2, CallFrame
<1>4. call.f \in File /\ call.off \in Nat /\ Lbn \in LBlock
  BY <1>0, LbnIs
<1>5. i_size[call.f] \in Nat
  BY <1>4 DEF IInv, TypesOK
<1>6. CallTypes'
  <2>1. call'.pc # "return" => Writing \/ call.off < i_size[call.f]
    BY <1>2, <1>3, <1>4, <1>5 DEF SameCall
  <2>2. call.count > 0 /\ call.off + call.count - 1 \in Offset
    BY <1>0 DEF CallTypes
  <2> QED
    BY <1>1, <1>3, <2>1, <2>2 DEF CallTypes, SameCall, Calling, Offset, MaxBlocks
<1>7. BmapOK'
  BY <1>1, <1>2, <1>3 DEF BmapOK, SameCall
<1>8. ShortTransfer'
  <2>1. Lookup(call.f, Lbn)' = Lookup(call.f, Lbn)
    BY <1>1, <1>3 DEF SameCall, Lookup, Entry
  <2>2. ~ilarg[call.f] /\ ~(Lbn < NADDR) => Lookup(call.f, Lbn) = 0
    BY DEF Lookup
  <2> QED
    BY <1>1, <1>2, <1>3, <2>1, <2>2 DEF ShortTransfer, SameCall, Returned
<1> QED
  BY <1>1, <1>6, <1>7, <1>8, Quiet DEF IInv

LEMMA DirectStep ==
  ASSUME IInv, Direct
  PROVE  IInv'
<1>0. /\ CallTypes /\ BmapOK /\ call.pc = "direct" /\ call.pc \in Calling
      /\ call.pc \in Calling \ {"loop"} /\ TypesOK
  BY DEF IInv, Direct, Calling
<1>1. call.f \in File /\ Lbn \in LBlock /\ Lbn \in Nat
  BY <1>0, LbnIs
<1>2. ~ilarg[call.f] /\ Lbn < NADDR /\ Lbn \in Slot
  BY <1>0, <1>1, Sizes DEF BmapOK, Slot
<1>3. Lookup(call.f, Lbn) = i_addr[call.f][Lbn]
  BY <1>2 DEF Lookup
<1>4. UNCHANGED <<ilarg, i_size, written, spilled>>
  BY DEF Direct
<1>5. i_addr[call.f][Lbn] \in 0..NBLK
  BY <1>0, <1>1, <1>2 DEF TypesOK
<1>6. CASE /\ i_addr[call.f][Lbn] # 0
           /\ call' = [call EXCEPT !.pc = "move", !.nb = i_addr[call.f][Lbn]]
           /\ UNCHANGED <<i_addr, disk, free>>
  <2>1. SameCall("move", i_addr[call.f][Lbn])
    BY <1>0, <1>5, <1>6, CallFrame DEF Calling
  <2>2. Lookup(call.f, Lbn)' = Lookup(call.f, Lbn)
    BY <1>4, <1>6, <2>1 DEF SameCall, Lookup, Entry
  <2>3. BmapOK'
    BY <1>3, <1>6, <2>1, <2>2 DEF BmapOK, SameCall
  <2> QED
    BY <1>0, <1>4, <1>5, <1>6, <2>3, FoundStep
<1>7. CASE /\ i_addr[call.f][Lbn] = 0 /\ ~Writing
           /\ Return /\ UNCHANGED <<i_addr, disk, free>>
  <2>1. MayStop
    BY <1>3, <1>7 DEF MayStop
  <2> QED
    BY <1>0, <1>4, <1>7, <2>1, ReturnStep
<1>8. CASE NoSpace /\ UNCHANGED <<i_addr, disk>>
  <2>1. MayStop /\ Return /\ UNCHANGED free
    BY <1>8 DEF MayStop, NoSpace
  <2> QED
    BY <1>0, <1>4, <1>8, <2>1, ReturnStep
<1>9. CASE /\ i_addr[call.f][Lbn] = 0 /\ Writing
           /\ Alloc("move")
           /\ disk' = [disk EXCEPT ![NewBlock] = Zero]
           /\ i_addr' = [i_addr EXCEPT ![call.f][Lbn] = NewBlock]
  <2>1. /\ free # {} /\ free' = free \ {NewBlock}
        /\ call' = [call EXCEPT !.pc = "move", !.nb = NewBlock]
    BY <1>9 DEF Alloc
  <2>2. PICK f \in File, j \in Slot : f = call.f /\ j = Lbn
    BY <1>1, <1>2
  <2>3. /\ TypesOK' /\ PlacesOK' /\ DataOK'
        /\ i_addr'[f][j] = NewBlock /\ NewBlock # 0
    <3>1. /\ i_addr[f][j] = 0 /\ i_addr' = [i_addr EXCEPT ![f][j] = NewBlock]
          /\ disk' = [disk EXCEPT ![NewBlock] = Zero]
      BY <1>9, <2>2
    <3> QED
      BY <1>4, <2>1, <3>1, TopAlloc
  <2>4. SameCall("move", NewBlock)
    <3>1. NewBlock \in 0..NBLK
      BY <1>0, <2>1, NewBlockIs, Sizes DEF Block
    <3> QED
      BY <1>0, <2>1, <3>1, CallFrame DEF Calling
  <2>5. Lookup(call.f, Lbn)' = NewBlock
    BY <1>2, <1>4, <2>2, <2>3, <2>4 DEF Lookup, SameCall
  <2>6. BmapOK'
    BY <2>3, <2>4, <2>5 DEF BmapOK, SameCall
  <2> QED
    BY <1>0, <1>4, <1>9, <2>3, <2>6, AllocStep
<1> QED
  BY <1>6, <1>7, <1>8, <1>9 DEF Direct

(* The places that bmap walks through in a large file.                     *)
DoublePlace == Pl(call.f, Double, DoubleEntry, Here)

LEMMA BmapPlaces ==
  ASSUME CallTypes, call.pc \in Calling, ilarg[call.f]
  PROVE  /\ IndirectSlot \in Slot
         /\ Leaf(call.f, Lbn) \in Place /\ Below(Leaf(call.f, Lbn))
         /\ Up(Leaf(call.f, Lbn)) = IndirectPlace
         /\ Idx(Leaf(call.f, Lbn)) = IndirectEntry
         /\ ~InDouble => IndirectPlace = Pl(call.f, IndirectSlot, Here, Here)
         /\ InDouble => /\ IndirectSlot = Double /\ IndirectPlace = DoublePlace
                        /\ DoublePlace \in Place /\ Below(DoublePlace)
                        /\ Up(DoublePlace) = Pl(call.f, Double, Here, Here)
                        /\ Idx(DoublePlace) = DoubleEntry
<1>1. /\ call.f \in File /\ Lbn \in LBlock /\ Lbn \in Nat
      /\ InDouble <=> ~(Lbn < Small)
  BY LbnIs
<1>2. Leaf(call.f, Lbn) \in Place
  BY <1>1, LeafPlace DEF Placed
<1>3. CASE Lbn < Small
  <2>1. Lbn \div NINDIR \in 0..Double - 1 /\ Lbn % NINDIR \in Cell
    BY <1>1, <1>3, SmallIs
  <2>2. Lbn \div NINDIR \in Slot /\ Lbn % NINDIR # Here
    BY <2>1, Sizes DEF Slot
  <2>3. Leaf(call.f, Lbn) = Pl(call.f, Lbn \div NINDIR, Lbn % NINDIR, Here)
    BY <1>3 DEF Leaf
  <2>4. /\ IndirectSlot = Lbn \div NINDIR /\ IndirectEntry = Lbn % NINDIR
        /\ IndirectPlace = Pl(call.f, IndirectSlot, Here, Here)
    BY <1>1, <1>3 DEF IndirectSlot, IndirectEntry, IndirectPlace
  <2> QED
    BY <1>1, <1>2, <1>3, <2>2, <2>3, <2>4 DEF Below, Up, Idx, Pl
<1>4. CASE ~(Lbn < Small)
  <2>1. (Lbn - Small) \div NINDIR \in Cell /\ (Lbn - Small) % NINDIR \in Cell
    BY <1>1, <1>4, SmallIs
  <2>2. /\ DoubleEntry \in Cell /\ DoubleEntry = (Lbn - Small) \div NINDIR
        /\ IndirectEntry \in Cell /\ IndirectEntry = (Lbn - Small) % NINDIR
    BY <1>1, <1>4, <2>1 DEF DoubleEntry, IndirectEntry, Small
  <2>3. Leaf(call.f, Lbn) = Pl(call.f, Double, DoubleEntry, IndirectEntry)
    BY <1>4, <2>2 DEF Leaf
  <2>4. IndirectSlot = Double /\ IndirectPlace = DoublePlace /\ Double \in Slot
    BY <1>1, <1>4, Sizes DEF IndirectSlot, IndirectPlace, DoublePlace
  <2>5. DoubleEntry # Here /\ IndirectEntry # Here
    BY <2>2, Sizes
  <2>6. DoublePlace \in Place
    BY <1>1, <2>2, <2>4 DEF DoublePlace, Pl, Place
  <2> QED
    BY <1>1, <1>2, <1>4, <2>3, <2>4, <2>5, <2>6 DEF Below, Up, Idx, Pl, DoublePlace
<1> QED
  BY <1>3, <1>4

(* A hole in the indirect blocks is one of the file.                       *)
LEMMA HoleAbove ==
  ASSUME NEW f \in File, NEW n \in LBlock, ilarg[f],
         Leaf(f, n) \in Place, Below(Leaf(f, n)), At(Up(Leaf(f, n))) = 0
  PROVE  Lookup(f, n) = 0
<1>1. At(Leaf(f, n)) = 0
  BY AtTree DEF AtIs, Entry
<1> QED
  BY <1>1, LookupAt

LEMMA RootAt ==
  ASSUME NEW f, NEW j
  PROVE  /\ At(Pl(f, j, Here, Here)) = i_addr[f][j]
         /\ At(Pl(f, j, Here, Here))' = i_addr'[f][j]
  BY DEF At, Pl

LEMMA InodeStep ==
  ASSUME IInv, Inode
  PROVE  IInv'
<1>0. /\ CallTypes /\ BmapOK /\ call.pc = "inode" /\ call.pc \in Calling
      /\ call.pc \in Calling \ {"loop"} /\ TypesOK
  BY DEF IInv, Inode, Calling
<1>1. call.f \in File /\ Lbn \in LBlock /\ ilarg[call.f]
  BY <1>0, LbnIs DEF BmapOK
<1>2. /\ IndirectSlot \in Slot
      /\ Leaf(call.f, Lbn) \in Place /\ Below(Leaf(call.f, Lbn))
      /\ Up(Leaf(call.f, Lbn)) = IndirectPlace
      /\ ~InDouble => IndirectPlace = Pl(call.f, IndirectSlot, Here, Here)
      /\ InDouble => /\ IndirectSlot = Double /\ IndirectPlace = DoublePlace
                     /\ DoublePlace \in Place /\ Below(DoublePlace)
                     /\ Up(DoublePlace) = Pl(call.f, Double, Here, Here)
  BY <1>0, <1>1, BmapPlaces
<1>3. PICK f \in File, j \in Slot : f = call.f /\ j = IndirectSlot
  BY <1>1, <1>2
<1>4. UNCHANGED <<ilarg, i_size, written, spilled>>
  BY DEF Inode
<1>5. PICK pc \in {"double", "indirect"} :
        pc = IF InDouble THEN "double" ELSE "indirect"
  OBVIOUS
<1>6. i_addr[f][j] \in 0..NBLK
  BY <1>0 DEF TypesOK
<1>7. i_addr[f][j] = 0 => Lookup(call.f, Lbn) = 0
  <2>1. CASE ~InDouble
    BY <1>1, <1>2, <1>3, <2>1, RootAt, HoleAbove
  <2>2. CASE InDouble
    <3>1. i_addr[f][j] = 0 => At(DoublePlace) = 0
      BY <1>2, <1>3, <2>2, RootAt, AtTree DEF AtIs, Entry
    <3> QED
      BY <1>1, <1>2, <2>2, <3>1, HoleAbove
  <2> QED
    BY <2>1, <2>2
<1>8. ASSUME NEW b \in 0..NBLK, b # 0, SameCall(pc, b), i_addr'[f][j] = b
      PROVE  BmapOK'
  <2>1. call'.f = f /\ ilarg'[f] /\ call'.nb = b /\ call'.pc = pc
    BY <1>1, <1>3, <1>4, <1>8 DEF SameCall
  <2>2. At(Pl(f, j, Here, Here))' = b
    BY <1>8, RootAt
  <2>3. CASE InDouble
    <3>1. At(Pl(call.f, Double, Here, Here))' = b
      <4>1. j = Double
        BY <1>2, <1>3, <2>3
      <4>2. At(Pl(call.f, Double, Here, Here))' = At(Pl(f, j, Here, Here))'
        BY <1>3, <2>1, <4>1 DEF Pl, At, Entry
      <4> QED
        BY <2>2, <4>2
    <3> QED
      BY <1>5, <1>8, <2>1, <2>3, <3>1 DEF BmapOK, SameCall
  <2>4. CASE ~InDouble
    <3>1. At(IndirectPlace)' = b
      <4>1. IndirectPlace' = Pl(f, j, Here, Here)
        BY <1>2, <1>3, <1>8, <2>4 DEF SameCall
      <4>2. At(IndirectPlace)' = At(Pl(f, j, Here, Here))'
        BY <4>1 DEF At, Entry
      <4> QED
        BY <2>2, <4>2
    <3> QED
      BY <1>5, <1>8, <2>1, <2>4, <3>1 DEF BmapOK, SameCall
  <2> QED
    BY <2>3, <2>4
<1>9. CASE /\ i_addr[f][j] # 0
           /\ call' = [call EXCEPT !.pc = pc, !.nb = i_addr[f][j]]
           /\ UNCHANGED <<i_addr, disk, free>>
  <2>1. PICK b \in 0..NBLK : b = i_addr[f][j]
    BY <1>6
  <2>2. call' = [call EXCEPT !.pc = pc, !.nb = b]
    BY <1>9, <2>1
  <2>3. SameCall(pc, b)
    BY <1>0, <2>2, CallFrame DEF Calling
  <2>4. BmapOK'
    BY <1>8, <1>9, <2>1, <2>3
  <2> QED
    BY <1>0, <1>4, <1>9, <2>2, <2>4, FoundStep
<1>10. CASE /\ i_addr[f][j] = 0 /\ ~Writing
            /\ Return /\ UNCHANGED <<i_addr, disk, free>>
  <2>1. MayStop
    BY <1>7, <1>10 DEF MayStop
  <2> QED
    BY <1>0, <1>4, <1>10, <2>1, ReturnStep
<1>11. CASE NoSpace /\ UNCHANGED <<i_addr, disk>>
  <2>1. MayStop /\ Return /\ UNCHANGED free
    BY <1>11 DEF MayStop, NoSpace
  <2> QED
    BY <1>0, <1>4, <1>11, <2>1, ReturnStep
<1>12. CASE /\ i_addr[f][j] = 0 /\ Writing /\ Alloc(pc)
            /\ disk' = [disk EXCEPT ![NewBlock] = Zero]
            /\ i_addr' = [i_addr EXCEPT ![f][j] = NewBlock]
  <2>1. /\ free # {} /\ free' = free \ {NewBlock}
        /\ call' = [call EXCEPT !.pc = pc, !.nb = NewBlock]
    BY <1>12 DEF Alloc
  <2>2. /\ TypesOK' /\ PlacesOK' /\ DataOK'
        /\ i_addr'[f][j] = NewBlock /\ NewBlock # 0
    BY <1>4, <1>12, <2>1, TopAlloc
  <2>3. NewBlock \in 0..NBLK
    BY <1>0, <2>1, NewBlockIs, Sizes DEF Block
  <2>4. SameCall(pc, NewBlock)
    BY <1>0, <2>1, <2>3, CallFrame DEF Calling
  <2>5. BmapOK'
    BY <1>8, <2>2, <2>3, <2>4
  <2> QED
    BY <1>0, <1>4, <1>12, <2>2, <2>5, AllocStep
<1> QED
  BY <1>3, <1>5, <1>9, <1>10, <1>11, <1>12 DEF Inode

(* An entry of an indirect block is followed or filled.                    *)
LEMMA FollowStep ==
  ASSUME IInv, call.pc \in Calling \ {"loop"},
         NEW pc \in {"indirect", "move"}, NEW p \in Place, Below(p),
         At(Up(p)) = call.nb, call.nb # 0, Follow(Idx(p), pc),
         UNCHANGED <<i_addr, ilarg, i_size, written, spilled>>,
         At(p) = 0 => Lookup(call.f, Lbn) = 0,
         \A b : b # 0 /\ SameCall(pc, b) /\ At(p)' = b => BmapOK'
  PROVE  IInv'
<1>0. CallTypes /\ PlacesOK /\ TypesOK /\ call.pc \in Calling
  BY DEF IInv
<1>1. At(p) = disk[call.nb][Idx(p)]
  BY AtTree DEF AtIs, Entry
<1>2. At(p) \in 0..NBLK
  BY <1>0 DEF PlacesOK
<1>3. CASE /\ At(p) # 0
           /\ call' = [call EXCEPT !.pc = pc, !.nb = At(p)]
           /\ UNCHANGED <<disk, free>>
  <2>1. PICK b \in 0..NBLK : b = At(p)
    BY <1>2
  <2>2. call' = [call EXCEPT !.pc = pc, !.nb = b]
    BY <1>3, <2>1
  <2>3. SameCall(pc, b)
    BY <1>0, <2>2, CallFrame DEF Calling
  <2>4. At(p)' = b
    BY <1>3, <2>1 DEF At, Entry
  <2>5. BmapOK'
    BY <1>3, <2>1, <2>3, <2>4
  <2> QED
    BY <1>3, <2>2, <2>5, FoundStep
<1>4. CASE /\ At(p) = 0 /\ ~Writing
           /\ Return /\ UNCHANGED <<disk, free>>
  <2>1. MayStop
    BY <1>4 DEF MayStop
  <2> QED
    BY <1>0, <1>4, <2>1, ReturnStep
<1>5. CASE NoSpace /\ UNCHANGED disk
  <2>1. MayStop /\ Return /\ UNCHANGED free
    BY <1>5 DEF MayStop, NoSpace
  <2> QED
    BY <1>0, <1>5, <2>1, ReturnStep
<1>6. CASE /\ At(p) = 0 /\ Writing /\ Alloc(pc)
           /\ disk' = [disk EXCEPT ![NewBlock] = Zero, ![call.nb][Idx(p)] = NewBlock]
  <2>1. /\ free # {} /\ free' = free \ {NewBlock}
        /\ call' = [call EXCEPT !.pc = pc, !.nb = NewBlock]
    BY <1>6 DEF Alloc
  <2>2. /\ TypesOK' /\ PlacesOK' /\ DataOK'
        /\ At(p)' = NewBlock /\ NewBlock # 0
    <3>1. disk' = [disk EXCEPT ![NewBlock] = Zero,
                               ![At(Up(p))][Idx(p)] = NewBlock]
      BY <1>6
    <3>2. At(Up(p)) # 0 /\ At(p) = 0
      BY <1>6
    <3> QED
      BY <2>1, <3>1, <3>2, EntryAlloc
  <2>3. NewBlock \in 0..NBLK
    BY <1>0, <2>1, NewBlockIs, Sizes DEF Block
  <2>4. SameCall(pc, NewBlock)
    BY <1>0, <2>1, <2>3, CallFrame DEF Calling
  <2>5. BmapOK'
    BY <2>2, <2>4
  <2> QED
    BY <1>6, <2>2, <2>5, AllocStep
<1> QED
  BY <1>1, <1>3, <1>4, <1>5, <1>6 DEF Follow

LEMMA DoubleStep ==
  ASSUME IInv, DoubleIndirect
  PROVE  IInv'
<1>0. /\ CallTypes /\ BmapOK /\ call.pc = "double" /\ call.pc \in Calling
      /\ call.pc \in Calling \ {"loop"}
  BY DEF IInv, DoubleIndirect, Calling
<1>1. /\ call.f \in File /\ Lbn \in LBlock /\ ilarg[call.f] /\ InDouble
      /\ call.nb # 0 /\ call.nb = At(Pl(call.f, Double, Here, Here))
  BY <1>0, LbnIs DEF BmapOK
<1>2. /\ Leaf(call.f, Lbn) \in Place /\ Below(Leaf(call.f, Lbn))
      /\ Up(Leaf(call.f, Lbn)) = IndirectPlace
      /\ IndirectPlace = DoublePlace
      /\ DoublePlace \in Place /\ Below(DoublePlace)
      /\ Up(DoublePlace) = Pl(call.f, Double, Here, Here)
      /\ Idx(DoublePlace) = DoubleEntry
  BY <1>0, <1>1, BmapPlaces
<1>3. PICK p \in Place : p = DoublePlace
  BY <1>2
<1>4. UNCHANGED <<i_addr, ilarg, i_size, written, spilled>>
  BY DEF DoubleIndirect
<1>5. Below(p) /\ At(Up(p)) = call.nb /\ Follow(Idx(p), "indirect")
  BY <1>1, <1>2, <1>3 DEF DoubleIndirect
<1>6. At(p) = 0 => Lookup(call.f, Lbn) = 0
  BY <1>1, <1>2, <1>3, HoleAbove
<1>7. ASSUME NEW b, b # 0, SameCall("indirect", b), At(p)' = b
      PROVE  BmapOK'
  <2>1. IndirectPlace' = p
    BY <1>2, <1>3, <1>7 DEF SameCall
  <2>2. At(IndirectPlace)' = b
    BY <1>7, <2>1 DEF At, Entry
  <2>3. call'.f = call.f /\ ilarg'[call.f]
    BY <1>1, <1>4, <1>7 DEF SameCall
  <2> QED
    BY <1>7, <2>2, <2>3 DEF BmapOK, SameCall
<1> QED
  BY <1>0, <1>1, <1>4, <1>5, <1>6, <1>7, FollowStep

LEMMA IndirectStep ==
  ASSUME IInv, Indirect
  PROVE  IInv'
<1>0. /\ CallTypes /\ BmapOK /\ call.pc = "indirect" /\ call.pc \in Calling
      /\ call.pc \in Calling \ {"loop"}
  BY DEF IInv, Indirect, Calling
<1>1. /\ call.f \in File /\ Lbn \in LBlock /\ ilarg[call.f]
      /\ call.nb # 0 /\ call.nb = At(IndirectPlace)
  BY <1>0, LbnIs DEF BmapOK
<1>2. /\ Leaf(call.f, Lbn) \in Place /\ Below(Leaf(call.f, Lbn))
      /\ Up(Leaf(call.f, Lbn)) = IndirectPlace
      /\ Idx(Leaf(call.f, Lbn)) = IndirectEntry
  BY <1>0, <1>1, BmapPlaces
<1>3. PICK p \in Place : p = Leaf(call.f, Lbn)
  BY <1>2
<1>4. UNCHANGED <<i_addr, ilarg, i_size, written, spilled>>
  BY DEF Indirect
<1>5. Below(p) /\ At(Up(p)) = call.nb /\ Follow(Idx(p), "move")
  BY <1>1, <1>2, <1>3 DEF Indirect
<1>6. At(p) = 0 => Lookup(call.f, Lbn) = 0
  BY <1>1, <1>3, LookupAt
<1>7. ASSUME NEW b, b # 0, SameCall("move", b), At(p)' = b
      PROVE  BmapOK'
  <2>1. PICK f \in File, n \in LBlock : f = call.f /\ n = Lbn
    BY <1>1
  <2>2. Leaf(f, n)' = p /\ Placed(f, n)'
    BY <1>1, <1>3, <1>4, <2>1 DEF Leaf, Placed
  <2>3. At(Leaf(f, n))' = b
    BY <1>7, <2>2 DEF At, Entry
  <2>4. Lookup(f, n)' = b
    BY <2>2, <2>3, LookupAtNext
  <2>5. Lookup(call.f, Lbn)' = Lookup(f, n)'
    BY <1>7, <2>1 DEF SameCall, Lookup, Entry
  <2> QED
    BY <1>7, <2>4, <2>5 DEF BmapOK, SameCall
<1> QED
  BY <1>0, <1>1, <1>4, <1>5, <1>6, <1>7, FollowStep

(* The places of a file whose addresses and indirect blocks stay the same. *)
LEMMA TreeSame ==
  ASSUME NEW x \in Place, i_addr'[x.f] = i_addr[x.f], ilarg'[x.f] = ilarg[x.f],
         \A y \in Place : y.f = x.f /\ Below(y) /\ At(Up(y)) # 0 =>
           disk'[At(Up(y))] = disk[At(Up(y))]
  PROVE  At(x)' = At(x)
<1>1. ASSUME NEW y \in Place, y.f = x.f
      PROVE  (Root(y)' <=> Root(y)) /\ (Below(y)' <=> Below(y))
             /\ (Root(y) => At(y)' = At(y))
  BY <1>1, AtTree DEF AtIs, Root, Below
<1>2. ASSUME NEW y \in Place, y.f = x.f, Below(y), At(Up(y))' = At(Up(y))
      PROVE  At(y)' = At(y)
  <2>1. PICK a : a = At(Up(y))
    OBVIOUS
  <2>2. At(y) = IF a = 0 THEN 0 ELSE disk[a][Idx(y)]
    BY <1>2, <2>1, AtTree DEF AtIs, Entry
  <2>3. At(y)' = IF a = 0 THEN 0 ELSE disk'[a][Idx(y)]
    BY <1>1, <1>2, <2>1, AtTree DEF AtIs, Entry
  <2>4. a # 0 => disk'[a] = disk[a]
    BY <1>2, <2>1
  <2> QED
    BY <2>2, <2>3, <2>4
<1>3. ASSUME NEW y \in Place, y.f = x.f, Below(y), y.l = Here
      PROVE  At(y)' = At(y)
  BY <1>1, <1>2, <1>3, UpPlace
<1>4. CASE Below(x) /\ x.l # Here
  <2>1. Up(x) \in Place /\ Up(x).f = x.f /\ Below(Up(x)) /\ Up(x).l = Here
    BY <1>4, UpPlace
  <2> QED
    BY <1>2, <1>3, <1>4, <2>1
<1>5. CASE ~Root(x) /\ ~Below(x)
  BY <1>1, <1>5, AtTree DEF AtIs
<1> QED
  BY <1>1, <1>3, <1>4, <1>5

(* The conversion to a large file: the addresses become the entries of the *)
(* block at the first address.                                             *)
Converted(f, x) ==
  IF x = Pl(f, 0, Here, Here) THEN NewBlock
  ELSE IF x.j = 0 /\ x.k \in Slot /\ x.l = Here THEN i_addr[f][x.k] ELSE 0

LEMMA ConvertAt ==
  ASSUME TypesOK, PlacesOK, NEW f \in File, ~ilarg[f], free # {},
         disk' = [disk EXCEPT ![NewBlock] =
                    [k \in Cell |-> IF k \in Slot THEN i_addr[f][k] ELSE 0]],
         i_addr' = [i_addr EXCEPT ![f] =
                      [j \in Slot |-> IF j = 0 THEN NewBlock ELSE 0]],
         ilarg' = [ilarg EXCEPT ![f] = TRUE],
         NEW x \in Place
  PROVE  At(x)' = IF x.f = f THEN Converted(f, x) ELSE At(x)
<1>1. NewBlock \in free /\ NewBlock \in Block /\ NewBlock # 0
  BY NewBlockIs
<1>2. ASSUME NEW b \in Block, b # NewBlock PROVE disk'[b] = disk[b]
  BY <1>2 DEF TypesOK
<1>3. ASSUME NEW k \in Cell
      PROVE  disk'[NewBlock][k] = IF k \in Slot THEN i_addr[f][k] ELSE 0
  BY <1>1 DEF TypesOK
<1>4. ASSUME NEW j \in Slot PROVE i_addr'[f][j] = IF j = 0 THEN NewBlock ELSE 0
  BY DEF TypesOK
<1>5. ilarg'[f] = TRUE
  BY DEF TypesOK
<1>6. CASE x.f # f
  <2>1. i_addr'[x.f] = i_addr[x.f] /\ ilarg'[x.f] = ilarg[x.f]
    BY <1>6, UpPlace DEF TypesOK
  <2>2. ASSUME NEW y \in Place, Below(y), At(Up(y)) # 0
        PROVE  disk'[At(Up(y))] = disk[At(Up(y))]
    <3>1. At(Up(y)) \in Block /\ At(Up(y)) # NewBlock
      BY <1>1, <2>2, UpPlace DEF PlacesOK, Block
    <3> QED
      BY <1>2, <3>1
  <2> QED
    BY <1>6, <2>1, <2>2, TreeSame
<1>7. CASE x.f = f
  <2>1. ASSUME NEW y \in Place, y.f = f, Root(y) PROVE At(y)' = Converted(f, y)
    <3>1. At(y)' = IF y.j = 0 THEN NewBlock ELSE 0
      <4>1. At(y)' = i_addr'[f][y.j]
        BY <2>1, AtTree DEF AtIs, Root
      <4> QED
        BY <1>4, <4>1, UpPlace
    <3>2. y.j = 0 <=> y = Pl(f, 0, Here, Here)
      BY <2>1 DEF Root, Place, Pl
    <3>3. Here \notin Slot
      BY Sizes
    <3> QED
      BY <2>1, <3>1, <3>2, <3>3 DEF Converted, Root
  <2>2. Below(x)' <=> x.k # Here /\ (x.l = Here \/ x.j = Double)
    BY <1>5, <1>7 DEF Below
  <2>3. Up(x) \in Place /\ Up(x).f = f /\ Up(x).j = x.j
    BY <1>7, UpPlace
  <2>4. Below(x)' => At(x)' = IF At(Up(x))' = 0 THEN 0 ELSE disk'[At(Up(x))'][Idx(x)]
    BY AtTree DEF AtIs, Entry
  <2>5. x # Pl(f, 0, Here, Here) \/ Root(x)
    BY DEF Pl, Root
  <2>6. CASE x.k # Here /\ x.l = Here
    <3>1. Root(Up(x)) /\ Idx(x) = x.k /\ x.k \in Cell
      BY <2>6, UpPlace DEF Idx, Place
    <3>2. At(Up(x))' = IF x.j = 0 THEN NewBlock ELSE 0
      <4>1. At(Up(x))' = i_addr'[f][x.j]
        BY <2>3, <3>1, AtTree DEF AtIs, Root
      <4> QED
        BY <1>4, <4>1, UpPlace
    <3>3. At(x)' = IF x.j = 0 THEN disk'[NewBlock][x.k] ELSE 0
      BY <1>1, <2>2, <2>4, <2>6, <3>1, <3>2
    <3> QED
      BY <1>3, <1>7, <2>5, <2>6, <3>1, <3>3 DEF Converted, Root
  <2>7. CASE x.k # Here /\ x.l # Here
    <3>1. Converted(f, x) = 0
      BY <2>5, <2>7 DEF Converted, Root
    <3>2. CASE x.j = Double
      <4>1. PICK y \in Place : y = Up(x)
        BY <2>3
      <4>2. y.f = f /\ y.j = Double /\ y.k # Here /\ y.l = Here
        BY <2>7, <3>2, <4>1, <2>3 DEF Up, Pl
      <4>3. Below(y)'
        BY <1>5, <4>2 DEF Below
      <4>4. At(y)' = IF At(Up(y))' = 0 THEN 0 ELSE disk'[At(Up(y))'][Idx(y)]
        BY <4>3, AtTree DEF AtIs, Entry
      <4>5. At(Up(y))' = 0
        <5>1. Up(y) \in Place /\ Root(Up(y)) /\ Up(y).f = f /\ Up(y).j = Double
          BY <4>2, UpPlace
        <5>2. At(Up(y))' = i_addr'[f][Double]
          BY <5>1, AtTree DEF AtIs, Root
        <5> QED
          BY <1>4, <5>2, Sizes
      <4>6. At(Up(x))' = 0
        BY <4>1, <4>4, <4>5
      <4> QED
        BY <1>7, <2>2, <2>4, <2>7, <3>1, <3>2, <4>6
    <3>3. CASE x.j # Double
      <4>1. ~Below(x)' /\ ~Root(x)'
        BY <2>2, <2>7, <3>3 DEF Root
      <4> QED
        BY <1>7, <3>1, <4>1, AtTree DEF AtIs
    <3> QED
      BY <3>2, <3>3
  <2>8. CASE x.k = Here /\ x.l # Here
    <3>1. ~Below(x)' /\ ~Root(x)' /\ ~Root(x)
      BY <2>2, <2>8 DEF Root
    <3>2. Converted(f, x) = 0
      BY <2>5, <2>8, <3>1 DEF Converted
    <3> QED
      BY <1>7, <3>1, <3>2, AtTree DEF AtIs
  <2> QED
    BY <1>7, <2>1, <2>6, <2>7, <2>8 DEF Root
<1> QED
  BY <1>6, <1>7

LEMMA ConvertPlaces ==
  ASSUME TypesOK, PlacesOK, NEW f \in File, ~ilarg[f], free # {},
         free' = free \ {NewBlock},
         \A x \in Place : At(x)' = IF x.f = f THEN Converted(f, x) ELSE At(x)
  PROVE  PlacesOK'
<1>1. NewBlock \in free /\ NewBlock \in Block /\ NewBlock # 0
  BY NewBlockIs
<1>2. ASSUME NEW j \in Slot
      PROVE  /\ Pl(f, j, Here, Here) \in Place
             /\ At(Pl(f, j, Here, Here)) = i_addr[f][j]
             /\ i_addr[f][j] \in 0..NBLK /\ i_addr[f][j] \notin free
  <2>1. Pl(f, j, Here, Here) \in Place /\ At(Pl(f, j, Here, Here)) = i_addr[f][j]
    BY RootAt DEF Pl, Place
  <2> QED
    BY <2>1 DEF PlacesOK
<1>3. ASSUME NEW i \in Slot, NEW j \in Slot, i_addr[f][i] # 0,
             i_addr[f][i] = i_addr[f][j]
      PROVE  i = j
  <2>1. Pl(f, i, Here, Here) = Pl(f, j, Here, Here)
    BY <1>2, <1>3 DEF PlacesOK
  <2> QED
    BY <2>1 DEF Pl
<1>4. ASSUME NEW x \in Place, x.f # f, NEW j \in Slot, At(x) # 0
      PROVE  At(x) # i_addr[f][j]
  <2>1. x # Pl(f, j, Here, Here)
    BY <1>4 DEF Pl
  <2> QED
    BY <1>2, <1>4, <2>1 DEF PlacesOK
<1>5. ASSUME NEW x \in Place PROVE At(x)' \in 0..NBLK /\ At(x)' \notin free'
  <2>1. 0 \notin free /\ NewBlock \in 0..NBLK
    BY <1>1, Sizes DEF TypesOK, Block
  <2>2. Converted(f, x) \in 0..NBLK /\ Converted(f, x) \notin free \ {NewBlock}
    <3>1. CASE x = Pl(f, 0, Here, Here)
      BY <2>1, <3>1 DEF Converted
    <3>2. CASE x # Pl(f, 0, Here, Here) /\ x.j = 0 /\ x.k \in Slot /\ x.l = Here
      <4>1. Converted(f, x) = i_addr[f][x.k]
        BY <3>2 DEF Converted
      <4> QED
        BY <1>2, <3>2, <4>1
    <3>3. CASE x # Pl(f, 0, Here, Here) /\ ~(x.j = 0 /\ x.k \in Slot /\ x.l = Here)
      <4>1. Converted(f, x) = 0
        BY <3>3 DEF Converted
      <4> QED
        BY <2>1, <4>1, Sizes
    <3> QED
      BY <3>1, <3>2, <3>3
  <2>3. At(x) \in 0..NBLK /\ At(x) \notin free
    BY DEF PlacesOK
  <2>4. At(x)' = Converted(f, x) \/ At(x)' = At(x)
    OBVIOUS
  <2> QED
    BY <2>2, <2>3, <2>4
<1>6. ASSUME NEW x \in Place, NEW y \in Place, At(x)' # 0, At(x)' = At(y)'
      PROVE  x = y
  <2>1. ASSUME NEW z \in Place, z.f = f, At(z)' # 0
        PROVE  \/ z = Pl(f, 0, Here, Here) /\ At(z)' = NewBlock
               \/ /\ z.k \in Slot /\ z = Pl(f, 0, z.k, Here)
                  /\ At(z)' = i_addr[f][z.k]
    <3>1. At(z)' = Converted(f, z)
      BY <2>1
    <3>2. z = Pl(f, z.j, z.k, z.l)
      BY <2>1 DEF Place, Pl
    <3> QED
      BY <2>1, <3>1, <3>2 DEF Converted
  <2>2. ASSUME NEW z \in Place, z.f # f
        PROVE  At(z)' = At(z) /\ At(z) # NewBlock
    BY <1>1, <2>2 DEF PlacesOK
  <2>3. CASE x.f = f /\ y.f = f
    BY <1>1, <1>2, <1>3, <1>6, <2>1, <2>3
  <2>4. CASE x.f = f /\ y.f # f
    BY <1>4, <1>6, <2>1, <2>2, <2>4
  <2>5. CASE x.f # f /\ y.f = f
    BY <1>4, <1>6, <2>1, <2>2, <2>5
  <2>6. CASE x.f # f /\ y.f # f
    BY <1>6, <2>2, <2>6 DEF PlacesOK
  <2> QED
    BY <2>3, <2>4, <2>5, <2>6
<1>7. ASSUME NEW b \in Block, b \notin free' PROVE \E x \in Place : At(x)' = b
  <2>1. CASE b = NewBlock
    <3>1. PICK x \in Place : x = Pl(f, 0, Here, Here) /\ x.f = f
      BY <1>2, Sizes DEF Pl
    <3> QED
      BY <2>1, <3>1 DEF Converted
  <2>2. CASE b # NewBlock
    <3>1. PICK x \in Place : At(x) = b
      BY <1>7, <2>2 DEF PlacesOK
    <3>2. b # 0
      BY DEF Block
    <3>3. CASE x.f = f
      <4>1. Root(x)
        BY <3>1, <3>2, <3>3, AtTree DEF AtIs, Below
      <4>2. b = i_addr[f][x.j] /\ x.j \in Slot
        BY <3>1, <3>3, <4>1, AtTree, UpPlace DEF AtIs
      <4>3. PICK j \in Slot : j = x.j
        BY <4>2
      <4>4. PICK y \in Place : y = Pl(f, 0, j, Here)
        BY Sizes DEF Place, Pl
      <4>5. y.f = f /\ y.j = 0 /\ y.k = j /\ y.l = Here /\ y # Pl(f, 0, Here, Here)
        BY <4>4, Sizes DEF Pl
      <4>6. At(y)' = b
        BY <4>2, <4>3, <4>5 DEF Converted
      <4> QED
        BY <4>6
    <3>4. CASE x.f # f
      BY <3>1, <3>4
    <3> QED
      BY <3>3, <3>4
  <2> QED
    BY <2>1, <2>2
<1> QED
  BY <1>5, <1>6, <1>7 DEF PlacesOK, Place

LEMMA ConvertLookup ==
  ASSUME TypesOK, PlacesOK, NEW f \in File, ~ilarg[f], free # {},
         ilarg' = [ilarg EXCEPT ![f] = TRUE],
         \A x \in Place : At(x)' = IF x.f = f THEN Converted(f, x) ELSE At(x),
         NEW g \in File, NEW n \in LBlock
  PROVE  Lookup(g, n)' = Lookup(g, n)
<1>0. n \in Nat
  BY Sizes DEF LBlock
<1>1. CASE g # f
  <2>1. ilarg'[g] = ilarg[g]
    BY <1>1 DEF TypesOK
  <2>2. Placed(g, n)' = Placed(g, n) /\ Leaf(g, n)' = Leaf(g, n)
    BY <2>1 DEF Placed, Leaf
  <2>3. CASE ~Placed(g, n)
    BY <2>2, <2>3, LookupAt, LookupAtNext
  <2>4. CASE Placed(g, n)
    <3>1. PICK x \in Place : x = Leaf(g, n) /\ x.f = g
      BY <2>4, LeafPlace
    <3>2. At(Leaf(g, n))' = At(x)'
      BY <2>2, <3>1 DEF At, Entry
    <3>3. At(x)' = At(x)
      BY <1>1, <3>1
    <3> QED
      BY <2>2, <2>4, <3>1, <3>2, <3>3, LookupAt, LookupAtNext
  <2> QED
    BY <2>3, <2>4
<1>2. CASE g = f
  <2>1. ilarg'[f] = TRUE
    BY DEF TypesOK
  <2>2. Lookup(f, n) = IF n < NADDR THEN i_addr[f][n] ELSE 0
    BY DEF Lookup
  <2>3. Placed(f, n)'
    BY <2>1 DEF Placed
  <2>4. CASE n < Small
    <3>1. n \div NINDIR \in 0..Double - 1 /\ n % NINDIR \in Cell
      BY <2>4, SmallIs
    <3>2. PICK x \in Place : x = Pl(f, n \div NINDIR, n % NINDIR, Here)
      <4>1. PICK i, k : i = n \div NINDIR /\ k = n % NINDIR
        OBVIOUS
      <4>2. i \in Slot /\ k \in Cell
        BY <3>1, <4>1, Sizes DEF Slot
      <4> QED
        BY <4>1, <4>2 DEF Pl, Place
    <3>3. Leaf(f, n)' = x
      BY <2>1, <2>4, <3>2 DEF Leaf
    <3>4. Lookup(f, n)' = At(x)'
      <4>1. At(Leaf(f, n))' = At(x)'
        BY <3>3 DEF At, Entry
      <4> QED
        BY <2>3, <4>1, LookupAtNext
    <3>5. /\ x.f = f /\ x.j = n \div NINDIR /\ x.k = n % NINDIR /\ x.l = Here
          /\ x # Pl(f, 0, Here, Here)
      BY <3>1, <3>2, Sizes DEF Pl
    <3>6. At(x)' = IF n \div NINDIR = 0 /\ n % NINDIR \in Slot
                   THEN i_addr[f][n % NINDIR] ELSE 0
      BY <3>5 DEF Converted
    <3>7. n \div NINDIR = 0 => n % NINDIR = n
      BY <1>0, Sizes, DivMod
    <3>8. n < NADDR => n \div NINDIR = 0
      <4>1. SUFFICES ASSUME n < NADDR PROVE n \div NINDIR = 0
        OBVIOUS
      <4>2. n \in 0..NINDIR - 1
        BY <1>0, <4>1, Sizes
      <4>3. (NINDIR * 0 + n) \div NINDIR = 0
        BY <4>2, Sizes, DivIs
      <4> QED
        BY <1>0, <4>3, Sizes
    <3>9. n \in Slot <=> n < NADDR
      BY <1>0, Sizes DEF Slot
    <3> QED
      BY <1>2, <2>2, <3>4, <3>6, <3>7, <3>8, <3>9
  <2>5. CASE ~(n < Small)
    <3>1. (n - Small) \div NINDIR \in Cell /\ (n - Small) % NINDIR \in Cell
      BY <2>5, SmallIs
    <3>2. PICK x \in Place :
            x = Pl(f, Double, (n - Small) \div NINDIR, (n - Small) % NINDIR)
      BY <3>1, Sizes DEF Pl, Place
    <3>3. Leaf(f, n)' = x
      BY <2>1, <2>5, <3>2 DEF Leaf
    <3>4. Lookup(f, n)' = At(x)'
      <4>1. At(Leaf(f, n))' = At(x)'
        BY <3>3 DEF At, Entry
      <4> QED
        BY <2>3, <4>1, LookupAtNext
    <3>5. x.f = f /\ x.l # Here /\ x # Pl(f, 0, Here, Here)
      BY <3>1, <3>2, Sizes DEF Pl
    <3>6. At(x)' = 0
      BY <3>5 DEF Converted
    <3>7. NADDR <= Small
      BY Sizes DEF Small
    <3> QED
      BY <1>0, <1>2, <2>2, <2>5, <3>4, <3>6, <3>7, Sizes
  <2> QED
    BY <2>4, <2>5
<1> QED
  BY <1>1, <1>2

LEMMA ConvertStep ==
  ASSUME IInv, Convert
  PROVE  IInv'
<1>0. /\ CallTypes /\ BmapOK /\ call.pc = "convert" /\ call.pc \in Calling
      /\ call.pc \in Calling \ {"loop"} /\ TypesOK /\ PlacesOK /\ DataOK
  BY DEF IInv, Convert, Calling
<1>1. call.f \in File /\ ~ilarg[call.f] /\ Writing
  BY <1>0, LbnIs DEF BmapOK
<1>2. UNCHANGED <<i_size, written, spilled>>
  BY DEF Convert
<1>3. CASE NoSpace /\ UNCHANGED <<i_addr, ilarg, disk>>
  <2>1. MayStop /\ Return /\ UNCHANGED free
    BY <1>3 DEF MayStop, NoSpace
  <2> QED
    BY <1>0, <1>2, <1>3, <2>1, ReturnStep
<1>4. PICK f \in File : f = call.f
  BY <1>1
<1>5. CASE /\ Alloc("inode")
           /\ disk' = [disk EXCEPT ![NewBlock] =
                 [k \in Cell |-> IF k \in Slot THEN i_addr[f][k] ELSE 0]]
           /\ i_addr' = [i_addr EXCEPT ![f] =
                 [j \in Slot |-> IF j = 0 THEN NewBlock ELSE 0]]
           /\ ilarg' = [ilarg EXCEPT ![f] = TRUE]
  <2>1. /\ free # {} /\ free' = free \ {NewBlock}
        /\ call' = [call EXCEPT !.pc = "inode", !.nb = NewBlock]
    BY <1>5 DEF Alloc
  <2>2. NewBlock \in free /\ NewBlock \in Block /\ NewBlock \in 0..NBLK
    BY <1>0, <2>1, NewBlockIs, Sizes DEF Block
  <2>3. \A x \in Place : At(x)' = IF x.f = f THEN Converted(f, x) ELSE At(x)
    <3>1. ~ilarg[f]
      BY <1>1, <1>4
    <3> QED
      BY <1>0, <1>5, <2>1, <3>1, ConvertAt
  <2>4. PlacesOK'
    BY <1>0, <1>1, <1>4, <2>1, <2>3, ConvertPlaces
  <2>5. \A g \in File, n \in LBlock : Lookup(g, n)' = Lookup(g, n)
    BY <1>0, <1>1, <1>4, <1>5, <2>1, <2>3, ConvertLookup
  <2>6. \A g \in File, n \in LBlock : Kept(g, n)
    <3> SUFFICES ASSUME NEW g \in File, NEW n \in LBlock PROVE Kept(g, n)
      OBVIOUS
    <3>1. Lookup(g, n) # 0 => Lookup(g, n) \in Block /\ Lookup(g, n) # NewBlock
      BY <1>0, <2>2, LookupUsed
    <3>2. Lookup(g, n) # 0 => disk'[Lookup(g, n)] = disk[Lookup(g, n)]
      BY <1>0, <1>5, <3>1 DEF TypesOK
    <3> QED
      BY <2>5, <3>2 DEF Kept
  <2>7. DataOK'
    BY <1>0, <1>2, <2>6, DataKept
  <2>8. TypesOK'
    <3>1. [k \in Cell |-> IF k \in Slot THEN i_addr[f][k] ELSE 0] \in [Cell -> Nat]
      BY <1>0, Sizes DEF TypesOK
    <3>2. [j \in Slot |-> IF j = 0 THEN NewBlock ELSE 0] \in [Slot -> 0..NBLK]
      BY <2>2, Sizes
    <3>3. disk' \in [Block -> [Cell -> Nat]]
      BY <1>0, <1>5, <3>1 DEF TypesOK
    <3>4. i_addr' \in [File -> [Slot -> 0..NBLK]]
      BY <1>0, <1>5, <3>2 DEF TypesOK
    <3>5. ilarg' \in [File -> BOOLEAN] /\ free' \in SUBSET Block
      BY <1>0, <1>5, <2>1 DEF TypesOK
    <3> QED
      BY <1>0, <1>2, <3>3, <3>4, <3>5 DEF TypesOK
  <2>9. /\ SameCall("inode", NewBlock)
        /\ call' \in [pc : Calling \cup {"idle", "return"}, f : File,
               rw : {"read", "write", "truncate"}, off : Nat, count : Nat,
               nb : 0..NBLK, fault : BOOLEAN]
    BY <1>0, <2>1, <2>2, CallFrame DEF Calling
  <2>10. CallTypes'
    BY <1>0, <1>1, <2>9 DEF CallTypes, SameCall, Offset, MaxBlocks, Calling
  <2>11. BmapOK'
    <3>1. ilarg'[call'.f]
      BY <1>0, <1>4, <1>5, <2>9 DEF SameCall, TypesOK
    <3> QED
      BY <2>9, <3>1 DEF BmapOK, SameCall
  <2>12. ShortTransfer' /\ SizeOK'
    BY <1>2, <2>9 DEF ShortTransfer, SameCall, Returned, IInv, SizeOK
  <2> QED
    BY <2>4, <2>7, <2>8, <2>10, <2>11, <2>12 DEF IInv
<1> QED
  BY <1>3, <1>4, <1>5 DEF Convert

-----------------------------------------------------------------------------
(* The steps that move data.                                               *)
LEMMA MinMax ==
  ASSUME NEW a \in Int, NEW b \in Int
  PROVE  /\ Min({a, b}) \in {a, b} /\ Min({a, b}) <= a /\ Min({a, b}) <= b
         /\ Max({a, b}) \in {a, b} /\ Max({a, b}) >= a /\ Max({a, b}) >= b
<1>1. \E x \in {a, b} : \A y \in {a, b} : x <= y
  <2>1. CASE a <= b
    BY <2>1
  <2>2. CASE b <= a
    BY <2>2
  <2> QED
    BY <2>1, <2>2
<1>2. \E x \in {a, b} : \A y \in {a, b} : x >= y
  <2>1. CASE a >= b
    BY <2>1
  <2>2. CASE b >= a
    BY <2>2
  <2> QED
    BY <2>1, <2>2
<1>3. Min({a, b}) \in {a, b} /\ \A y \in {a, b} : Min({a, b}) <= y
  BY <1>1 DEF Min
<1>4. Max({a, b}) \in {a, b} /\ \A y \in {a, b} : Max({a, b}) >= y
  BY <1>2 DEF Max
<1> QED
  BY <1>3, <1>4

LEMMA ChunkIs ==
  ASSUME TypesOK, CallTypes, call.pc = "move"
  PROVE  /\ Chunk \in Nat /\ Chunk <= call.count
         /\ Chunk <= NINDIR - (call.off % NINDIR)
<1>1. /\ call.pc \in Calling /\ call.f \in File
      /\ call.off \in Nat /\ call.count \in Nat /\ call.off % NINDIR \in Cell
      /\ Writing \/ call.off < i_size[call.f]
  BY LbnIs DEF Calling, CallTypes
<1>2. PICK r \in Nat, c \in Nat, s \in Nat :
        /\ r = NINDIR - (call.off % NINDIR) /\ c = call.count
        /\ s = i_size[call.f]
  <2>1. NINDIR - (call.off % NINDIR) \in Nat
    BY <1>1, Sizes DEF Cell
  <2> QED
    BY <1>1, <2>1 DEF TypesOK
<1>3. PICK m : m = Min({r, c})
  OBVIOUS
<1>4. m \in Nat /\ m <= r /\ m <= c
  BY <1>3, MinMax
<1>5. Chunk = IF Writing THEN m ELSE Min({m, s - call.off})
  BY <1>2, <1>3 DEF Chunk
<1>6. CASE Writing
  BY <1>2, <1>4, <1>5, <1>6
<1>7. CASE ~Writing
  <2>1. PICK d \in Nat : d = s - call.off
    BY <1>1, <1>2, <1>7
  <2>2. Chunk = Min({m, d})
    BY <1>5, <1>7, <2>1
  <2>3. Chunk \in {m, d} /\ Chunk <= m
    BY <1>4, <2>2, MinMax
  <2> QED
    BY <1>2, <1>4, <2>3
<1> QED
  BY <1>6, <1>7

LEMMA MovedStep ==
  ASSUME TypesOK, CallTypes, call.pc = "move", NEW k \in 0..Chunk, Moved(k)
  PROVE  CallTypes' /\ BmapOK' /\ ShortTransfer'
<1>1. Chunk \in Nat /\ Chunk <= call.count
  BY ChunkIs
<1>2. /\ call.f \in File /\ call.off \in Nat /\ call.count \in Nat
      /\ call.off + call.count - 1 \in Offset
  BY DEF CallTypes, Calling
<1>3. PICK pc \in {"return", "loop"}, fault \in BOOLEAN :
        /\ fault = (k < Chunk)
        /\ pc = IF k < Chunk \/ call.count = k THEN "return" ELSE "loop"
  <2>1. PICK pc : pc = IF k < Chunk \/ call.count = k THEN "return" ELSE "loop"
    OBVIOUS
  <2>2. pc \in {"return", "loop"}
    BY <2>1
  <2>3. (k < Chunk) \in BOOLEAN
    OBVIOUS
  <2> QED
    BY <2>1, <2>2, <2>3, Zenon
<1>4. call' = [call EXCEPT !.nb = 0, !.off = @ + k, !.count = @ - k,
                           !.fault = fault, !.pc = pc]
  BY <1>3 DEF Moved
<1>5. /\ call'.pc = pc /\ call'.off = call.off + k /\ call'.count = call.count - k
      /\ call'.fault = fault /\ call'.f = call.f
  BY <1>4 DEF CallTypes
<1>6. call.off + k \in Nat /\ call.count - k \in Nat /\ 0 \in 0..NBLK
  BY <1>1, <1>2, Sizes
<1>7. call' \in [pc : Calling \cup {"idle", "return"}, f : File,
               rw : {"read", "write", "truncate"}, off : Nat, count : Nat,
               nb : 0..NBLK, fault : BOOLEAN]
  BY <1>4, <1>6 DEF CallTypes, Calling
<1>8. CallTypes'
  <2>1. pc \in Calling => call'.count > 0
    BY <1>1, <1>2, <1>3, <1>5 DEF Calling
  <2>2. call'.off + call'.count - 1 = call.off + call.count - 1
    BY <1>1, <1>2, <1>5
  <2>3. call'.pc \notin Calling \ {"loop"}
    BY <1>5 DEF Calling
  <2> QED
    BY <1>2, <1>5, <1>7, <2>1, <2>2, <2>3 DEF CallTypes, Offset, MaxBlocks
<1>9. BmapOK'
  BY <1>5 DEF BmapOK
<1>10. ShortTransfer'
  <2>1. call'.pc = "return" /\ ~call'.fault => call'.count = 0
    <3>1. ~call'.fault => ~(k < Chunk)
      BY <1>3, <1>5, Zenon
    <3>2. pc = "return" /\ ~(k < Chunk) => call.count = k
      BY <1>3
    <3> QED
      BY <1>2, <1>5, <3>1, <3>2
  <2> QED
    BY <2>1 DEF ShortTransfer, Returned
<1> QED
  BY <1>8, <1>9, <1>10

(* What is stored lies in one block of the file.                           *)
LEMMA StoredIn ==
  ASSUME TypesOK, CallTypes, call.pc = "move", NEW k \in 0..Chunk,
         NEW n \in Nat, NEW c \in Cell, n * NINDIR + c \in Iomove(k)
  PROVE  n = Lbn
<1>1. Chunk \in Nat /\ Chunk <= NINDIR - (call.off % NINDIR)
  BY ChunkIs
<1>2. /\ Lbn \in Nat /\ call.off % NINDIR \in Cell /\ call.off \in Nat
      /\ call.off = NINDIR * Lbn + (call.off % NINDIR)
  BY LbnIs DEF Calling
<1>3. PICK r \in 0..NINDIR - 1, p \in Nat, l \in Nat :
        /\ r = call.off % NINDIR /\ p = NINDIR * Lbn /\ l = Lbn
        /\ call.off = p + r /\ k \in Nat /\ k <= NINDIR - r
  BY <1>1, <1>2, Sizes DEF Cell
<1>4. NINDIR * n \in Nat /\ n * NINDIR = NINDIR * n /\ c \in Nat /\ c < NINDIR
  BY Sizes DEF Cell
<1>5. PICK o \in Nat : o = NINDIR * n + c
  BY <1>4
<1>6. o >= p + r /\ o <= p + r + k - 1
  BY <1>3, <1>4, <1>5 DEF Iomove
<1>7. PICK d \in 0..NINDIR - 1 : o = p + d
  <2>1. o - p \in 0..NINDIR - 1 /\ o = p + (o - p)
    BY <1>3, <1>6, Sizes
  <2> QED
    BY <2>1
<1>8. NINDIR * n + c = NINDIR * l + d
  BY <1>3, <1>5, <1>7
<1> QED
  BY <1>3, <1>8, Sizes, Unique DEF Cell

(* What the histories say after cells have been put into a block.          *)
Told(k, how) ==
  /\ written' \in [File -> SUBSET Nat] /\ spilled' \in [File -> SUBSET Nat]
  /\ \A g \in File, o \in Nat :
       IF g = call.f /\ o \in Iomove(k)
       THEN /\ o \in written'[g] \cup spilled'[g]
            /\ o \in spilled'[g] <=> how = Spilled
       ELSE /\ o \in written'[g] <=> o \in written[g]
            /\ o \in spilled'[g] <=> o \in spilled[g]

LEMMA IomoveNat ==
  ASSUME TypesOK, CallTypes, call.pc = "move", NEW k \in 0..Chunk
  PROVE  Iomove(k) \subseteq Nat /\ call.f \in File
<1>1. k \in Nat
  BY ChunkIs
<1>2. call.f \in File /\ call.off \in Nat
  BY DEF CallTypes
<1> QED
  BY <1>1, <1>2 DEF Iomove

LEMMA StoreTold ==
  ASSUME IInv, call.pc = "move", NEW k \in 0..Chunk, Store(call.f, k)
  PROVE  Told(k, Counted)
<1>1. Iomove(k) \subseteq Nat /\ call.f \in File
  BY IomoveNat DEF IInv
<1>2. PICK f \in File, S \in SUBSET Nat : f = call.f /\ S = Iomove(k)
  BY <1>1
<1>3. /\ written \in [File -> SUBSET Nat] /\ spilled \in [File -> SUBSET Nat]
      /\ written' = [written EXCEPT ![f] = @ \cup S]
      /\ spilled' = [spilled EXCEPT ![f] = @ \ S]
  BY <1>2 DEF IInv, TypesOK, Store
<1>4. written' \in [File -> SUBSET Nat] /\ spilled' \in [File -> SUBSET Nat]
  BY <1>3
<1>5. ASSUME NEW g \in File, NEW o \in Nat
      PROVE  IF g = f /\ o \in S
             THEN o \in written'[g] /\ o \notin spilled'[g]
             ELSE /\ o \in written'[g] <=> o \in written[g]
                  /\ o \in spilled'[g] <=> o \in spilled[g]
  BY <1>3
<1> QED
  BY <1>2, <1>4, <1>5 DEF Told, Counted, Spilled

LEMMA SpillTold ==
  ASSUME IInv, call.pc = "move", NEW k \in 0..Chunk, Spill(call.f, k)
  PROVE  Told(k, Spilled)
<1>1. Iomove(k) \subseteq Nat /\ call.f \in File
  BY IomoveNat DEF IInv
<1>2. PICK f \in File, S \in SUBSET Nat : f = call.f /\ S = Iomove(k)
  BY <1>1
<1>3. /\ written \in [File -> SUBSET Nat] /\ spilled \in [File -> SUBSET Nat]
      /\ written' = written
      /\ spilled' = [spilled EXCEPT ![f] = @ \cup S]
  BY <1>2 DEF IInv, TypesOK, Spill
<1>4. written' \in [File -> SUBSET Nat] /\ spilled' \in [File -> SUBSET Nat]
  BY <1>3
<1>5. ASSUME NEW g \in File, NEW o \in Nat
      PROVE  IF g = f /\ o \in S
             THEN o \in spilled'[g]
             ELSE /\ o \in written'[g] <=> o \in written[g]
                  /\ o \in spilled'[g] <=> o \in spilled[g]
  BY <1>3
<1> QED
  BY <1>2, <1>4, <1>5 DEF Told

LEMMA PutStep ==
  ASSUME IInv, call.pc = "move", NEW k \in 0..Chunk, NEW how \in {Counted, Spilled},
         Put(call.f, k, how), Told(k, how),
         UNCHANGED <<i_addr, ilarg, free>>
  PROVE  PlacesOK' /\ DataOK' /\ disk' \in [Block -> [Cell -> Nat]]
<1>0. TypesOK /\ PlacesOK /\ DataOK /\ CallTypes /\ BmapOK
  BY DEF IInv
<1>1. call.f \in File /\ Lbn \in LBlock /\ call.off \in Nat /\ Lbn \in Nat
  BY <1>0, LbnIs DEF Calling
<1>2. PICK f \in File, m \in LBlock, b \in 0..NBLK :
        f = call.f /\ m = Lbn /\ b = call.nb
  BY <1>0, <1>1 DEF CallTypes
<1>3. /\ b # 0 /\ b = Lookup(f, m) /\ b \in Block
      /\ Placed(f, m) /\ b = At(Leaf(f, m)) /\ Leaf(f, m) \in Place
  <2>1. b # 0 /\ b = Lookup(f, m)
    BY <1>0, <1>2 DEF BmapOK
  <2> QED
    BY <1>0, <2>1, LookupUsed
<1>4. PICK row : /\ row = [c \in Cell |-> IF m * NINDIR + c \in Iomove(k)
                               THEN Tag(f, m * NINDIR + c, how)
                               ELSE disk[b][c]]
                 /\ disk' = [disk EXCEPT ![b] = row]
  BY <1>2 DEF Put
<1>5. \A g \in File, o \in Nat :
        IF g = f /\ o \in Iomove(k)
        THEN /\ o \in written'[g] \cup spilled'[g]
             /\ o \in spilled'[g] <=> how = Spilled
        ELSE /\ o \in written'[g] <=> o \in written[g]
             /\ o \in spilled'[g] <=> o \in spilled[g]
  BY <1>2 DEF Told
<1>6. row \in [Cell -> Nat]
  <2>1. ASSUME NEW c \in Cell PROVE Tag(f, m * NINDIR + c, how) \in Nat
    <3>1. f \in Nat /\ m \in Nat /\ c \in Nat
      BY Sizes DEF File, LBlock
    <3>2. m * NINDIR + c \in Nat
      BY <3>1, Sizes
    <3>3. PICK o \in Nat : o = m * NINDIR + c
      BY <3>2
    <3>4. PICK t \in Nat : t = 2 * o + how
      BY DEF Counted, Spilled
    <3>5. NFILES * t \in Nat
      BY Sizes
    <3> QED
      BY <3>1, <3>3, <3>4, <3>5, Sizes DEF Tag
  <2> QED
    BY <1>0, <1>3, <1>4, <2>1 DEF TypesOK
<1>7. disk' \in [Block -> [Cell -> Nat]]
  BY <1>0, <1>4, <1>6 DEF TypesOK
<1>8. /\ disk'[b] = row
      /\ \A d \in Block : d # b => disk'[d] = disk[d]
  BY <1>0, <1>3, <1>4 DEF TypesOK
<1>11. ASSUME NEW x \in Place PROVE At(x)' = At(x)
  <2>1. ASSUME NEW y \in Place, Below(y), At(Up(y)) # 0
        PROVE  disk'[At(Up(y))] = disk[At(Up(y))]
    <3>1. Up(y) # Leaf(f, m) /\ Up(y) \in Place
      BY <1>3, <2>1, LeafIsLeaf, UpPlace
    <3>2. At(Up(y)) # b /\ At(Up(y)) \in Block
      BY <1>0, <1>3, <2>1, <3>1 DEF PlacesOK, Block
    <3> QED
      BY <1>8, <3>2
  <2> QED
    BY <2>1, TreeSame
<1>12. PlacesOK'
  BY <1>0, <1>11 DEF PlacesOK, Place
<1>13. ASSUME NEW g \in File, NEW n \in LBlock PROVE Lookup(g, n)' = Lookup(g, n)
  <2>1. Placed(g, n)' = Placed(g, n) /\ Leaf(g, n)' = Leaf(g, n)
    BY DEF Placed, Leaf
  <2>2. CASE Placed(g, n)
    <3>1. PICK x \in Place : x = Leaf(g, n)
      BY <2>2, LeafPlace
    <3>2. At(Leaf(g, n))' = At(x)'
      BY <2>1, <3>1 DEF At, Entry
    <3> QED
      BY <1>11, <2>1, <2>2, <3>1, <3>2, LookupAt, LookupAtNext
  <2>3. CASE ~Placed(g, n)
    BY <2>1, <2>3, LookupAt, LookupAtNext
  <2> QED
    BY <2>2, <2>3
<1>14. ASSUME NEW g \in File, NEW n \in LBlock, NEW c \in Cell
       PROVE  CellOK(g, n, c)'
  <2>1. PICK d, o : d = Lookup(g, n) /\ o = n * NINDIR + c
    OBVIOUS
  <2>0. o \in Nat
    <3>1. n \in Nat /\ c \in Nat
      BY Sizes DEF LBlock, Cell
    <3> QED
      BY <2>1, <3>1, Sizes
  <2>2. IF d = 0 THEN o \notin written[g] \cup spilled[g]
        ELSE disk[d][c] = Holds(g, o)
    BY <1>0, <2>1 DEF DataOK, CellOK
  <2>3. Lookup(g, n)' = d
    BY <1>13, <2>1
  <2>4. CASE g = f /\ n = m
    <3>1. d = b /\ d # 0
      BY <1>3, <2>1, <2>4
    <3>2. disk'[b][c] = IF o \in Iomove(k) THEN Tag(f, o, how) ELSE disk[b][c]
      BY <1>4, <1>8, <2>1, <2>4
    <3>3. CASE o \in Iomove(k)
      <4>1. /\ o \in written'[g] \cup spilled'[g]
            /\ o \in spilled'[g] <=> how = Spilled
        BY <1>5, <2>0, <2>4, <3>3
      <4>2. Holds(g, o)' = Tag(g, o, how)
        BY <4>1 DEF Holds, Tag, Counted, Spilled
      <4>3. disk'[d][c] = Holds(g, o)'
        BY <2>4, <3>1, <3>2, <3>3, <4>2
      <4> QED
        BY <2>1, <2>3, <3>1, <4>3 DEF CellOK, Holds, Tag
    <3>4. CASE o \notin Iomove(k)
      <4>1. /\ o \in written'[g] <=> o \in written[g]
            /\ o \in spilled'[g] <=> o \in spilled[g]
        BY <1>5, <2>0, <3>4
      <4>2. Holds(g, o)' = Holds(g, o)
        BY <4>1 DEF Holds, Tag
      <4>3. disk'[d][c] = Holds(g, o)'
        BY <2>2, <3>1, <3>2, <3>4, <4>2
      <4> QED
        BY <2>1, <2>3, <3>1, <4>3 DEF CellOK, Holds, Tag
    <3> QED
      BY <3>3, <3>4
  <2>5. CASE ~(g = f /\ n = m)
    <3>1. /\ o \in written'[g] <=> o \in written[g]
          /\ o \in spilled'[g] <=> o \in spilled[g]
      <4>1. CASE g = f
        <5>1. n # Lbn /\ n \in Nat
          BY <1>2, <2>5, <4>1, Sizes DEF LBlock
        <5>2. o \notin Iomove(k)
          BY <1>0, <2>1, <5>1, StoredIn
        <5> QED
          BY <1>5, <2>0, <5>2
      <4>2. CASE g # f
        BY <1>5, <2>0, <4>2
      <4> QED
        BY <4>1, <4>2
    <3>2. d # 0 => d # b /\ d \in Block
      <4> SUFFICES ASSUME d # 0 PROVE d # b /\ d \in Block
        OBVIOUS
      <4>1. d \in Block /\ d = At(Leaf(g, n)) /\ Leaf(g, n) \in Place
        BY <1>0, <2>1, LookupUsed
      <4>2. Leaf(g, n) # Leaf(f, m)
        BY <2>5, LeafInjective
      <4> QED
        BY <1>0, <1>3, <4>1, <4>2 DEF PlacesOK
    <3>3. d # 0 => disk'[d] = disk[d]
      BY <1>8, <3>2
    <3>4. Holds(g, o)' = Holds(g, o)
      BY <3>1 DEF Holds, Tag
    <3>5. IF d = 0 THEN o \notin written'[g] \cup spilled'[g]
          ELSE disk'[d][c] = Holds(g, o)'
      BY <2>2, <3>1, <3>3, <3>4
    <3> QED
      BY <2>1, <2>3, <3>5 DEF CellOK, Holds, Tag
  <2> QED
    BY <2>4, <2>5
<1>15. DataOK'
  BY <1>14 DEF DataOK, LBlock, MaxBlocks
<1> QED
  BY <1>7, <1>12, <1>15

LEMMA GrowStep ==
  ASSUME IInv, call.pc = "move", NEW k \in 0..Chunk, Grow(call.f, k),
         \/ written' = written
         \/ written' = [written EXCEPT ![call.f] = @ \cup Iomove(k)]
  PROVE  i_size' \in [File -> Nat] /\ SizeOK'
<1>1. TypesOK /\ CallTypes /\ SizeOK /\ k \in Nat
  BY ChunkIs DEF IInv
<1>2. call.f \in File /\ call.off \in Nat
  BY <1>1 DEF CallTypes
<1>3. PICK f \in File, s \in Nat, e \in Nat :
        f = call.f /\ s = i_size[call.f] /\ e = call.off + k
  BY <1>1, <1>2 DEF TypesOK
<1>4. PICK m : m = Max({s, e})
  OBVIOUS
<1>5. m \in Nat /\ m >= s /\ m >= e
  <2>1. s \in Int /\ e \in Int
    OBVIOUS
  <2>2. Max({s, e}) \in {s, e} /\ Max({s, e}) >= s /\ Max({s, e}) >= e
    BY <2>1, MinMax
  <2>3. m = s \/ m = e
    BY <1>4, <2>2
  <2> QED
    BY <1>4, <2>2, <2>3
<1>6. i_size' = [i_size EXCEPT ![f] = IF f \in Dirs THEN s ELSE m]
  BY <1>3, <1>4 DEF Grow
<1>7. i_size' \in [File -> Nat]
  BY <1>1, <1>5, <1>6 DEF TypesOK
<1>8. ASSUME NEW g \in File \ Dirs, NEW o \in written'[g] PROVE o < i_size'[g]
  <2>1. g \in File /\ g \notin Dirs
    OBVIOUS
  <2>2. written[g] \in SUBSET Nat
    BY <1>1, <2>1 DEF TypesOK
  <2>3. o \in written[g] => o \in Nat /\ o < i_size[g]
    BY <1>1, <2>2 DEF SizeOK
  <2>4. CASE g = f
    <3>1. i_size'[g] = m
      BY <1>1, <1>6, <2>1, <2>4 DEF TypesOK
    <3>2. o \in written[g] \/ o \in Iomove(k)
      BY <1>1, <1>3, <1>8, <2>1, <2>4 DEF TypesOK
    <3>3. o \in Iomove(k) => o \in Int /\ o < e
      BY <1>1, <1>2, <1>3 DEF Iomove
    <3>4. o \in written[g] => o < s
      BY <1>3, <2>3, <2>4
    <3> QED
      BY <1>5, <2>3, <3>1, <3>2, <3>3, <3>4
  <2>5. CASE g # f
    <3>1. i_size'[g] = i_size[g] /\ o \in written[g]
      BY <1>1, <1>3, <1>6, <1>8, <2>1, <2>5 DEF TypesOK
    <3> QED
      BY <2>3, <3>1
  <2> QED
    BY <2>4, <2>5
<1> QED
  BY <1>7, <1>8 DEF SizeOK

(* A copy that stores k cells, or none, and counts m.                      *)
LEMMA WriteStep ==
  ASSUME IInv, call.pc = "move", NEW k \in 0..Chunk, NEW m \in 0..Chunk,
         \/ Store(call.f, k) /\ m = k
         \/ Spill(call.f, k)
         \/ UNCHANGED <<disk, written, spilled>>,
         Grow(call.f, m), Moved(m), UNCHANGED <<i_addr, ilarg, free>>
  PROVE  IInv'
<1>1. TypesOK /\ CallTypes
  BY DEF IInv
<1>2. CallTypes' /\ BmapOK' /\ ShortTransfer'
  BY <1>1, MovedStep
<1>3. /\ PlacesOK' /\ DataOK' /\ disk' \in [Block -> [Cell -> Nat]]
      /\ written' \in [File -> SUBSET Nat] /\ spilled' \in [File -> SUBSET Nat]
      /\ \/ written' = written
         \/ written' = [written EXCEPT ![call.f] = @ \cup Iomove(m)]
  <2>1. CASE Store(call.f, k) /\ m = k
    <3>1. Told(k, Counted) /\ Put(call.f, k, Counted)
      BY <2>1, StoreTold DEF Store
    <3>2. PlacesOK' /\ DataOK' /\ disk' \in [Block -> [Cell -> Nat]]
      BY <3>1, PutStep
    <3>3. written' = [written EXCEPT ![call.f] = @ \cup Iomove(m)]
      BY <2>1 DEF Store
    <3> QED
      BY <3>1, <3>2, <3>3 DEF Told
  <2>2. CASE Spill(call.f, k)
    <3>1. Told(k, Spilled) /\ Put(call.f, k, Spilled)
      BY <2>2, SpillTold DEF Spill
    <3>2. PlacesOK' /\ DataOK' /\ disk' \in [Block -> [Cell -> Nat]]
      BY <3>1, PutStep
    <3> QED
      BY <2>2, <3>1, <3>2 DEF Told, Spill
  <2>3. CASE UNCHANGED <<disk, written, spilled>>
    <3>1. \A x : At(x)' = At(x)
      BY <2>3 DEF At, Entry
    <3>2. PlacesOK'
      BY <3>1 DEF PlacesOK, Place, IInv
    <3>3. \A f \in File, n \in LBlock : Kept(f, n)
      BY <2>3 DEF Kept, Lookup, Entry
    <3>4. DataOK'
      BY <2>3, <3>3, DataKept DEF IInv
    <3> QED
      BY <1>1, <2>3, <3>2, <3>4 DEF TypesOK
  <2> QED
    BY <2>1, <2>2, <2>3
<1>4. i_size' \in [File -> Nat] /\ SizeOK'
  BY <1>3, GrowStep
<1>5. TypesOK'
  BY <1>1, <1>3, <1>4 DEF TypesOK
<1> QED
  BY <1>2, <1>3, <1>4, <1>5 DEF IInv

(* The steps of a call that leave the files alone.                         *)
LEMMA ReadStep ==
  ASSUME IInv, NEW k \in 0..MaxCount, ReadMove(k)
  PROVE  IInv'
<1>1. /\ TypesOK /\ CallTypes /\ call.pc = "move" /\ Moved(k) /\ k <= Chunk
      /\ UNCHANGED <<i_addr, ilarg, i_size, disk, free, written, spilled>>
  BY DEF IInv, ReadMove
<1>2. k \in 0..Chunk
  BY <1>1, ChunkIs, FileBlocksAssumption
<1>3. CallTypes' /\ BmapOK' /\ ShortTransfer'
  BY <1>1, <1>2, MovedStep
<1> QED
  BY <1>1, <1>3, Quiet DEF IInv

LEMMA ErrorStep ==
  ASSUME IInv, MoveError
  PROVE  IInv'
<1>1. /\ CallTypes
      /\ call' = [call EXCEPT !.pc = "return", !.nb = 0, !.fault = TRUE]
      /\ UNCHANGED <<i_addr, ilarg, i_size, disk, free, written, spilled>>
  BY DEF IInv, MoveError
<1>2. call'.pc = "return" /\ call'.fault = TRUE
  BY <1>1 DEF CallTypes
<1>3. 0 \in 0..NBLK
  BY Sizes
<1>4. CallTypes'
  BY <1>1, <1>2, <1>3 DEF CallTypes, Calling
<1>5. BmapOK' /\ ShortTransfer'
  BY <1>2 DEF BmapOK, ShortTransfer
<1> QED
  BY <1>1, <1>4, <1>5, Quiet DEF IInv

LEMMA RdwrStep ==
  ASSUME IInv, NEW f \in File, NEW rw \in {"read", "write"}, NEW off \in Starts,
         NEW n \in 1..MaxCount, Rdwr(f, rw, off, n)
  PROVE  IInv'
<1>1. /\ off + n - 1 \in Offset
      /\ call' = [pc |-> "loop", f |-> f, rw |-> rw, off |-> off, count |-> n,
                  nb |-> 0, fault |-> FALSE]
      /\ UNCHANGED <<i_addr, ilarg, i_size, disk, free, written, spilled>>
  BY DEF Rdwr
<1>2. off \in Nat /\ n \in Nat /\ n > 0 /\ 0 \in 0..NBLK
  BY Sizes, FileBlocksAssumption
<1>3. /\ call'.pc = "loop" /\ call'.count = n /\ call'.off = off
      /\ call' \in [pc : Calling \cup {"idle", "return"}, f : File,
               rw : {"read", "write", "truncate"}, off : Nat, count : Nat,
               nb : 0..NBLK, fault : BOOLEAN]
  BY <1>1, <1>2 DEF Calling
<1>4. CallTypes'
  BY <1>1, <1>2, <1>3 DEF CallTypes, Calling, Offset, MaxBlocks
<1>5. BmapOK' /\ ShortTransfer'
  BY <1>3 DEF BmapOK, ShortTransfer, Returned
<1> QED
  BY <1>1, <1>4, <1>5, Quiet DEF IInv

LEMMA ExitStep ==
  ASSUME IInv, Exit
  PROVE  IInv'
<1>1. /\ call' = Idle
      /\ UNCHANGED <<i_addr, ilarg, i_size, disk, free, written, spilled>>
  BY DEF Exit
<1>2. CallTypes'
  BY <1>1, Sizes DEF CallTypes, Calling, Idle
<1>3. BmapOK' /\ ShortTransfer'
  BY <1>1 DEF BmapOK, ShortTransfer, Returned, Idle
<1> QED
  BY <1>1, <1>2, <1>3, Quiet DEF IInv

-----------------------------------------------------------------------------
(* itrunc frees what the places of its file name.                          *)
LEMMA FreedIs ==
  ASSUME TypesOK, PlacesOK, NEW f \in File, NEW b
  PROVE  b \in Freed(f) <=> b # 0 /\ \E x \in Place : x.f = f /\ At(x) = b
<1>1. ASSUME NEW j \in Slot
      PROVE  /\ Pl(f, j, Here, Here) \in Place
             /\ At(Pl(f, j, Here, Here)) = i_addr[f][j]
             /\ \A k \in Cell :
                  /\ Pl(f, j, k, Here) \in Place
                  /\ ilarg[f] => At(Pl(f, j, k, Here)) = Entry(i_addr[f][j], k)
                  /\ \A l \in Cell :
                       /\ Pl(f, j, k, l) \in Place
                       /\ ilarg[f] /\ j = Double =>
                            At(Pl(f, j, k, l)) = Entry(Entry(i_addr[f][j], k), l)
  BY Sizes DEF Pl, Place, At
<1>2. ASSUME NEW j \in Slot, b \in FreedOf(f, j)
      PROVE  b # 0 /\ \E x \in Place : x.f = f /\ At(x) = b
  <2>1. PICK t : t = i_addr[f][j] /\ t # 0
    BY <1>2 DEF FreedOf
  <2>2. CASE b = t
    <3>1. PICK x \in Place : x = Pl(f, j, Here, Here) /\ At(x) = b
      BY <1>1, <2>1, <2>2
    <3> QED
      BY <2>1, <2>2, <3>1 DEF Pl
  <2>3. CASE b # t
    <3>1. ilarg[f] /\ b \in Named(j, t)
      BY <1>2, <2>1, <2>3 DEF FreedOf
    <3>2. ASSUME NEW k \in Cell, disk[t][k] = b, b # 0
          PROVE  \E x \in Place : x.f = f /\ At(x) = b
      <4>1. PICK x \in Place : x = Pl(f, j, k, Here) /\ At(x) = b
        BY <1>1, <2>1, <3>1, <3>2 DEF Entry
      <4> QED
        BY <4>1 DEF Pl
    <3>3. CASE j # Double
      BY <3>1, <3>2, <3>3 DEF Named, Entries
    <3>4. CASE j = Double
      <4>1. PICK d \in Entries(t) : b \in Entries(d) \cup {d}
        BY <3>1, <3>4 DEF Named
      <4>2. PICK k \in Cell : disk[t][k] = d /\ d # 0
        BY <4>1 DEF Entries
      <4>3. CASE b = d
        BY <3>2, <4>2, <4>3
      <4>4. CASE b \in Entries(d)
        <5>1. PICK l \in Cell : disk[d][l] = b /\ b # 0
          BY <4>4 DEF Entries
        <5>2. PICK x \in Place : x = Pl(f, j, k, l) /\ At(x) = b
          BY <1>1, <2>1, <3>1, <3>4, <4>2, <5>1 DEF Entry
        <5> QED
          BY <5>1, <5>2 DEF Pl
      <4> QED
        BY <4>1, <4>3, <4>4
    <3> QED
      BY <3>3, <3>4
  <2> QED
    BY <2>2, <2>3
<1>3. ASSUME b # 0, NEW x \in Place, x.f = f, At(x) = b
      PROVE  b \in Freed(f)
  <2>1. PICK j \in Slot : j = x.j
    BY UpPlace
  <2>2. SUFFICES b \in FreedOf(f, j)
    BY <2>2 DEF Freed
  <2>3. PICK t : t = i_addr[f][j]
    OBVIOUS
  <2>4. CASE Root(x)
    <3>1. b = t
      BY <1>3, <2>1, <2>3, <2>4, AtTree DEF AtIs
    <3> QED
      BY <1>3, <2>3, <3>1 DEF FreedOf
  <2>5. CASE Below(x) /\ x.l = Here
    <3>1. b = Entry(t, x.k) /\ ilarg[f] /\ x.k \in Cell
      BY <1>3, <2>1, <2>3, <2>5 DEF At, Below, Place
    <3>2. t # 0 /\ b = disk[t][x.k]
      BY <1>3, <3>1 DEF Entry
    <3>3. b \in Entries(t)
      BY <1>3, <3>1, <3>2 DEF Entries
    <3>4. b \in Named(j, t)
      BY <3>3 DEF Named
    <3> QED
      BY <2>3, <3>1, <3>2, <3>4 DEF FreedOf
  <2>6. CASE Below(x) /\ x.l # Here
    <3>1. /\ b = Entry(Entry(t, x.k), x.l) /\ ilarg[f] /\ j = Double
          /\ x.k \in Cell /\ x.l \in Cell
      BY <1>3, <2>1, <2>3, <2>6 DEF At, Below, Place
    <3>2. PICK d : d = Entry(t, x.k)
      OBVIOUS
    <3>3. d # 0 /\ b = disk[d][x.l]
      BY <1>3, <3>1, <3>2 DEF Entry
    <3>4. t # 0 /\ d = disk[t][x.k]
      BY <3>2, <3>3 DEF Entry
    <3>5. d \in Entries(t) /\ b \in Entries(d)
      BY <1>3, <3>1, <3>3, <3>4 DEF Entries
    <3>6. b \in Named(j, t)
      BY <3>1, <3>5 DEF Named
    <3> QED
      BY <2>3, <3>1, <3>4, <3>6 DEF FreedOf
  <2> QED
    BY <1>3, <2>4, <2>5, <2>6, AtTree DEF AtIs
<1> QED
  BY <1>2, <1>3 DEF Freed

LEMMA TruncStep ==
  ASSUME IInv, NEW f \in File, NEW n \in {0} \cup Starts, Ftruncate(f, n)
  PROVE  IInv'
<1>0. TypesOK /\ PlacesOK /\ DataOK /\ SizeOK
  BY DEF IInv
<1>1. /\ free' = free \cup Freed(f)
      /\ disk' = [b \in Block |-> IF b \in Freed(f) THEN Junk ELSE disk[b]]
      /\ i_addr' = [i_addr EXCEPT ![f] = [j \in Slot |-> 0]]
      /\ ilarg' = [ilarg EXCEPT ![f] = FALSE]
      /\ i_size' = [i_size EXCEPT ![f] = 0]
      /\ written' = [written EXCEPT ![f] = {}]
      /\ spilled' = [spilled EXCEPT ![f] = {}]
  BY DEF Ftruncate, Itrunc
<1>2. Freed(f) \subseteq Block
  <2> SUFFICES ASSUME NEW b \in Freed(f) PROVE b \in Block
    OBVIOUS
  <2> QED
    BY <1>0, FreedIs DEF PlacesOK, Block
<1>3. ASSUME NEW x \in Place, x.f # f, At(x) # 0
      PROVE  At(x) \in Block /\ At(x) \notin Freed(f)
  <2>1. At(x) \in Freed(f) => \E y \in Place : y.f = f /\ At(y) = At(x)
    BY <1>0, FreedIs
  <2> QED
    BY <1>0, <1>3, <2>1 DEF PlacesOK, Block
<1>4. ilarg'[f] = FALSE /\ \A j \in Slot : i_addr'[f][j] = 0
  BY <1>0, <1>1 DEF TypesOK
<1>5. ASSUME NEW b \in Block, b \notin Freed(f) PROVE disk'[b] = disk[b]
  BY <1>1, <1>5
<1>6. ASSUME NEW x \in Place PROVE At(x)' = IF x.f = f THEN 0 ELSE At(x)
  <2>1. CASE x.f = f
    <3>1. ~Below(x)'
      BY <1>4, <2>1 DEF Below
    <3>2. Root(x)' => At(x)' = 0
      BY <1>4, <2>1, AtTree, UpPlace DEF AtIs
    <3>3. ~Root(x)' => At(x)' = 0
      BY <3>1, AtTree DEF AtIs
    <3> QED
      BY <2>1, <3>2, <3>3
  <2>2. CASE x.f # f
    <3>1. i_addr'[x.f] = i_addr[x.f] /\ ilarg'[x.f] = ilarg[x.f]
      BY <1>0, <1>1, <2>2, UpPlace DEF TypesOK
    <3>2. ASSUME NEW y \in Place, y.f = x.f, Below(y), At(Up(y)) # 0
          PROVE  disk'[At(Up(y))] = disk[At(Up(y))]
      <4>1. Up(y) \in Place /\ Up(y).f # f
        BY <2>2, <3>2, UpPlace
      <4> QED
        BY <1>3, <1>5, <3>2, <4>1
    <3>3. At(x)' = At(x)
      BY <3>1, <3>2, TreeSame
    <3> QED
      BY <2>2, <3>3
  <2> QED
    BY <2>1, <2>2
<1>7. PlacesOK'
  <2>1. ASSUME NEW x \in Place PROVE At(x)' \in 0..NBLK /\ At(x)' \notin free'
    <3>1. 0 \notin free /\ 0 \notin Freed(f) /\ 0 \in 0..NBLK
      BY <1>0, <1>2, Sizes DEF TypesOK, Block
    <3>2. At(x) \in 0..NBLK /\ At(x) \notin free
      BY <1>0 DEF PlacesOK
    <3> QED
      BY <1>1, <1>3, <1>6, <3>1, <3>2
  <2>2. ASSUME NEW x \in Place, NEW y \in Place, At(x)' # 0, At(x)' = At(y)'
        PROVE  x = y
    <3>1. At(x)' = At(x) /\ At(y)' = At(y)
      BY <1>6, <2>2
    <3> QED
      BY <1>0, <2>2, <3>1 DEF PlacesOK
  <2>3. ASSUME NEW b \in Block, b \notin free' PROVE \E x \in Place : At(x)' = b
    <3>1. b \notin free /\ b \notin Freed(f) /\ b # 0
      BY <1>1, <2>3 DEF Block
    <3>2. PICK x \in Place : At(x) = b
      BY <1>0, <3>1 DEF PlacesOK
    <3>3. x.f # f
      BY <1>0, <3>1, <3>2, FreedIs
    <3> QED
      BY <1>6, <3>2, <3>3
  <2> QED
    BY <2>1, <2>2, <2>3 DEF PlacesOK, Place
<1>8. DataOK'
  <2>1. ASSUME NEW g \in File, NEW m \in LBlock, NEW c \in Cell
        PROVE  CellOK(g, m, c)'
    <3>1. CASE g = f
      <4>1. Lookup(f, m)' = 0
        <5>1. m \in Nat
          BY Sizes DEF LBlock
        <5>2. m < NADDR => m \in Slot
          BY <5>1, Sizes DEF Slot
        <5> QED
          BY <1>4, <5>2 DEF Lookup
      <4>2. written'[f] = {} /\ spilled'[f] = {}
        BY <1>0, <1>1 DEF TypesOK
      <4> QED
        BY <3>1, <4>1, <4>2 DEF CellOK
    <3>2. CASE g # f
      <4>1. /\ ilarg'[g] = ilarg[g] /\ written'[g] = written[g]
            /\ spilled'[g] = spilled[g]
        BY <1>0, <1>1, <3>2 DEF TypesOK
      <4>2. Placed(g, m)' = Placed(g, m) /\ Leaf(g, m)' = Leaf(g, m)
        BY <4>1 DEF Placed, Leaf
      <4>3. PICK d, o : d = Lookup(g, m) /\ o = m * NINDIR + c
        OBVIOUS
      <4>4. Lookup(g, m)' = d /\ (d # 0 => disk'[d] = disk[d])
        <5>1. CASE Placed(g, m)
          <6>1. PICK x \in Place : x = Leaf(g, m) /\ x.f = g
            BY <5>1, LeafPlace
          <6>2. At(Leaf(g, m))' = At(x)'
            BY <4>2, <6>1 DEF At, Entry
          <6>3. At(x)' = At(x)
            BY <1>6, <3>2, <6>1
          <6>4. d = At(x) /\ Lookup(g, m)' = d
            BY <4>2, <4>3, <5>1, <6>1, <6>2, <6>3, LookupAt, LookupAtNext
          <6> QED
            BY <1>3, <1>5, <3>2, <6>1, <6>4
        <5>2. CASE ~Placed(g, m)
          BY <4>2, <4>3, <5>2, LookupAt, LookupAtNext
        <5> QED
          BY <5>1, <5>2
      <4>5. IF d = 0 THEN o \notin written[g] \cup spilled[g]
            ELSE disk[d][c] = Holds(g, o)
        BY <1>0, <4>3 DEF DataOK, CellOK
      <4>6. Holds(g, o)' = Holds(g, o)
        BY <4>1 DEF Holds, Tag
      <4>7. IF d = 0 THEN o \notin written'[g] \cup spilled'[g]
            ELSE disk'[d][c] = Holds(g, o)'
        BY <4>1, <4>4, <4>5, <4>6
      <4> QED
        BY <4>3, <4>4, <4>7 DEF CellOK, Holds, Tag
    <3> QED
      BY <3>1, <3>2
  <2> QED
    BY <2>1 DEF DataOK, LBlock, MaxBlocks
<1>9. TypesOK'
  <2>1. Junk \in [Cell -> Nat] /\ [j \in Slot |-> 0] \in [Slot -> 0..NBLK]
    BY Sizes DEF Junk
  <2>2. disk' \in [Block -> [Cell -> Nat]]
    BY <1>0, <1>1, <2>1 DEF TypesOK
  <2>3. i_addr' \in [File -> [Slot -> 0..NBLK]]
    BY <1>0, <1>1, <2>1 DEF TypesOK
  <2>4. free' \in SUBSET Block
    BY <1>0, <1>1, <1>2 DEF TypesOK
  <2>5. /\ ilarg' \in [File -> BOOLEAN] /\ i_size' \in [File -> Nat]
        /\ written' \in [File -> SUBSET Nat] /\ spilled' \in [File -> SUBSET Nat]
    BY <1>0, <1>1 DEF TypesOK
  <2> QED
    BY <2>2, <2>3, <2>4, <2>5 DEF TypesOK
<1>10. SizeOK'
  <2>1. ASSUME NEW g \in File \ Dirs, NEW o \in written'[g] PROVE o < i_size'[g]
    <3>1. CASE g = f
      BY <1>0, <1>1, <2>1, <3>1 DEF TypesOK
    <3>2. CASE g # f
      BY <1>0, <1>1, <2>1, <3>2 DEF TypesOK, SizeOK
    <3> QED
      BY <3>1, <3>2
  <2> QED
    BY <2>1 DEF SizeOK
<1>11. /\ call'.pc = "return" /\ call'.count = 0
       /\ call' \in [pc : Calling \cup {"idle", "return"}, f : File,
               rw : {"read", "write", "truncate"}, off : Nat, count : Nat,
               nb : 0..NBLK, fault : BOOLEAN]
  <2>1. n \in Nat /\ 0 \in 0..NBLK
    BY Sizes
  <2>2. call' = [pc |-> "return", f |-> f, rw |-> "truncate", off |-> n,
                 count |-> 0, nb |-> 0, fault |-> FALSE]
    BY DEF Ftruncate
  <2> QED
    BY <2>1, <2>2
<1>12. CallTypes' /\ BmapOK' /\ ShortTransfer'
  BY <1>11 DEF CallTypes, BmapOK, ShortTransfer, Calling
<1> QED
  BY <1>7, <1>8, <1>9, <1>10, <1>12 DEF IInv

-----------------------------------------------------------------------------
(* The invariant holds at first and every step keeps it.                   *)
LEMMA InitIInv == Init => IInv
<1> SUFFICES ASSUME Init PROVE IInv
  OBVIOUS
<1>1. TypesOK
  BY Sizes DEF Init, TypesOK, Junk
<1>2. ASSUME NEW x \in Place PROVE At(x) = 0
  <2>1. ~Below(x)
    BY UpPlace DEF Init, Below
  <2>2. Root(x) => At(x) = 0
    BY UpPlace, AtTree DEF Init, AtIs
  <2> QED
    BY <2>1, <2>2, AtTree DEF AtIs
<1>3. PlacesOK
  BY <1>2, Sizes DEF Init, PlacesOK, Block
<1>4. DataOK
  <2> SUFFICES ASSUME NEW f \in File, NEW n \in LBlock, NEW k \in Cell
               PROVE  CellOK(f, n, k)
    BY DEF DataOK
  <2>1. Lookup(f, n) = 0
    BY <1>2, LookupAt, LeafPlace
  <2> QED
    BY <2>1 DEF Init, CellOK
<1>5. SizeOK
  BY DEF Init, SizeOK
<1>6. CallTypes
  BY Sizes DEF Init, CallTypes, Calling, Idle
<1>7. BmapOK /\ ShortTransfer
  BY DEF Init, BmapOK, ShortTransfer, Returned, Idle
<1> QED
  BY <1>1, <1>3, <1>4, <1>5, <1>6, <1>7 DEF IInv

LEMMA NextIInv == IInv /\ [Next]_vars => IInv'
<1> SUFFICES ASSUME IInv, [Next]_vars PROVE IInv'
  OBVIOUS
<1>1. CASE \E f \in File, rw \in {"read", "write"}, off \in Starts,
              n \in 1..MaxCount : Rdwr(f, rw, off, n)
  BY <1>1, RdwrStep
<1>2. CASE Loop \/ Direct \/ Convert
  BY <1>2, LoopStep, DirectStep, ConvertStep
<1>3. CASE Inode \/ DoubleIndirect \/ Indirect
  BY <1>3, InodeStep, DoubleStep, IndirectStep
<1>4. CASE WriteMove
  <2>1. /\ call.pc = "move" /\ Store(call.f, Chunk) /\ Grow(call.f, Chunk)
        /\ Moved(Chunk) /\ UNCHANGED <<i_addr, ilarg, free>>
    BY <1>4 DEF WriteMove
  <2>2. Chunk \in 0..Chunk
    BY <2>1, ChunkIs DEF IInv
  <2> QED
    BY <2>1, <2>2, WriteStep
<1>5. CASE MoveError
  BY <1>5, ErrorStep
<1>6. ASSUME NEW k \in 0..MaxCount, CpassFault(k) \/ CopyinFault(k) PROVE IInv'
  <2>1. call.pc = "move" /\ k < Chunk /\ UNCHANGED <<i_addr, ilarg, free>>
    BY <1>6 DEF CpassFault, CopyinFault, WriteFault
  <2>2. k \in 0..Chunk /\ 0 \in 0..Chunk
    BY <2>1, ChunkIs, FileBlocksAssumption DEF IInv
  <2>3. CASE CpassFault(k)
    <3>1. /\ Store(call.f, k) \/ UNCHANGED <<disk, written, spilled>>
          /\ Grow(call.f, k) /\ Moved(k)
      BY <2>3 DEF CpassFault
    <3> QED
      BY <2>1, <2>2, <3>1, WriteStep
  <2>4. CASE CopyinFault(k)
    <3>1. PICK m \in 0..Chunk : m = 0
      BY <2>2
    <3>2. /\ Spill(call.f, k) \/ UNCHANGED <<disk, written, spilled>>
          /\ Grow(call.f, m) /\ Moved(m)
      BY <2>4, <3>1 DEF CopyinFault
    <3> QED
      BY <2>1, <2>2, <3>2, WriteStep
  <2> QED
    BY <1>6, <2>3, <2>4
<1>7. ASSUME NEW k \in 0..MaxCount, ReadMove(k) PROVE IInv'
  BY <1>7, ReadStep
<1>8. CASE \E f \in File, n \in {0} \cup Starts : Ftruncate(f, n)
  BY <1>8, TruncStep
<1>9. CASE Exit
  BY <1>9, ExitStep
<1>10. CASE UNCHANGED vars
  <2>1. UNCHANGED <<i_addr, ilarg, i_size, disk, free, written, spilled>> /\ call' = call
    BY <1>10 DEF vars
  <2>2. CallTypes'
    BY <2>1 DEF IInv, CallTypes, Writing, Offset, MaxBlocks
  <2>3. BmapOK'
    BY <2>1 DEF IInv, BmapOK, Lbn, Writing, InDouble, IndirectPlace, IndirectSlot,
                DoubleEntry, At, Entry, Lookup
  <2>4. ShortTransfer'
    BY <2>1 DEF IInv, ShortTransfer, Returned, Writing, Lookup, Entry, Lbn
  <2> QED
    BY <2>1, <2>2, <2>3, <2>4, Quiet DEF IInv
<1> QED
  BY <1>1, <1>2, <1>3, <1>4, <1>5, <1>6, <1>7, <1>8, <1>9, <1>10 DEF Next

LEMMA Invariant == Spec => []IInv
  BY InitIInv, NextIInv, PTL DEF Spec

-----------------------------------------------------------------------------
(* Every block of the disk is free or is named at exactly one place of the *)
(* files, itrunc gives back just what the places of its file name, and     *)
(* this in every state of bmap, writei and itrunc: no allocation that      *)
(* fails half-way leaks a block and no conversion names one twice.         *)
THEOREM BlocksOwnedOnce == Spec => []OneOwner
<1>1. ASSUME IInv PROVE OneOwner
  <2> DEFINE used == {x \in Place : At(x) # 0}
  <2>0. TypesOK /\ PlacesOK
    BY <1>1 DEF IInv
  <2>1. \A x, y \in used : At(x) = At(y) => x = y
    BY <2>0 DEF PlacesOK
  <2>2. ASSUME NEW f \in File
        PROVE  Freed(f) = {At(x) : x \in {y \in used : y.f = f}}
    <3>1. ASSUME NEW b \in Freed(f)
          PROVE  b \in {At(x) : x \in {y \in used : y.f = f}}
      BY <2>0, FreedIs
    <3>2. ASSUME NEW b \in {At(x) : x \in {y \in used : y.f = f}}
          PROVE  b \in Freed(f)
      <4>1. PICK x \in Place : At(x) # 0 /\ x.f = f /\ At(x) = b
        OBVIOUS
      <4> QED
        BY <2>0, <4>1, FreedIs
    <3> QED
      BY <3>1, <3>2
  <2>3. {At(x) : x \in used} = Block \ free
    <3>1. ASSUME NEW x \in used PROVE At(x) \in Block \ free
      BY <2>0 DEF PlacesOK, Block
    <3>2. ASSUME NEW b \in Block \ free PROVE b \in {At(x) : x \in used}
      <4>1. PICK x \in Place : At(x) = b
        BY <2>0 DEF PlacesOK
      <4>2. b # 0
        BY DEF Block
      <4> QED
        BY <4>1, <4>2
    <3> QED
      BY <3>1, <3>2
  <2> QED
    BY <2>1, <2>2, <2>3 DEF OneOwner
<1> QED
  BY <1>1, Invariant, PTL

(* What readi finds in a block of a file is what writei last stored there, *)
(* through the conversion to a large file and every step of bmap: the cell *)
(* of a write that counted it, or that of a later aligned write that met a *)
(* bad address and counted nothing.  What was written and counted in a     *)
(* plain file lies below its size.                                         *)
THEOREM WrittenIsRead == Spec => []ReadBack
<1>1. ASSUME IInv PROVE ReadBack
  <2>1. DataOK /\ SizeOK
    BY <1>1 DEF IInv
  <2>2. ASSUME NEW f \in File, NEW n \in 0..MaxBlocks - 1, NEW k \in Cell
        PROVE  CellOK(f, n, k)
    BY <2>1 DEF DataOK, LBlock
  <2> QED
    BY <2>1, <2>2 DEF ReadBack, CellOK, SizeOK
<1> QED
  BY <1>1, Invariant, PTL

(* A transfer that met no error stops short only where it must: a write    *)
(* when no block is free, a read at the end of the file or at a hole.      *)
THEOREM TransfersComplete == Spec => []ShortTransfer
<1>1. IInv => ShortTransfer
  BY DEF IInv
<1> QED
  BY <1>1, Invariant, PTL
=============================================================================
