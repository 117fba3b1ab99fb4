--------------------------- MODULE FreeListProofs ----------------------------
(***************************************************************************)
(* Proofs about FreeList, for any number of processes, blocks and numbers  *)
(* in a batch: no block is handed out twice or lost, ENOSPC means that no  *)
(* block is free, a clean superblock is a saved one, and the chained       *)
(* batches implement a set of free blocks.                                 *)
(***************************************************************************)
EXTENDS FreeList, SequenceTheorems, TLAPS

(* A batch names a block once, and has the end mark in its first place or  *)
(* nowhere.                                                                *)
GoodBatch(l) ==
  l \in Batch /\ IsInjective(l) /\ \A i \in DOMAIN l : l[i] = End => i = 1

(* The batches reached from l are good ones and have no block in common.   *)
WellChained(l, c) ==
  /\ GoodBatch(l) /\ \A b \in Chain(l, c) : GoodBatch(c[b])
  /\ \A b \in Chain(l, c) : Listed(l) \cap Listed(c[b]) = {}
  /\ \A b, d \in Chain(l, c) : b # d => Listed(c[b]) \cap Listed(c[d]) = {}

Chained ==
  /\ WellChained(s_free, content)
  /\ \A p \in Refilling : WellChained(content[blk[p]], content)

(* A process has a block in hand from the time it takes it from the list   *)
(* or from a file until it gives it away.                                  *)
Hands ==
  \A p \in Proc : blk[p] \in Block <=>
                  pc[p] \in {"refill", "getblk", "bfree", "bfreewait", "spill"}

(* One process at a time moves a batch, with s_flock set.                  *)
Locked ==
  /\ \A p \in Proc : pc[p] \in {"refill", "spill"} => s_flock
  /\ \A p, q \in Proc : pc[p] \in {"refill", "spill"} /\ pc[q] \in {"refill", "spill"} => p = q
  /\ \A p \in Refilling : s_free = <<>>

IInv ==
  TypeOK /\ Hands /\ Locked /\ Chained /\ OnePlace /\ CleanMeansSaved

-----------------------------------------------------------------------------
(* Batches.                                                                *)

(* The numbers a batch may have.                                           *)
Num == 0..NBLK

Numbers == Seq(Int)

LEMMA BatchSeq ==
  ASSUME NEW l
  PROVE  /\ l \in Batch <=> l \in Seq(Num) /\ Len(l) <= NICFREE
         /\ l \in Batch => l \in Numbers
<1>1. NICFREE \in Nat /\ NBLK \in Nat
  BY FreeListAssumption
<1>2. ASSUME l \in Batch
      PROVE  l \in Seq(Num) /\ Len(l) <= NICFREE /\ l \in Numbers
  <2>1. PICK n \in 0..NICFREE : l \in [1..n -> Num]
    BY <1>2 DEF Batch, Num
  <2> QED
    BY <1>1, <2>1 DEF Numbers, Num
<1>3. ASSUME l \in Seq(Num), Len(l) <= NICFREE
      PROVE  l \in Batch
  <2>1. Len(l) \in 0..NICFREE /\ l \in [1..Len(l) -> Num]
    BY <1>1, <1>3
  <2> QED
    BY <2>1 DEF Batch, Num
<1> QED
  BY <1>2, <1>3

LEMMA HangingListed ==
  ASSUME NEW l \in Numbers
  PROVE  Hanging(l) \subseteq Listed(l) /\ Hanging(l) \subseteq Block
<1>1. l # <<>> => 1 \in DOMAIN l /\ l[1] \in ToSet(l)
  BY DEF Numbers, ToSet
<1>2. End \notin Block
  BY FreeListAssumption DEF End, Block
<1> QED
  BY <1>1, <1>2 DEF Hanging, Listed

LEMMA ListedMember ==
  ASSUME NEW l \in Numbers, NEW x
  PROVE  x \in Listed(l) <=> x # End /\ \E i \in 1..Len(l) : l[i] = x
<1> QED
  BY DEF Numbers, Listed, ToSet

(* alloc takes the last of several numbers.                                *)
LEMMA FrontBatch ==
  ASSUME NEW l, GoodBatch(l), Len(l) > 1
  PROVE  /\ Last(l) \in Block /\ Last(l) \in Listed(l)
         /\ GoodBatch(Front(l)) /\ Hanging(Front(l)) = Hanging(l)
         /\ Listed(Front(l)) = Listed(l) \ {Last(l)}
<1> DEFINE n == Len(l)
           m == Front(l)
<1>1. /\ l \in Seq(Num) /\ l \in Numbers /\ n <= NICFREE /\ n \in Nat /\ n > 1
      /\ DOMAIN l = 1..n /\ \A i \in 1..n : l[i] \in Num
  <2>1. l \in Seq(Num) /\ l \in Numbers /\ n <= NICFREE
    BY BatchSeq DEF GoodBatch
  <2>2. n \in Nat /\ DOMAIN l = 1..n
    BY <2>1
  <2>3. \A i \in 1..n : l[i] \in Num
    BY <2>1
  <2> QED
    BY <2>1, <2>2, <2>3
<1>2. /\ \A i, j \in 1..n : l[i] = l[j] => i = j
      /\ \A i \in 1..n : l[i] = End => i = 1
  BY <1>1 DEF GoodBatch, IsInjective
<1>3. /\ m \in Seq(Num) /\ Len(m) = n - 1 /\ DOMAIN m = 1..(n - 1)
      /\ \A i \in 1..(n - 1) : m[i] = l[i]
  BY <1>1 DEF Front
<1>4. Last(l) = l[n] /\ n \in 1..n
  BY <1>1 DEF Last
<1> HIDE DEF n, m
<1>5. l[n] \in Block /\ l[n] # End
  BY <1>1, <1>2, <1>4, FreeListAssumption DEF Block, End, Num
<1>6. l[n] \in Listed(l)
  BY <1>1, <1>4, <1>5, ListedMember DEF n
<1>7. m \in Batch /\ m \in Numbers
  <2>1. Len(m) <= NICFREE
    BY <1>1, <1>3, FreeListAssumption
  <2> QED
    BY <1>3, <2>1, BatchSeq
<1>8. GoodBatch(m)
  BY <1>1, <1>2, <1>3, <1>7 DEF GoodBatch, IsInjective
<1>9. Hanging(m) = Hanging(l)
  <2>1. l # <<>> /\ m # <<>> /\ m[1] = l[1]
    BY <1>1, <1>3 DEF n
  <2> QED
    BY <2>1 DEF Hanging
<1>10. ASSUME NEW x
       PROVE  x \in Listed(m) <=> x \in Listed(l) /\ x # l[n]
  <2>1. x \in Listed(l) <=> x # End /\ \E i \in 1..n : l[i] = x
    BY <1>1, ListedMember DEF n
  <2>2. x \in Listed(m) <=> x # End /\ \E i \in 1..(n - 1) : m[i] = x
    BY <1>3, <1>7, ListedMember
  <2>3. \A i \in 1..n : i \in 1..(n - 1) <=> i # n
    BY <1>1
  <2>4. \A i \in 1..(n - 1) : i \in 1..n
    BY <1>1
  <2> QED
    BY <1>2, <1>3, <1>4, <2>1, <2>2, <2>3, <2>4
<1>11. Listed(m) = Listed(l) \ {l[n]}
  BY <1>10
<1> QED
  BY <1>4, <1>5, <1>6, <1>8, <1>9, <1>11 DEF m

(* bfree adds a number to a batch with room.                               *)
Pushed(l, b) == Append(IF l = <<>> THEN <<End>> ELSE l, b)

LEMMA PushBatch ==
  ASSUME NEW l, GoodBatch(l), Len(l) < NICFREE, NEW b \in Block, b \notin Listed(l),
         NEW m, m = Pushed(l, b)
  PROVE  /\ GoodBatch(m) /\ Hanging(m) = Hanging(l)
         /\ Listed(m) = Listed(l) \cup {b}
<1>1. /\ l \in Seq(Num) /\ l \in Numbers /\ Len(l) \in Nat
      /\ DOMAIN l = 1..Len(l)
  BY BatchSeq DEF GoodBatch
<1> DEFINE k == IF l = <<>> THEN <<End>> ELSE l
<1>2. /\ k \in Seq(Num) /\ k # <<>> /\ Len(k) < NICFREE
      /\ \A i, j \in 1..Len(k) : k[i] = k[j] => i = j
      /\ \A i \in 1..Len(k) : k[i] = End => i = 1
      /\ Hanging(k) = Hanging(l) /\ Listed(k) = Listed(l)
  <2>1. CASE l = <<>>
    <3>1. <<End>> \in Seq(Num) /\ Len(<<End>>) = 1 /\ <<End>>[1] = End /\ <<End>> # <<>>
      BY FreeListAssumption DEF End, Num
    <3>2. Hanging(<<End>>) = {} /\ Hanging(<<>>) = {}
      BY <3>1, FreeListAssumption DEF Hanging, End, Block
    <3>3. Listed(<<End>>) = {} /\ Listed(<<>>) = {}
      BY DEF Listed, ToSet
    <3>4. 1 < NICFREE /\ \A i \in 1..Len(<<End>>) : i = 1
      BY <3>1, FreeListAssumption
    <3>5. k = <<End>>
      BY <2>1
    <3> HIDE DEF k
    <3> QED
      BY <2>1, <3>1, <3>2, <3>3, <3>4, <3>5
  <2>2. CASE l # <<>>
    <3>1. k = l
      BY <2>2
    <3> HIDE DEF k
    <3> QED
      BY <1>1, <2>2, <3>1 DEF GoodBatch, IsInjective
  <2> QED
    BY <2>1, <2>2
<1>0. m = Append(k, b)
  BY DEF Pushed
<1> HIDE DEF k
<1> DEFINE n == Len(k)
<1>3. b \in Num /\ b # End
  BY FreeListAssumption DEF Block, End, Num
<1>4. /\ m \in Seq(Num) /\ Len(m) = n + 1 /\ DOMAIN m = 1..(n + 1) /\ m # <<>>
      /\ \A i \in 1..n : m[i] = k[i]
      /\ m[n + 1] = b
  <2>1. /\ Append(k, b) \in Seq(Num) /\ Len(Append(k, b)) = n + 1
        /\ n \in Nat /\ Append(k, b)[n + 1] = b
    BY <1>2, <1>3
  <2>2. \A i \in 1..n : Append(k, b)[i] = k[i]
    BY <1>2, <1>3
  <2>3. DOMAIN Append(k, b) = 1..(n + 1) /\ Append(k, b) # <<>>
    BY <2>1
  <2> HIDE DEF n
  <2> QED
    BY <1>0, <2>1, <2>2, <2>3
<1>5. k \in Numbers /\ m \in Numbers /\ m \in Batch
  <2>1. \A s \in Seq(Num) : s \in Seq(Int)
    BY FreeListAssumption DEF Num
  <2>2. Len(m) <= NICFREE
    BY <1>2, <1>4, FreeListAssumption
  <2> QED
    BY <1>2, <1>4, <2>1, <2>2, BatchSeq DEF Numbers
<1>6. \A i \in 1..n : k[i] # b
  BY <1>2, <1>3, <1>5, ListedMember
<1> HIDE DEF n
<1>7. n \in Nat /\ n > 0
  BY <1>2 DEF n
<1>8. GoodBatch(m)
  <2>1. \A i \in 1..(n + 1) : i \in 1..n \/ i = n + 1
    BY <1>7
  <2>2. \A i, j \in 1..(n + 1) : m[i] = m[j] => i = j
    BY <1>2, <1>4, <1>6, <2>1 DEF n
  <2>3. \A i \in 1..(n + 1) : m[i] = End => i = 1
    BY <1>2, <1>3, <1>4, <2>1 DEF n
  <2> QED
    BY <1>4, <1>5, <2>2, <2>3 DEF GoodBatch, IsInjective
<1>9. Hanging(m) = Hanging(k)
  <2>1. m[1] = k[1] /\ k # <<>>
    BY <1>2, <1>4, <1>7
  <2> QED
    BY <1>4, <2>1 DEF Hanging
<1>10. ASSUME NEW x
       PROVE  x \in Listed(m) <=> x \in Listed(k) \/ x = b
  <2>1. x \in Listed(m) <=> x # End /\ \E i \in 1..(n + 1) : m[i] = x
    <3>1. x \in Listed(m) <=> x # End /\ \E i \in 1..Len(m) : m[i] = x
      BY <1>5, ListedMember
    <3> QED
      BY <1>4, <3>1
  <2>2. x \in Listed(k) <=> x # End /\ \E i \in 1..n : k[i] = x
    BY <1>5, ListedMember DEF n
  <2>3. /\ \A i \in 1..(n + 1) : i \in 1..n \/ i = n + 1
        /\ \A i \in 1..n : i \in 1..(n + 1)
        /\ n + 1 \in 1..(n + 1)
    BY <1>7
  <2> QED
    BY <1>3, <1>4, <2>1, <2>2, <2>3
<1>11. Listed(m) = Listed(k) \cup {b}
  BY <1>10
<1> QED
  BY <1>2, <1>8, <1>9, <1>11

-----------------------------------------------------------------------------
(* Chains.                                                                 *)

LEMMA ChainClosed ==
  ASSUME NEW l, NEW c
  PROVE  /\ Chain(l, c) \subseteq Block /\ Hanging(l) \subseteq Chain(l, c)
         /\ \A b \in Chain(l, c) : Hanging(c[b]) \subseteq Chain(l, c)
<1>1. \A m : Hanging(m) \subseteq Block
  BY DEF Hanging
<1>2. ASSUME NEW b \in Chain(l, c), NEW x \in Hanging(c[b])
      PROVE  x \in Chain(l, c)
  <2>1. x \in Block
    BY <1>1
  <2>2. ASSUME NEW S \in SUBSET Block, Hanging(l) \subseteq S,
               \A d \in S : Hanging(c[d]) \subseteq S
        PROVE  x \in S
    <3>1. b \in S
      BY <2>2 DEF Chain
    <3> QED
      BY <2>2, <3>1
  <2> QED
    BY <2>1, <2>2 DEF Chain
<1> QED
  BY <1>1, <1>2 DEF Chain

LEMMA ChainLeast ==
  ASSUME NEW l, NEW c, NEW S \in SUBSET Block, Hanging(l) \subseteq S,
         \A d \in S : Hanging(c[d]) \subseteq S
  PROVE  Chain(l, c) \subseteq S
<1> QED
  BY DEF Chain

(* Only the first number of a batch decides what hangs from it.            *)
LEMMA ChainSame ==
  ASSUME NEW l, NEW m, NEW c, Hanging(l) = Hanging(m)
  PROVE  /\ Chain(l, c) = Chain(m, c)
         /\ Hanging(l) = {} => Chain(l, c) = {}
<1>1. Hanging(l) = {} => Chain(l, c) = {}
  BY ChainLeast
<1> QED
  BY <1>1 DEF Chain

(* The chain from a block is the block and the chain from what it holds.   *)
LEMMA ChainUnfold ==
  ASSUME NEW b \in Block, NEW c
  PROVE  Chain(<<b>>, c) = {b} \cup Chain(c[b], c)
<1> DEFINE A == Chain(<<b>>, c)
           B == Chain(c[b], c)
<1>1. Hanging(<<b>>) = {b}
  BY DEF Hanging
<1>2. /\ A \subseteq Block /\ b \in A
      /\ \A d \in A : Hanging(c[d]) \subseteq A
  BY <1>1, ChainClosed
<1>3. /\ B \subseteq Block /\ Hanging(c[b]) \subseteq B
      /\ \A d \in B : Hanging(c[d]) \subseteq B
  BY ChainClosed
<1>4. A \subseteq {b} \cup B
  <2>1. {b} \cup B \in SUBSET Block
    BY <1>3
  <2>2. \A d \in {b} \cup B : Hanging(c[d]) \subseteq {b} \cup B
    BY <1>3
  <2> HIDE DEF B
  <2> QED
    BY <1>1, <2>1, <2>2, ChainLeast
<1>5. B \subseteq A
  BY <1>2, ChainLeast
<1> QED
  BY <1>2, <1>4, <1>5

(* A chain depends only on the blocks in it.                               *)
LEMMA ChainFrame ==
  ASSUME NEW l, NEW c, NEW d, \A b \in Chain(l, c) : d[b] = c[b]
  PROVE  Chain(l, d) = Chain(l, c)
<1> DEFINE A == Chain(l, c)
           B == Chain(l, d)
<1>1. /\ A \in SUBSET Block /\ Hanging(l) \subseteq A
      /\ \A x \in A : Hanging(d[x]) \subseteq A
  BY ChainClosed
<1>2. B \subseteq A
  BY <1>1, ChainLeast
<1>3. /\ B \in SUBSET Block /\ Hanging(l) \subseteq B
      /\ \A x \in B : Hanging(d[x]) \subseteq B
  BY ChainClosed
<1>4. \A x \in B : Hanging(c[x]) \subseteq B
  BY <1>2, <1>3
<1>5. A \subseteq B
  BY <1>3, <1>4, ChainLeast
<1> QED
  BY <1>2, <1>5

LEMMA FreeFromMember ==
  ASSUME NEW l, NEW c, NEW x
  PROVE  x \in FreeFrom(l, c) <=>
           x \in Listed(l) \/ \E b \in Chain(l, c) : x \in Listed(c[b])
<1> QED
  BY DEF FreeFrom

(* The blocks that hold batches are themselves free.                       *)
LEMMA ChainFree ==
  ASSUME NEW l, NEW c, WellChained(l, c)
  PROVE  Chain(l, c) \subseteq FreeFrom(l, c)
<1> DEFINE A == Chain(l, c)
           S == {b \in A : b \in FreeFrom(l, c)}
<1>1. /\ A \subseteq Block /\ Hanging(l) \subseteq A
      /\ \A b \in A : Hanging(c[b]) \subseteq A
  BY ChainClosed
<1>2. l \in Numbers /\ \A b \in A : c[b] \in Numbers
  BY BatchSeq DEF WellChained, GoodBatch
<1>3. Hanging(l) \subseteq Listed(l) /\ \A b \in A : Hanging(c[b]) \subseteq Listed(c[b])
  BY <1>2, HangingListed
<1>4. Hanging(l) \subseteq S
  BY <1>1, <1>3, FreeFromMember
<1>5. ASSUME NEW b \in S PROVE Hanging(c[b]) \subseteq S
  BY <1>1, <1>3, FreeFromMember
<1>6. S \in SUBSET Block
  BY <1>1
<1> HIDE DEF S
<1>7. A \subseteq S
  BY <1>4, <1>5, <1>6, ChainLeast
<1> QED
  BY <1>7 DEF S

-----------------------------------------------------------------------------
(* What each change of the list does to the set of free blocks.            *)

(* A number is taken from a batch of several.                              *)
LEMMA PopChain ==
  ASSUME NEW l, NEW c, WellChained(l, c), Len(l) > 1
  PROVE  /\ Last(l) \in Block /\ Last(l) \in FreeFrom(l, c)
         /\ WellChained(Front(l), c)
         /\ FreeFrom(Front(l), c) = FreeFrom(l, c) \ {Last(l)}
<1> DEFINE m == Front(l)
           b == Last(l)
<1>1. /\ b \in Block /\ b \in Listed(l)
      /\ GoodBatch(m) /\ Hanging(m) = Hanging(l)
      /\ Listed(m) = Listed(l) \ {b}
  BY FrontBatch DEF WellChained
<1>2. Chain(m, c) = Chain(l, c)
  BY <1>1, ChainSame
<1> HIDE DEF m, b
<1>3. \A d \in Chain(l, c) : b \notin Listed(c[d])
  BY <1>1 DEF WellChained
<1>4. WellChained(m, c)
  BY <1>1, <1>2 DEF WellChained
<1>5. \A x : x \in FreeFrom(m, c) <=> x \in FreeFrom(l, c) /\ x # b
  BY <1>1, <1>2, <1>3, FreeFromMember
<1>6. FreeFrom(m, c) = FreeFrom(l, c) \ {b}
  BY <1>5
<1> QED
  BY <1>1, <1>4, <1>6, FreeFromMember DEF m, b

(* A number is added to a batch with room.                                 *)
LEMMA PushChain ==
  ASSUME NEW l, NEW c, WellChained(l, c), Len(l) < NICFREE,
         NEW b \in Block, b \notin FreeFrom(l, c),
         NEW m, m = Pushed(l, b)
  PROVE  WellChained(m, c) /\ FreeFrom(m, c) = FreeFrom(l, c) \cup {b}
<1>1. b \notin Listed(l) /\ \A d \in Chain(l, c) : b \notin Listed(c[d])
  BY FreeFromMember
<1>2. /\ GoodBatch(m) /\ Hanging(m) = Hanging(l)
      /\ Listed(m) = Listed(l) \cup {b}
  BY <1>1, PushBatch DEF WellChained
<1>3. Chain(m, c) = Chain(l, c)
  BY <1>2, ChainSame
<1>4. WellChained(m, c)
  BY <1>1, <1>2, <1>3 DEF WellChained
<1>5. \A x : x \in FreeFrom(m, c) <=> x \in FreeFrom(l, c) \/ x = b
  BY <1>2, <1>3, FreeFromMember
<1> QED
  BY <1>4, <1>5

(* The last number is taken and the batch in its block becomes the list.   *)
LEMMA UnlinkChain ==
  ASSUME NEW b \in Block, NEW c, WellChained(<<b>>, c)
  PROVE  /\ WellChained(c[b], c) /\ b \in FreeFrom(<<b>>, c)
         /\ FreeFrom(c[b], c) = FreeFrom(<<b>>, c) \ {b}
<1>1. Listed(<<b>>) = {b}
  BY FreeListAssumption DEF Listed, ToSet, End, Block
<1>2. Chain(<<b>>, c) = {b} \cup Chain(c[b], c)
  BY ChainUnfold
<1>3. /\ GoodBatch(c[b]) /\ \A d \in Chain(c[b], c) : GoodBatch(c[d])
      /\ b \notin Listed(c[b]) /\ \A d \in Chain(c[b], c) : b \notin Listed(c[d])
  BY <1>1, <1>2 DEF WellChained
<1>4. b \notin Chain(c[b], c)
  <2> DEFINE S == Chain(c[b], c) \ {b}
  <2>1. /\ Hanging(c[b]) \subseteq Listed(c[b])
        /\ \A d \in Chain(c[b], c) : Hanging(c[d]) \subseteq Listed(c[d])
    BY <1>3, BatchSeq, HangingListed DEF GoodBatch
  <2>2. /\ Chain(c[b], c) \subseteq Block /\ Hanging(c[b]) \subseteq Chain(c[b], c)
        /\ \A d \in Chain(c[b], c) : Hanging(c[d]) \subseteq Chain(c[b], c)
    BY ChainClosed
  <2>3. /\ S \in SUBSET Block /\ Hanging(c[b]) \subseteq S
        /\ \A d \in S : Hanging(c[d]) \subseteq S
    BY <1>3, <2>1, <2>2
  <2>4. Chain(c[b], c) \subseteq S
    BY <2>3, ChainLeast
  <2> QED
    BY <2>4
<1>5. WellChained(c[b], c)
  BY <1>2, <1>3, <1>4 DEF WellChained
<1>6. \A x : x \in FreeFrom(<<b>>, c) <=> x \in FreeFrom(c[b], c) \/ x = b
  BY <1>1, <1>2, FreeFromMember
<1>7. b \notin FreeFrom(c[b], c)
  BY <1>3, FreeFromMember
<1> QED
  BY <1>5, <1>6, <1>7

(* What is written into a block that is not free changes nothing.          *)
LEMMA FrameChain ==
  ASSUME NEW l, NEW c, NEW d, WellChained(l, c),
         NEW b, b \notin FreeFrom(l, c), \A x \in Block : x # b => d[x] = c[x]
  PROVE  /\ Chain(l, d) = Chain(l, c) /\ WellChained(l, d)
         /\ FreeFrom(l, d) = FreeFrom(l, c)
         /\ \A x \in Chain(l, c) : d[x] = c[x]
<1>1. \A x \in Chain(l, c) : d[x] = c[x]
  BY ChainFree, ChainClosed
<1>2. Chain(l, d) = Chain(l, c)
  BY <1>1, ChainFrame
<1>3. WellChained(l, d)
  BY <1>1, <1>2 DEF WellChained
<1>4. \A x : x \in FreeFrom(l, d) <=> x \in FreeFrom(l, c)
  BY <1>1, <1>2, FreeFromMember
<1> QED
  BY <1>1, <1>2, <1>3, <1>4

(* The batch is written into a block that becomes the only number.         *)
LEMMA LinkChain ==
  ASSUME NEW l, NEW c, NEW d, WellChained(l, c),
         NEW b \in Block, b \notin FreeFrom(l, c),
         d[b] = l, \A x \in Block : x # b => d[x] = c[x]
  PROVE  WellChained(<<b>>, d) /\ FreeFrom(<<b>>, d) = FreeFrom(l, c) \cup {b}
<1>1. /\ Chain(l, d) = Chain(l, c) /\ WellChained(l, d)
      /\ FreeFrom(l, d) = FreeFrom(l, c)
      /\ \A x \in Chain(l, c) : d[x] = c[x]
  BY FrameChain
<1>2. Chain(<<b>>, d) = {b} \cup Chain(l, d)
  BY ChainUnfold
<1>3. Listed(<<b>>) = {b} /\ GoodBatch(<<b>>)
  <2>1. Listed(<<b>>) = {b}
    BY FreeListAssumption DEF Listed, ToSet, End, Block
  <2>2. <<b>> \in Seq(Num) /\ Len(<<b>>) = 1 /\ b # End
    BY FreeListAssumption DEF Num, Block, End
  <2>3. <<b>> \in Batch
    <3>1. Len(<<b>>) <= NICFREE
      BY <2>2, FreeListAssumption
    <3>2. \A s : s \in Seq(Num) /\ Len(s) <= NICFREE => s \in Batch
      BY BatchSeq
    <3> QED
      BY <2>2, <3>1, <3>2, Zenon
  <2>4. \A i \in DOMAIN <<b>> : i = 1
    OBVIOUS
  <2> QED
    BY <2>1, <2>3, <2>4 DEF GoodBatch, IsInjective
<1>4. b \notin Listed(l) /\ \A x \in Chain(l, d) : b \notin Listed(d[x])
  BY <1>1, FreeFromMember
<1>5. b \notin Chain(l, d)
  BY <1>1, ChainFree
<1>6. WellChained(<<b>>, d)
  BY <1>1, <1>2, <1>3, <1>4, <1>5 DEF WellChained
<1>7. \A x : x \in FreeFrom(<<b>>, d) <=> x \in FreeFrom(l, c) \/ x = b
  BY <1>1, <1>2, <1>3, FreeFromMember
<1> QED
  BY <1>6, <1>7

LEMMA NoChain ==
  ASSUME NEW l, NEW c, l = <<>> \/ l = <<End>>
  PROVE  WellChained(l, c) /\ FreeFrom(l, c) = {}
<1>1. Hanging(l) = {} /\ Listed(l) = {}
  BY FreeListAssumption DEF Hanging, Listed, ToSet, End, Block
<1>2. Chain(l, c) = {}
  BY <1>1, ChainSame
<1>3. GoodBatch(l)
  <2>1. /\ l \in Seq(Num) /\ Len(l) <= NICFREE /\ \A i \in DOMAIN l : i = 1
    <3>1. CASE l = <<>>
      BY <3>1, FreeListAssumption
    <3>2. CASE l = <<End>>
      <4>1. <<End>> \in Seq(Num) /\ Len(<<End>>) = 1 /\ \A i \in DOMAIN <<End>> : i = 1
        BY FreeListAssumption DEF End, Num
      <4> QED
        BY <3>2, <4>1, FreeListAssumption
    <3> QED
      BY <3>1, <3>2
  <2> QED
    BY <2>1, BatchSeq DEF GoodBatch, IsInjective
<1> QED
  BY <1>1, <1>2, <1>3, FreeFromMember DEF WellChained

-----------------------------------------------------------------------------
(* Where the list is: in core, or in the block that alloc is reading.      *)

LEMMA TheList ==
  ASSUME IInv
  PROVE  /\ Refilling = {} => /\ WellChained(s_free, content)
                              /\ FreeBlocks = FreeFrom(s_free, content)
         /\ \A p \in Refilling :
              /\ s_free = <<>> /\ Refilling = {p}
              /\ WellChained(content[blk[p]], content)
              /\ FreeBlocks = FreeFrom(content[blk[p]], content)
<1>1. CASE Refilling = {}
  BY <1>1 DEF IInv, Chained, FreeBlocks
<1>2. ASSUME NEW p \in Refilling
      PROVE  /\ s_free = <<>> /\ Refilling = {p}
             /\ WellChained(content[blk[p]], content)
             /\ FreeBlocks = FreeFrom(content[blk[p]], content)
  <2>1. s_free = <<>> /\ Refilling = {p} /\ WellChained(content[blk[p]], content)
    BY DEF IInv, Locked, Chained, Refilling
  <2>2. FreeFrom(s_free, content) = {}
    BY <2>1, NoChain
  <2> QED
    BY <2>1, <2>2 DEF FreeBlocks
<1> QED
  BY <1>1, <1>2

LEMMA NextList ==
  ASSUME NEW l, NEW c, c = content', WellChained(l, c),
         \/ Refilling' = {} /\ s_free' = l
         \/ \E p \in Proc : Refilling' = {p} /\ s_free' = <<>> /\ c[blk'[p]] = l
  PROVE  Chained' /\ FreeBlocks' = FreeFrom(l, c)
<1>1. CASE Refilling' = {} /\ s_free' = l
  BY <1>1 DEF Chained, FreeBlocks
<1>2. CASE \E p \in Proc : Refilling' = {p} /\ s_free' = <<>> /\ c[blk'[p]] = l
  <2>1. PICK p \in Proc : Refilling' = {p} /\ s_free' = <<>> /\ c[blk'[p]] = l
    BY <1>2
  <2>2. WellChained(<<>>, c) /\ FreeFrom(<<>>, c) = {}
    BY NoChain
  <2> QED
    BY <2>1, <2>2 DEF Chained, FreeBlocks
<1> QED
  BY <1>1, <1>2

(* p goes on, and those it wakes look again.                               *)
LEMMA GotoFacts ==
  ASSUME IInv, NEW p \in Proc, NEW to \in Labels, NEW b \in Block \cup {NoBlk},
         NEW woken \in SUBSET FlockWaiters, Goto(p, to, b, woken),
         b \in Block <=> to \in {"refill", "getblk", "bfree", "bfreewait", "spill"}
  PROVE  /\ pc' \in [Proc -> Labels] /\ blk' \in [Proc -> Block \cup {NoBlk}]
         /\ pc'[p] = to /\ blk'[p] = b /\ Hands'
         /\ \A q \in Proc : q # p =>
              /\ blk'[q] = blk[q]
              /\ \A x \in {"refill", "getblk", "spill"} : pc'[q] = x <=> pc[q] = x
<1>1. /\ pc \in [Proc -> Labels] /\ blk \in [Proc -> Block \cup {NoBlk}] /\ Hands
  BY DEF IInv, TypeOK
<1>2. /\ blk' = [blk EXCEPT ![p] = b]
      /\ pc' = [q \in Proc |-> IF q = p THEN to
                           ELSE IF q \in woken THEN
                             (IF pc[q] = "allocwait" THEN "alloc" ELSE "bfree")
                           ELSE pc[q]]
  BY DEF Goto
<1>3. blk' \in [Proc -> Block \cup {NoBlk}] /\ blk'[p] = b /\ pc'[p] = to
  BY <1>1, <1>2
<1>4. pc' \in [Proc -> Labels]
  BY <1>1, <1>2 DEF Labels
<1>5. ASSUME NEW q \in Proc, q # p
      PROVE  /\ blk'[q] = blk[q]
             /\ \/ pc'[q] = pc[q]
                \/ pc[q] = "allocwait" /\ pc'[q] = "alloc"
                \/ pc[q] = "bfreewait" /\ pc'[q] = "bfree"
  BY <1>1, <1>2, <1>5 DEF FlockWaiters
<1>6. Hands'
  <2> SUFFICES ASSUME NEW q \in Proc
               PROVE  blk'[q] \in Block <=>
                        pc'[q] \in {"refill", "getblk", "bfree", "bfreewait", "spill"}
    BY DEF Hands
  <2>1. CASE q = p
    BY <1>3, <2>1
  <2>2. CASE q # p
    BY <1>1, <1>5, <2>2 DEF Hands
  <2> QED
    BY <2>1, <2>2
<1> QED
  BY <1>3, <1>4, <1>5, <1>6

(* A block moves between the list, the files and the hands of process p.   *)
LEMMA PlaceMove ==
  ASSUME IInv, NEW p \in Proc,
         blk' \in [Proc -> Block \cup {NoBlk}],
         \A q \in Proc : q # p => blk'[q] = blk[q],
         \/ /\ blk'[p] = blk[p] /\ used' = used /\ FreeBlocks' = FreeBlocks
         \/ /\ blk[p] = NoBlk /\ blk'[p] \in FreeBlocks /\ used' = used
            /\ FreeBlocks' = FreeBlocks \ {blk'[p]}
         \/ /\ blk[p] \in Block /\ blk'[p] = NoBlk /\ used' = used
            /\ FreeBlocks' = FreeBlocks \cup {blk[p]}
         \/ /\ blk[p] \in Block /\ blk'[p] = NoBlk /\ FreeBlocks' = FreeBlocks
            /\ used' = used \cup {blk[p]}
         \/ /\ blk[p] = NoBlk /\ blk'[p] \in used /\ FreeBlocks' = FreeBlocks
            /\ used' = used \ {blk'[p]}
  PROVE  OnePlace'
<1> DEFINE F == FreeBlocks
           H == InHand
<1>1. /\ F \cup used \cup H = Block /\ F \cap (used \cup H) = {} /\ used \cap H = {}
      /\ \A q, r \in Proc : blk[q] = blk[r] /\ blk[q] # NoBlk => q = r
      /\ blk \in [Proc -> Block \cup {NoBlk}]
  BY DEF IInv, OnePlace, TypeOK
<1>2. NoBlk \notin Block
  BY FreeListAssumption DEF Block
<1>3. /\ \A x : x \in H <=> x # NoBlk /\ \E q \in Proc : blk[q] = x
      /\ \A x : x \in H' <=> x # NoBlk /\ \E q \in Proc : blk'[q] = x
  BY DEF InHand
<1>4. \A x : x \in H' <=> x # NoBlk /\ (x = blk'[p] \/ (x \in H /\ x # blk[p]))
  BY <1>1, <1>3
<1>5. blk'[p] # NoBlk /\ blk'[p] # blk[p] => blk'[p] \notin H /\ blk'[p] \in Block
  BY <1>1
<1>6. \A q, r \in Proc : blk'[q] = blk'[r] /\ blk'[q] # NoBlk => q = r
  BY <1>1, <1>3, <1>5
<1> HIDE DEF F, H
<1>7. /\ F' \cup used' \cup H' = Block /\ F' \cap (used' \cup H') = {} /\ used' \cap H' = {}
  <2>1. CASE blk'[p] = blk[p] /\ used' = used /\ F' = F
    <3>1. H' = H
      BY <1>3, <1>4, <2>1
    <3> QED
      BY <1>1, <2>1, <3>1
  <2>2. CASE /\ blk[p] = NoBlk /\ blk'[p] \in F /\ used' = used
             /\ F' = F \ {blk'[p]}
    <3>1. H' = H \cup {blk'[p]}
      BY <1>1, <1>2, <1>3, <1>4, <2>2
    <3> QED
      BY <1>1, <2>2, <3>1
  <2>3. CASE /\ blk[p] \in Block /\ blk'[p] = NoBlk /\ used' = used
             /\ F' = F \cup {blk[p]}
    <3>1. H' = H \ {blk[p]} /\ blk[p] \in H
      BY <1>1, <1>2, <1>3, <1>4, <2>3
    <3> QED
      BY <1>1, <2>3, <3>1
  <2>4. CASE /\ blk[p] \in Block /\ blk'[p] = NoBlk /\ F' = F
             /\ used' = used \cup {blk[p]}
    <3>1. H' = H \ {blk[p]} /\ blk[p] \in H
      BY <1>1, <1>2, <1>3, <1>4, <2>4
    <3> QED
      BY <1>1, <2>4, <3>1
  <2>5. CASE /\ blk[p] = NoBlk /\ blk'[p] \in used /\ F' = F
             /\ used' = used \ {blk'[p]}
    <3>1. H' = H \cup {blk'[p]}
      BY <1>1, <1>2, <1>3, <1>4, <2>5
    <3> QED
      BY <1>1, <2>5, <3>1
  <2> QED
    BY <2>1, <2>2, <2>3, <2>4, <2>5 DEF F
<1> QED
  BY <1>6, <1>7 DEF OnePlace, F, H

-----------------------------------------------------------------------------
(* One step of the abstract allocator, or none.                            *)
SpaceStep ==
  \/ FreeBlocks' = FreeBlocks
  \/ \E b \in Block : \/ b \in FreeBlocks /\ FreeBlocks' = FreeBlocks \ {b}
                      \/ b \notin FreeBlocks /\ FreeBlocks' = FreeBlocks \cup {b}

(* Steps that leave the list alone.                                        *)
LEMMA QuietStep ==
  ASSUME IInv, NEW p \in Proc, NEW to \in Labels, NEW b \in Block \cup {NoBlk},
         Goto(p, to, b, {}),
         b \in Block <=> to \in {"refill", "getblk", "bfree", "bfreewait", "spill"},
         pc[p] \notin {"refill", "getblk", "spill"}, to \notin {"refill", "getblk"},
         to = "spill" => ~s_flock /\ s_flock', to # "spill" => s_flock' = s_flock,
         UNCHANGED <<s_free, content>>,
         super' \in Batch, s_flock' \in BOOLEAN, s_fmod' \in BOOLEAN, updlock' \in BOOLEAN,
         \/ b = blk[p] /\ used' = used
         \/ blk[p] = NoBlk /\ b \in used /\ used' = used \ {b},
         s_fmod' \/ super' = s_free \/ (s_fmod' = s_fmod /\ super' = super)
  PROVE  IInv' /\ SpaceStep
<1>1. /\ pc' \in [Proc -> Labels] /\ blk' \in [Proc -> Block \cup {NoBlk}]
      /\ pc'[p] = to /\ blk'[p] = b /\ Hands'
      /\ \A q \in Proc : q # p =>
           /\ blk'[q] = blk[q]
           /\ \A x \in {"refill", "getblk", "spill"} : pc'[q] = x <=> pc[q] = x
  <2>1. {} \in SUBSET FlockWaiters
    OBVIOUS
  <2> QED
    BY <2>1, GotoFacts
<1>2. TypeOK'
  BY <1>1 DEF IInv, TypeOK
<1>3. Refilling' = Refilling /\ \A q \in Refilling : blk'[q] = blk[q] /\ q # p
  BY <1>1 DEF Refilling
<1>4. Locked'
  <2>1. to = "spill" => \A q \in Proc : pc[q] \notin {"refill", "spill"}
    BY DEF IInv, Locked
  <2> QED
    BY <1>1, <1>3, <2>1 DEF IInv, Locked
<1>5. Chained' /\ FreeBlocks' = FreeBlocks
  <2>1. Chained'
    BY <1>3 DEF IInv, Chained
  <2>2. {FreeFrom(content[blk'[q]], content) : q \in Refilling}
          = {FreeFrom(content[blk[q]], content) : q \in Refilling}
    BY <1>3
  <2> QED
    BY <1>3, <2>1, <2>2 DEF FreeBlocks
<1>6. OnePlace'
  BY <1>1, <1>5, PlaceMove
<1>7. CleanMeansSaved'
  <2> SUFFICES ASSUME ~s_fmod', \A q \in Proc : pc'[q] \notin {"refill", "getblk", "spill"}
               PROVE  FreeFrom(super', content') = FreeFrom(s_free', content')
    BY DEF CleanMeansSaved
  <2>1. \A q \in Proc : pc[q] \notin {"refill", "getblk", "spill"}
    BY <1>1
  <2> QED
    BY <2>1 DEF IInv, CleanMeansSaved
<1> QED
  BY <1>1, <1>2, <1>4, <1>5, <1>6, <1>7 DEF IInv, SpaceStep

(* The calls, the sleep on s_flock, and both halves of update.             *)
LEMMA QuietInv ==
  ASSUME IInv, NEW p \in Proc,
         \/ Alloc(p) \/ FlockSleep(p) \/ BfreeFull(p) \/ Update(p) \/ UpdateCopy(p)
         \/ \E b \in Block : Bfree(p, b)
  PROVE  IInv' /\ SpaceStep
<1>1. /\ super \in Batch /\ s_free \in Batch
      /\ s_flock \in BOOLEAN /\ s_fmod \in BOOLEAN /\ updlock \in BOOLEAN
      /\ NoBlk \in Block \cup {NoBlk} /\ NoBlk \notin Block
      /\ blk[p] \in Block \cup {NoBlk}
      /\ pc[p] \in {"idle", "alloc", "allocwait", "sync"} => blk[p] = NoBlk
      /\ blk[p] \in Block <=> pc[p] \in {"refill", "getblk", "bfree", "bfreewait", "spill"}
  BY FreeListAssumption DEF IInv, TypeOK, Hands, Block
<1>2. CASE Alloc(p)
  <2>1. /\ pc[p] = "idle" /\ Goto(p, "alloc", NoBlk, {})
        /\ UNCHANGED <<s_free, s_flock, s_fmod, super, content, updlock, used>>
    BY <1>2 DEF Alloc, fs
  <2>2. "alloc" \in Labels
    BY DEF Labels
  <2> QED
    BY <1>1, <2>1, <2>2, QuietStep
<1>3. CASE FlockSleep(p)
  <2>1. PICK to \in {"allocwait", "bfreewait"} :
          /\ Goto(p, to, blk[p], {})
          /\ to = "bfreewait" <=> pc[p] = "bfree"
          /\ pc[p] \in {"alloc", "bfree"}
          /\ UNCHANGED <<s_free, s_flock, s_fmod, super, content, updlock, used>>
    BY <1>3 DEF FlockSleep, fs
  <2>2. PICK b \in Block \cup {NoBlk} : b = blk[p]
    BY <1>1
  <2>3. /\ b \in Block <=> to \in {"refill", "getblk", "bfree", "bfreewait", "spill"}
        /\ to \in Labels
    BY <1>1, <2>1, <2>2 DEF Labels
  <2> QED
    BY <1>1, <2>1, <2>2, <2>3, QuietStep
<1>4. CASE BfreeFull(p)
  <2>1. /\ pc[p] = "bfree" /\ ~s_flock /\ s_flock' = TRUE /\ Goto(p, "spill", blk[p], {})
        /\ UNCHANGED <<s_free, s_fmod, super, content, updlock, used>>
    BY <1>4 DEF BfreeFull, InBfree
  <2>2. PICK b \in Block \cup {NoBlk} : b = blk[p] /\ b \in Block
    BY <1>1, <2>1
  <2>3. "spill" \in Labels
    BY DEF Labels
  <2> QED
    BY <1>1, <2>1, <2>2, <2>3, QuietStep
<1>5. CASE Update(p)
  <2>1. /\ pc[p] = "idle" /\ updlock' = TRUE /\ Goto(p, "sync", NoBlk, {})
        /\ UNCHANGED <<s_free, s_flock, s_fmod, super, content, used>>
    BY <1>5 DEF Update
  <2>2. "sync" \in Labels
    BY DEF Labels
  <2> QED
    BY <1>1, <2>1, <2>2, QuietStep
<1>6. CASE UpdateCopy(p)
  <2>1. /\ pc[p] = "sync" /\ s_fmod' = FALSE /\ super' = s_free /\ updlock' = FALSE
        /\ Goto(p, "idle", NoBlk, {})
        /\ UNCHANGED <<s_free, s_flock, content, used>>
    BY <1>6 DEF UpdateCopy
  <2>2. "idle" \in Labels
    BY DEF Labels
  <2> QED
    BY <1>1, <2>1, <2>2, QuietStep
<1>7. CASE \E b \in Block : Bfree(p, b)
  <2>1. PICK b \in Block : Bfree(p, b)
    BY <1>7
  <2>2. /\ pc[p] = "idle" /\ b \in used /\ used' = used \ {b} /\ s_fmod' = TRUE
        /\ Goto(p, "bfree", b, {})
        /\ UNCHANGED <<s_free, s_flock, super, content, updlock>>
    BY <2>1 DEF Bfree
  <2>3. "bfree" \in Labels
    BY DEF Labels
  <2> QED
    BY <1>1, <2>2, <2>3, QuietStep
<1> QED
  BY <1>2, <1>3, <1>4, <1>5, <1>6, <1>7

(* With s_flock off nobody is in the middle of a batch, and the list is    *)
(* the one in core.                                                        *)
LEMMA Unlocked ==
  ASSUME IInv, ~s_flock
  PROVE  /\ Refilling = {} /\ \A q \in Proc : pc[q] \notin {"refill", "spill"}
         /\ WellChained(s_free, content) /\ FreeBlocks = FreeFrom(s_free, content)
         /\ GoodBatch(s_free) /\ s_free \in Numbers
<1>1. Refilling = {} /\ \A q \in Proc : pc[q] \notin {"refill", "spill"}
  BY DEF IInv, Locked, Refilling
<1>2. WellChained(s_free, content) /\ FreeBlocks = FreeFrom(s_free, content)
  BY <1>1, TheList
<1> QED
  BY <1>1, <1>2, BatchSeq DEF WellChained, GoodBatch

(* alloc finds nothing, or only the end mark.                              *)
LEMMA TopEnd ==
  ASSUME IInv, ~s_flock, Top = End
  PROVE  (s_free = <<>> \/ s_free = <<End>>) /\ FreeBlocks = {}
<1>1. /\ WellChained(s_free, content) /\ FreeBlocks = FreeFrom(s_free, content)
      /\ GoodBatch(s_free) /\ s_free \in Numbers
  BY Unlocked
<1>2. ASSUME s_free # <<>> PROVE s_free = <<End>>
  <2>1. /\ Len(s_free) \in Nat /\ Len(s_free) > 0 /\ DOMAIN s_free = 1..Len(s_free)
        /\ s_free[Len(s_free)] = End
    BY <1>1, <1>2 DEF Top, Last, Numbers
  <2>2. Len(s_free) = 1
    BY <1>1, <2>1 DEF GoodBatch
  <2> QED
    BY <1>1, <2>1, <2>2 DEF Numbers
<1> QED
  BY <1>1, <1>2, NoChain

(* Steps that change the list: l is the list after the step.               *)
LEMMA ListStep ==
  ASSUME IInv, NEW p \in Proc, NEW l, NEW c,
         pc' \in [Proc -> Labels], blk' \in [Proc -> Block \cup {NoBlk}], Hands',
         \A q \in Proc : q # p => blk'[q] = blk[q],
         c = content', c \in [Block -> Batch \cup {Data}], WellChained(l, c),
         \/ Refilling' = {} /\ s_free' = l
         \/ \E q \in Proc : Refilling' = {q} /\ s_free' = <<>> /\ c[blk'[q]] = l,
         UNCHANGED <<super, updlock>>, s_flock' \in BOOLEAN, s_fmod' \in BOOLEAN,
         \/ /\ blk'[p] = blk[p] /\ used' = used /\ FreeFrom(l, c) = FreeBlocks
         \/ /\ blk[p] = NoBlk /\ blk'[p] \in FreeBlocks /\ used' = used
            /\ FreeFrom(l, c) = FreeBlocks \ {blk'[p]}
         \/ /\ blk[p] \in Block /\ blk'[p] = NoBlk /\ used' = used
            /\ FreeFrom(l, c) = FreeBlocks \cup {blk[p]}
         \/ /\ blk[p] \in Block /\ blk'[p] = NoBlk /\ FreeFrom(l, c) = FreeBlocks
            /\ used' = used \cup {blk[p]},
         Locked', CleanMeansSaved'
  PROVE  IInv' /\ SpaceStep
<1>1. Chained' /\ FreeBlocks' = FreeFrom(l, c)
  BY NextList
<1>2. OnePlace'
  BY <1>1, PlaceMove
<1>3. s_free' \in Batch
  <2>1. GoodBatch(l) /\ GoodBatch(<<>>)
    BY NoChain DEF WellChained
  <2> QED
    BY <2>1 DEF GoodBatch
<1>4. used' \subseteq Block
  BY DEF IInv, TypeOK
<1>5. TypeOK'
  BY <1>3, <1>4 DEF IInv, TypeOK
<1>6. FreeBlocks \subseteq Block
  BY DEF IInv, OnePlace
<1>7. blk[p] \in Block => blk[p] \notin FreeBlocks
  <2>1. blk[p] \in Block => blk[p] \in InHand
    BY FreeListAssumption DEF InHand, Block
  <2> QED
    BY <2>1 DEF IInv, OnePlace
<1>8. SpaceStep
  BY <1>1, <1>6, <1>7 DEF SpaceStep
<1> QED
  BY <1>1, <1>2, <1>5, <1>8 DEF IInv

LEMMA NospaceInv ==
  ASSUME IInv, NEW p \in Proc, AllocNospace(p)
  PROVE  IInv' /\ SpaceStep
<1>1. /\ pc[p] = "alloc" /\ ~s_flock /\ Top = End /\ s_free' = <<>>
      /\ Goto(p, "idle", NoBlk, {})
      /\ UNCHANGED <<s_flock, s_fmod, super, content, updlock, used>>
  BY DEF AllocNospace, InAlloc
<1>2. NoBlk \notin Block /\ blk[p] = NoBlk
  BY <1>1, FreeListAssumption DEF IInv, TypeOK, Hands, Block
<1>3. /\ pc' \in [Proc -> Labels] /\ blk' \in [Proc -> Block \cup {NoBlk}]
      /\ pc'[p] = "idle" /\ blk'[p] = NoBlk /\ Hands'
      /\ \A q \in Proc : q # p =>
           /\ blk'[q] = blk[q]
           /\ \A x \in {"refill", "getblk", "spill"} : pc'[q] = x <=> pc[q] = x
  <2>1. {} \in SUBSET FlockWaiters /\ "idle" \in Labels
    BY DEF Labels
  <2> QED
    BY <1>1, <1>2, <2>1, GotoFacts
<1>4. Refilling = {} /\ \A q \in Proc : pc[q] \notin {"refill", "spill"}
  BY <1>1, Unlocked
<1>5. Refilling' = {} /\ \A q \in Proc : pc'[q] \notin {"refill", "spill"}
  BY <1>3, <1>4 DEF Refilling
<1>6. Locked'
  BY <1>5 DEF Locked
<1>7. FreeBlocks = {} /\ FreeFrom(s_free, content) = {}
  BY <1>1, TopEnd, Unlocked
<1>8. WellChained(<<>>, content) /\ FreeFrom(<<>>, content) = {}
  BY NoChain
<1>9. CleanMeansSaved'
  <2> SUFFICES ASSUME ~s_fmod, \A q \in Proc : pc'[q] \notin {"refill", "getblk", "spill"}
               PROVE  FreeFrom(super, content) = {}
    BY <1>1, <1>8 DEF CleanMeansSaved
  <2>1. \A q \in Proc : pc[q] \notin {"refill", "getblk", "spill"}
    BY <1>1, <1>3
  <2> QED
    BY <1>7, <2>1 DEF IInv, CleanMeansSaved
<1>10. content \in [Block -> Batch \cup {Data}] /\ s_flock \in BOOLEAN /\ s_fmod \in BOOLEAN
  BY DEF IInv, TypeOK
<1>11. PICK c : c = content
  OBVIOUS
<1> QED
  BY <1>1, <1>2, <1>3, <1>5, <1>6, <1>7, <1>8, <1>9, <1>10, <1>11, ListStep

LEMMA PopInv ==
  ASSUME IInv, NEW p \in Proc, AllocPop(p)
  PROVE  IInv' /\ SpaceStep
<1>1. /\ pc[p] = "alloc" /\ ~s_flock /\ Top # End /\ Len(s_free) > 1
      /\ s_free' = Front(s_free)
      /\ Goto(p, "getblk", Top, {})
      /\ UNCHANGED <<s_flock, s_fmod, super, content, updlock, used>>
  BY DEF AllocPop, InAlloc
<1>2. NoBlk \notin Block /\ blk[p] = NoBlk
  BY <1>1, FreeListAssumption DEF IInv, TypeOK, Hands, Block
<1>3. /\ Refilling = {} /\ \A q \in Proc : pc[q] \notin {"refill", "spill"}
      /\ WellChained(s_free, content) /\ FreeBlocks = FreeFrom(s_free, content)
      /\ s_free \in Numbers
  BY <1>1, Unlocked
<1>4. Top = Last(s_free)
  BY <1>1, <1>3 DEF Top, Numbers
<1>5. /\ Top \in Block /\ Top \in FreeBlocks /\ WellChained(Front(s_free), content)
      /\ FreeFrom(Front(s_free), content) = FreeBlocks \ {Top}
  BY <1>1, <1>3, <1>4, PopChain
<1>6. PICK b \in Block : b = Top
  BY <1>5
<1>7. /\ pc' \in [Proc -> Labels] /\ blk' \in [Proc -> Block \cup {NoBlk}]
      /\ pc'[p] = "getblk" /\ blk'[p] = b /\ Hands'
      /\ \A q \in Proc : q # p =>
           /\ blk'[q] = blk[q]
           /\ \A x \in {"refill", "getblk", "spill"} : pc'[q] = x <=> pc[q] = x
  <2>1. {} \in SUBSET FlockWaiters /\ "getblk" \in Labels
    BY DEF Labels
  <2> QED
    BY <1>1, <1>6, <2>1, GotoFacts
<1>8. Refilling' = {} /\ \A q \in Proc : pc'[q] \notin {"refill", "spill"}
  BY <1>3, <1>7 DEF Refilling
<1>9. Locked'
  BY <1>8 DEF Locked
<1>10. CleanMeansSaved'
  BY <1>7 DEF CleanMeansSaved
<1>11. content \in [Block -> Batch \cup {Data}] /\ s_flock \in BOOLEAN /\ s_fmod \in BOOLEAN
  BY DEF IInv, TypeOK
<1>12. PICK c : c = content
  OBVIOUS
<1>13. PICK l : l = Front(s_free)
  OBVIOUS
<1> QED
  BY <1>1, <1>2, <1>5, <1>6, <1>7, <1>8, <1>9, <1>10, <1>11, <1>12, <1>13, ListStep

LEMMA SingleNumber ==
  ASSUME NEW S, NEW s \in Seq(S), Len(s) = 1
  PROVE  s # <<>> /\ s[1] \in S /\ s = <<s[1]>>
<1>1. PICK x \in S : x = s[1]
  OBVIOUS
<1>2. <<x>> \in Seq(S) /\ Len(<<x>>) = Len(s) /\ \A i \in 1..Len(s) : s[i] = <<x>>[i]
  BY <1>1
<1>3. s = <<x>>
  BY <1>2, SeqEqual
<1> QED
  BY <1>1, <1>3

LEMMA LastInv ==
  ASSUME IInv, NEW p \in Proc, AllocLast(p)
  PROVE  IInv' /\ SpaceStep
<1>1. /\ pc[p] = "alloc" /\ ~s_flock /\ Top # End /\ Len(s_free) = 1
      /\ s_free' = <<>> /\ s_flock' = TRUE
      /\ Goto(p, "refill", Top, {})
      /\ UNCHANGED <<s_fmod, super, content, updlock, used>>
  BY DEF AllocLast, InAlloc
<1>2. NoBlk \notin Block /\ blk[p] = NoBlk
  BY <1>1, FreeListAssumption DEF IInv, TypeOK, Hands, Block
<1>3. /\ Refilling = {} /\ \A q \in Proc : pc[q] \notin {"refill", "spill"}
      /\ WellChained(s_free, content) /\ FreeBlocks = FreeFrom(s_free, content)
      /\ s_free \in Numbers /\ GoodBatch(s_free)
  BY <1>1, Unlocked
<1>4. s_free = <<Top>> /\ Top \in Block
  <2>1. s_free \in Seq(Num)
    BY <1>3, BatchSeq DEF GoodBatch
  <2>2. s_free # <<>> /\ s_free[1] \in Num /\ s_free = <<s_free[1]>>
    BY <1>1, <2>1, SingleNumber
  <2>3. Top = s_free[1]
    BY <1>1, <2>2 DEF Top, Last
  <2>4. s_free[1] \in Block
    BY <1>1, <2>2, <2>3 DEF Num, Block, End
  <2> QED
    BY <2>2, <2>3, <2>4, Zenon
<1>5. PICK b \in Block : b = Top
  BY <1>4
<1>6. PICK c : c = content
  OBVIOUS
<1>7. /\ WellChained(c[b], c) /\ b \in FreeBlocks
      /\ FreeFrom(c[b], c) = FreeBlocks \ {b}
  BY <1>3, <1>4, <1>5, <1>6, UnlinkChain
<1>8. /\ pc' \in [Proc -> Labels] /\ blk' \in [Proc -> Block \cup {NoBlk}]
      /\ pc'[p] = "refill" /\ blk'[p] = b /\ Hands'
      /\ \A q \in Proc : q # p =>
           /\ blk'[q] = blk[q]
           /\ \A x \in {"refill", "getblk", "spill"} : pc'[q] = x <=> pc[q] = x
  <2>1. {} \in SUBSET FlockWaiters /\ "refill" \in Labels
    BY DEF Labels
  <2> QED
    BY <1>1, <1>5, <2>1, GotoFacts
<1>9. Refilling' = {p} /\ \A q \in Proc : pc'[q] \in {"refill", "spill"} => q = p
  BY <1>3, <1>8 DEF Refilling
<1>10. Locked'
  BY <1>1, <1>9 DEF Locked
<1>11. CleanMeansSaved'
  BY <1>8 DEF CleanMeansSaved
<1>12. c \in [Block -> Batch \cup {Data}] /\ s_fmod \in BOOLEAN
  BY <1>6 DEF IInv, TypeOK
<1> QED
  BY <1>1, <1>2, <1>6, <1>7, <1>8, <1>9, <1>10, <1>11, <1>12, ListStep

LEMMA RefillInv ==
  ASSUME IInv, NEW p \in Proc, AllocRefill(p)
  PROVE  IInv' /\ SpaceStep
<1>1. /\ pc[p] = "refill" /\ s_free' = content[blk[p]] /\ s_flock' = FALSE
      /\ Goto(p, "getblk", blk[p], FlockWaiters)
      /\ UNCHANGED <<s_fmod, super, content, updlock, used>>
  BY DEF AllocRefill
<1>2. PICK b \in Block : b = blk[p]
  BY <1>1 DEF IInv, Hands
<1>3. PICK c : c = content
  OBVIOUS
<1>4. /\ WellChained(c[b], c) /\ FreeBlocks = FreeFrom(c[b], c)
      /\ \A q \in Proc : pc[q] \in {"refill", "spill"} => q = p
  BY <1>1, <1>2, <1>3, TheList DEF IInv, Locked, Refilling
<1>5. /\ pc' \in [Proc -> Labels] /\ blk' \in [Proc -> Block \cup {NoBlk}]
      /\ pc'[p] = "getblk" /\ blk'[p] = b /\ Hands'
      /\ \A q \in Proc : q # p =>
           /\ blk'[q] = blk[q]
           /\ \A x \in {"refill", "getblk", "spill"} : pc'[q] = x <=> pc[q] = x
  <2>1. FlockWaiters \in SUBSET FlockWaiters /\ "getblk" \in Labels
    BY DEF Labels
  <2> QED
    BY <1>1, <1>2, <2>1, GotoFacts
<1>6. Refilling' = {} /\ \A q \in Proc : pc'[q] \notin {"refill", "spill"}
  BY <1>4, <1>5 DEF Refilling
<1>7. Locked'
  BY <1>6 DEF Locked
<1>8. CleanMeansSaved'
  BY <1>5 DEF CleanMeansSaved
<1>9. c \in [Block -> Batch \cup {Data}] /\ s_fmod \in BOOLEAN
  BY <1>3 DEF IInv, TypeOK
<1> QED
  BY <1>1, <1>2, <1>3, <1>4, <1>5, <1>6, <1>7, <1>8, <1>9, ListStep

(* The block in the hands of a process is not free.                        *)
LEMMA HandNotFree ==
  ASSUME IInv, NEW p \in Proc, blk[p] \in Block
  PROVE  /\ blk[p] \notin FreeBlocks
         /\ \A q \in Proc : q # p => blk[q] # blk[p]
<1>1. blk[p] # NoBlk
  BY FreeListAssumption DEF Block
<1>2. blk[p] \in InHand
  BY <1>1 DEF InHand
<1> QED
  BY <1>1, <1>2 DEF IInv, OnePlace

LEMMA DoneInv ==
  ASSUME IInv, NEW p \in Proc, AllocDone(p)
  PROVE  IInv' /\ SpaceStep
<1>1. /\ pc[p] = "getblk" /\ content' = [content EXCEPT ![blk[p]] = Data]
      /\ s_fmod' = TRUE /\ used' = used \cup {blk[p]} /\ Goto(p, "idle", NoBlk, {})
      /\ UNCHANGED <<s_free, s_flock, super, updlock>>
  BY DEF AllocDone
<1>2. PICK b \in Block : b = blk[p]
  BY <1>1 DEF IInv, Hands
<1>3. b \notin FreeBlocks /\ NoBlk \notin Block
  BY <1>2, HandNotFree, FreeListAssumption DEF Block
<1>4. PICK c, d : c = content /\ d = content'
  OBVIOUS
<1>5. /\ c \in [Block -> Batch \cup {Data}] /\ d \in [Block -> Batch \cup {Data}]
      /\ \A x \in Block : x # b => d[x] = c[x]
      /\ s_flock \in BOOLEAN
  BY <1>1, <1>2, <1>4 DEF IInv, TypeOK
<1>6. /\ pc' \in [Proc -> Labels] /\ blk' \in [Proc -> Block \cup {NoBlk}]
      /\ pc'[p] = "idle" /\ blk'[p] = NoBlk /\ Hands'
      /\ \A q \in Proc : q # p =>
           /\ blk'[q] = blk[q]
           /\ \A x \in {"refill", "getblk", "spill"} : pc'[q] = x <=> pc[q] = x
  <2>1. {} \in SUBSET FlockWaiters /\ "idle" \in Labels
    BY DEF Labels
  <2> QED
    BY <1>1, <1>3, <2>1, GotoFacts
<1>7. Refilling' = Refilling /\ p \notin Refilling
  BY <1>1, <1>6 DEF Refilling
<1>8. Locked'
  BY <1>1, <1>6, <1>7 DEF IInv, Locked
<1>9. CleanMeansSaved'
  BY <1>1 DEF CleanMeansSaved
<1>10. CASE Refilling = {}
  <2>1. WellChained(s_free, c) /\ FreeBlocks = FreeFrom(s_free, c)
    BY <1>4, <1>10, TheList
  <2>2. WellChained(s_free, d) /\ FreeFrom(s_free, d) = FreeFrom(s_free, c)
    BY <1>3, <1>5, <2>1, FrameChain
  <2>3. PICK l : l = s_free
    OBVIOUS
  <2> QED
    BY <1>1, <1>2, <1>4, <1>5, <1>6, <1>7, <1>8, <1>9, <1>10, <2>1, <2>2, <2>3, ListStep
<1>11. CASE Refilling # {}
  <2>1. PICK q \in Refilling : TRUE
    BY <1>11
  <2>2. /\ s_free = <<>> /\ Refilling = {q} /\ q \in Proc /\ q # p
        /\ WellChained(c[blk[q]], c) /\ FreeBlocks = FreeFrom(c[blk[q]], c)
    BY <1>4, <1>7, <2>1, TheList DEF Refilling
  <2>3. blk[q] \in Block /\ blk[q] # b
    <3>1. blk[q] \in Block
      BY <2>1 DEF IInv, Hands, Refilling
    <3> QED
      BY <1>2, <2>2, <3>1, HandNotFree
  <2>4. PICK l : l = c[blk[q]]
    OBVIOUS
  <2>5. WellChained(l, d) /\ FreeFrom(l, d) = FreeBlocks
    <3>1. WellChained(l, c) /\ FreeFrom(l, c) = FreeBlocks /\ b \notin FreeFrom(l, c)
      BY <1>3, <2>2, <2>4
    <3>2. \A x \in Block : x # b => d[x] = c[x]
      BY <1>5
    <3> QED
      BY <3>1, <3>2, FrameChain
  <2>6. d[blk'[q]] = l /\ Refilling' = {q} /\ s_free' = <<>>
    BY <1>1, <1>5, <1>6, <1>7, <2>2, <2>3, <2>4
  <2>7. /\ d = content' /\ blk[p] \in Block /\ used' = used \cup {blk[p]}
        /\ UNCHANGED <<super, updlock>> /\ s_flock' \in BOOLEAN /\ s_fmod' \in BOOLEAN
        /\ \E r \in Proc : Refilling' = {r} /\ s_free' = <<>> /\ d[blk'[r]] = l
    BY <1>1, <1>2, <1>4, <1>5, <2>2, <2>6
  <2>8. \A r \in Proc : r # p => blk'[r] = blk[r]
    BY <1>6
  <2> QED
    BY <1>5, <1>6, <1>8, <1>9, <2>5, <2>7, <2>8, ListStep
<1> QED
  BY <1>10, <1>11

LEMMA PushInv ==
  ASSUME IInv, NEW p \in Proc, BfreePush(p)
  PROVE  IInv' /\ SpaceStep
<1>1. /\ pc[p] = "bfree" /\ ~s_flock /\ Len(s_free) < NICFREE
      /\ s_free' = Append(IF s_free = <<>> THEN <<End>> ELSE s_free, blk[p])
      /\ s_fmod' = TRUE /\ Goto(p, "idle", NoBlk, {})
      /\ UNCHANGED <<s_flock, super, content, updlock, used>>
  BY DEF BfreePush, InBfree
<1>2. PICK b \in Block : b = blk[p]
  BY <1>1 DEF IInv, Hands
<1>3. b \notin FreeBlocks /\ NoBlk \notin Block
  BY <1>2, HandNotFree, FreeListAssumption DEF Block
<1>4. PICK c, l : c = content /\ l = s_free'
  OBVIOUS
<1>5. /\ Refilling = {} /\ \A q \in Proc : pc[q] \notin {"refill", "spill"}
      /\ WellChained(s_free, c) /\ FreeBlocks = FreeFrom(s_free, c)
  BY <1>1, <1>4, Unlocked
<1>6. WellChained(l, c) /\ FreeFrom(l, c) = FreeBlocks \cup {b}
  <2>1. PICK m : m = s_free
    OBVIOUS
  <2>2. /\ l = Pushed(m, b) /\ Len(m) < NICFREE
        /\ WellChained(m, c) /\ FreeFrom(m, c) = FreeBlocks /\ b \notin FreeFrom(m, c)
    BY <1>1, <1>2, <1>3, <1>4, <1>5, <2>1 DEF Pushed
  <2> QED
    BY <2>2, PushChain
<1>7. /\ pc' \in [Proc -> Labels] /\ blk' \in [Proc -> Block \cup {NoBlk}]
      /\ pc'[p] = "idle" /\ blk'[p] = NoBlk /\ Hands'
      /\ \A q \in Proc : q # p =>
           /\ blk'[q] = blk[q]
           /\ \A x \in {"refill", "getblk", "spill"} : pc'[q] = x <=> pc[q] = x
  <2>1. {} \in SUBSET FlockWaiters /\ "idle" \in Labels
    BY DEF Labels
  <2> QED
    BY <1>1, <1>3, <2>1, GotoFacts
<1>8. Refilling' = {} /\ \A q \in Proc : pc'[q] \notin {"refill", "spill"}
  BY <1>5, <1>7 DEF Refilling
<1>9. Locked' /\ CleanMeansSaved'
  BY <1>1, <1>8 DEF Locked, CleanMeansSaved
<1>10. c \in [Block -> Batch \cup {Data}] /\ s_flock \in BOOLEAN
  BY <1>4 DEF IInv, TypeOK
<1>11. /\ c = content' /\ s_free' = l /\ blk[p] \in Block /\ used' = used
       /\ FreeFrom(l, c) = FreeBlocks \cup {blk[p]}
       /\ UNCHANGED <<super, updlock>> /\ s_flock' \in BOOLEAN /\ s_fmod' \in BOOLEAN
  BY <1>1, <1>2, <1>4, <1>6, <1>10
<1> QED
  BY <1>6, <1>7, <1>8, <1>9, <1>10, <1>11, ListStep

LEMMA SpillInv ==
  ASSUME IInv, NEW p \in Proc, BfreeSpill(p)
  PROVE  IInv' /\ SpaceStep
<1>1. /\ pc[p] = "spill" /\ content' = [content EXCEPT ![blk[p]] = s_free]
      /\ s_free' = <<blk[p]>> /\ s_flock' = FALSE /\ s_fmod' = TRUE
      /\ Goto(p, "idle", NoBlk, FlockWaiters)
      /\ UNCHANGED <<super, updlock, used>>
  BY DEF BfreeSpill
<1>2. PICK b \in Block : b = blk[p]
  BY <1>1 DEF IInv, Hands
<1>3. b \notin FreeBlocks /\ NoBlk \notin Block
  BY <1>2, HandNotFree, FreeListAssumption DEF Block
<1>4. PICK c, d : c = content /\ d = content'
  OBVIOUS
<1>5. /\ d \in [Block -> Batch \cup {Data}] /\ d[b] = s_free
      /\ \A x \in Block : x # b => d[x] = c[x]
  BY <1>1, <1>2, <1>4 DEF IInv, TypeOK
<1>6. \A q \in Proc : pc[q] \in {"refill", "spill"} => q = p
  BY <1>1 DEF IInv, Locked
<1>7. WellChained(s_free, c) /\ FreeBlocks = FreeFrom(s_free, c)
  <2>1. Refilling = {}
    BY <1>1, <1>6 DEF Refilling
  <2> QED
    BY <1>4, <2>1, TheList
<1>8. WellChained(<<b>>, d) /\ FreeFrom(<<b>>, d) = FreeBlocks \cup {b}
  BY <1>3, <1>5, <1>7, LinkChain
<1>9. /\ pc' \in [Proc -> Labels] /\ blk' \in [Proc -> Block \cup {NoBlk}]
      /\ pc'[p] = "idle" /\ blk'[p] = NoBlk /\ Hands'
      /\ \A q \in Proc : q # p =>
           /\ blk'[q] = blk[q]
           /\ \A x \in {"refill", "getblk", "spill"} : pc'[q] = x <=> pc[q] = x
  <2>1. FlockWaiters \in SUBSET FlockWaiters /\ "idle" \in Labels
    BY DEF Labels
  <2> QED
    BY <1>1, <1>3, <2>1, GotoFacts
<1>10. Refilling' = {} /\ \A q \in Proc : pc'[q] \notin {"refill", "spill"}
  BY <1>6, <1>9 DEF Refilling
<1>11. Locked' /\ CleanMeansSaved'
  BY <1>1, <1>10 DEF Locked, CleanMeansSaved
<1>12. PICK l : l = <<b>>
  OBVIOUS
<1>13. /\ d = content' /\ s_free' = l /\ blk[p] \in Block /\ used' = used
       /\ WellChained(l, d) /\ FreeFrom(l, d) = FreeBlocks \cup {blk[p]}
       /\ UNCHANGED <<super, updlock>> /\ s_flock' \in BOOLEAN /\ s_fmod' \in BOOLEAN
  BY <1>1, <1>2, <1>4, <1>8, <1>12
<1> QED
  BY <1>5, <1>9, <1>10, <1>11, <1>13, ListStep

-----------------------------------------------------------------------------
(* The file system that rd_mkfs makes: one batch, of blocks that hold      *)
(* nothing.                                                                *)
LEMMA MkfsList ==
  ASSUME Init
  PROVE  WellChained(s_free, content) /\ FreeFrom(s_free, content) = 1..NICFREE
<1>1. NICFREE \in Nat /\ NICFREE >= 2 /\ NBLK \in Nat /\ NBLK >= NICFREE
  BY FreeListAssumption
<1>2. PICK l, c : l = s_free /\ c = content
  OBVIOUS
<1>3. l = [i \in 1..NICFREE |-> i] /\ c = [b \in Block |-> IF b <= NICFREE THEN <<>> ELSE Data]
  BY <1>2 DEF Init, MkfsFree
<1>4. l \in Seq(Num) /\ Len(l) = NICFREE /\ DOMAIN l = 1..NICFREE /\ \A i \in 1..NICFREE : l[i] = i
  BY <1>1, <1>3 DEF Num
<1>5. GoodBatch(l) /\ l # <<>>
  <2>1. l \in Batch
    BY <1>1, <1>4, BatchSeq
  <2> QED
    BY <1>1, <1>4, <2>1 DEF GoodBatch, IsInjective, End
<1>6. Hanging(l) = {1} /\ 1 \in Block /\ c[1] = <<>>
  BY <1>1, <1>3, <1>4, <1>5 DEF Hanging, Block
<1>7. Hanging(c[1]) = {} /\ Listed(c[1]) = {} /\ GoodBatch(c[1])
  BY <1>6, NoChain DEF Hanging, Listed, ToSet, WellChained
<1>8. Chain(l, c) \subseteq {1}
  BY <1>6, <1>7, ChainLeast
<1>9. WellChained(l, c)
  BY <1>5, <1>7, <1>8 DEF WellChained
<1>10. Listed(l) = 1..NICFREE
  BY <1>1, <1>4 DEF Listed, ToSet, End
<1>11. \A x : x \in FreeFrom(l, c) <=> x \in 1..NICFREE
  <2> SUFFICES ASSUME NEW x PROVE x \in FreeFrom(l, c) <=> x \in Listed(l)
    BY <1>10
  <2>1. \A b \in Chain(l, c) : x \notin Listed(c[b])
    BY <1>7, <1>8
  <2> QED
    BY <2>1, FreeFromMember
<1> QED
  BY <1>2, <1>9, <1>11

LEMMA InitInv == Init => IInv /\ FreeBlocks = 1..NICFREE
<1> SUFFICES ASSUME Init PROVE IInv /\ FreeBlocks = 1..NICFREE
  OBVIOUS
<1>1. NICFREE \in Nat /\ NICFREE >= 2 /\ NBLK \in Nat /\ NBLK >= NICFREE /\ NoBlk \notin Block
  BY FreeListAssumption DEF Block
<1>2. WellChained(s_free, content) /\ FreeFrom(s_free, content) = 1..NICFREE
  BY MkfsList
<1>3. Refilling = {}
  BY DEF Init, Refilling
<1>4. Chained /\ FreeBlocks = 1..NICFREE
  BY <1>2, <1>3 DEF Chained, FreeBlocks
<1>5. InHand = {}
  BY DEF Init, InHand
<1>6. OnePlace
  <2>1. used = (NICFREE + 1)..NBLK /\ \A p, q \in Proc : blk[p] = NoBlk
    BY DEF Init
  <2> QED
    BY <1>1, <1>4, <1>5, <2>1 DEF OnePlace, Block
<1>7. TypeOK
  <2>1. s_free \in Batch /\ <<>> \in Batch
    BY <1>2, NoChain DEF WellChained, GoodBatch
  <2>2. super = s_free
    BY DEF Init
  <2>3. content \in [Block -> Batch \cup {Data}]
    BY <2>1 DEF Init
  <2>4. used \subseteq Block
    BY <1>1 DEF Init, Block
  <2>5. pc \in [Proc -> Labels] /\ blk \in [Proc -> Block \cup {NoBlk}]
    BY DEF Init, Labels
  <2>6. s_flock \in BOOLEAN /\ s_fmod \in BOOLEAN /\ updlock \in BOOLEAN
    BY DEF Init
  <2> QED
    BY <2>1, <2>2, <2>3, <2>4, <2>5, <2>6 DEF TypeOK
<1>8. Hands /\ Locked
  BY <1>1 DEF Init, Hands, Locked, Refilling
<1>9. CleanMeansSaved
  BY DEF Init, CleanMeansSaved
<1> QED
  BY <1>4, <1>6, <1>7, <1>8, <1>9 DEF IInv

LEMMA NextInv == IInv /\ [Next]_vars => IInv' /\ SpaceStep
<1> SUFFICES ASSUME IInv, [Next]_vars PROVE IInv' /\ SpaceStep
  OBVIOUS
<1>1. CASE UNCHANGED vars
  <2>1. UNCHANGED <<s_free, s_flock, s_fmod, super, content, updlock, used, pc, blk>>
    BY <1>1 DEF vars, fs
  <2>2. TypeOK' /\ Hands'
    BY <2>1 DEF IInv, TypeOK, Hands
  <2>3. Refilling' = Refilling /\ InHand' = InHand /\ FreeBlocks' = FreeBlocks
    BY <2>1 DEF Refilling, InHand, FreeBlocks
  <2>4. Locked' /\ Chained'
    BY <2>1, <2>3 DEF IInv, Locked, Chained
  <2>5. OnePlace' /\ CleanMeansSaved'
    BY <2>1, <2>3 DEF IInv, OnePlace, CleanMeansSaved
  <2> QED
    BY <2>2, <2>3, <2>4, <2>5 DEF IInv, SpaceStep
<1>2. CASE Next
  <2>1. PICK p \in Proc : \/ Step(p) \/ Alloc(p) \/ Update(p)
                          \/ \E b \in Block : Bfree(p, b)
    BY <1>2 DEF Next
  <2>2. CASE AllocNospace(p)
    BY <2>2, NospaceInv
  <2>3. CASE AllocPop(p)
    BY <2>3, PopInv
  <2>4. CASE AllocLast(p)
    BY <2>4, LastInv
  <2>5. CASE AllocRefill(p)
    BY <2>5, RefillInv
  <2>6. CASE AllocDone(p)
    BY <2>6, DoneInv
  <2>7. CASE BfreePush(p)
    BY <2>7, PushInv
  <2>8. CASE BfreeSpill(p)
    BY <2>8, SpillInv
  <2>9. CASE \/ Alloc(p) \/ FlockSleep(p) \/ BfreeFull(p) \/ Update(p) \/ UpdateCopy(p)
             \/ \E b \in Block : Bfree(p, b)
    BY <2>9, QuietInv
  <2> QED
    BY <2>1, <2>2, <2>3, <2>4, <2>5, <2>6, <2>7, <2>8, <2>9 DEF Step
<1> QED
  BY <1>1, <1>2

LEMMA ListInv == Spec => []IInv
<1>1. IInv /\ [Next]_vars => IInv'
  BY NextInv
<1>2. Init => IInv
  BY InitInv
<1> QED
  BY <1>1, <1>2, PTL DEF Spec

-----------------------------------------------------------------------------
(* The free list keeps its types: s_free never has more than NICFREE       *)
(* numbers, nor any number that is not a block's or the end mark.          *)
THEOREM FreeListTypeCorrect == Spec => []TypeOK
<1>1. IInv => TypeOK
  BY DEF IInv
<1> QED
  BY <1>1, ListInv, PTL

(* alloc, bfree and the chaining of batches keep every block in exactly    *)
(* one place: no block is handed out twice, and none is lost.              *)
THEOREM BlocksInOnePlace == Spec => []OnePlace
<1>1. IInv => OnePlace
  BY DEF IInv
<1> QED
  BY <1>1, ListInv, PTL

(* When update has cleared s_fmod and no alloc or bfree is under way, the  *)
(* superblock on disk has the free blocks of the one in core.              *)
THEOREM CleanSuperblock == Spec => []CleanMeansSaved
<1>1. IInv => CleanMeansSaved
  BY DEF IInv
<1> QED
  BY <1>1, ListInv, PTL

(* alloc reports ENOSPC only when no block is free anywhere in the chain.  *)
THEOREM NospaceIsTrue == Spec => NospaceMeansNone
<1>1. IInv /\ [Next]_vars => [\A p \in Proc : AllocNospace(p) => FreeBlocks = {}]_vars
  <2> SUFFICES ASSUME IInv, NEW p \in Proc, AllocNospace(p)
               PROVE  FreeBlocks = {}
    OBVIOUS
  <2>1. ~s_flock /\ Top = End
    BY DEF AllocNospace, InAlloc
  <2> QED
    BY <2>1, TopEnd
<1> QED
  BY <1>1, ListInv, PTL DEF Spec, NospaceMeansNone

(* alloc and bfree implement a set of free blocks: each step takes one     *)
(* free block, returns one that is not free, or leaves the set alone.      *)
THEOREM FreeListImplements == Spec => SpaceRefined
<1>1. Init => Space!SpaceInit
  BY InitInv DEF Space!SpaceInit
<1>2. IInv /\ [Next]_vars => [Space!SpaceNext]_FreeBlocks
  <2>1. SpaceStep => [Space!SpaceNext]_FreeBlocks
    BY DEF SpaceStep, Space!SpaceNext, Space!Take, Space!Return
  <2> QED
    BY <2>1, NextInv
<1> QED
  BY <1>1, <1>2, ListInv, PTL DEF Spec, SpaceRefined, Space!SpaceSpec
=============================================================================
