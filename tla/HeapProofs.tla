----------------------------- MODULE HeapProofs -----------------------------
(***************************************************************************)
(* Proofs about the built-in heap, for every heap size, header size,       *)
(* alignment and set of requests.                                          *)
(***************************************************************************)
EXTENDS Heap, SeqLemmas, SequenceTheorems, TLAPS

-----------------------------------------------------------------------------
(* What Take and MergeNext do to the queue, block by block. *)

LEMMA BlkType ==
  /\ \A a, s \in Nat, m \in {FREE, ALLOC} : Blk(a, s, m) \in Block
  /\ \A bs \in Seq(Block) : \A i \in 1..Len(bs) :
       /\ bs[i] \in Block
       /\ bs[i].addr \in Nat /\ bs[i].size \in Nat
       /\ bs[i].magic = FREE \/ bs[i].magic = ALLOC
<1>1. ASSUME NEW a \in Nat, NEW s \in Nat, NEW m \in {FREE, ALLOC} PROVE Blk(a, s, m) \in Block
  BY DEF Blk, Block
<1>2. ASSUME NEW bs \in Seq(Block), NEW i \in 1..Len(bs)
      PROVE  /\ bs[i] \in Block
             /\ bs[i].addr \in Nat /\ bs[i].size \in Nat
             /\ bs[i].magic = FREE \/ bs[i].magic = ALLOC
  <2>1. bs[i] \in Block
    OBVIOUS
  <2> QED BY <2>1 DEF Block
<1> QED BY <1>1, <1>2

(* A block too small to be cut is taken whole. *)
LEMMA TakeWhole ==
  ASSUME NEW bs \in Seq(Block), NEW i \in 1..Len(bs), NEW need \in Nat,
         bs[i].size - need < 2 * Hdr
  PROVE  /\ Take(bs, i, need) \in Seq(Block)
         /\ Len(Take(bs, i, need)) = Len(bs)
         /\ \A j \in 1..Len(bs) : j # i => Take(bs, i, need)[j] = bs[j]
         /\ Take(bs, i, need)[i] = Blk(bs[i].addr, bs[i].size, ALLOC)
<1> DEFINE new == Blk(bs[i].addr, bs[i].size, ALLOC)
<1>1. Take(bs, i, need) = [bs EXCEPT ![i] = new]
  BY DEF Take
<1>2. new \in Block
  BY BlkType
<1> HIDE DEF new
<1> QED BY <1>1, <1>2 DEF new

(* A larger one is cut; the remainder follows it in the queue. *)
LEMMA TakeCut ==
  ASSUME NEW bs \in Seq(Block), NEW i \in 1..Len(bs), NEW need \in Nat,
         bs[i].size - need >= 2 * Hdr
  PROVE  /\ Take(bs, i, need) \in Seq(Block)
         /\ Len(Take(bs, i, need)) = Len(bs) + 1
         /\ \A j \in 1..(i-1) : Take(bs, i, need)[j] = bs[j]
         /\ Take(bs, i, need)[i] = Blk(bs[i].addr, need, ALLOC)
         /\ Take(bs, i, need)[i+1] =
              Blk(bs[i].addr + need, bs[i].size - need, FREE)
         /\ \A j \in (i+2)..(Len(bs)+1) : Take(bs, i, need)[j] = bs[j-1]
<1> DEFINE head == Blk(bs[i].addr, need, ALLOC)
           rest == Blk(bs[i].addr + need, bs[i].size - need, FREE)
           b1   == [bs EXCEPT ![i] = head]
<1>2. head \in Block
  BY BlkType
<1>3. rest \in Block
  BY BlkType, HeapAssumption
<1> HIDE DEF head, rest
<1>5. Take(bs, i, need) = InsertAt(b1, i + 1, rest)
  BY BlkType, HeapAssumption DEF Take, head, rest
<1>6. /\ b1 \in Seq(Block) /\ Len(b1) = Len(bs) /\ b1[i] = head
      /\ \A j \in 1..Len(bs) : j # i => b1[j] = bs[j]
  BY <1>2
<1> HIDE DEF b1
<1>7. i + 1 \in 1..(Len(b1) + 1) /\ b1 \in Seq(Block)
  BY <1>6
<1>8. InsertAt(b1, i+1, rest) \in Seq(Block) /\ IsInsertion(InsertAt(b1, i+1, rest), b1, i+1, rest)
  BY <1>3, <1>7, InsertAtFacts
<1>9. \A j \in (i+2)..(Len(bs)+1) : InsertAt(b1, i+1, rest)[j] = bs[j-1]
  <2> SUFFICES ASSUME NEW j \in (i+2)..(Len(bs)+1) PROVE InsertAt(b1, i+1, rest)[j] = bs[j-1]
    OBVIOUS
  <2>1. j - 1 \in 1..Len(bs) /\ j - 1 # i
    OBVIOUS
  <2>2. InsertAt(b1, i+1, rest)[j] = b1[j-1]
    BY <1>6, <1>8 DEF IsInsertion
  <2> QED BY <2>1, <2>2, <1>6
<1> QED BY <1>5, <1>6, <1>8, <1>9 DEF head, rest, IsInsertion

(* Merging removes the next block and gives its bytes to this one. *)
LEMMA MergeShape ==
  ASSUME NEW bs \in Seq(Block), NEW i \in 1..Len(bs), MergesNext(bs, i)
  PROVE  /\ MergeNext(bs, i) \in Seq(Block)
         /\ Len(MergeNext(bs, i)) = Len(bs) - 1
         /\ \A j \in 1..(i-1) : MergeNext(bs, i)[j] = bs[j]
         /\ MergeNext(bs, i)[i] =
              Blk(bs[i].addr, bs[i].size + bs[i+1].size, bs[i].magic)
         /\ \A j \in (i+1)..(Len(bs)-1) : MergeNext(bs, i)[j] = bs[j+1]
<1> DEFINE big == Blk(bs[i].addr, bs[i].size + bs[i+1].size, bs[i].magic)
           b1  == [bs EXCEPT ![i] = big]
<1>0. i + 1 \in 1..Len(bs)
  BY DEF MergesNext
<1>2. big \in Block
  BY <1>0, BlkType
<1> HIDE DEF big
<1>4. MergeNext(bs, i) = RemoveAt(b1, i + 1)
  BY DEF MergeNext, big
<1>5. /\ b1 \in Seq(Block) /\ Len(b1) = Len(bs) /\ b1[i] = big
      /\ \A j \in 1..Len(bs) : j # i => b1[j] = bs[j]
  BY <1>2
<1> HIDE DEF b1
<1>6. /\ RemoveAt(b1, i+1) \in Seq(Block)
      /\ Len(RemoveAt(b1, i+1)) = Len(bs) - 1
      /\ \A j \in 1..(Len(bs) - 1) :
           RemoveAt(b1, i+1)[j] = IF j < i+1 THEN b1[j] ELSE b1[j+1]
  <2>1. i + 1 \in 1..Len(b1)
    BY <1>0, <1>5
  <2>2. /\ RemoveAt(b1, i+1) \in Seq(Block)
        /\ Len(RemoveAt(b1, i+1)) = Len(b1) - 1
        /\ \A j \in 1..(Len(b1) - 1) :
             RemoveAt(b1, i+1)[j] = IF j < i+1 THEN b1[j] ELSE b1[j+1]
    BY <2>1, <1>5, RemoveAtFacts
  <2> QED BY <2>2, <1>5
<1> QED BY <1>0, <1>4, <1>5, <1>6 DEF big

-----------------------------------------------------------------------------
(* Cutting and merging keep the queue a tiling of the heap. *)

Sound(bs) == bs \in Seq(Block) /\ Tiles(bs) /\ InOrder(bs)

LEMMA BlkFields ==
  ASSUME NEW a, NEW s, NEW m
  PROVE  Blk(a, s, m).addr = a /\ Blk(a, s, m).size = s /\ Blk(a, s, m).magic = m
BY DEF Blk

LEMMA EndType ==
  ASSUME NEW bs \in Seq(Block), NEW i \in 1..Len(bs)
  PROVE  BlockEnd(bs[i]) \in Nat
BY BlkType DEF BlockEnd

LEMMA Chain ==
  ASSUME NEW a \in Nat, NEW b \in Nat, NEW c \in Nat, NEW d \in Nat, a <= b, b <= c, c <= d
  PROVE  a <= d
OBVIOUS

(* Only the size and the address of a block matter to Sound. *)
LEMMA SameLayout ==
  ASSUME NEW bs, Sound(bs), NEW t \in Seq(Block), Len(t) = Len(bs),
         \A j \in 1..Len(bs) : t[j].addr = bs[j].addr /\ t[j].size = bs[j].size
  PROVE  Sound(t)
<1>1. Tiles(t)
  BY BlkType DEF Sound, Tiles, BlockEnd
<1>2. InOrder(t)
  BY BlkType DEF Sound, InOrder, BlockEnd
<1> QED BY <1>1, <1>2 DEF Sound

(* vmir_heap_malloc keeps the tiling. *)
LEMMA TakeSound ==
  ASSUME NEW bs, Sound(bs), NEW i \in 1..Len(bs), NEW need \in Nat, need >= Hdr,
         Fits(bs[i], need)
  PROVE  Sound(Take(bs, i, need))
<1> DEFINE t == Take(bs, i, need)
<1>0. bs \in Seq(Block) /\ Tiles(bs) /\ InOrder(bs) /\ bs[i].size >= need
  BY DEF Sound, Fits
<1>a. /\ Len(bs) \in Nat /\ i \in Nat /\ i <= Len(bs) /\ i >= 1 /\ Hdr \in Nat
      /\ bs[i].addr \in Nat /\ bs[i].size \in Nat
  BY <1>0, BlkType, HeapAssumption
<1>b. \A j \in 1..Len(bs) : bs[j].addr \in Nat /\ bs[j].size \in Nat /\ bs[j].size >= Hdr
  BY <1>0, BlkType DEF Tiles
<1>1. CASE bs[i].size - need < 2 * Hdr
  <2>1. /\ t \in Seq(Block) /\ Len(t) = Len(bs)
        /\ \A j \in 1..Len(bs) : j # i => t[j] = bs[j]
        /\ t[i] = Blk(bs[i].addr, bs[i].size, ALLOC)
    BY <1>0, <1>1, TakeWhole
  <2> HIDE DEF t
  <2>2. \A j \in 1..Len(bs) : t[j].addr = bs[j].addr /\ t[j].size = bs[j].size
    BY <2>1, BlkFields
  <2>3. Sound(t)
    BY <2>1, <2>2, SameLayout
  <2> QED BY <2>3 DEF t
<1>2. CASE bs[i].size - need >= 2 * Hdr
  <2>1. /\ t \in Seq(Block) /\ Len(t) = Len(bs) + 1
        /\ \A j \in 1..(i-1) : t[j] = bs[j]
        /\ t[i] = Blk(bs[i].addr, need, ALLOC)
        /\ t[i+1] = Blk(bs[i].addr + need, bs[i].size - need, FREE)
        /\ \A j \in (i+2)..(Len(bs)+1) : t[j] = bs[j-1]
    BY <1>0, <1>2, TakeCut
  <2> HIDE DEF t
  <2>2. /\ t[i].addr = bs[i].addr /\ t[i].size = need
        /\ t[i+1].addr = bs[i].addr + need /\ t[i+1].size = bs[i].size - need
    BY <2>1, BlkFields
  <2>3. Tiles(t)
    <3>1. t[1].addr = HeapStart
      BY <1>0, <2>1, <2>2 DEF Tiles
    <3>2. BlockEnd(t[Len(t)]) = HeapEnd
      <4>1. CASE i = Len(bs)
        <5>1. Len(t) = i + 1
          BY <4>1, <2>1
        <5>2. BlockEnd(t[i+1]) = BlockEnd(bs[i])
          BY <2>2, <1>a DEF BlockEnd
        <5> QED BY <5>1, <5>2, <4>1, <1>0 DEF Tiles
      <4>2. CASE i < Len(bs)
        <5>1. Len(bs) + 1 \in (i+2)..(Len(bs)+1) /\ (Len(bs) + 1) - 1 = Len(bs)
          BY <4>2, <1>a
        <5>2. t[Len(t)] = bs[Len(bs)]
          BY <5>1, <2>1
        <5> QED BY <5>2, <1>0 DEF Tiles
      <4> QED BY <4>1, <4>2, <1>0
    <3>3. ASSUME NEW j \in 1..Len(t) PROVE t[j].size >= Hdr
      <4>1. CASE j < i
        <5>1. j \in 1..(i-1) /\ j \in 1..Len(bs)
          BY <4>1, <1>a, <2>1
        <5> QED BY <5>1, <1>b, <2>1
      <4>2. CASE j = i \/ j = i + 1
        BY <4>2, <1>2, <1>a, <2>2
      <4>3. CASE j > i + 1
        <5>1. j \in (i+2)..(Len(bs)+1) /\ j - 1 \in 1..Len(bs)
          BY <4>3, <2>1, <1>0
        <5> QED BY <5>1, <1>0, <2>1 DEF Tiles
      <4> QED BY <4>1, <4>2, <4>3
    <3>4. ASSUME NEW j \in 1..(Len(t) - 1) PROVE t[j+1].addr = BlockEnd(t[j])
      <4>1. CASE j < i
        <5>1. j \in 1..(i-1) /\ j \in 1..(Len(bs) - 1)
          BY <4>1, <1>a, <2>1
        <5>2. bs[j+1].addr = BlockEnd(bs[j])
          BY <5>1, <1>0 DEF Tiles
        <5>3. t[j+1].addr = bs[j+1].addr
          <6>1. CASE j + 1 = i
            BY <6>1, <2>2
          <6>2. CASE j + 1 < i
            <7>1. j + 1 \in 1..(i-1)
              BY <6>2, <5>1, <1>a
            <7> QED BY <7>1, <2>1
          <6> QED BY <6>1, <6>2, <4>1, <1>a, <5>1
        <5> QED BY <5>1, <5>2, <5>3, <2>1
      <4>2. CASE j = i
        BY <4>2, <2>2 DEF BlockEnd
      <4>3. CASE j = i + 1
        <5>1. j + 1 \in (i+2)..(Len(bs)+1) /\ i \in 1..(Len(bs) - 1) /\ (j + 1) - 1 = i + 1
          BY <4>3, <2>1, <1>0
        <5>2. t[j+1] = bs[i+1]
          BY <5>1, <2>1
        <5>3. bs[i+1].addr = BlockEnd(bs[i])
          BY <5>1, <1>0 DEF Tiles
        <5>4. BlockEnd(t[i+1]) = BlockEnd(bs[i])
          BY <2>2, <1>a DEF BlockEnd
        <5> QED BY <5>2, <5>3, <5>4, <4>3
      <4>4. CASE j > i + 1
        <5>1. /\ j \in (i+2)..(Len(bs)+1) /\ j + 1 \in (i+2)..(Len(bs)+1)
              /\ j - 1 \in 1..(Len(bs) - 1) /\ (j + 1) - 1 = j /\ (j - 1) + 1 = j
          BY <4>4, <2>1, <1>0
        <5>2. t[j] = bs[j-1] /\ t[j+1] = bs[j]
          BY <5>1, <2>1
        <5>3. bs[(j-1)+1].addr = BlockEnd(bs[j-1])
          BY <5>1, <1>0 DEF Tiles
        <5> QED BY <5>1, <5>2, <5>3
      <4> QED BY <4>1, <4>2, <4>3, <4>4
    <3>5. Len(t) >= 1
      BY <1>a, <2>1
    <3> QED BY <3>1, <3>2, <3>3, <3>4, <3>5 DEF Tiles
  <2>4. InOrder(t)
    <3> SUFFICES ASSUME NEW a \in 1..Len(t), NEW b \in 1..Len(t), a < b
                 PROVE  BlockEnd(t[a]) <= t[b].addr
      BY DEF InOrder
    <3> DEFINE pos(j) == IF j <= i THEN j ELSE j - 1
    <3>1. ASSUME NEW j \in 1..Len(t)
          PROVE  /\ pos(j) \in 1..Len(bs)
                 /\ t[j].addr \in Nat /\ t[j].size \in Nat
                 /\ bs[pos(j)].addr <= t[j].addr
                 /\ BlockEnd(t[j]) <= BlockEnd(bs[pos(j)])
      <4>1. pos(j) \in 1..Len(bs)
        BY <2>1, <1>0
      <4>2. t[j].addr \in Nat /\ t[j].size \in Nat /\ bs[pos(j)].addr \in Nat /\ bs[pos(j)].size \in Nat
        BY <4>1, <2>1, <1>0, BlkType
      <4>3. CASE j < i
        BY <4>3, <4>2, <2>1 DEF BlockEnd
      <4>4. CASE j = i \/ j = i + 1
        <5>1. pos(j) = i
          BY <4>4, <1>a
        <5>2. CASE j = i
          BY <5>1, <5>2, <2>2, <1>0, <1>a, <4>2 DEF BlockEnd
        <5>3. CASE j = i + 1
          <6>1. t[j].addr = bs[i].addr + need /\ t[j].size = bs[i].size - need
            BY <5>3, <2>2
          <6>2. BlockEnd(t[j]) = BlockEnd(bs[i])
            BY <6>1, <1>a DEF BlockEnd
          <6>3. BlockEnd(bs[i]) \in Nat /\ bs[i].addr <= t[j].addr
            BY <6>1, <1>a DEF BlockEnd
          <6> QED BY <5>1, <6>2, <6>3, <4>1, <4>2
        <5> QED BY <4>4, <5>2, <5>3
      <4>5. CASE j > i + 1
        <5>1. j \in (i+2)..(Len(bs)+1) /\ pos(j) = j - 1
          BY <4>5, <2>1
        <5>2. t[j] = bs[pos(j)]
          BY <5>1, <2>1
        <5> QED BY <5>2, <4>1, <4>2 DEF BlockEnd
      <4> QED BY <4>1, <4>2, <4>3, <4>4, <4>5
    <3>2. CASE a = i /\ b = i + 1
      BY <3>2, <2>2, <1>a DEF BlockEnd
    <3>3. CASE ~(a = i /\ b = i + 1)
      <4> DEFINE pa == pos(a)  pb == pos(b)
      <4>1. pa < pb
        BY <3>3
      <4>2. /\ pa \in 1..Len(bs) /\ pb \in 1..Len(bs)
            /\ BlockEnd(t[a]) <= BlockEnd(bs[pa]) /\ bs[pb].addr <= t[b].addr
            /\ t[a].addr \in Nat /\ t[a].size \in Nat /\ t[b].addr \in Nat
        BY <3>1
      <4> HIDE DEF pa, pb
      <4>3. BlockEnd(bs[pa]) <= bs[pb].addr
        BY <4>1, <4>2, <1>0 DEF InOrder
      <4>4. bs[pa].addr \in Nat /\ bs[pa].size \in Nat /\ bs[pb].addr \in Nat
        BY <4>2, <1>b
      <4>5. BlockEnd(bs[pa]) \in Nat /\ BlockEnd(t[a]) \in Nat
        BY <4>2, <1>0, <2>1, EndType
      <4> QED BY <4>2, <4>3, <4>4, <4>5, Chain
    <3> QED BY <3>2, <3>3
  <2> QED BY <2>1, <2>3, <2>4 DEF Sound, t
<1> QED BY <1>0, <1>1, <1>2, BlkType, HeapAssumption

(* vmir_heap_merge_next keeps the tiling. *)
LEMMA MergeSound ==
  ASSUME NEW bs, Sound(bs), NEW i \in 1..Len(bs)
  PROVE  Sound(MergeNext(bs, i))
<1> DEFINE m == MergeNext(bs, i)
<1>0. bs \in Seq(Block) /\ Tiles(bs) /\ InOrder(bs) /\ Len(bs) \in Nat /\ Hdr \in Nat
  BY HeapAssumption DEF Sound
<1>b. \A j \in 1..Len(bs) : bs[j].addr \in Nat /\ bs[j].size \in Nat /\ bs[j].size >= Hdr
  BY <1>0, BlkType DEF Tiles
<1>1. CASE ~MergesNext(bs, i)
  BY <1>1 DEF MergeNext
<1>2. CASE MergesNext(bs, i)
  <2>0. i \in 1..(Len(bs) - 1) /\ i + 1 \in 1..Len(bs)
    BY <1>0, <1>2 DEF MergesNext
  <2>1. /\ m \in Seq(Block) /\ Len(m) = Len(bs) - 1
        /\ \A j \in 1..(i-1) : m[j] = bs[j]
        /\ m[i] = Blk(bs[i].addr, bs[i].size + bs[i+1].size, bs[i].magic)
        /\ \A j \in (i+1)..(Len(bs)-1) : m[j] = bs[j+1]
    BY <1>0, <1>2, MergeShape
  <2> HIDE DEF m
  <2>a. i \in 1..Len(m) /\ \A j \in 1..Len(m) : j \in Nat /\ j \in 1..(Len(bs) - 1)
    BY <2>0, <2>1, <1>0
  <2>2. m[i].addr = bs[i].addr /\ BlockEnd(m[i]) = BlockEnd(bs[i+1]) /\ m[i].size >= Hdr
    <3>1. m[i].addr = bs[i].addr /\ m[i].size = bs[i].size + bs[i+1].size
      BY <2>1, BlkFields
    <3>2. bs[i+1].addr = BlockEnd(bs[i])
      BY <2>0, <1>0 DEF Tiles
    <3>3. /\ bs[i].addr \in Nat /\ bs[i].size \in Nat /\ bs[i+1].size \in Nat
          /\ bs[i].size >= Hdr
      BY <2>0, <1>b
    <3> QED BY <3>1, <3>2, <3>3, <1>0 DEF BlockEnd
  <2>3. Tiles(m)
    <3>1. Len(m) >= 1
      BY <2>0, <2>1, <1>0
    <3>2. m[1].addr = HeapStart
      BY <2>1, <2>2, <2>0, <1>0 DEF Tiles
    <3>3. BlockEnd(m[Len(m)]) = HeapEnd
      <4>1. CASE i = Len(bs) - 1
        <5>1. i = Len(m) /\ i + 1 = Len(bs)
          BY <4>1, <2>1, <1>0
        <5> QED BY <5>1, <2>2, <1>0 DEF Tiles
      <4>2. CASE i < Len(bs) - 1
        <5>1. Len(bs) - 1 \in (i+1)..(Len(bs)-1) /\ (Len(bs) - 1) + 1 = Len(bs)
          BY <4>2, <1>0
        <5>2. m[Len(m)] = bs[Len(bs)]
          BY <5>1, <2>1
        <5> QED BY <5>2, <1>0 DEF Tiles
      <4> QED BY <4>1, <4>2, <2>0, <1>0
    <3>4. ASSUME NEW j \in 1..Len(m) PROVE m[j].size >= Hdr
      <4>1. CASE j < i
        <5>1. j \in 1..(i-1) /\ j \in 1..Len(bs)
          BY <4>1, <2>0, <2>a
        <5> QED BY <5>1, <1>b, <2>1
      <4>2. CASE j = i
        BY <4>2, <2>2
      <4>3. CASE j > i
        <5>1. j \in (i+1)..(Len(bs)-1) /\ j + 1 \in 1..Len(bs)
          BY <4>3, <2>0, <2>a, <1>0
        <5> QED BY <5>1, <1>b, <2>1
      <4> QED BY <4>1, <4>2, <4>3, <2>0, <2>a
    <3>5. ASSUME NEW j \in 1..(Len(m) - 1) PROVE m[j+1].addr = BlockEnd(m[j])
      <4>0. j \in 1..(Len(bs) - 2) /\ j \in 1..(Len(bs) - 1)
        BY <2>1, <1>0
      <4>1. CASE j + 1 < i
        <5>1. j \in 1..(i-1) /\ j + 1 \in 1..(i-1)
          BY <4>1, <2>0, <4>0
        <5> QED BY <5>1, <4>0, <2>1, <1>0 DEF Tiles
      <4>2. CASE j + 1 = i
        <5>1. j \in 1..(i-1)
          BY <4>2, <2>0, <4>0
        <5> QED BY <5>1, <4>0, <4>2, <2>1, <2>2, <1>0 DEF Tiles
      <4>3. CASE j = i
        <5>1. j + 1 \in (i+1)..(Len(bs)-1) /\ i + 1 \in 1..(Len(bs) - 1)
          BY <4>3, <4>0, <1>0
        <5>2. m[j+1] = bs[(i+1)+1]
          BY <5>1, <4>3, <2>1
        <5>3. bs[(i+1)+1].addr = BlockEnd(bs[i+1])
          BY <5>1, <1>0 DEF Tiles
        <5> QED BY <5>2, <5>3, <4>3, <2>2
      <4>4. CASE j > i
        <5>1. /\ j \in (i+1)..(Len(bs)-1) /\ j + 1 \in (i+1)..(Len(bs)-1)
              /\ j + 1 \in 1..(Len(bs) - 1)
          BY <4>4, <4>0, <2>0, <1>0
        <5>2. m[j] = bs[j+1] /\ m[j+1] = bs[(j+1)+1]
          BY <5>1, <2>1
        <5>3. bs[(j+1)+1].addr = BlockEnd(bs[j+1])
          BY <5>1, <1>0 DEF Tiles
        <5> QED BY <5>2, <5>3
      <4> QED BY <4>1, <4>2, <4>3, <4>4, <4>0, <2>0
    <3> QED BY <3>1, <3>2, <3>3, <3>4, <3>5 DEF Tiles
  <2>4. InOrder(m)
    <3> DEFINE first(j) == IF j <= i THEN j ELSE j + 1
               last(j)  == IF j < i THEN j ELSE j + 1
    <3>1. ASSUME NEW j \in 1..Len(m)
          PROVE  /\ first(j) \in 1..Len(bs) /\ last(j) \in 1..Len(bs)
                 /\ m[j].addr = bs[first(j)].addr
                 /\ BlockEnd(m[j]) = BlockEnd(bs[last(j)])
      <4>1. first(j) \in 1..Len(bs) /\ last(j) \in 1..Len(bs)
        BY <2>0, <2>a, <1>0
      <4>2. CASE j < i
        <5>1. j \in 1..(i-1)
          BY <4>2, <2>0, <2>a
        <5>2. m[j] = bs[j]
          BY <5>1, <2>1
        <5>3. first(j) = j /\ last(j) = j
          BY <4>2, <2>0, <2>a
        <5> QED BY <4>1, <5>2, <5>3
      <4>3. CASE j = i
        <5>1. first(j) = i /\ last(j) = i + 1
          BY <4>3, <2>0
        <5> QED BY <5>1, <4>1, <4>3, <2>2
      <4>4. CASE j > i
        <5>1. j \in (i+1)..(Len(bs)-1)
          BY <4>4, <2>0, <2>a, <1>0
        <5>2. m[j] = bs[j+1]
          BY <5>1, <2>1
        <5>3. first(j) = j + 1 /\ last(j) = j + 1
          BY <4>4, <2>0, <2>a
        <5> QED BY <4>1, <5>2, <5>3
      <4> QED BY <4>2, <4>3, <4>4, <2>0, <2>a
    <3>2. ASSUME NEW x \in 1..Len(m), NEW y \in 1..Len(m), x < y
          PROVE  BlockEnd(m[x]) <= m[y].addr
      <4>1. last(x) < first(y)
        BY <3>2, <2>0, <2>a
      <4>2. BlockEnd(bs[last(x)]) <= bs[first(y)].addr
        BY <4>1, <3>1, <1>0 DEF InOrder
      <4> QED BY <4>2, <3>1
    <3> QED BY <3>2 DEF InOrder
  <2> QED BY <2>1, <2>3, <2>4 DEF Sound, m
<1> QED BY <1>1, <1>2

(* Addresses increase along the queue, so no two headers coincide. *)
LEMMA Increasing ==
  ASSUME NEW bs, Sound(bs), NEW i \in 1..Len(bs), NEW j \in 1..Len(bs), i < j
  PROVE  bs[i].addr < bs[j].addr
<1>1. /\ bs[i].addr \in Nat /\ bs[i].size \in Nat /\ bs[j].addr \in Nat
      /\ bs[i].size >= Hdr /\ Hdr \in Nat \ {0}
  BY BlkType, HeapAssumption DEF Sound, Tiles
<1>2. BlockEnd(bs[i]) <= bs[j].addr
  BY DEF Sound, InOrder
<1> QED BY <1>1, <1>2 DEF BlockEnd

LEMMA DistinctPayloads ==
  ASSUME NEW bs, Sound(bs), NEW i \in 1..Len(bs), NEW j \in 1..Len(bs),
         Payload(bs[i]) = Payload(bs[j])
  PROVE  i = j
<1>1. bs[i].addr \in Nat /\ bs[j].addr \in Nat /\ Hdr \in Nat
  BY BlkType, HeapAssumption DEF Sound
<1>2. bs[i].addr = bs[j].addr
  BY <1>1 DEF Payload
<1>3. CASE i < j
  <2>1. bs[i].addr < bs[j].addr
    BY <1>3, Increasing
  <2> QED BY <2>1, <1>1, <1>2
<1>4. CASE j < i
  <2>1. bs[j].addr < bs[i].addr
    BY <1>4, Increasing
  <2> QED BY <2>1, <1>1, <1>2
<1> QED BY <1>3, <1>4

LEMMA ReleaseShape ==
  ASSUME NEW bs \in Seq(Block), NEW i \in 1..Len(bs)
  PROVE  /\ Release(bs, i) \in Seq(Block)
         /\ Len(Release(bs, i)) = Len(bs)
         /\ \A j \in 1..Len(bs) : j # i => Release(bs, i)[j] = bs[j]
         /\ Release(bs, i)[i] = Blk(bs[i].addr, bs[i].size, FREE)
<1> DEFINE new == Blk(bs[i].addr, bs[i].size, FREE)
<1>1. Release(bs, i) = [bs EXCEPT ![i] = new]
  BY DEF Release
<1>2. new \in Block
  BY BlkType
<1> HIDE DEF new
<1> QED BY <1>1, <1>2 DEF new

LEMMA ReleaseSound ==
  ASSUME NEW bs, Sound(bs), NEW i \in 1..Len(bs)
  PROVE  Sound(Release(bs, i))
<1>1. bs \in Seq(Block)
  BY DEF Sound
<1> DEFINE r == Release(bs, i)
<1>2. /\ r \in Seq(Block) /\ Len(r) = Len(bs)
      /\ \A j \in 1..Len(bs) : j # i => r[j] = bs[j]
      /\ r[i] = Blk(bs[i].addr, bs[i].size, FREE)
  BY <1>1, ReleaseShape
<1> HIDE DEF r
<1>3. \A j \in 1..Len(bs) : r[j].addr = bs[j].addr /\ r[j].size = bs[j].size
  BY <1>2, BlkFields
<1>4. Sound(r)
  BY <1>2, <1>3, SameLayout
<1> QED BY <1>4 DEF r

(* vmir_heap_free keeps the tiling, and none of its asserts can fail. *)
LEMMA FreeSound ==
  ASSUME NEW bs, Sound(bs), NEW i \in 1..Len(bs), bs[i].magic = ALLOC
  PROVE  Sound(FreeBlock(bs, i)) /\ FreeAsserts(bs, i)
<1> DEFINE r == Release(bs, i)  m == MergeNext(r, i)
<1>0. bs \in Seq(Block) /\ Len(bs) \in Nat
  BY DEF Sound
<1>1. Sound(r) /\ Len(r) = Len(bs) /\ r \in Seq(Block)
  BY <1>0, ReleaseSound, ReleaseShape
<1> HIDE DEF r
<1>2. Sound(m) /\ m \in Seq(Block)
  BY <1>1, MergeSound DEF Sound
<1>3. Len(m) \in Nat /\ i \in 1..Len(m)
  <2>1. CASE MergesNext(r, i)
    BY <2>1, <1>0, <1>1, MergeShape DEF MergesNext
  <2>2. CASE ~MergesNext(r, i)
    BY <2>2, <1>1, <1>0 DEF MergeNext
  <2> QED BY <2>1, <2>2
<1> HIDE DEF m
<1>4. ASSUME NEW s, Sound(s), NEW j \in 1..Len(s) PROVE MergeAssert(s, j)
  <2>1. CASE MergesNext(s, j)
    <3>1. j + 1 \in 1..Len(s) /\ j < j + 1
      BY <1>4, <2>1 DEF MergesNext, Sound
    <3>2. s[j].addr < s[j+1].addr
      BY <1>4, <3>1, Increasing
    <3>3. s[j].addr \in Nat /\ s[j+1].addr \in Nat
      BY <1>4, <3>1, BlkType DEF Sound
    <3> QED BY <3>2, <3>3 DEF MergeAssert
  <2> QED BY <2>1 DEF MergeAssert
<1>5. FreeAsserts(bs, i)
  <2>1. MergeAssert(r, i)
    BY <1>1, <1>4
  <2>2. ASSUME i > 1 PROVE m[i-1].addr < m[i].addr /\ MergeAssert(m, i-1)
    <3>1. i - 1 \in 1..Len(m) /\ i - 1 < i
      BY <2>2, <1>3
    <3> QED BY <3>1, <1>2, <1>3, <1>4, Increasing
  <2> QED BY <2>1, <2>2 DEF FreeAsserts, r, m
<1>6. Sound(FreeBlock(bs, i))
  <2>1. CASE i > 1
    <3>1. i - 1 \in 1..Len(m)
      BY <2>1, <1>3
    <3> QED BY <2>1, <3>1, <1>2, MergeSound DEF FreeBlock, m, r
  <2>2. CASE ~(i > 1)
    BY <2>2, <1>2 DEF FreeBlock, m, r
  <2> QED BY <2>1, <2>2
<1> QED BY <1>5, <1>6

-----------------------------------------------------------------------------
(* No two free blocks become neighbours. *)

LEMMA TakeSeparated ==
  ASSUME NEW bs \in Seq(Block), Separated(bs), NEW i \in 1..Len(bs), NEW need \in Nat,
         bs[i].magic = FREE
  PROVE  Separated(Take(bs, i, need))
<1> DEFINE t == Take(bs, i, need)
<1>a. /\ Len(bs) \in Nat /\ Hdr \in Nat /\ bs[i].size \in Nat /\ FREE # ALLOC
  BY BlkType, HeapAssumption DEF FREE, ALLOC
<1>1. CASE bs[i].size - need < 2 * Hdr
  <2>1. /\ Len(t) = Len(bs)
        /\ \A j \in 1..Len(bs) : j # i => t[j] = bs[j]
        /\ t[i] = Blk(bs[i].addr, bs[i].size, ALLOC)
    BY <1>1, TakeWhole
  <2> HIDE DEF t
  <2>2. t[i].magic = ALLOC
    BY <2>1, BlkFields
  <2>3. ASSUME NEW j \in 1..(Len(t) - 1) PROVE t[j].magic = ALLOC \/ t[j+1].magic = ALLOC
    <3>1. j \in 1..(Len(bs) - 1) /\ j \in 1..Len(bs) /\ j + 1 \in 1..Len(bs)
      BY <2>1, <1>a
    <3>2. CASE j = i \/ j + 1 = i
      BY <3>2, <2>2
    <3>3. CASE j # i /\ j + 1 # i
      BY <3>1, <3>3, <2>1 DEF Separated
    <3> QED BY <3>2, <3>3
  <2> QED BY <2>3 DEF Separated, t
<1>2. CASE bs[i].size - need >= 2 * Hdr
  <2>1. /\ Len(t) = Len(bs) + 1
        /\ \A j \in 1..(i-1) : t[j] = bs[j]
        /\ t[i] = Blk(bs[i].addr, need, ALLOC)
        /\ \A j \in (i+2)..(Len(bs)+1) : t[j] = bs[j-1]
    BY <1>2, TakeCut
  <2> HIDE DEF t
  <2>2. t[i].magic = ALLOC
    BY <2>1, BlkFields
  <2>3. ASSUME NEW j \in 1..(Len(t) - 1) PROVE t[j].magic = ALLOC \/ t[j+1].magic = ALLOC
    <3>1. j \in 1..Len(bs)
      BY <2>1, <1>a
    <3>2. CASE j = i \/ j + 1 = i
      BY <3>2, <2>2
    <3>3. CASE j + 1 < i
      <4>1. j \in 1..(i-1) /\ j + 1 \in 1..(i-1) /\ j \in 1..(Len(bs) - 1)
        BY <3>1, <3>3, <1>a
      <4> QED BY <4>1, <2>1 DEF Separated
    <3>4. CASE j = i + 1
      <4>1. j + 1 \in (i+2)..(Len(bs)+1) /\ i \in 1..(Len(bs) - 1) /\ (j + 1) - 1 = i + 1
        BY <3>1, <3>4, <1>a
      <4>2. t[j+1] = bs[i+1]
        BY <4>1, <2>1
      <4>3. bs[i].magic = ALLOC \/ bs[i+1].magic = ALLOC
        BY <4>1 DEF Separated
      <4> QED BY <4>2, <4>3, <1>a
    <3>5. CASE j > i + 1
      <4>1. /\ j \in (i+2)..(Len(bs)+1) /\ j + 1 \in (i+2)..(Len(bs)+1)
            /\ j - 1 \in 1..(Len(bs) - 1) /\ (j + 1) - 1 = (j - 1) + 1
        BY <3>1, <3>5, <1>a
      <4>2. t[j] = bs[j-1] /\ t[j+1] = bs[(j-1)+1]
        BY <4>1, <2>1
      <4> QED BY <4>1, <4>2 DEF Separated
    <3> QED BY <3>1, <3>2, <3>3, <3>4, <3>5
  <2> QED BY <2>3 DEF Separated, t
<1> QED BY <1>1, <1>2, <1>a

(* Separated, but for the pairs that begin at i-1 and at i. *)
NearlySeparated(bs, i) ==
  \A j \in 1..(Len(bs) - 1) : j # i /\ j # i - 1 => bs[j].magic = ALLOC \/ bs[j+1].magic = ALLOC

(* Separated, but for the pair that begins at i. *)
SeparatedBut(bs, i) ==
  \A j \in 1..(Len(bs) - 1) : j # i => bs[j].magic = ALLOC \/ bs[j+1].magic = ALLOC

(* The first merge: the pair at i is settled. *)
LEMMA FirstMergeSeparated ==
  ASSUME NEW bs \in Seq(Block), NEW i \in 1..Len(bs), bs[i].magic = FREE, NearlySeparated(bs, i)
  PROVE  SeparatedBut(MergeNext(bs, i), i - 1) /\ MergeNext(bs, i)[i].magic = FREE
<1> DEFINE m == MergeNext(bs, i)
<1>a. Len(bs) \in Nat /\ FREE # ALLOC
  BY DEF FREE, ALLOC
<1>1. CASE MergesNext(bs, i)
  <2>0. i \in 1..(Len(bs) - 1) /\ bs[i+1].magic = FREE
    BY <1>a, <1>1 DEF MergesNext
  <2>1. /\ Len(m) = Len(bs) - 1
        /\ \A j \in 1..(i-1) : m[j] = bs[j]
        /\ m[i] = Blk(bs[i].addr, bs[i].size + bs[i+1].size, bs[i].magic)
        /\ \A j \in (i+1)..(Len(bs)-1) : m[j] = bs[j+1]
    BY <1>1, MergeShape
  <2> HIDE DEF m
  <2>2. m[i].magic = FREE
    BY <2>1, BlkFields
  <2>3. ASSUME NEW j \in 1..(Len(m) - 1), j # i - 1
        PROVE  m[j].magic = ALLOC \/ m[j+1].magic = ALLOC
    <3>0. j \in 1..(Len(bs) - 2) /\ j \in 1..(Len(bs) - 1)
      BY <2>1, <1>a
    <3>1. CASE j < i
      <4>1. j \in 1..(i-1) /\ j + 1 \in 1..(i-1)
        BY <3>0, <3>1, <2>3, <2>0
      <4> QED BY <4>1, <3>0, <3>1, <2>3, <2>1, <2>0 DEF NearlySeparated
    <3>2. CASE j = i
      <4>1. i + 1 \in (i+1)..(Len(bs)-1) /\ i + 1 \in 1..(Len(bs) - 1) /\ i + 1 # i /\ i + 1 # i - 1
        BY <3>0, <3>2, <2>0
      <4>2. m[j+1] = bs[(i+1)+1]
        BY <4>1, <3>2, <2>1
      <4>3. bs[i+1].magic = ALLOC \/ bs[(i+1)+1].magic = ALLOC
        BY <4>1 DEF NearlySeparated
      <4> QED BY <4>2, <4>3, <2>0, <1>a
    <3>3. CASE j > i
      <4>1. /\ j \in (i+1)..(Len(bs)-1) /\ j + 1 \in (i+1)..(Len(bs)-1)
            /\ j + 1 \in 1..(Len(bs) - 1) /\ j + 1 # i /\ j + 1 # i - 1
        BY <3>0, <3>3, <2>0, <1>a
      <4>2. m[j] = bs[j+1] /\ m[j+1] = bs[(j+1)+1]
        BY <4>1, <2>1
      <4> QED BY <4>1, <4>2 DEF NearlySeparated
    <3> QED BY <3>0, <3>1, <3>2, <3>3, <2>0
  <2> QED BY <2>2, <2>3 DEF SeparatedBut, m
<1>2. CASE ~MergesNext(bs, i)
  <2>1. m = bs
    BY <1>2 DEF MergeNext
  <2>2. ASSUME i \in 1..(Len(bs) - 1) PROVE bs[i+1].magic = ALLOC
    <3>1. i < Len(bs) /\ i + 1 \in 1..Len(bs)
      BY <2>2, <1>a
    <3> QED BY <3>1, <1>2, BlkType DEF MergesNext
  <2> QED BY <2>1, <2>2 DEF SeparatedBut, NearlySeparated
<1> QED BY <1>1, <1>2

(* The second merge: the freed block goes into the one before it. *)
LEMMA SecondMergeSeparated ==
  ASSUME NEW bs \in Seq(Block), NEW i \in 1..(Len(bs) - 1), bs[i+1].magic = FREE, SeparatedBut(bs, i)
  PROVE  Separated(MergeNext(bs, i))
<1> DEFINE m == MergeNext(bs, i)
<1>a. Len(bs) \in Nat /\ FREE # ALLOC /\ i \in 1..Len(bs)
  BY DEF FREE, ALLOC
<1>1. MergesNext(bs, i)
  BY <1>a DEF MergesNext
<1>2. /\ Len(m) = Len(bs) - 1
      /\ \A j \in 1..(i-1) : m[j] = bs[j]
      /\ m[i] = Blk(bs[i].addr, bs[i].size + bs[i+1].size, bs[i].magic)
      /\ \A j \in (i+1)..(Len(bs)-1) : m[j] = bs[j+1]
  BY <1>1, <1>a, MergeShape
<1> HIDE DEF m
<1>3. m[i].magic = bs[i].magic
  BY <1>2, BlkFields
<1>4. ASSUME NEW j \in 1..(Len(m) - 1)
      PROVE  m[j].magic = ALLOC \/ m[j+1].magic = ALLOC
  <2>0. j \in 1..(Len(bs) - 2) /\ j \in 1..(Len(bs) - 1)
    BY <1>2, <1>a
  <2>1. CASE j + 1 < i
    <3>1. j \in 1..(i-1) /\ j + 1 \in 1..(i-1) /\ j # i
      BY <2>0, <2>1, <1>a
    <3> QED BY <3>1, <2>0, <1>2 DEF SeparatedBut
  <2>2. CASE j + 1 = i
    <3>1. j \in 1..(i-1) /\ j # i
      BY <2>0, <2>2, <1>a
    <3> QED BY <3>1, <2>0, <2>2, <1>2, <1>3 DEF SeparatedBut
  <2>3. CASE j = i
    <3>1. i + 1 \in (i+1)..(Len(bs)-1) /\ i + 1 \in 1..(Len(bs) - 1) /\ i + 1 # i
      BY <2>0, <2>3
    <3>2. m[j+1] = bs[(i+1)+1]
      BY <3>1, <2>3, <1>2
    <3>3. bs[i+1].magic = ALLOC \/ bs[(i+1)+1].magic = ALLOC
      BY <3>1 DEF SeparatedBut
    <3> QED BY <3>2, <3>3, <1>a
  <2>4. CASE j > i
    <3>1. /\ j \in (i+1)..(Len(bs)-1) /\ j + 1 \in (i+1)..(Len(bs)-1)
          /\ j + 1 \in 1..(Len(bs) - 1) /\ j + 1 # i
      BY <2>0, <2>4, <1>a
    <3>2. m[j] = bs[j+1] /\ m[j+1] = bs[(j+1)+1]
      BY <3>1, <1>2
    <3> QED BY <3>1, <3>2 DEF SeparatedBut
  <2> QED BY <2>0, <2>1, <2>2, <2>3, <2>4
<1> QED BY <1>4 DEF Separated, m

(* vmir_heap_free leaves no two free neighbours. *)
LEMMA FreeSeparated ==
  ASSUME NEW bs, Sound(bs), Separated(bs), NEW i \in 1..Len(bs)
  PROVE  Separated(FreeBlock(bs, i))
<1> DEFINE r == Release(bs, i)  m == MergeNext(r, i)
<1>0. bs \in Seq(Block) /\ Len(bs) \in Nat
  BY DEF Sound
<1>1. /\ r \in Seq(Block) /\ Len(r) = Len(bs)
      /\ \A j \in 1..Len(bs) : j # i => r[j] = bs[j]
      /\ r[i] = Blk(bs[i].addr, bs[i].size, FREE)
  BY <1>0, ReleaseShape
<1>2. Sound(r)
  BY ReleaseSound
<1> HIDE DEF r
<1>3. r[i].magic = FREE
  BY <1>1, BlkFields
<1>4. NearlySeparated(r, i)
  <2>1. ASSUME NEW j \in 1..(Len(r) - 1), j # i, j # i - 1
        PROVE  r[j].magic = ALLOC \/ r[j+1].magic = ALLOC
    <3>1. j \in 1..(Len(bs) - 1) /\ j \in 1..Len(bs) /\ j + 1 \in 1..Len(bs) /\ j + 1 # i
      BY <2>1, <1>0, <1>1
    <3> QED BY <3>1, <2>1, <1>1 DEF Separated
  <2> QED BY <2>1 DEF NearlySeparated
<1>5. SeparatedBut(m, i - 1) /\ m[i].magic = FREE
  BY <1>1, <1>3, <1>4, FirstMergeSeparated
<1>6. m \in Seq(Block) /\ Len(m) \in Nat /\ i \in 1..Len(m)
  <2>1. CASE MergesNext(r, i)
    BY <2>1, <1>0, <1>1, MergeShape DEF MergesNext
  <2>2. CASE ~MergesNext(r, i)
    BY <2>2, <1>1, <1>0 DEF MergeNext
  <2> QED BY <2>1, <2>2
<1> HIDE DEF m
<1>7. CASE i > 1
  <2>1. i - 1 \in 1..(Len(m) - 1) /\ (i - 1) + 1 = i
    BY <1>6, <1>7
  <2>2. Separated(MergeNext(m, i - 1))
    BY <2>1, <1>5, <1>6, SecondMergeSeparated
  <2> QED BY <2>2, <1>7 DEF FreeBlock, m, r
<1>8. CASE ~(i > 1)
  <2>1. Separated(m)
    <3>1. i - 1 = 0
      BY <1>8, <1>6
    <3> QED BY <3>1, <1>5 DEF Separated, SeparatedBut
  <2> QED BY <2>1, <1>8 DEF FreeBlock, m, r
<1> QED BY <1>7, <1>8

-----------------------------------------------------------------------------
(* The guest's view and the blocks change together. *)

Matches(bs, l) ==
  /\ DOMAIN l = Owned(bs)
  /\ \A i \in 1..Len(bs) : bs[i].magic = ALLOC => l[Payload(bs[i])] <= UsableSize(bs[i])

LiveType(l) == \A p \in DOMAIN l : p \in Nat /\ l[p] \in Nat

LEMMA OwnedMember ==
  ASSUME NEW bs, NEW p
  PROVE  p \in Owned(bs) <=> \E j \in 1..Len(bs) : bs[j].magic = ALLOC /\ Payload(bs[j]) = p
BY DEF Owned

(* The set of allocated blocks. *)
Allocated(bs) == {bs[j] : j \in {k \in 1..Len(bs) : bs[k].magic = ALLOC}}

(* Matches speaks of the allocated blocks only. *)
LEMMA MatchesAllocated ==
  ASSUME NEW bs, NEW l
  PROVE  Matches(bs, l) <=> /\ DOMAIN l = {Payload(b) : b \in Allocated(bs)}
                            /\ \A b \in Allocated(bs) : l[Payload(b)] <= UsableSize(b)
<1>1. Owned(bs) = {Payload(b) : b \in Allocated(bs)}
  BY DEF Owned, Allocated
<1>2. (\A i \in 1..Len(bs) : bs[i].magic = ALLOC => l[Payload(bs[i])] <= UsableSize(bs[i]))
        <=> \A b \in Allocated(bs) : l[Payload(b)] <= UsableSize(b)
  BY DEF Allocated
<1> QED BY <1>1, <1>2 DEF Matches

LEMMA TakeAllocated ==
  ASSUME NEW bs \in Seq(Block), NEW i \in 1..Len(bs), NEW need \in Nat, Fits(bs[i], need)
  PROVE  \E s \in Nat : /\ s >= need
                        /\ Allocated(Take(bs, i, need)) = Allocated(bs) \cup {Blk(bs[i].addr, s, ALLOC)}
<1> DEFINE t == Take(bs, i, need)
<1>a. /\ Len(bs) \in Nat /\ Hdr \in Nat /\ bs[i].size \in Nat /\ FREE # ALLOC
      /\ bs[i].magic = FREE /\ need <= bs[i].size
  BY BlkType, HeapAssumption DEF FREE, ALLOC, Fits
<1>1. CASE bs[i].size - need < 2 * Hdr
  <2>1. /\ Len(t) = Len(bs)
        /\ \A j \in 1..Len(bs) : j # i => t[j] = bs[j]
        /\ t[i] = Blk(bs[i].addr, bs[i].size, ALLOC)
    BY <1>1, TakeWhole
  <2> HIDE DEF t
  <2>2. t[i].magic = ALLOC
    BY <2>1, BlkFields
  <2>3. Allocated(t) = Allocated(bs) \cup {Blk(bs[i].addr, bs[i].size, ALLOC)}
    <3>1. ASSUME NEW b \in Allocated(t) PROVE b \in Allocated(bs) \cup {t[i]}
      BY <2>1 DEF Allocated
    <3>2. ASSUME NEW b \in Allocated(bs) PROVE b \in Allocated(t)
      BY <2>1, <1>a DEF Allocated
    <3>3. t[i] \in Allocated(t)
      BY <2>1, <2>2 DEF Allocated
    <3> QED BY <3>1, <3>2, <3>3, <2>1
  <2> QED BY <2>3, <1>a DEF t
<1>2. CASE bs[i].size - need >= 2 * Hdr
  <2>1. /\ Len(t) = Len(bs) + 1
        /\ \A j \in 1..(i-1) : t[j] = bs[j]
        /\ t[i] = Blk(bs[i].addr, need, ALLOC)
        /\ t[i+1] = Blk(bs[i].addr + need, bs[i].size - need, FREE)
        /\ \A j \in (i+2)..(Len(bs)+1) : t[j] = bs[j-1]
    BY <1>2, TakeCut
  <2> HIDE DEF t
  <2>2. t[i].magic = ALLOC /\ t[i+1].magic = FREE
    BY <2>1, BlkFields
  <2>3. Allocated(t) = Allocated(bs) \cup {Blk(bs[i].addr, need, ALLOC)}
    <3>1. ASSUME NEW j \in 1..Len(t), t[j].magic = ALLOC PROVE t[j] \in Allocated(bs) \cup {t[i]}
      <4>1. CASE j < i
        <5>1. j \in 1..(i-1) /\ j \in 1..Len(bs)
          BY <4>1, <1>a
        <5> QED BY <5>1, <3>1, <2>1 DEF Allocated
      <4>2. CASE j > i + 1
        <5>1. j \in (i+2)..(Len(bs)+1) /\ j - 1 \in 1..Len(bs)
          BY <4>2, <2>1, <1>a
        <5> QED BY <5>1, <3>1, <2>1 DEF Allocated
      <4> QED BY <4>1, <4>2, <3>1, <2>2, <1>a
    <3>2. ASSUME NEW j \in 1..Len(bs), bs[j].magic = ALLOC PROVE bs[j] \in Allocated(t)
      <4>1. CASE j < i
        <5>1. j \in 1..(i-1) /\ j \in 1..Len(t)
          BY <4>1, <2>1, <1>a
        <5> QED BY <5>1, <3>2, <2>1 DEF Allocated
      <4>2. CASE j > i
        <5>1. j + 1 \in (i+2)..(Len(bs)+1) /\ j + 1 \in 1..Len(t) /\ (j + 1) - 1 = j
          BY <4>2, <2>1, <1>a
        <5>2. t[j+1] = bs[j]
          BY <5>1, <2>1
        <5> QED BY <5>1, <5>2, <3>2 DEF Allocated
      <4> QED BY <4>1, <4>2, <3>2, <1>a
    <3>3. i \in 1..Len(t)
      BY <2>1, <1>a
    <3>4. t[i] \in Allocated(t)
      BY <3>3, <2>2 DEF Allocated
    <3>5. \A b \in Allocated(t) : b \in Allocated(bs) \cup {t[i]}
      BY <3>1 DEF Allocated
    <3>6. \A b \in Allocated(bs) : b \in Allocated(t)
      BY <3>2 DEF Allocated
    <3> QED BY <3>4, <3>5, <3>6, <2>1
  <2> QED BY <2>3, <1>a DEF t
<1> QED BY <1>1, <1>2, <1>a

(* vmir_heap_malloc: the guest gains the pointer that is returned. *)
LEMMA TakeMatches ==
  ASSUME NEW bs, Sound(bs), NEW l, LiveType(l), Matches(bs, l), NEW i \in 1..Len(bs),
         NEW need \in Nat, Fits(bs[i], need), NEW n \in Nat, need >= n + Hdr
  PROVE  /\ Matches(Take(bs, i, need), Own(l, Payload(bs[i]), n))
         /\ Payload(bs[i]) \notin DOMAIN l
<1>0. bs \in Seq(Block) /\ Hdr \in Nat /\ bs[i].addr \in Nat /\ bs[i].magic = FREE /\ FREE # ALLOC
  BY BlkType, HeapAssumption DEF Sound, Fits, FREE, ALLOC
<1> DEFINE t == Take(bs, i, need)  q == Payload(bs[i])  k == Own(l, q, n)
<1>1. PICK s \in Nat : s >= need /\ Allocated(t) = Allocated(bs) \cup {Blk(bs[i].addr, s, ALLOC)}
  BY <1>0, TakeAllocated
<1> DEFINE new == Blk(bs[i].addr, s, ALLOC)
<1>2. Payload(new) = q /\ UsableSize(new) = s - Hdr
  BY BlkFields DEF Payload, UsableSize
<1>3. /\ DOMAIN l = {Payload(b) : b \in Allocated(bs)}
      /\ \A b \in Allocated(bs) : l[Payload(b)] <= UsableSize(b)
  BY MatchesAllocated
<1>4. \A b \in Allocated(bs) : Payload(b) # q
  <2>1. ASSUME NEW j \in 1..Len(bs), bs[j].magic = ALLOC, Payload(bs[j]) = q PROVE FALSE
    <3>1. j = i
      BY <2>1, DistinctPayloads
    <3> QED BY <3>1, <2>1, <1>0
  <2> QED BY <2>1 DEF Allocated
<1> HIDE DEF t, q, new
<1>5. DOMAIN k = DOMAIN l \cup {q} /\ k[q] = n /\ \A p \in DOMAIN l : p # q => k[p] = l[p]
  BY DEF Own
<1> HIDE DEF k
<1>6. DOMAIN k = {Payload(b) : b \in Allocated(t)}
  BY <1>1, <1>2, <1>3, <1>5 DEF new
<1>7. ASSUME NEW b \in Allocated(t) PROVE k[Payload(b)] <= UsableSize(b)
  <2>1. CASE b \in Allocated(bs)
    BY <2>1, <1>3, <1>4, <1>5
  <2>2. CASE b = new
    <3>1. k[Payload(b)] = n /\ UsableSize(b) = s - Hdr
      BY <2>2, <1>2, <1>5
    <3>2. n <= s - Hdr
      BY <1>0, <1>1
    <3> QED BY <3>1, <3>2
  <2> QED BY <2>1, <2>2, <1>1 DEF new
<1>8. Matches(t, k)
  BY <1>6, <1>7, MatchesAllocated
<1>9. q \notin DOMAIN l
  BY <1>3, <1>4
<1> QED BY <1>8, <1>9 DEF t, q, k

LEMMA ReleaseMatches ==
  ASSUME NEW bs, Sound(bs), NEW l, Matches(bs, l), NEW i \in 1..Len(bs)
  PROVE  Matches(Release(bs, i), Disown(l, Payload(bs[i])))
<1> DEFINE r == Release(bs, i)  q == Payload(bs[i])  k == Disown(l, q)
<1>0. bs \in Seq(Block) /\ FREE # ALLOC
  BY DEF Sound, FREE, ALLOC
<1>1. /\ Len(r) = Len(bs)
      /\ \A j \in 1..Len(bs) : j # i => r[j] = bs[j]
      /\ r[i] = Blk(bs[i].addr, bs[i].size, FREE)
  BY <1>0, ReleaseShape
<1> HIDE DEF r
<1>2. r[i].magic = FREE
  BY <1>1, BlkFields
<1>3. DOMAIN k = DOMAIN l \ {q} /\ \A p \in DOMAIN l : p # q => k[p] = l[p]
  BY DEF Disown
<1>4. \A j \in 1..Len(bs) : j # i => Payload(bs[j]) # q
  BY DistinctPayloads
<1> HIDE DEF k, q
<1>5. \A p : p \in Owned(r) <=> p \in Owned(bs) /\ p # q
  <2> SUFFICES ASSUME NEW p PROVE p \in Owned(r) <=> p \in Owned(bs) /\ p # q
    OBVIOUS
  <2>1. ASSUME p \in Owned(r) PROVE p \in Owned(bs) /\ p # q
    <3>1. PICK j \in 1..Len(r) : r[j].magic = ALLOC /\ Payload(r[j]) = p
      BY <2>1, OwnedMember
    <3>2. j # i /\ j \in 1..Len(bs)
      BY <3>1, <1>0, <1>1, <1>2
    <3> QED BY <3>1, <3>2, <1>1, <1>4, OwnedMember
  <2>2. ASSUME p \in Owned(bs), p # q PROVE p \in Owned(r)
    <3>1. PICK j \in 1..Len(bs) : bs[j].magic = ALLOC /\ Payload(bs[j]) = p
      BY <2>2, OwnedMember
    <3>2. j # i
      BY <3>1, <2>2 DEF q
    <3> QED BY <3>1, <3>2, <1>1, OwnedMember
  <2> QED BY <2>1, <2>2
<1>6. DOMAIN k = Owned(r)
  BY <1>3, <1>5 DEF Matches
<1>7. ASSUME NEW j \in 1..Len(r), r[j].magic = ALLOC
      PROVE  k[Payload(r[j])] <= UsableSize(r[j])
  <2>1. j # i /\ j \in 1..Len(bs) /\ r[j] = bs[j]
    BY <1>7, <1>0, <1>1, <1>2
  <2>2. l[Payload(bs[j])] <= UsableSize(bs[j]) /\ Payload(bs[j]) \in DOMAIN l
    BY <2>1, <1>7, OwnedMember DEF Matches
  <2> QED BY <2>1, <2>2, <1>3, <1>4
<1> QED BY <1>6, <1>7 DEF Matches, r, q, k

(* A merge only makes blocks larger and removes a free one. *)
LEMMA MergeMatches ==
  ASSUME NEW bs \in Seq(Block), NEW l, LiveType(l), Matches(bs, l), NEW i \in 1..Len(bs)
  PROVE  Matches(MergeNext(bs, i), l)
<1> DEFINE m == MergeNext(bs, i)
<1>a. Len(bs) \in Nat /\ FREE # ALLOC /\ Hdr \in Nat
  BY HeapAssumption DEF FREE, ALLOC
<1>1. CASE ~MergesNext(bs, i)
  BY <1>1 DEF MergeNext
<1>2. CASE MergesNext(bs, i)
  <2>0. i \in 1..(Len(bs) - 1) /\ bs[i+1].magic = FREE /\ i + 1 \in 1..Len(bs)
    BY <1>a, <1>2 DEF MergesNext
  <2>1. /\ m \in Seq(Block) /\ Len(m) = Len(bs) - 1
        /\ \A j \in 1..(i-1) : m[j] = bs[j]
        /\ m[i] = Blk(bs[i].addr, bs[i].size + bs[i+1].size, bs[i].magic)
        /\ \A j \in (i+1)..(Len(bs)-1) : m[j] = bs[j+1]
    BY <1>2, MergeShape
  <2> HIDE DEF m
  <2>2. /\ m[i].magic = bs[i].magic /\ Payload(m[i]) = Payload(bs[i])
        /\ UsableSize(m[i]) >= UsableSize(bs[i])
    <3>1. m[i].magic = bs[i].magic /\ m[i].addr = bs[i].addr /\ m[i].size = bs[i].size + bs[i+1].size
      BY <2>1, BlkFields
    <3>2. bs[i].size \in Nat /\ bs[i+1].size \in Nat
      BY <2>0, BlkType
    <3> QED BY <3>1, <3>2, <1>a DEF Payload, UsableSize
  <2>3. ASSUME NEW j \in 1..Len(m)
        PROVE  \E x \in 1..Len(bs) : /\ m[j].magic = bs[x].magic
                                     /\ Payload(m[j]) = Payload(bs[x])
                                     /\ (j = i /\ x = i) \/ m[j] = bs[x]
    <3>1. CASE j < i
      <4>1. j \in 1..(i-1) /\ j \in 1..Len(bs)
        BY <3>1, <1>a
      <4> QED BY <4>1, <2>1
    <3>2. CASE j = i
      BY <3>2, <2>2
    <3>3. CASE j > i
      <4>1. j \in (i+1)..(Len(bs)-1) /\ j + 1 \in 1..Len(bs)
        BY <3>3, <2>1, <1>a
      <4>2. m[j] = bs[j+1]
        BY <4>1, <2>1
      <4> QED BY <4>1, <4>2
    <3> QED BY <3>1, <3>2, <3>3
  <2>4. ASSUME NEW x \in 1..Len(bs), bs[x].magic = ALLOC
        PROVE  \E j \in 1..Len(m) : m[j].magic = ALLOC /\ Payload(m[j]) = Payload(bs[x])
    <3>1. CASE x < i
      <4>1. x \in 1..(i-1) /\ x \in 1..Len(m)
        BY <3>1, <2>0, <2>1, <1>a
      <4> QED BY <4>1, <2>1, <2>4
    <3>2. CASE x = i
      <4>1. i \in 1..Len(m)
        BY <2>0, <2>1
      <4> QED BY <4>1, <3>2, <2>2, <2>4
    <3>3. CASE x > i
      <4>1. x # i + 1
        BY <2>4, <2>0, <1>a
      <4>2. x - 1 \in (i+1)..(Len(bs)-1) /\ x - 1 \in 1..Len(m) /\ (x - 1) + 1 = x
        BY <4>1, <3>3, <2>0, <2>1, <1>a
      <4>3. m[x-1] = bs[x]
        BY <4>2, <2>1
      <4> QED BY <4>2, <4>3, <2>4
    <3> QED BY <3>1, <3>2, <3>3
  <2>5. \A p : p \in Owned(m) <=> p \in Owned(bs)
    BY <2>3, <2>4, OwnedMember
  <2>6. Owned(m) = Owned(bs)
    BY <2>5
  <2>7. ASSUME NEW j \in 1..Len(m), m[j].magic = ALLOC
        PROVE  l[Payload(m[j])] <= UsableSize(m[j])
    <3>1. PICK x \in 1..Len(bs) : /\ m[j].magic = bs[x].magic
                                  /\ Payload(m[j]) = Payload(bs[x])
                                  /\ (j = i /\ x = i) \/ m[j] = bs[x]
      BY <2>3
    <3>2. l[Payload(bs[x])] <= UsableSize(bs[x])
      BY <3>1, <2>7 DEF Matches
    <3>3. l[Payload(bs[x])] \in Nat
      BY <3>1, <2>7, OwnedMember DEF Matches, LiveType
    <3>4. UsableSize(bs[x]) \in Int /\ UsableSize(m[j]) \in Int
      <4>1. bs[x].size \in Nat /\ m[j].size \in Nat
        BY <2>1, BlkType
      <4> QED BY <4>1, <1>a DEF UsableSize
    <3>5. UsableSize(m[j]) >= UsableSize(bs[x])
      BY <3>1, <3>4, <2>2
    <3> QED BY <3>1, <3>2, <3>3, <3>4, <3>5
  <2> QED BY <2>6, <2>7 DEF Matches, m
<1> QED BY <1>1, <1>2

(* vmir_heap_free: the guest loses the pointer it passed, and no other. *)
LEMMA FreeMatches ==
  ASSUME NEW bs, Sound(bs), NEW l, LiveType(l), Matches(bs, l), NEW i \in 1..Len(bs)
  PROVE  Matches(FreeBlock(bs, i), Disown(l, Payload(bs[i])))
<1> DEFINE r == Release(bs, i)  m == MergeNext(r, i)  k == Disown(l, Payload(bs[i]))
<1>0. bs \in Seq(Block) /\ Len(bs) \in Nat
  BY DEF Sound
<1>1. r \in Seq(Block) /\ Len(r) = Len(bs) /\ Matches(r, k) /\ LiveType(k)
  BY <1>0, ReleaseShape, ReleaseMatches DEF LiveType, Disown
<1> HIDE DEF r, k
<1>2. Matches(m, k)
  BY <1>1, MergeMatches
<1>3. m \in Seq(Block) /\ Len(m) \in Nat /\ i \in 1..Len(m)
  <2>1. CASE MergesNext(r, i)
    BY <2>1, <1>0, <1>1, MergeShape DEF MergesNext
  <2>2. CASE ~MergesNext(r, i)
    BY <2>2, <1>1, <1>0 DEF MergeNext
  <2> QED BY <2>1, <2>2
<1> HIDE DEF m
<1>4. CASE i > 1
  <2>1. i - 1 \in 1..Len(m)
    BY <1>3, <1>4
  <2>2. Matches(MergeNext(m, i - 1), k)
    BY <2>1, <1>1, <1>2, <1>3, MergeMatches
  <2> QED BY <2>2, <1>4 DEF FreeBlock, m, r, k
<1>5. CASE ~(i > 1)
  BY <1>2, <1>5 DEF FreeBlock, m, r, k
<1> QED BY <1>4, <1>5

-----------------------------------------------------------------------------
(* The invariant *)

(* A size that fits an int is itself, and rounding it up leaves room for   *)
(* the header and the request.                                             *)
LEMMA NeedFacts ==
  ASSUME NEW n \in Nat, FitsInt(n)
  PROVE  /\ Need(n) \in Nat /\ Need(n) >= n + Hdr /\ Need(n) >= Hdr
         /\ Need(n) = Rounded(n) /\ AsInt(n) = n
<1> DEFINE y == n + Hdr + Align - 1  d == y \div Align
<1>1. y \in Nat /\ Align \in Nat /\ Align > 0 /\ Hdr \in Nat
  BY HeapAssumption
<1>7. y <= IntMax /\ IntMax \in Nat /\ n <= IntMax
  BY HeapAssumption DEF FitsInt
<1> HIDE DEF y
<1>2. d \in Nat /\ y = Align * d + (y % Align) /\ y % Align \in 0..(Align - 1)
  BY <1>1
<1> HIDE DEF d
<1>3. d * Align = Align * d /\ Align * d \in Nat
  BY <1>1, <1>2
<1>4. d * Align >= y - (Align - 1) /\ d * Align <= y
  BY <1>1, <1>2, <1>3
<1>5. Rounded(n) = d * Align
  BY DEF Rounded, d, y
<1>6. y - (Align - 1) = n + Hdr
  BY HeapAssumption DEF y
<1>8. d * Align <= IntMax
  BY <1>1, <1>3, <1>4, <1>7
<1>9. Need(n) = d * Align /\ AsInt(n) = n
  BY <1>5, <1>7, <1>8 DEF Need, AsInt
<1> QED BY <1>1, <1>3, <1>4, <1>5, <1>6, <1>9

(* The guest's requests do. *)
LEMMA SizeFacts ==
  /\ \A n \in Requests \cup {0} : n \in Nat /\ FitsInt(n)
  /\ \A k \in Counts, n \in Requests : n * k \in Nat /\ FitsInt(n * k)
BY HeapAssumption, SizesAssumption

LEMMA InvFacts ==
  ASSUME HeapInv
  PROVE  /\ Sound(h_blocks) /\ Separated(h_blocks) /\ Matches(h_blocks, live) /\ LiveType(live)
         /\ h_blocks \in Seq(Block)
BY DEF HeapInv, TypeOK, Tiled, Coalesced, GuestOwnsAllocated, Sound, Matches, LiveType

LEMMA InvFromFacts ==
  ASSUME Sound(h_blocks'), Separated(h_blocks'), Matches(h_blocks', live'), LiveType(live'),
         ret' \in [fn : {"init", "malloc", "calloc", "free", "realloc"}, size : Nat, ptr : Nat],
         crash' \in {"no", "null"}
  PROVE  HeapInv'
BY DEF HeapInv, TypeOK, Tiled, Coalesced, GuestOwnsAllocated, AssertsHold, Sound, Matches, LiveType

LEMMA ReturnedType ==
  ASSUME NEW fn \in {"init", "malloc", "calloc", "free", "realloc"}, NEW n \in Nat, NEW p \in Nat
  PROVE  Returned(fn, n, p) \in [fn : {"init", "malloc", "calloc", "free", "realloc"}, size : Nat, ptr : Nat]
BY DEF Returned

LEMMA InitInv == Init => HeapInv
<1> SUFFICES ASSUME Init PROVE HeapInv
  OBVIOUS
<1> DEFINE b == Blk(HeapStart, HeapSize, FREE)
<1>1. b \in Block /\ b.addr = HeapStart /\ b.size = HeapSize /\ b.magic = FREE
  BY BlkType, BlkFields, HeapAssumption
<1>2. h_blocks = <<b>> /\ FREE # ALLOC
  BY DEF Init, FREE, ALLOC
<1> HIDE DEF b
<1>3. h_blocks \in Seq(Block) /\ Len(h_blocks) = 1 /\ h_blocks[1] = b
  BY <1>1, <1>2
<1>4. TypeOK
  BY <1>3, ReturnedType DEF Init, TypeOK, NULL
<1>5. Tiled /\ InOrder(h_blocks) /\ Coalesced
  BY <1>1, <1>3, HeapAssumption DEF Tiled, Tiles, InOrder, Coalesced, Separated, BlockEnd, HeapEnd
<1>6. Owned(h_blocks) = {}
  BY <1>1, <1>2, <1>3 DEF Owned
<1>7. GuestOwnsAllocated
  BY <1>1, <1>2, <1>3, <1>6 DEF GuestOwnsAllocated, Init
<1> QED BY <1>4, <1>5, <1>7 DEF HeapInv, AssertsHold, Init

LEMMA MallocInv ==
  ASSUME HeapInv, crash = "no", NEW n \in Nat, FitsInt(n),
         NEW fn \in {"malloc", "calloc"}, Malloc(fn, n)
  PROVE  HeapInv'
<1>0. /\ Sound(h_blocks) /\ Separated(h_blocks) /\ Matches(h_blocks, live) /\ LiveType(live)
      /\ h_blocks \in Seq(Block)
  BY InvFacts
<1>1. CASE NoFit(h_blocks, Need(n)) /\ ret' = Returned(fn, n, NULL) /\ UNCHANGED <<h_blocks, live, crash>>
  <2>1. ret' \in [fn : {"init", "malloc", "calloc", "free", "realloc"}, size : Nat, ptr : Nat]
    BY <1>1, ReturnedType DEF NULL
  <2> QED BY <1>0, <1>1, <2>1, InvFromFacts
<1>2. ASSUME NEW i \in 1..Len(h_blocks),
             IsFirstFit(h_blocks, Need(n), i),
             h_blocks' = Take(h_blocks, i, Need(n)),
             live' = Own(live, Payload(h_blocks[i]), n),
             ret' = Returned(fn, n, Payload(h_blocks[i])),
             UNCHANGED crash
      PROVE  HeapInv'
  <2>1. Fits(h_blocks[i], Need(n)) /\ h_blocks[i].magic = FREE
    BY <1>2 DEF IsFirstFit, Fits
  <2>2. Need(n) \in Nat /\ Need(n) >= n + Hdr /\ Need(n) >= Hdr
    BY NeedFacts
  <2>3. Payload(h_blocks[i]) \in Nat
    BY <1>0, BlkType, HeapAssumption DEF Payload
  <2>4. Sound(h_blocks')
    BY <1>0, <1>2, <2>1, <2>2, TakeSound
  <2>5. Separated(h_blocks')
    BY <1>0, <1>2, <2>1, <2>2, TakeSeparated
  <2>6. Matches(h_blocks', live')
    BY <1>0, <1>2, <2>1, <2>2, TakeMatches
  <2>7. LiveType(live')
    BY <1>0, <1>2, <2>3 DEF LiveType, Own
  <2>8. ret' \in [fn : {"init", "malloc", "calloc", "free", "realloc"}, size : Nat, ptr : Nat]
    BY <1>2, <2>3, ReturnedType
  <2> QED BY <1>2, <2>4, <2>5, <2>6, <2>7, <2>8, InvFromFacts
<1> QED BY <1>1, <1>2 DEF Malloc

(* The header in front of a pointer the guest owns is that of an allocated block. *)
LEMMA HeaderOfOwned ==
  ASSUME HeapInv, NEW p \in DOMAIN live \cup {NULL}, NEW i \in 1..Len(h_blocks),
         IsHeaderOf(h_blocks, i, p)
  PROVE  p \in DOMAIN live /\ p = Payload(h_blocks[i]) /\ h_blocks[i].magic = ALLOC
<1>0. /\ Sound(h_blocks) /\ Matches(h_blocks, live) /\ h_blocks \in Seq(Block)
  BY InvFacts
<1>1. p = Payload(h_blocks[i])
  BY DEF IsHeaderOf
<1>2. p # NULL
  <2>1. h_blocks[i].addr \in Nat /\ Hdr \in Nat \ {0}
    BY <1>0, BlkType, HeapAssumption
  <2> QED BY <2>1, <1>1 DEF Payload, NULL
<1>3. PICK j \in 1..Len(h_blocks) : h_blocks[j].magic = ALLOC /\ Payload(h_blocks[j]) = p
  BY <1>0, <1>2, OwnedMember DEF Matches
<1>4. i = j
  BY <1>0, <1>1, <1>3, DistinctPayloads
<1> QED BY <1>1, <1>2, <1>3, <1>4

LEMMA FreeInv ==
  ASSUME HeapInv, crash = "no", NEW p \in DOMAIN live \cup {NULL}, Free(p)
  PROVE  HeapInv'
<1>0. /\ Sound(h_blocks) /\ Separated(h_blocks) /\ Matches(h_blocks, live) /\ LiveType(live)
      /\ h_blocks \in Seq(Block)
  BY InvFacts
<1>a. Returned("free", 0, NULL) \in
        [fn : {"init", "malloc", "calloc", "free", "realloc"}, size : Nat, ptr : Nat]
  BY ReturnedType DEF NULL
<1>1. CASE p = NULL /\ ret' = Returned("free", 0, NULL) /\ UNCHANGED <<h_blocks, live, crash>>
  BY <1>0, <1>1, <1>a, InvFromFacts
<1>2. ASSUME NEW i \in 1..Len(h_blocks),
             IsHeaderOf(h_blocks, i, p),
             IF FreeAsserts(h_blocks, i)
             THEN /\ h_blocks' = FreeBlock(h_blocks, i)
                  /\ live' = Disown(live, p)
                  /\ ret' = Returned("free", 0, NULL)
                  /\ UNCHANGED crash
             ELSE crash' = "assert" /\ UNCHANGED <<h_blocks, live, ret>>
      PROVE  HeapInv'
  <2>1. p = Payload(h_blocks[i]) /\ h_blocks[i].magic = ALLOC
    BY <1>2, HeaderOfOwned
  <2>2. Sound(FreeBlock(h_blocks, i)) /\ FreeAsserts(h_blocks, i)
    BY <1>0, <2>1, FreeSound
  <2>3. /\ h_blocks' = FreeBlock(h_blocks, i)
        /\ live' = Disown(live, p)
        /\ ret' = Returned("free", 0, NULL)
        /\ UNCHANGED crash
    BY <1>2, <2>2
  <2>4. Separated(h_blocks')
    BY <1>0, <2>3, FreeSeparated
  <2>5. Matches(h_blocks', live')
    BY <1>0, <2>1, <2>3, FreeMatches
  <2>6. LiveType(live')
    BY <1>0, <2>3 DEF LiveType, Disown
  <2> QED BY <1>a, <2>2, <2>3, <2>4, <2>5, <2>6, InvFromFacts
<1> QED BY <1>1, <1>2 DEF Free

(* After malloc has taken block k, the block to be freed is where it was or one further on. *)
LEMMA IndexFacts ==
  ASSUME NEW bs \in Seq(Block), NEW i \in 1..Len(bs), NEW k \in 1..Len(bs), i # k, NEW need \in Nat
  PROVE  /\ IndexAfterTake(bs, k, need, i) \in 1..Len(Take(bs, k, need))
         /\ Take(bs, k, need)[IndexAfterTake(bs, k, need, i)] = bs[i]
<1> DEFINE t == Take(bs, k, need)
<1>a. Len(bs) \in Nat /\ Hdr \in Nat /\ bs[k].size \in Nat
  BY BlkType, HeapAssumption
<1>1. CASE bs[k].size - need < 2 * Hdr
  <2>1. Len(t) = Len(bs) /\ \A j \in 1..Len(bs) : j # k => t[j] = bs[j]
    BY <1>1, TakeWhole
  <2>2. IndexAfterTake(bs, k, need, i) = i
    BY <1>1, <1>a DEF IndexAfterTake
  <2> QED BY <2>1, <2>2
<1>2. CASE bs[k].size - need >= 2 * Hdr
  <2>1. /\ Len(t) = Len(bs) + 1
        /\ \A j \in 1..(k-1) : t[j] = bs[j]
        /\ \A j \in (k+2)..(Len(bs)+1) : t[j] = bs[j-1]
    BY <1>2, TakeCut
  <2> HIDE DEF t
  <2>2. CASE k < i
    <3>1. IndexAfterTake(bs, k, need, i) = i + 1
      BY <1>2, <2>2 DEF IndexAfterTake
    <3>2. i + 1 \in (k+2)..(Len(bs)+1) /\ (i + 1) - 1 = i /\ i + 1 \in 1..Len(t)
      BY <2>1, <2>2, <1>a
    <3>3. t[i+1] = bs[i]
      BY <3>2, <2>1
    <3> QED BY <3>1, <3>2, <3>3 DEF t
  <2>3. CASE i < k
    <3>1. IndexAfterTake(bs, k, need, i) = i
      BY <2>3 DEF IndexAfterTake
    <3>2. i \in 1..(k-1) /\ i \in 1..Len(t)
      BY <2>1, <2>3, <1>a
    <3> QED BY <3>1, <3>2, <2>1 DEF t
  <2> QED BY <2>2, <2>3
<1> QED BY <1>1, <1>2, <1>a

LEMMA ReallocInv ==
  ASSUME HeapInv, crash = "no", NEW p \in DOMAIN live \cup {NULL}, NEW n \in Nat, FitsInt(n),
         Realloc(p, n)
  PROVE  HeapInv'
<1>0. /\ Sound(h_blocks) /\ Separated(h_blocks) /\ Matches(h_blocks, live) /\ LiveType(live)
      /\ h_blocks \in Seq(Block)
      /\ ret \in [fn : {"init", "malloc", "calloc", "free", "realloc"}, size : Nat, ptr : Nat]
  BY InvFacts DEF HeapInv, TypeOK
<1>1. CASE p = NULL /\ ReallocNull(n)
  BY <1>0, <1>1, InvFromFacts DEF ReallocNull
<1>2. CASE ReallocZero(p, n)
  BY <1>2, FreeInv DEF ReallocZero
<1>3. ASSUME NEW i \in 1..Len(h_blocks),
             IsHeaderOf(h_blocks, i, p),
             IF h_blocks[i].magic = ALLOC
             THEN ReallocInPlace(i, p, n) \/ ReallocFails(i, n) \/ ReallocMoves(i, p, n)
             ELSE n > 0 /\ crash' = "assert" /\ UNCHANGED <<h_blocks, live, ret>>
      PROVE  HeapInv'
  <2>1. p \in DOMAIN live /\ p = Payload(h_blocks[i]) /\ h_blocks[i].magic = ALLOC /\ p \in Nat
    BY <1>0, <1>3, HeaderOfOwned DEF LiveType
  <2>2. CASE ReallocInPlace(i, p, n)
    <3>1. /\ n < UsableSize(h_blocks[i])
          /\ live' = [live EXCEPT ![p] = n]
          /\ ret' = Returned("realloc", n, p)
          /\ UNCHANGED <<h_blocks, crash>>
      BY <2>2, NeedFacts DEF ReallocInPlace
    <3>2. DOMAIN live' = DOMAIN live /\ live'[p] = n /\ \A q \in DOMAIN live : q # p => live'[q] = live[q]
      BY <2>1, <3>1
    <3>3. ASSUME NEW j \in 1..Len(h_blocks), h_blocks[j].magic = ALLOC
          PROVE  live'[Payload(h_blocks[j])] <= UsableSize(h_blocks[j])
      <4>1. CASE j = i
        <5>1. UsableSize(h_blocks[i]) \in Int
          BY <1>0, BlkType, HeapAssumption DEF UsableSize
        <5> QED BY <5>1, <4>1, <2>1, <3>1, <3>2
      <4>2. CASE j # i
        <5>1. Payload(h_blocks[j]) # p /\ Payload(h_blocks[j]) \in DOMAIN live
          BY <4>2, <3>3, <2>1, <1>0, DistinctPayloads, OwnedMember DEF Matches
        <5>2. live[Payload(h_blocks[j])] <= UsableSize(h_blocks[j])
          BY <3>3, <1>0 DEF Matches
        <5> QED BY <5>1, <5>2, <3>2
      <4> QED BY <4>1, <4>2
    <3>4. Matches(h_blocks', live')
      BY <1>0, <3>1, <3>2, <3>3 DEF Matches
    <3>5. LiveType(live')
      BY <1>0, <2>1, <3>2 DEF LiveType
    <3>6. ret' \in [fn : {"init", "malloc", "calloc", "free", "realloc"}, size : Nat, ptr : Nat]
      BY <2>1, <3>1, ReturnedType
    <3> QED BY <1>0, <3>1, <3>4, <3>5, <3>6, InvFromFacts
  <2>3. CASE ReallocFails(i, n)
    <3>1. ret' = Returned("realloc", n, NULL) /\ UNCHANGED <<h_blocks, live, crash>>
      BY <2>3 DEF ReallocFails
    <3>2. ret' \in [fn : {"init", "malloc", "calloc", "free", "realloc"}, size : Nat, ptr : Nat]
      BY <3>1, ReturnedType DEF NULL
    <3> QED BY <1>0, <3>1, <3>2, InvFromFacts
  <2>4. CASE ReallocMoves(i, p, n)
    <3>1. PICK k \in 1..Len(h_blocks) :
            /\ IsFirstFit(h_blocks, Need(n), k)
            /\ LET taken == Take(h_blocks, k, Need(n))
                   old   == IndexAfterTake(h_blocks, k, Need(n), i)
                   new   == Payload(h_blocks[k])
               IN  IF FreeAsserts(taken, old)
                   THEN /\ h_blocks' = FreeBlock(taken, old)
                        /\ live' = Own(Disown(live, p), new, n)
                        /\ ret' = Returned("realloc", n, new)
                        /\ UNCHANGED crash
                   ELSE crash' = "assert" /\ UNCHANGED <<h_blocks, live, ret>>
      BY <2>4 DEF ReallocMoves
    <3> DEFINE taken == Take(h_blocks, k, Need(n))
               old   == IndexAfterTake(h_blocks, k, Need(n), i)
               new   == Payload(h_blocks[k])
               mid   == Own(live, new, n)
    <3>2. Fits(h_blocks[k], Need(n)) /\ h_blocks[k].magic = FREE /\ i # k
      BY <2>1, <3>1 DEF IsFirstFit, Fits, FREE, ALLOC
    <3>3. Need(n) \in Nat /\ Need(n) >= n + Hdr /\ Need(n) >= Hdr
      BY NeedFacts
    <3>4. Sound(taken)
      BY <1>0, <3>2, <3>3, TakeSound
    <3>5. Separated(taken)
      BY <1>0, <3>2, <3>3, TakeSeparated
    <3>6. Matches(taken, mid) /\ new \notin DOMAIN live
      BY <1>0, <3>2, <3>3, TakeMatches
    <3>7. old \in 1..Len(taken) /\ taken[old] = h_blocks[i]
      BY <1>0, <3>2, <3>3, IndexFacts
    <3>8. new \in Nat
      BY <1>0, BlkType, HeapAssumption DEF Payload
    <3>9. LiveType(mid)
      BY <1>0, <3>8 DEF LiveType, Own
    <3>10. /\ FreeAsserts(taken, old)
           => /\ h_blocks' = FreeBlock(taken, old)
              /\ live' = Own(Disown(live, p), new, n)
              /\ ret' = Returned("realloc", n, new)
              /\ UNCHANGED crash
      BY <3>1
    <3> HIDE DEF taken, old, new
    <3>11. Sound(FreeBlock(taken, old)) /\ FreeAsserts(taken, old)
      BY <2>1, <3>4, <3>7, FreeSound
    <3>12. Separated(FreeBlock(taken, old))
      BY <3>4, <3>5, <3>7, FreeSeparated
    <3>13. Matches(FreeBlock(taken, old), Disown(mid, p))
      BY <2>1, <3>4, <3>6, <3>7, <3>9, FreeMatches
    <3>14. Disown(mid, p) = Own(Disown(live, p), new, n)
      BY <2>1, <3>6 DEF Own, Disown
    <3>15. LiveType(Disown(mid, p))
      BY <3>9 DEF LiveType, Disown
    <3>16. ret' \in [fn : {"init", "malloc", "calloc", "free", "realloc"}, size : Nat, ptr : Nat]
      <4>1. ret' = Returned("realloc", n, new)
        BY <3>10, <3>11
      <4> QED BY <4>1, <3>8, ReturnedType
    <3> QED BY <3>10, <3>11, <3>12, <3>13, <3>14, <3>15, <3>16, InvFromFacts
  <2> QED BY <1>3, <2>1, <2>2, <2>3, <2>4
<1> QED BY <1>1, <1>2, <1>3 DEF Realloc

(* Every call keeps the invariant. *)
LEMMA NextInv == HeapInv /\ [Next]_vars => HeapInv'
<1> SUFFICES ASSUME HeapInv, [Next]_vars PROVE HeapInv'
  OBVIOUS
<1>1. ASSUME crash = "no", NEW n \in Requests, Malloc("malloc", n) PROVE HeapInv'
  BY <1>1, MallocInv, SizeFacts
<1>2. ASSUME crash = "no", NEW k \in Counts, NEW n \in Requests, Calloc(k, n) PROVE HeapInv'
  <2>1. n * k \in Nat /\ FitsInt(n * k)
    BY SizeFacts
  <2> QED BY <1>2, <2>1, MallocInv DEF Calloc
<1>3. ASSUME crash = "no", NEW p \in DOMAIN live \cup {NULL}, Free(p) PROVE HeapInv'
  BY <1>3, FreeInv
<1>4. ASSUME crash = "no", NEW p \in DOMAIN live \cup {NULL}, NEW n \in Requests \cup {0}, Realloc(p, n)
      PROVE HeapInv'
  <2>1. n \in Nat /\ FitsInt(n)
    BY SizeFacts
  <2> QED BY <1>4, <2>1, ReallocInv
<1>5. CASE UNCHANGED vars
  <2>1. HeapInv' <=> HeapInv
    BY <1>5 DEF vars, HeapInv, TypeOK, Tiled, Tiles, InOrder, Coalesced, Separated,
                GuestOwnsAllocated, Owned, AssertsHold
  <2> QED BY <2>1
<1> QED BY <1>1, <1>2, <1>3, <1>4, <1>5 DEF Next

(* The inductive invariant holds in every reachable state: the queue tiles *)
(* the heap in address order, free blocks are merged, the guest's pointers *)
(* are the allocated blocks, and no assert has failed.                     *)
THEOREM HeapInvariant == Spec => []HeapInv
BY InitInv, NextInv, PTL DEF Spec

(* The variables of the heap keep their types. *)
THEOREM HeapTypeOK == Spec => []TypeOK
<1>1. HeapInv => TypeOK
  BY DEF HeapInv
<1> QED BY <1>1, HeapInvariant, PTL

(* Cutting and merging keep the queue an exact tiling of the heap. *)
THEOREM HeapTiled == Spec => []Tiled
<1>1. HeapInv => Tiled
  BY DEF HeapInv
<1> QED BY <1>1, HeapInvariant, PTL

(* vmir_heap_free leaves no two free blocks side by side. *)
THEOREM HeapCoalesced == Spec => []Coalesced
<1>1. HeapInv => Coalesced
  BY DEF HeapInv
<1> QED BY <1>1, HeapInvariant, PTL

(* The guest owns exactly the allocated blocks, with room for its requests. *)
THEOREM HeapGuestOwnsAllocated == Spec => []GuestOwnsAllocated
<1>1. HeapInv => GuestOwnsAllocated
  BY DEF HeapInv
<1> QED BY <1>1, HeapInvariant, PTL

(* No assert of vmir_heap_free, vmir_heap_merge_next or vmir_heap_usable_size fails. *)
THEOREM HeapAssertsHold == Spec => []AssertsHold
<1>1. HeapInv => AssertsHold
  BY DEF HeapInv
<1> QED BY <1>1, HeapInvariant, PTL

(* With everything freed, the heap is the single block it began with. *)
THEOREM HeapEmptyIsWhole == Spec => []EmptyHeapIsWhole
<1>1. HeapInv => EmptyHeapIsWhole
  <2> SUFFICES ASSUME HeapInv, DOMAIN live = {}
               PROVE  h_blocks = <<Blk(HeapStart, HeapSize, FREE)>>
    BY DEF EmptyHeapIsWhole
  <2>1. /\ Tiles(h_blocks) /\ Separated(h_blocks) /\ Matches(h_blocks, live) /\ h_blocks \in Seq(Block)
    BY InvFacts DEF Sound
  <2>2. ASSUME NEW j \in 1..Len(h_blocks) PROVE h_blocks[j].magic # ALLOC
    BY <2>1, OwnedMember DEF Matches
  <2>3. Len(h_blocks) \in Nat /\ Len(h_blocks) >= 1
    BY <2>1 DEF Tiles
  <2>4. Len(h_blocks) = 1
    <3>1. SUFFICES ASSUME Len(h_blocks) >= 2 PROVE FALSE
      BY <2>3
    <3>2. 1 \in 1..(Len(h_blocks) - 1) /\ 1 \in 1..Len(h_blocks) /\ 1 + 1 \in 1..Len(h_blocks)
      BY <2>3, <3>1
    <3> QED BY <3>2, <2>1, <2>2 DEF Separated
  <2>5. /\ h_blocks[1].addr = HeapStart /\ BlockEnd(h_blocks[1]) = HeapEnd
        /\ h_blocks[1] \in Block /\ h_blocks[1].addr \in Nat /\ h_blocks[1].size \in Nat
        /\ h_blocks[1].magic = FREE
    BY <2>1, <2>2, <2>4, BlkType DEF Tiles
  <2>6. h_blocks[1].size = HeapSize
    BY <2>5, HeapAssumption DEF BlockEnd, HeapEnd
  <2>7. h_blocks[1] = Blk(HeapStart, HeapSize, FREE)
    BY <2>5, <2>6 DEF Block, Blk
  <2>8. h_blocks = <<h_blocks[1]>>
    BY <2>1, <2>4
  <2> QED BY <2>7, <2>8
<1> QED BY <1>1, HeapInvariant, PTL

-----------------------------------------------------------------------------
(* The heap implements the abstract allocator. *)

(* Every block lies inside the heap. *)
LEMMA InsideHeap ==
  ASSUME NEW bs, Sound(bs), NEW i \in 1..Len(bs)
  PROVE  HeapStart <= bs[i].addr /\ BlockEnd(bs[i]) <= HeapEnd
<1>0. /\ bs \in Seq(Block) /\ Tiles(bs) /\ InOrder(bs) /\ Len(bs) \in Nat /\ Len(bs) >= 1
      /\ 1 \in 1..Len(bs) /\ Len(bs) \in 1..Len(bs)
  BY DEF Sound, Tiles
<1>1. HeapStart <= bs[i].addr
  <2>1. CASE i = 1
    BY <2>1, <1>0, HeapAssumption DEF Tiles
  <2>2. CASE i # 1
    <3>1. BlockEnd(bs[1]) <= bs[i].addr
      BY <2>2, <1>0 DEF InOrder
    <3>2. bs[1].addr \in Nat /\ bs[1].size \in Nat /\ bs[1].addr = HeapStart /\ bs[i].addr \in Nat
      BY <1>0, BlkType DEF Tiles
    <3> QED BY <3>1, <3>2 DEF BlockEnd
  <2> QED BY <2>1, <2>2
<1>2. BlockEnd(bs[i]) <= HeapEnd
  <2>0. HeapEnd \in Nat
    BY HeapAssumption DEF HeapEnd
  <2>1. CASE i = Len(bs)
    BY <2>0, <2>1, <1>0 DEF Tiles
  <2>2. CASE i # Len(bs)
    <3>1. BlockEnd(bs[i]) <= bs[Len(bs)].addr
      BY <2>2, <1>0 DEF InOrder
    <3>2. /\ bs[Len(bs)].addr \in Nat /\ bs[Len(bs)].size \in Nat /\ BlockEnd(bs[Len(bs)]) = HeapEnd
          /\ BlockEnd(bs[i]) \in Nat
      BY <1>0, BlkType, EndType DEF Tiles
    <3> QED BY <3>1, <3>2 DEF BlockEnd
  <2> QED BY <2>1, <2>2
<1> QED BY <1>1, <1>2

LEMMA RegionBefore ==
  ASSUME NEW a \in Nat, NEW s \in Nat, NEW b \in Nat, NEW h \in Nat, NEW n \in Nat,
         n <= s - h, a + s <= b
  PROVE  (a + h) + n <= b + h
OBVIOUS

(* A region inside block k meets no region of another allocated block. *)
LEMMA RoomFacts ==
  ASSUME NEW bs, Sound(bs), NEW l, LiveType(l), Matches(bs, l), NEW k \in 1..Len(bs),
         NEW n \in Nat, n + Hdr <= bs[k].size
  PROVE  /\ HeapStart <= Payload(bs[k])
         /\ Payload(bs[k]) + n <= HeapEnd
         /\ \A q \in DOMAIN l : q # Payload(bs[k]) =>
              Payload(bs[k]) + n <= q \/ q + l[q] <= Payload(bs[k])
<1>0. /\ bs \in Seq(Block) /\ Hdr \in Nat /\ HeapStart \in Nat /\ HeapEnd \in Nat
      /\ bs[k].addr \in Nat /\ bs[k].size \in Nat
  BY BlkType, HeapAssumption DEF Sound, HeapEnd
<1>1. HeapStart <= bs[k].addr /\ bs[k].addr + bs[k].size <= HeapEnd
  BY InsideHeap DEF BlockEnd
<1>2. Payload(bs[k]) = bs[k].addr + Hdr
  BY DEF Payload
<1>3. ASSUME NEW q \in DOMAIN l, q # Payload(bs[k])
      PROVE  Payload(bs[k]) + n <= q \/ q + l[q] <= Payload(bs[k])
  <2>1. PICK j \in 1..Len(bs) : bs[j].magic = ALLOC /\ Payload(bs[j]) = q
    BY OwnedMember DEF Matches
  <2>2. bs[j].addr \in Nat /\ bs[j].size \in Nat /\ l[q] \in Nat /\ q = bs[j].addr + Hdr
    BY <2>1, <1>0, BlkType DEF LiveType, Payload
  <2>3. l[q] <= bs[j].size - Hdr
    BY <2>1 DEF Matches, UsableSize
  <2>4. CASE j < k
    <3>1. bs[j].addr + bs[j].size <= bs[k].addr
      BY <2>4 DEF Sound, InOrder, BlockEnd
    <3>2. (bs[j].addr + Hdr) + l[q] <= bs[k].addr + Hdr
      BY <3>1, <2>2, <2>3, <1>0, RegionBefore
    <3> QED BY <3>2, <2>2, <1>2
  <2>5. CASE k < j
    <3>1. bs[k].addr + bs[k].size <= bs[j].addr
      BY <2>5 DEF Sound, InOrder, BlockEnd
    <3>2. n <= bs[k].size - Hdr
      BY <1>0
    <3>3. (bs[k].addr + Hdr) + n <= bs[j].addr + Hdr
      BY <3>1, <3>2, <2>2, <1>0, RegionBefore
    <3> QED BY <3>3, <2>2, <1>2
  <2> QED BY <2>1, <2>4, <2>5, <1>3
<1> QED BY <1>0, <1>1, <1>2, <1>3

LEMMA MallocRefines ==
  ASSUME HeapInv, NEW n \in Nat, FitsInt(n), NEW fn, Malloc(fn, n)
  PROVE  [Abstract!Next]_live
<1>0. Sound(h_blocks) /\ Matches(h_blocks, live) /\ LiveType(live) /\ h_blocks \in Seq(Block)
  BY InvFacts
<1>1. ASSUME NEW i \in 1..Len(h_blocks),
             IsFirstFit(h_blocks, Need(n), i),
             live' = Own(live, Payload(h_blocks[i]), n)
      PROVE  Abstract!Next
  <2> DEFINE p == Payload(h_blocks[i])
  <2>1. Fits(h_blocks[i], Need(n)) /\ Need(n) \in Nat /\ Need(n) >= n + Hdr
    BY <1>1, NeedFacts DEF IsFirstFit
  <2>2. n + Hdr <= h_blocks[i].size
    BY <2>1, <1>0, BlkType, HeapAssumption DEF Fits
  <2>3. p \notin DOMAIN live
    BY <1>0, <2>1, TakeMatches
  <2>4. Abstract!Room(live, p, n)
    BY <1>0, <2>2, <2>3, RoomFacts DEF Abstract!Room
  <2>5. live' = Abstract!With(live, p, n) /\ p \in DOMAIN live' /\ live'[p] = n
    BY <1>1 DEF Own, Abstract!With
  <2> HIDE DEF p
  <2> QED BY <2>4, <2>5 DEF Abstract!Next, Abstract!Allocate
<1> QED BY <1>1 DEF Malloc

LEMMA FreeRefines ==
  ASSUME HeapInv, NEW p \in DOMAIN live \cup {NULL}, Free(p)
  PROVE  [Abstract!Next]_live
<1>1. ASSUME NEW i \in 1..Len(h_blocks), IsHeaderOf(h_blocks, i, p), live' = Disown(live, p)
      PROVE  Abstract!Next
  <2>1. p \in DOMAIN live
    BY <1>1, HeaderOfOwned
  <2>2. Abstract!Deallocate(p)
    BY <1>1 DEF Disown, Abstract!Deallocate, Abstract!Without
  <2> QED BY <2>1, <2>2 DEF Abstract!Next
<1> QED BY <1>1 DEF Free

LEMMA ReallocRefines ==
  ASSUME HeapInv, NEW p \in DOMAIN live \cup {NULL}, NEW n \in Nat, FitsInt(n),
         Realloc(p, n)
  PROVE  [Abstract!Next]_live
<1>0. Sound(h_blocks) /\ Matches(h_blocks, live) /\ LiveType(live) /\ h_blocks \in Seq(Block)
  BY InvFacts
<1>1. CASE ReallocNull(n)
  BY <1>1 DEF ReallocNull
<1>2. CASE ReallocZero(p, n)
  BY <1>2, FreeRefines DEF ReallocZero
<1>3. ASSUME NEW i \in 1..Len(h_blocks), IsHeaderOf(h_blocks, i, p), ReallocInPlace(i, p, n)
      PROVE  Abstract!Next
  <2>1. p \in DOMAIN live /\ p = Payload(h_blocks[i])
    BY <1>3, HeaderOfOwned
  <2>2. n < UsableSize(h_blocks[i]) /\ live' = [live EXCEPT ![p] = n]
    BY <1>3, NeedFacts DEF ReallocInPlace
  <2>3. n + Hdr <= h_blocks[i].size
    BY <2>2, <1>0, BlkType, HeapAssumption DEF UsableSize
  <2>4. /\ HeapStart <= p /\ p + n <= HeapEnd
        /\ \A q \in DOMAIN live : q # p => p + n <= q \/ q + live[q] <= p
    BY <2>1, <2>3, <1>0, RoomFacts
  <2>5. Abstract!Room(Abstract!Without(live, p), p, n)
    BY <2>4 DEF Abstract!Room, Abstract!Without
  <2>6. DOMAIN live' = DOMAIN live /\ live'[p] = n
    BY <2>1, <2>2
  <2>7. live' = Abstract!With(Abstract!Without(live, p), p, n)
    BY <2>1, <2>2 DEF Abstract!With, Abstract!Without
  <2>8. Abstract!Resize(p, live'[p])
    BY <2>5, <2>6, <2>7 DEF Abstract!Resize
  <2> QED BY <2>1, <2>6, <2>8 DEF Abstract!Next
<1>4. ASSUME NEW i \in 1..Len(h_blocks), IsHeaderOf(h_blocks, i, p), ReallocMoves(i, p, n)
      PROVE  [Abstract!Next]_live
  <2>1. p \in DOMAIN live /\ p = Payload(h_blocks[i])
    BY <1>4, HeaderOfOwned
  <2>2. PICK k \in 1..Len(h_blocks) :
          /\ IsFirstFit(h_blocks, Need(n), k)
          /\ \/ live' = Own(Disown(live, p), Payload(h_blocks[k]), n)
             \/ live' = live
    BY <1>4 DEF ReallocMoves
  <2> DEFINE q == Payload(h_blocks[k])
  <2>3. Fits(h_blocks[k], Need(n)) /\ Need(n) \in Nat /\ Need(n) >= n + Hdr
    BY <2>2, NeedFacts DEF IsFirstFit
  <2>4. n + Hdr <= h_blocks[k].size
    BY <2>3, <1>0, BlkType, HeapAssumption DEF Fits
  <2>5. q \notin DOMAIN live
    BY <1>0, <2>3, TakeMatches
  <2>6. Abstract!Room(live, q, n)
    BY <1>0, <2>4, <2>5, RoomFacts DEF Abstract!Room
  <2>7. CASE live' = Own(Disown(live, p), q, n)
    <3> HIDE DEF q
    <3>1. live' = Abstract!With(Abstract!Without(live, p), q, n) /\ q \in DOMAIN live' /\ live'[q] = n
      BY <2>7 DEF Own, Disown, Abstract!With, Abstract!Without
    <3>2. Abstract!Move(p, q, live'[q])
      BY <2>6, <3>1 DEF Abstract!Move
    <3> QED BY <2>1, <3>1, <3>2 DEF Abstract!Next
  <2> QED BY <2>2, <2>7
<1>5. ASSUME NEW i \in 1..Len(h_blocks), ReallocFails(i, n) PROVE UNCHANGED live
  BY <1>5 DEF ReallocFails
<1> QED BY <1>1, <1>2, <1>3, <1>4, <1>5 DEF Realloc

(* Every behaviour of the heap is one of the abstract allocator: regions   *)
(* are disjoint and inside the heap, and a failed call changes nothing.    *)
THEOREM HeapImplementsAllocator == Spec => ImplementsAllocator
<1>1. Init => Abstract!Init
  BY DEF Init, Abstract!Init
<1>2. HeapInv /\ [Next]_vars => [Abstract!Next]_live
  <2> SUFFICES ASSUME HeapInv, [Next]_vars PROVE [Abstract!Next]_live
    OBVIOUS
  <2>1. ASSUME NEW n \in Requests, Malloc("malloc", n) PROVE [Abstract!Next]_live
    BY <2>1, MallocRefines, SizeFacts
  <2>2. ASSUME NEW k \in Counts, NEW n \in Requests, Calloc(k, n) PROVE [Abstract!Next]_live
    <3>1. n * k \in Nat /\ FitsInt(n * k)
      BY SizeFacts
    <3> QED BY <2>2, <3>1, MallocRefines DEF Calloc
  <2>3. ASSUME NEW p \in DOMAIN live \cup {NULL}, Free(p) PROVE [Abstract!Next]_live
    BY <2>3, FreeRefines
  <2>4. ASSUME NEW p \in DOMAIN live \cup {NULL}, NEW n \in Requests \cup {0}, Realloc(p, n)
        PROVE  [Abstract!Next]_live
    <3>1. n \in Nat /\ FitsInt(n)
      BY SizeFacts
    <3> QED BY <2>4, <3>1, ReallocRefines
  <2>5. CASE UNCHANGED vars
    BY <2>5 DEF vars
  <2> QED BY <2>1, <2>2, <2>3, <2>4, <2>5 DEF Next
<1> QED BY <1>1, <1>2, HeapInvariant, PTL DEF Spec, ImplementsAllocator, Abstract!Spec
-----------------------------------------------------------------------------
(* When allocation fails *)

(* Every address of the heap lies in a block of the queue. *)
LEMMA Covered ==
  ASSUME NEW bs, Sound(bs), NEW a \in Nat, HeapStart <= a, a < HeapEnd
  PROVE  \E i \in 1..Len(bs) : bs[i].addr <= a /\ a < BlockEnd(bs[i])
<1> DEFINE T == {i \in 1..Len(bs) : a < BlockEnd(bs[i])}
<1>0. /\ bs \in Seq(Block) /\ Tiles(bs) /\ Len(bs) \in Nat /\ Len(bs) \in 1..Len(bs)
  BY DEF Sound, Tiles
<1>1. T \subseteq Nat /\ T # {}
  <2>1. Len(bs) \in T
    BY <1>0 DEF Tiles
  <2> QED BY <2>1
<1>2. PICK i \in T : \A m \in T : i <= m
  BY <1>1, LeastNatural
<1>3. i \in 1..Len(bs) /\ a < BlockEnd(bs[i])
  OBVIOUS
<1>4. bs[i].addr <= a
  <2>1. CASE i = 1
    BY <2>1, <1>0 DEF Tiles
  <2>2. CASE i # 1
    <3>1. /\ i - 1 \in 1..Len(bs) /\ i - 1 \in 1..(Len(bs) - 1) /\ (i - 1) + 1 = i
          /\ ~(i <= i - 1)
      BY <2>2, <1>0, <1>3
    <3>2. ~(a < BlockEnd(bs[i-1]))
      BY <3>1, <1>2
    <3>3. bs[i].addr = BlockEnd(bs[i-1])
      BY <3>1, <1>0 DEF Tiles
    <3>4. BlockEnd(bs[i-1]) \in Nat
      BY <3>1, <1>0, EndType
    <3> QED BY <3>2, <3>3, <3>4
  <2> QED BY <2>1, <2>2
<1> QED BY <1>3, <1>4

(* A stretch that no allocated block meets lies in one free block, so       *)
(* TAILQ_FOREACH would have found it.                                       *)
LEMMA NoRoom ==
  ASSUME NEW bs, Sound(bs), Separated(bs), NEW need \in Nat, need >= Hdr, NoFit(bs, need),
         NEW a \in HeapStart..(HeapEnd - need)
  PROVE  \E i \in 1..Len(bs) :
           bs[i].magic = ALLOC /\ bs[i].addr < a + need /\ a < BlockEnd(bs[i])
<1>0. /\ bs \in Seq(Block) /\ Tiles(bs) /\ Len(bs) \in Nat
      /\ HeapStart \in Nat /\ HeapEnd \in Nat /\ Hdr \in Nat /\ Hdr > 0
  BY HeapAssumption DEF Sound, HeapEnd
<1>1. a \in Nat /\ HeapStart <= a /\ a < HeapEnd /\ a + need <= HeapEnd /\ need > 0
  BY <1>0
<1>2. PICK i \in 1..Len(bs) : bs[i].addr <= a /\ a < BlockEnd(bs[i])
  BY <1>1, Covered
<1>3. /\ bs[i].addr \in Nat /\ bs[i].size \in Nat
      /\ bs[i].magic = FREE \/ bs[i].magic = ALLOC
  BY <1>0, BlkType
<1>4. CASE bs[i].magic = ALLOC
  <2>1. bs[i].addr < a + need
    BY <1>1, <1>2, <1>3
  <2> QED BY <1>2, <1>4, <2>1
<1>5. CASE bs[i].magic = FREE
  <2>1. bs[i].size < need
    BY <1>3, <1>5 DEF NoFit, Fits
  <2>2. BlockEnd(bs[i]) < a + need /\ BlockEnd(bs[i]) # HeapEnd
    BY <2>1, <1>0, <1>1, <1>2, <1>3 DEF BlockEnd
  <2>3. i # Len(bs)
    BY <2>2, <1>0 DEF Tiles
  <2>4. i \in 1..(Len(bs) - 1) /\ i + 1 \in 1..Len(bs)
    BY <2>3, <1>0
  <2>5. bs[i+1].addr = BlockEnd(bs[i]) /\ bs[i+1].magic = ALLOC
    BY <2>4, <1>0, <1>5 DEF Tiles, Separated, FREE, ALLOC
  <2>6. bs[i+1].addr \in Nat /\ bs[i+1].size \in Nat
    BY <2>4, <1>0, BlkType
  <2>7. a < BlockEnd(bs[i+1]) /\ bs[i+1].addr < a + need
    BY <2>2, <2>5, <2>6, <1>1, <1>2 DEF BlockEnd
  <2> QED BY <2>4, <2>5, <2>7
<1> QED BY <1>3, <1>4, <1>5

(* What a failed call leaves behind until the next one. *)
LastFailed ==
  (ret.ptr = NULL /\ ret.fn \in {"malloc", "calloc", "realloc"}) =>
    ret.size \in Nat /\ FitsInt(ret.size) /\ NoFit(h_blocks, Need(ret.size))

LEMMA ReturnedFields ==
  ASSUME NEW fn, NEW n, NEW p
  PROVE  Returned(fn, n, p).fn = fn /\ Returned(fn, n, p).size = n /\ Returned(fn, n, p).ptr = p
BY DEF Returned

(* Free sets ret to the name of a call that cannot fail, or nothing changes. *)
LEMMA FreeLast ==
  ASSUME LastFailed, NEW p, Free(p)
  PROVE  LastFailed'
<1>1. ret' = Returned("free", 0, NULL) \/ UNCHANGED <<h_blocks, ret>>
  BY DEF Free
<1>2. CASE ret' = Returned("free", 0, NULL)
  BY <1>2, ReturnedFields DEF LastFailed
<1>3. CASE UNCHANGED <<h_blocks, ret>>
  BY <1>3 DEF LastFailed, NoFit
<1> QED BY <1>1, <1>2, <1>3

LEMMA PayloadNotNull ==
  ASSUME HeapInv, NEW i \in 1..Len(h_blocks)
  PROVE  Payload(h_blocks[i]) # NULL
BY InvFacts, BlkType, HeapAssumption DEF Payload, NULL

LEMMA MallocLast ==
  ASSUME HeapInv, NEW fn, NEW n \in Nat, FitsInt(n), Malloc(fn, n)
  PROVE  LastFailed'
<1>1. CASE NoFit(h_blocks, Need(n)) /\ ret' = Returned(fn, n, NULL) /\ UNCHANGED h_blocks
  BY <1>1, ReturnedFields DEF LastFailed
<1>2. ASSUME NEW i \in 1..Len(h_blocks), ret' = Returned(fn, n, Payload(h_blocks[i]))
      PROVE  LastFailed'
  <2>1. ret'.ptr # NULL
    BY <1>2, PayloadNotNull, ReturnedFields
  <2> QED BY <2>1 DEF LastFailed
<1> QED BY <1>1, <1>2 DEF Malloc

LEMMA ReallocLast ==
  ASSUME HeapInv, LastFailed, NEW p \in DOMAIN live \cup {NULL}, NEW n \in Nat, FitsInt(n),
         Realloc(p, n)
  PROVE  LastFailed'
<1>1. CASE UNCHANGED <<h_blocks, ret>>
  BY <1>1 DEF LastFailed, NoFit
<1>2. CASE ReallocZero(p, n)
  BY <1>2, FreeLast DEF ReallocZero
<1>3. ASSUME NEW i \in 1..Len(h_blocks), IsHeaderOf(h_blocks, i, p), ReallocInPlace(i, p, n)
      PROVE  LastFailed'
  <2>1. p = Payload(h_blocks[i]) /\ ret' = Returned("realloc", n, p)
    BY <1>3 DEF IsHeaderOf, ReallocInPlace
  <2>2. ret'.ptr # NULL
    BY <2>1, PayloadNotNull, ReturnedFields
  <2> QED BY <2>2 DEF LastFailed
<1>4. ASSUME NEW i \in 1..Len(h_blocks), ReallocFails(i, n) PROVE LastFailed'
  <2>1. NoFit(h_blocks, Need(n)) /\ ret' = Returned("realloc", n, NULL) /\ UNCHANGED h_blocks
    BY <1>4 DEF ReallocFails
  <2> QED BY <2>1, ReturnedFields DEF LastFailed
<1>5. ASSUME NEW i \in 1..Len(h_blocks), ReallocMoves(i, p, n) PROVE LastFailed'
  <2>1. PICK k \in 1..Len(h_blocks) :
          \/ ret' = Returned("realloc", n, Payload(h_blocks[k]))
          \/ UNCHANGED <<h_blocks, ret>>
    BY <1>5 DEF ReallocMoves
  <2>2. CASE ret' = Returned("realloc", n, Payload(h_blocks[k]))
    <3>1. ret'.ptr # NULL
      BY <2>2, PayloadNotNull, ReturnedFields
    <3> QED BY <3>1 DEF LastFailed
  <2> QED BY <2>1, <2>2, <1>1
<1> QED BY <1>1, <1>2, <1>3, <1>4, <1>5 DEF Realloc, ReallocNull

LEMMA NextLast == HeapInv /\ LastFailed /\ [Next]_vars => LastFailed'
<1> SUFFICES ASSUME HeapInv, LastFailed, [Next]_vars PROVE LastFailed'
  OBVIOUS
<1>1. ASSUME NEW n \in Requests, Malloc("malloc", n) PROVE LastFailed'
  BY <1>1, MallocLast, SizeFacts
<1>2. ASSUME NEW k \in Counts, NEW n \in Requests, Calloc(k, n) PROVE LastFailed'
  <2>1. n * k \in Nat /\ FitsInt(n * k)
    BY SizeFacts
  <2> QED BY <1>2, <2>1, MallocLast DEF Calloc
<1>3. ASSUME NEW p \in DOMAIN live \cup {NULL}, Free(p) PROVE LastFailed'
  BY <1>3, FreeLast
<1>4. ASSUME NEW p \in DOMAIN live \cup {NULL}, NEW n \in Requests \cup {0}, Realloc(p, n)
      PROVE LastFailed'
  <2>1. n \in Nat /\ FitsInt(n)
    BY SizeFacts
  <2> QED BY <1>4, <2>1, ReallocLast
<1>5. CASE UNCHANGED vars
  BY <1>5 DEF vars, LastFailed, NoFit
<1> QED BY <1>1, <1>2, <1>3, <1>4, <1>5 DEF Next

(* malloc, calloc and realloc fail only when no stretch of the heap could   *)
(* hold the request, for every heap and every history: first fit over       *)
(* merged blocks misses no room that an ideal allocator would use without   *)
(* moving blocks.                                                           *)
THEOREM HeapFailsOnlyWhenFull == Spec => []FailsOnlyWhenFull
<1>1. Init => LastFailed
  BY ReturnedFields DEF Init, LastFailed
<1>2. HeapInv /\ LastFailed => FailsOnlyWhenFull
  <2> SUFFICES ASSUME HeapInv, LastFailed, ret.ptr = NULL,
                      ret.fn \in {"malloc", "calloc", "realloc"},
                      NEW a \in HeapStart..(HeapEnd - Rounded(ret.size))
               PROVE  \E i \in 1..Len(h_blocks) : /\ h_blocks[i].magic = ALLOC
                                                  /\ h_blocks[i].addr < a + Rounded(ret.size)
                                                  /\ a < BlockEnd(h_blocks[i])
    BY DEF FailsOnlyWhenFull
  <2>1. ret.size \in Nat /\ FitsInt(ret.size)
    BY DEF LastFailed
  <2>2. Need(ret.size) \in Nat /\ Need(ret.size) >= Hdr /\ Need(ret.size) = Rounded(ret.size)
    BY <2>1, NeedFacts
  <2>3. NoFit(h_blocks, Need(ret.size))
    BY DEF LastFailed
  <2>4. Sound(h_blocks) /\ Separated(h_blocks)
    BY InvFacts
  <2> QED BY <2>2, <2>3, <2>4, NoRoom
<1> QED BY <1>1, <1>2, NextLast, HeapInvariant, PTL DEF Spec
LEMMA RegionAfter ==
  ASSUME NEW a \in Nat, NEW s \in Nat, NEW b \in Nat, NEW t \in Nat, NEW h \in Nat, NEW n \in Nat,
         b + t <= a, s - h <= n, n + h <= t
  PROVE  (b + h) + (s - h) <= a + h
OBVIOUS

(* Block i, whose payload is copied, and the block k taken for it do not    *)
(* overlap.                                                                 *)
LEMMA CopyApart ==
  ASSUME NEW bs, Sound(bs), NEW i \in 1..Len(bs), NEW k \in 1..Len(bs), i # k,
         NEW n \in Nat, n >= UsableSize(bs[i]), n + Hdr <= bs[k].size
  PROVE  \/ BlockEnd(bs[i]) <= Payload(bs[k])
         \/ Payload(bs[k]) + UsableSize(bs[i]) <= Payload(bs[i])
<1>0. /\ bs \in Seq(Block) /\ InOrder(bs) /\ Hdr \in Nat
  BY HeapAssumption DEF Sound
<1>1. /\ bs[i].addr \in Nat /\ bs[i].size \in Nat /\ bs[k].addr \in Nat /\ bs[k].size \in Nat
  BY <1>0, BlkType
<1>2. CASE i < k
  <2>1. BlockEnd(bs[i]) <= bs[k].addr
    BY <1>0, <1>2 DEF InOrder
  <2> QED BY <2>1, <1>0, <1>1 DEF BlockEnd, Payload
<1>3. CASE k < i
  <2>1. BlockEnd(bs[k]) <= bs[i].addr
    BY <1>0, <1>3 DEF InOrder
  <2>2. bs[k].addr + bs[k].size <= bs[i].addr /\ bs[i].size - Hdr <= n
    BY <2>1 DEF BlockEnd, UsableSize
  <2>3. (bs[k].addr + Hdr) + (bs[i].size - Hdr) <= bs[i].addr + Hdr
    BY <2>2, <1>0, <1>1, RegionAfter
  <2> QED BY <2>3 DEF UsableSize, Payload
<1> QED BY <1>2, <1>3

(* What MoveKeepsContents says of the pointer p that is given up. *)
Copied(p) ==
  \E i \in 1..Len(h_blocks), k \in 1..Len(h_blocks') :
    /\ Payload(h_blocks[i]) = p
    /\ Payload(h_blocks'[k]) = ret'.ptr
    /\ UsableSize(h_blocks[i]) <= UsableSize(h_blocks'[k])
    /\ \/ BlockEnd(h_blocks[i]) <= ret'.ptr
       \/ ret'.ptr + UsableSize(h_blocks[i]) <= p

LEMMA MovesCopy ==
  ASSUME HeapInv, HeapInv', NEW p \in DOMAIN live, NEW n \in Nat, FitsInt(n), NEW i \in 1..Len(h_blocks),
         IsHeaderOf(h_blocks, i, p), h_blocks[i].magic = ALLOC,
         ReallocMoves(i, p, n), NEW q \in DOMAIN live, q \notin DOMAIN live'
  PROVE  Copied(q)
<1>0. /\ Sound(h_blocks) /\ h_blocks \in Seq(Block) /\ Hdr \in Nat /\ FREE # ALLOC
      /\ p = Payload(h_blocks[i])
  BY InvFacts, HeapAssumption DEF FREE, ALLOC, IsHeaderOf
<1>1. PICK k \in 1..Len(h_blocks) :
        /\ IsFirstFit(h_blocks, Need(n), k)
        /\ \/ /\ live' = Own(Disown(live, p), Payload(h_blocks[k]), n)
              /\ ret' = Returned("realloc", n, Payload(h_blocks[k]))
           \/ UNCHANGED live
  BY DEF ReallocMoves
<1> DEFINE new == Payload(h_blocks[k])
<1>2. live' = Own(Disown(live, p), new, n) /\ ret'.ptr = new
  BY <1>1, ReturnedFields
<1>3. q = p /\ new \in DOMAIN live' /\ live'[new] = n
  BY <1>2 DEF Own, Disown
<1>4. h_blocks[k].magic = FREE /\ Need(n) <= h_blocks[k].size /\ n >= UsableSize(h_blocks[i])
  BY <1>1, NeedFacts DEF IsFirstFit, Fits, ReallocMoves
<1>5. n + Hdr <= h_blocks[k].size /\ k # i
  BY <1>4, <1>0, NeedFacts, BlkType
<1>6. \/ BlockEnd(h_blocks[i]) <= new
      \/ new + UsableSize(h_blocks[i]) <= p
  BY <1>0, <1>4, <1>5, CopyApart
<1>7. PICK m \in 1..Len(h_blocks') : h_blocks'[m].magic = ALLOC /\ Payload(h_blocks'[m]) = new
  <2>1. DOMAIN live' = Owned(h_blocks')
    BY DEF HeapInv, GuestOwnsAllocated
  <2>2. new \in Owned(h_blocks')
    BY <2>1, <1>3
  <2>3. \A bs, x : x \in Owned(bs) => \E j \in 1..Len(bs) : bs[j].magic = ALLOC /\ Payload(bs[j]) = x
    BY OwnedMember
  <2> HIDE DEF new
  <2> QED BY <2>2, <2>3
<1>8. n <= UsableSize(h_blocks'[m])
  <2>1. live'[Payload(h_blocks'[m])] <= UsableSize(h_blocks'[m])
    BY <1>7 DEF HeapInv, GuestOwnsAllocated
  <2> QED BY <2>1, <1>7, <1>3
<1>9. /\ h_blocks[i].size \in Nat /\ h_blocks'[m].size \in Nat
  <2>1. h_blocks' \in Seq(Block)
    BY DEF HeapInv, TypeOK
  <2> QED BY <2>1, <1>0, BlkType
<1>10. UsableSize(h_blocks[i]) <= UsableSize(h_blocks'[m])
  BY <1>4, <1>8, <1>9, <1>0 DEF UsableSize
<1> HIDE DEF new
<1> QED BY <1>0, <1>2, <1>3, <1>6, <1>7, <1>10 DEF Copied

(* A step that makes the guest give up a pointer and realloc return one is  *)
(* a realloc that moves.                                                    *)
LEMMA NextCopies ==
  ASSUME HeapInv, HeapInv', Next, NEW q \in DOMAIN live, q \notin DOMAIN live',
         ret'.fn = "realloc", ret'.ptr # NULL
  PROVE  Copied(q)
<1>1. ASSUME NEW fn, NEW n, Malloc(fn, n) PROVE FALSE
  BY <1>1 DEF Malloc, Own
<1>2. ASSUME NEW p, Free(p) PROVE FALSE
  BY <1>2, ReturnedFields DEF Free
<1>3. PICK p \in DOMAIN live \cup {NULL}, n \in Requests \cup {0} : Realloc(p, n)
  BY <1>1, <1>2 DEF Next, Calloc
<1>4. n \in Nat /\ FitsInt(n)
  BY SizeFacts
<1>5. UNCHANGED live => FALSE
  OBVIOUS
<1>6. ASSUME NEW i, ReallocInPlace(i, p, n) PROVE FALSE
  BY <1>6 DEF ReallocInPlace
<1>7. PICK i \in 1..Len(h_blocks) :
        IsHeaderOf(h_blocks, i, p) /\ h_blocks[i].magic = ALLOC /\ ReallocMoves(i, p, n)
  BY <1>2, <1>3, <1>5, <1>6 DEF Realloc, ReallocNull, ReallocZero, ReallocFails
<1>8. p \in DOMAIN live
  BY <1>7, HeaderOfOwned
<1> QED BY <1>4, <1>7, <1>8, MovesCopy

(* A realloc that moves has room for the whole old payload in the new block *)
(* and copies between blocks that do not overlap, so the memcpy is one.     *)
THEOREM HeapMoveKeepsContents == Spec => MoveKeepsContents
<1>1. HeapInv /\ HeapInv' /\ [Next]_vars =>
        [\A p \in DOMAIN live :
           (p \notin DOMAIN live' /\ ret'.fn = "realloc" /\ ret'.ptr # NULL) =>
             \E i \in 1..Len(h_blocks), k \in 1..Len(h_blocks') :
               /\ Payload(h_blocks[i]) = p
               /\ Payload(h_blocks'[k]) = ret'.ptr
               /\ UsableSize(h_blocks[i]) <= UsableSize(h_blocks'[k])
               /\ \/ BlockEnd(h_blocks[i]) <= ret'.ptr
                  \/ ret'.ptr + UsableSize(h_blocks[i]) <= p]_vars
  BY NextCopies DEF Copied
<1> QED BY <1>1, HeapInvariant, PTL DEF Spec, MoveKeepsContents
=============================================================================
