-------------------------------- MODULE Heap --------------------------------
(***************************************************************************)
(* The built-in first-fit heap of the guest (vmir_libc.c, the branch       *)
(* without VMIR_USE_TLSF) and the libc entry points malloc, calloc, free   *)
(* and realloc that reach it.                                              *)
(*                                                                         *)
(* The TAILQ of heap_block_t headers is the sequence h_blocks, in queue    *)
(* order; a block is its header's address, hb_size and hb_magic.  The      *)
(* guest is well behaved: it frees and reallocates only pointers it was    *)
(* given and has not given back.  live is the guest's view: each pointer   *)
(* it owns with the number of bytes it asked for.                          *)
(***************************************************************************)
EXTENDS Integers, Sequences, SequencesExt

CONSTANTS
  HeapStart,  \* address of the first block header: iu_heap_start + sizeof(heap_t)
  HeapSize,   \* bytes handed to the first block by vmir_heap_init
  Hdr,        \* sizeof(heap_block_t): 24 on 64-bit hosts, 16 on 32-bit ones
  Align,      \* 16, the granularity of VMIR_ALIGN in vmir_heap_malloc
  IntMax,     \* INT_MAX: the heap keeps sizes in an int
  Requests,   \* the sizes the guest asks for
  Counts      \* the element counts it passes to calloc

ASSUME HeapAssumption ==
  /\ HeapStart \in Nat \ {0}
  /\ HeapSize \in Nat
  /\ Hdr \in Nat \ {0}
  /\ HeapSize >= Hdr
  /\ Align \in Nat \ {0}
  /\ IntMax \in Nat
  /\ HeapSize <= IntMax
  /\ Requests \subseteq Nat
  /\ Counts \subseteq Nat

(* n, with a header and rounded up, is still an int. *)
FitsInt(n) == n + Hdr + Align - 1 <= IntMax

(* The sizes the guest asks for do, products passed to calloc included.    *)
(* The code does not check it: with a larger size vmir_heap_malloc wraps   *)
(* around and returns a block that is too small.                           *)
ASSUME SizesAssumption ==
  /\ FitsInt(0)
  /\ \A n \in Requests : FitsInt(n) /\ \A k \in Counts : FitsInt(n * k)

FREE  == "FREE"    \* HEAP_MAGIC_FREE
ALLOC == "ALLOC"   \* HEAP_MAGIC_ALLOC
NULL  == 0         \* guest addresses start above 0

HeapEnd == HeapStart + HeapSize

Block == [addr : Nat, size : Nat, magic : {FREE, ALLOC}]

Blk(a, s, m) == [addr |-> a, size |-> s, magic |-> m]

VARIABLES
  h_blocks,  \* h->h_blocks
  live,      \* guest view: owned pointer |-> requested size
  ret,       \* the last call and what it returned
  crash      \* "no", "assert" (a failed assert) or "null" (a read below NULL)

vars == <<h_blocks, live, ret, crash>>

-----------------------------------------------------------------------------
(* vmir_heap_malloc *)

(* A number stored in an int. *)
AsInt(x) == IF x <= IntMax THEN x ELSE ((x + IntMax + 1) % (2 * (IntMax + 1))) - (IntMax + 1)

Rounded(n) == ((n + Hdr + Align - 1) \div Align) * Align

(* VMIR_ALIGN(size + sizeof(heap_block_t), 16), as an int *)
Need(n) == AsInt(Rounded(n))

Fits(b, need) == b.magic = FREE /\ need <= b.size

(* The TAILQ_FOREACH: the first block that is free and large enough. *)
IsFirstFit(bs, need, i) ==
  /\ i \in 1..Len(bs)
  /\ Fits(bs[i], need)
  /\ \A j \in 1..(i-1) : ~Fits(bs[j], need)

NoFit(bs, need) == \A i \in 1..Len(bs) : ~Fits(bs[i], need)

(* Block i becomes the allocation: whole when too little would remain,     *)
(* else cut, with the remainder a free block inserted right after it.      *)
Take(bs, i, need) ==
  LET remain == bs[i].size - need
  IN  IF remain < 2 * Hdr
      THEN [bs EXCEPT ![i] = Blk(bs[i].addr, bs[i].size, ALLOC)]
      ELSE InsertAt([bs EXCEPT ![i] = Blk(bs[i].addr, need, ALLOC)],
                    i + 1,
                    Blk(bs[i].addr + need, remain, FREE))

(* Mutant of Payload: hb - 1. *)
PayloadBelow(b) == b.addr - Hdr

(* return (void * )(hb + 1) *)
Payload(b) == b.addr + Hdr

-----------------------------------------------------------------------------
(* vmir_heap_merge_next, vmir_heap_free *)

MergesNext(bs, i) == i < Len(bs) /\ bs[i+1].magic = FREE

(* Mutant of MergeNext: hb_size is not increased. *)
MergeNextLosesSize(bs, i) == IF MergesNext(bs, i) THEN RemoveAt(bs, i + 1) ELSE bs

MergeNext(bs, i) ==
  IF MergesNext(bs, i)
  THEN RemoveAt([bs EXCEPT ![i] = Blk(bs[i].addr, bs[i].size + bs[i+1].size, bs[i].magic)], i + 1)
  ELSE bs

(* assert(next > hb) *)
MergeAssert(bs, i) == MergesNext(bs, i) => bs[i+1].addr > bs[i].addr

Release(bs, i) == [bs EXCEPT ![i] = Blk(bs[i].addr, bs[i].size, FREE)]

(* Mutant of FreeBlock: prev is not looked at. *)
FreeBlockNextOnly(bs, i) == MergeNext(Release(bs, i), i)

FreeBlock(bs, i) ==
  LET merged == MergeNext(Release(bs, i), i)
  IN  IF i > 1 THEN MergeNext(merged, i - 1) ELSE merged

(* assert(hb_magic == HEAP_MAGIC_ALLOC), assert(prev < hb), assert(next > hb) *)
FreeAsserts(bs, i) ==
  LET merged == MergeNext(Release(bs, i), i)
  IN  /\ bs[i].magic = ALLOC
      /\ MergeAssert(Release(bs, i), i)
      /\ i > 1 => /\ merged[i-1].addr < merged[i].addr
                  /\ MergeAssert(merged, i - 1)

(* Mutant of UsableSize: the header is counted as usable. *)
UsableSizeWithHeader(b) == b.size

(* vmir_heap_usable_size *)
UsableSize(b) == b.size - Hdr

(* hb = ptr; hb-- : the header in front of a pointer. *)
IsHeaderOf(bs, i, p) == i \in 1..Len(bs) /\ Payload(bs[i]) = p

-----------------------------------------------------------------------------
(* The guest's view. *)

Own(l, p, n) == [q \in DOMAIN l \cup {p} |-> IF q = p THEN n ELSE l[q]]
Disown(l, p) == [q \in DOMAIN l \ {p} |-> l[q]]

Returned(fn, n, p) == [fn |-> fn, size |-> n, ptr |-> p]

(* vmir_heap_init: one free block that is the whole heap. *)
Init ==
  /\ h_blocks = <<Blk(HeapStart, HeapSize, FREE)>>
  /\ live = [p \in {} |-> 0]
  /\ ret = Returned("init", 0, NULL)
  /\ crash = "no"

(* vmir_malloc; failing, it leaves the heap alone. *)
Malloc(fn, n) ==
  \/ /\ NoFit(h_blocks, Need(n))
     /\ ret' = Returned(fn, n, NULL)
     /\ UNCHANGED <<h_blocks, live, crash>>
  \/ \E i \in 1..Len(h_blocks) :
       /\ IsFirstFit(h_blocks, Need(n), i)
       /\ h_blocks' = Take(h_blocks, i, Need(n))
       /\ live' = Own(live, Payload(h_blocks[i]), n)
       /\ ret' = Returned(fn, n, Payload(h_blocks[i]))
       /\ UNCHANGED crash

(* vmir_calloc: one block of size * nmemb bytes, cleared up to that length. *)
Calloc(nmemb, size) == Malloc("calloc", size * nmemb)

(* vmir_free: a NULL pointer is ignored. *)
Free(p) ==
  \/ /\ p = NULL
     /\ ret' = Returned("free", 0, NULL)
     /\ UNCHANGED <<h_blocks, live, crash>>
  \/ \E i \in 1..Len(h_blocks) :
       /\ IsHeaderOf(h_blocks, i, p)
       /\ IF FreeAsserts(h_blocks, i)
          THEN /\ h_blocks' = FreeBlock(h_blocks, i)
               /\ live' = Disown(live, p)
               /\ ret' = Returned("free", 0, NULL)
               /\ UNCHANGED crash
          ELSE crash' = "assert" /\ UNCHANGED <<h_blocks, live, ret>>

-----------------------------------------------------------------------------
(* vmir_realloc *)

(* vmir_heap_usable_size(ptr) is called before ptr is compared with NULL. *)
ReallocNull(n) ==
  /\ n > 0
  /\ crash' = "null"
  /\ UNCHANGED <<h_blocks, live, ret>>

(* size < cursize: the block is kept. *)
ReallocInPlace(i, p, n) ==
  /\ n > 0
  /\ AsInt(n) < UsableSize(h_blocks[i])
  /\ live' = [live EXCEPT ![p] = n]
  /\ ret' = Returned("realloc", n, p)
  /\ UNCHANGED <<h_blocks, crash>>

(* The new block is taken first; without one the old stays as it was. *)
ReallocFails(i, n) ==
  /\ n > 0
  /\ AsInt(n) >= UsableSize(h_blocks[i])
  /\ NoFit(h_blocks, Need(n))
  /\ ret' = Returned("realloc", n, NULL)
  /\ UNCHANGED <<h_blocks, live, crash>>

(* Where block i is once block k has been taken: a cut before it moves it on. *)
IndexAfterTake(bs, k, need, i) ==
  IF k < i /\ bs[k].size - need >= 2 * Hdr THEN i + 1 ELSE i

(* Mutant of ReallocMoves: the old block is freed before malloc. *)
ReallocMovesFreeFirst(i, p, n) ==
  /\ n > 0
  /\ AsInt(n) >= UsableSize(h_blocks[i])
  /\ LET freed == FreeBlock(h_blocks, i)
     IN  \E k \in 1..Len(freed) :
           /\ IsFirstFit(freed, Need(n), k)
           /\ h_blocks' = Take(freed, k, Need(n))
           /\ live' = Own(Disown(live, p), Payload(freed[k]), n)
           /\ ret' = Returned("realloc", n, Payload(freed[k]))
           /\ UNCHANGED crash

(* malloc, memcpy of the old usable size, free of the old block. *)
ReallocMoves(i, p, n) ==
  /\ n > 0
  /\ AsInt(n) >= UsableSize(h_blocks[i])
  /\ \E k \in 1..Len(h_blocks) :
       /\ IsFirstFit(h_blocks, Need(n), k)
       /\ LET taken == Take(h_blocks, k, Need(n))
              old   == IndexAfterTake(h_blocks, k, Need(n), i)
              new   == Payload(h_blocks[k])
          IN  IF FreeAsserts(taken, old)
              THEN /\ h_blocks' = FreeBlock(taken, old)
                   /\ live' = Own(Disown(live, p), new, n)
                   /\ ret' = Returned("realloc", n, new)
                   /\ UNCHANGED crash
              ELSE crash' = "assert" /\ UNCHANGED <<h_blocks, live, ret>>

(* size == 0: only the free. *)
ReallocZero(p, n) == n = 0 /\ Free(p)

Realloc(p, n) ==
  \/ p = NULL /\ ReallocNull(n)
  \/ ReallocZero(p, n)
  \/ \E i \in 1..Len(h_blocks) :
       /\ IsHeaderOf(h_blocks, i, p)
       /\ IF h_blocks[i].magic = ALLOC
          THEN \/ ReallocInPlace(i, p, n)
               \/ ReallocFails(i, n)
               \/ ReallocMoves(i, p, n)
          ELSE n > 0 /\ crash' = "assert" /\ UNCHANGED <<h_blocks, live, ret>>

-----------------------------------------------------------------------------
Next ==
  /\ crash = "no"
  /\ \/ \E n \in Requests : Malloc("malloc", n)
     \/ \E k \in Counts, n \in Requests : Calloc(k, n)
     \/ \E p \in DOMAIN live \cup {NULL} : Free(p)
     \/ \E p \in DOMAIN live \cup {NULL}, n \in Requests \cup {0} : Realloc(p, n)

Spec == Init /\ [][Next]_vars

-----------------------------------------------------------------------------
(* Properties *)

(* The variables keep their types. *)
TypeOK ==
  /\ h_blocks \in Seq(Block)
  /\ \A p \in DOMAIN live : p \in Nat /\ live[p] \in Nat
  /\ ret \in [fn : {"init", "malloc", "calloc", "free", "realloc"}, size : Nat, ptr : Nat]
  /\ crash \in {"no", "assert", "null"}

BlockEnd(b) == b.addr + b.size

(* The blocks bs, in queue order, cover the heap from its first byte to its *)
(* last without a gap or an overlap, each at least a header long.           *)
Tiles(bs) ==
  /\ Len(bs) >= 1
  /\ bs[1].addr = HeapStart
  /\ BlockEnd(bs[Len(bs)]) = HeapEnd
  /\ \A i \in 1..Len(bs) : bs[i].size >= Hdr
  /\ \A i \in 1..(Len(bs) - 1) : bs[i+1].addr = BlockEnd(bs[i])

(* Cutting and merging blocks keeps the queue an exact tiling of the heap   *)
(* in address order, whatever the order of the calls.                       *)
Tiled == Tiles(h_blocks)

(* The queue is in address order.  It follows from Tiles by induction over  *)
(* the queue, which is why the inductive invariant carries it along.        *)
InOrder(bs) == \A i, j \in 1..Len(bs) : i < j => BlockEnd(bs[i]) <= bs[j].addr

Separated(bs) == \A i \in 1..(Len(bs) - 1) : bs[i].magic = ALLOC \/ bs[i+1].magic = ALLOC

(* vmir_heap_free merges with both neighbours, so two free blocks are never *)
(* side by side.                                                            *)
Coalesced == Separated(h_blocks)

Owned(bs) == {Payload(bs[i]) : i \in {j \in 1..Len(bs) : bs[j].magic = ALLOC}}

(* The pointers the guest owns are exactly the payloads of the allocated    *)
(* blocks, each with room for what was asked: none is lost, none is handed  *)
(* out twice.                                                               *)
GuestOwnsAllocated ==
  /\ DOMAIN live = Owned(h_blocks)
  /\ \A i \in 1..Len(h_blocks) :
       h_blocks[i].magic = ALLOC => live[Payload(h_blocks[i])] <= UsableSize(h_blocks[i])

(* malloc, calloc and realloc return NULL only when every stretch of the    *)
(* heap that would hold header and payload meets an allocated block, with   *)
(* all that has been merged into it: vmir_heap_free gives a freed block to  *)
(* its predecessor without asking whether that is free too.                 *)
FailsOnlyWhenFull ==
  (ret.ptr = NULL /\ ret.fn \in {"malloc", "calloc", "realloc"}) =>
    \A a \in HeapStart..(HeapEnd - Rounded(ret.size)) :
      \E i \in 1..Len(h_blocks) :
        /\ h_blocks[i].magic = ALLOC
        /\ h_blocks[i].addr < a + Rounded(ret.size)
        /\ a < BlockEnd(h_blocks[i])

(* Once everything is freed the heap is again the one block it began with,  *)
(* although a freed block is first merged into whatever precedes it.        *)
EmptyHeapIsWhole ==
  DOMAIN live = {} =>
    h_blocks = <<Blk(HeapStart, HeapSize, FREE)>>

(* No assert of the allocator fails under a guest that frees what it owns.  *)
AssertsHold == crash # "assert"

(* A realloc that moves copies the whole old block into the new one, and    *)
(* the two do not overlap while it does.                                    *)
MoveKeepsContents ==
  [][\A p \in DOMAIN live :
       (p \notin DOMAIN live' /\ ret'.fn = "realloc" /\ ret'.ptr # NULL) =>
         \E i \in 1..Len(h_blocks), k \in 1..Len(h_blocks') :
           /\ Payload(h_blocks[i]) = p
           /\ Payload(h_blocks'[k]) = ret'.ptr
           /\ UsableSize(h_blocks[i]) <= UsableSize(h_blocks'[k])
           /\ \/ BlockEnd(h_blocks[i]) <= ret'.ptr
              \/ ret'.ptr + UsableSize(h_blocks[i]) <= p]_vars

Abstract == INSTANCE Allocator WITH Lo <- HeapStart, Hi <- HeapEnd

(* The heap implements the abstract allocator. *)
ImplementsAllocator == Abstract!Spec

(* The inductive invariant of HeapProofs. *)
HeapInv ==
  /\ TypeOK
  /\ Tiled
  /\ InOrder(h_blocks)
  /\ Coalesced
  /\ GuestOwnsAllocated
  /\ AssertsHold
=============================================================================
