----------------------------- MODULE MemoryPool -----------------------------
(***************************************************************************)
(* The free list of one memory pool (MemoryPool of D3D12/Allocation.cpp,   *)
(* PoolAllocatorPrivateData of ResourceHolder.h and .cpp).                 *)
(*                                                                         *)
(* A pool is a record: its size, the total of free bytes it believes to    *)
(* have, its free blocks, and the frame fence of its last use.  The        *)
(* blocks in use are known to their owners only.  The code keeps all       *)
(* blocks in a list in the order of addresses; as the blocks tile the      *)
(* pool, the neighbour of a block is the one that ends where it begins.    *)
(* All lists of free blocks are made with the order SortByOffset, so the   *)
(* set of free blocks says it all.                                         *)
(***************************************************************************)
EXTENDS Naturals, FiniteSets

CONSTANT PoolAlignment

ASSUME PoolAlignmentAssumption == PoolAlignment \in Nat \ {0}

(***************************************************************************)
(* Faults a change to the code could introduce: AlignedDownwards in the    *)
(* place of AlignArbitrary, MergedWithPrevOnly of AddToFreeBlocks.         *)
(***************************************************************************)

\* The size of a request is rounded down.
AlignedDownwards(n, a) == IF n < a THEN a ELSE (n \div a) * a

\* A freed block is not merged with the free block behind it.
MergedWithPrevOnly(free, b) ==
    LET before == {f \in free : f.offset + f.size = b.offset}
    IN  IF before = {} THEN free \cup {b}
        ELSE (free \ before) \cup
             {[offset |-> f.offset, size |-> f.size + b.size] : f \in before}

-----------------------------------------------------------------------------

AlignArbitrary(n, a) == ((n + a - 1) \div a) * a
AlignDown(n, a) == (n \div a) * a

NewPool(size) ==
    [size |-> size, freeSize |-> size, last |-> 0,
     free |-> {[offset |-> 0, size |-> size]}]

IsEmpty(pool) == pool.freeSize = pool.size

-----------------------------------------------------------------------------
(***************************************************************************)
(* Sizes and offsets of an allocation, with the pool's alignment and the   *)
(* one that is asked for, which may not divide it.                         *)
(***************************************************************************)
Padded(align) == PoolAlignment % align # 0

GetAlignedSize(size, align) ==
    AlignArbitrary(IF Padded(align) THEN size + align ELSE size, PoolAlignment)

GetAlignedOffset(offset, align) ==
    IF Padded(align) THEN AlignArbitrary(offset, align) ELSE offset

(***************************************************************************)
(* The bytes that an allocated block takes away from its pool.             *)
(***************************************************************************)
Taken(block) ==
    [offset |-> AlignDown(block.offset, PoolAlignment),
     size |-> AlignArbitrary(block.size, PoolAlignment)]

End(block) == block.offset + block.size

Overlap(a, b) == a.offset < End(b) /\ b.offset < End(a)

Disjoint(blocks) == \A a, b \in blocks : a # b => ~ Overlap(a, b)

Bytes(blocks) == UNION {b.offset..(End(b) - 1) : b \in blocks}

TotalSize(blocks) == Cardinality(Bytes(blocks))

-----------------------------------------------------------------------------
(***************************************************************************)
(* FindFreeBlock searches a list that is ordered by offset with            *)
(* std::lower_bound by size, whose result the standard leaves open then.   *)
(* Any bisection ends at a block that is large enough and behind one that  *)
(* is not (Found), or behind the last block (MayMiss).                     *)
(***************************************************************************)
Before(pool, a, b) ==
    /\ a.offset < b.offset
    /\ ~ \E c \in pool.free : a.offset < c.offset /\ c.offset < b.offset

LargeEnough(f, size) == f.size >= size

Found(pool, size) ==
    {f \in pool.free :
        /\ pool.freeSize >= size
        /\ LargeEnough(f, size)
        /\ \A a \in pool.free : Before(pool, a, f) => ~ LargeEnough(a, size)}

MayMiss(pool, size) ==
    \/ pool.freeSize < size
    \/ \A f \in pool.free :
            LargeEnough(f, size) => \E c \in pool.free : f.offset < c.offset

(***************************************************************************)
(* AddToFreeBlocks: a block becomes one with the free block before it and  *)
(* with the free block behind it.                                          *)
(***************************************************************************)
InFront(free, b) == {f \in free : End(f) = b.offset}

Behind(free, b) == {f \in free : f.offset = End(b)}

Merge(a, b) == [offset |-> a.offset, size |-> a.size + b.size]

Coalesced(free, b) ==
    LET front == IF InFront(free, b) = {} THEN b
                 ELSE Merge(CHOOSE f \in InFront(free, b) : TRUE, b)
    IN  IF Behind(free, b) = {} THEN front
        ELSE Merge(front, CHOOSE f \in Behind(free, b) : TRUE)

AddToFreeBlocks(free, b) ==
    (free \ (InFront(free, b) \cup Behind(free, b))) \cup {Coalesced(free, b)}

(***************************************************************************)
(* TryAllocate, with free block f found: the block handed out starts at an *)
(* aligned offset, the free block loses the size asked for.                *)
(***************************************************************************)
Allocated(f, size, align) ==
    [offset |-> GetAlignedOffset(f.offset, align), size |-> size]

TryAllocate(pool, f, size, align) ==
    LET taken == AlignArbitrary(size, PoolAlignment)
        rest == [offset |-> f.offset + taken, size |-> f.size - taken]
    IN  [pool EXCEPT
            !.freeSize = @ - GetAlignedSize(size, align),
            !.free = IF rest.size = 0 THEN @ \ {f}
                     ELSE AddToFreeBlocks(@ \ {f}, rest)]

Deallocate(pool, block) ==
    [pool EXCEPT
        !.freeSize = @ + Taken(block).size,
        !.free = AddToFreeBlocks(@, Taken(block))]

=============================================================================
