--------------------------- MODULE BuddyAllocator ---------------------------
(***************************************************************************)
(* One buddy allocator of upload memory (BuddyUploadAllocator of           *)
(* D3D12/Allocation.cpp and .h).                                           *)
(*                                                                         *)
(* Memory is counted in units of MinBlockSize; a block of order k has 2^k  *)
(* units.  An allocator is a record: a list of free blocks, given by their *)
(* offsets, for each order, the bytes in use, the blocks given back whose  *)
(* frame may not be complete, and the frame fence of the last use.  Its    *)
(* first unit holds the heads of the lists and is never handed out.        *)
(***************************************************************************)
EXTENDS Naturals, Sequences, SequencesExt

CONSTANTS
    MinBlockSize,
    MaxOrder        \* the largest block has order MaxOrder - 1

ASSUME BuddyAssumption ==
    /\ MinBlockSize \in Nat \ {0}
    /\ MaxOrder \in Nat \ {0}

(***************************************************************************)
(* A fault a change to the code could introduce, in place of RightHalf.   *)
(***************************************************************************)

\* A block is split, and the half that is handed out listed as free.
LeftHalf(offset, j) == offset

-----------------------------------------------------------------------------

Order == 0..(MaxOrder - 1)
MaxBlockSize == 2 ^ MaxOrder * MinBlockSize

OrderToUnitSize(k) == 2 ^ k

(***************************************************************************)
(* Initialize: one block of each order, at the offset of its size.         *)
(***************************************************************************)
NewAllocator(id) ==
    [id |-> id, used |-> MinBlockSize, retired |-> <<>>, last |-> 0,
     free |-> [k \in Order |-> <<OrderToUnitSize(k)>>]]

NothingUsed(a) == a.used = MinBlockSize

-----------------------------------------------------------------------------

SizeToAllocate(size, align) ==
    IF MinBlockSize % align # 0 THEN size + align ELSE size

(***************************************************************************)
(* UnitSizeToOrder(SizeToUnitSize(size)), the logarithm rounded up.        *)
(***************************************************************************)
OrderFor(size) ==
    CHOOSE k \in 0..size :
        /\ OrderToUnitSize(k) * MinBlockSize >= size
        /\ \A j \in 0..(k - 1) : OrderToUnitSize(j) * MinBlockSize < size

HasFree(a, k) == a.free[k] # <<>>

(***************************************************************************)
(* CanAllocate, the loop from the largest order down.                      *)
(***************************************************************************)
CanAllocate(a, size, align) ==
    /\ a.used # MaxBlockSize
    /\ \E k \in Order :
        HasFree(a, k)
        /\ OrderToUnitSize(k) * MinBlockSize >= SizeToAllocate(size, align)

(***************************************************************************)
(* AllocateBlock: the smallest free block that will do is taken off its    *)
(* list; on the way down its right halves become the free blocks of the    *)
(* orders that had none.                                                   *)
(***************************************************************************)
SplitOrder(a, k) ==
    CHOOSE s \in k..(MaxOrder - 1) :
        HasFree(a, s) /\ \A j \in k..(s - 1) : ~ HasFree(a, j)

RightHalf(offset, j) == offset + OrderToUnitSize(j)

BlockFor(a, size, align) ==
    LET k == OrderFor(SizeToAllocate(size, align))
    IN  [offset |-> Head(a.free[SplitOrder(a, k)]), order |-> k]

AllocateBlock(a, size, align) ==
    LET k == OrderFor(SizeToAllocate(size, align))
        s == SplitOrder(a, k)
        left == Head(a.free[s])
    IN  [a EXCEPT
            !.used = @ + OrderToUnitSize(k) * MinBlockSize,
            !.free = [j \in Order |->
                        IF j = s THEN Tail(@[j])
                        ELSE IF j \in k..(s - 1) THEN <<RightHalf(left, j)>>
                        ELSE @[j]]]

(***************************************************************************)
(* DeallocateBlock looks for the block itself in the list of its order. If *)
(* it is there, it is taken out and the pair with its buddy freed instead. *)
(***************************************************************************)
PairOffset(offset, k) == (offset \div OrderToUnitSize(k)) * OrderToUnitSize(k)

FreedOrder(a, block) ==
    CHOOSE t \in block.order..MaxOrder :
        /\ t = MaxOrder \/ ~ Contains(a.free[t], PairOffset(block.offset, t))
        /\ \A j \in block.order..(t - 1) :
                Contains(a.free[j], PairOffset(block.offset, j))

DeallocateBlock(a, block) ==
    LET t == FreedOrder(a, block)
    IN  [a EXCEPT
            !.used = @ - OrderToUnitSize(block.order) * MinBlockSize,
            !.free = [j \in Order |->
                LET offset == PairOffset(block.offset, j)
                IN  IF j = t THEN <<offset>> \o @[j]
                    ELSE IF j \in block.order..(t - 1) THEN Remove(@[j], offset)
                    ELSE @[j]]]

=============================================================================
