---------------------------- MODULE FastAllocator ---------------------------
(***************************************************************************)
(* The allocator of temporary upload memory (FastAllocator,                *)
(* FastAllocatorPagePool and FastAllocatorPage of D3D12/Allocation.cpp).   *)
(*                                                                         *)
(* It hands out one page from the front to the back and then turns to      *)
(* another one, a page of its pool whose fence has been passed or a new    *)
(* one.  A page is a record: its number, how often it has been reset, the  *)
(* offset of its first free byte and the frame fence of its last use.      *)
(***************************************************************************)
EXTENDS MemoryPool, Sequences, SequencesExt

CONSTANTS
    FastPageSize,
    MinPagesToRetain,    \* FastAllocatorMinPagesToRetain
    FastFrameLag,        \* of CommandContext::EndFrame
    NoPage               \* before the first allocation

ASSUME FastAssumption ==
    /\ FastPageSize \in Nat \ {0}
    /\ MinPagesToRetain \in Nat
    /\ FastFrameLag \in Nat

FastPage == [id : Nat, turn : Nat, offset : Nat, fence : Nat]

ASSUME NoPageAssumption == NoPage \notin FastPage

(***************************************************************************)
(* Faults a change to the code could introduce: DoneAFrameEarly in the     *)
(* place of PageDone.                                                      *)
(***************************************************************************)

\* A page is taken again in the frame after its fence was current.
DoneAFrameEarly(p, completed) == p.fence <= completed + 1

-----------------------------------------------------------------------------

NewFastAllocator == [current |-> NoPage, pool |-> <<>>, pages |-> 0]

Latest(a, b) == IF a >= b THEN a ELSE b

-----------------------------------------------------------------------------
(***************************************************************************)
(* RequestFastAllocatorPage: the first page of the pool that the GPU is    *)
(* done with, or a new one.  Nobody else holds a page's buffer.            *)
(***************************************************************************)
PageDone(p, completed) == p.fence <= completed

Reusable(pool, completed) == {i \in DOMAIN pool : PageDone(pool[i], completed)}

Reset(p) == [p EXCEPT !.turn = @ + 1, !.offset = 0, !.fence = 0]

RequestPage(fa, completed) ==
    LET usable == Reusable(fa.pool, completed)
        i == CHOOSE i \in usable : \A j \in usable : i <= j
    IN  IF usable = {}
        THEN [current |-> [id |-> fa.pages + 1, turn |-> 0, offset |-> 0,
                           fence |-> 0],
              pool |-> fa.pool, pages |-> fa.pages + 1]
        ELSE [fa EXCEPT !.current = Reset(fa.pool[i]),
                        !.pool = RemoveAt(@, i)]

UpdateFence(p, fence) == [p EXCEPT !.fence = Latest(@, fence)]

ReturnPage(fa, fence) ==
    IF fa.current = NoPage THEN fa
    ELSE [fa EXCEPT !.pool = Append(@, UpdateFence(fa.current, fence))]

(***************************************************************************)
(* Allocate, for what fits into a page.                                    *)
(***************************************************************************)
PageFits(fa, size, align) ==
    /\ fa.current # NoPage
    /\ AlignArbitrary(fa.current.offset, align) + size <= FastPageSize

Serving(fa, size, align, fence, completed) ==
    IF PageFits(fa, size, align) THEN fa
    ELSE RequestPage(ReturnPage(fa, fence), completed)

FastBlock(served, size, align) ==
    [id |-> served.current.id, turn |-> served.current.turn,
     offset |-> AlignArbitrary(served.current.offset, align), size |-> size]

Advanced(p, size, align) ==
    [p EXCEPT !.offset = AlignArbitrary(@, align) + size]

FastAllocate(served, size, align, fence) ==
    [served EXCEPT !.current = UpdateFence(Advanced(@, size, align), fence)]

(***************************************************************************)
(* CleanupPages: of more pages than are to stay, one goes that is done     *)
(* with for long enough.                                                   *)
(***************************************************************************)
CleanupPages(fa, completed) ==
    LET old == {i \in DOMAIN fa.pool :
                    fa.pool[i].fence + FastFrameLag <= completed}
        i == CHOOSE i \in old : \A j \in old : i <= j
    IN  IF Len(fa.pool) <= MinPagesToRetain \/ old = {} THEN fa
        ELSE [fa EXCEPT !.pool = RemoveAt(@, i)]

(***************************************************************************)
(* The pages whose contents are still there.                               *)
(***************************************************************************)
FastPages(fa) ==
    ToSet(fa.pool) \cup (IF fa.current = NoPage THEN {} ELSE {fa.current})

Keeps(fa, block) ==
    \E p \in FastPages(fa) : p.id = block.id /\ p.turn = block.turn

=============================================================================
