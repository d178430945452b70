----------------------------- MODULE UploadHeap -----------------------------
(***************************************************************************)
(* The upload heap (UploadHeapAllocator of D3D12/Allocation.cpp) between   *)
(* the threads that use it.                                                *)
(*                                                                         *)
(* The main thread takes memory for the buffers it creates, maps or fills  *)
(* and records commands that carry the memory with them.  The command      *)
(* thread executes them, gives back the memory a buffer had before, and at *)
(* the end of a frame frees what was given back in frames whose fence the  *)
(* GPU has passed.  What the commands of a frame use is used by the        *)
(* payload of that frame, which goes to the GPU by way of the submission   *)
(* thread; the fence of the frame is signalled on the GPU's queue by the   *)
(* command thread itself.                                                  *)
(*                                                                         *)
(* Requests up to SmallMax are served by a list of buddy allocators,       *)
(* larger ones by a list of pools, the pages of constant buffers by an     *)
(* allocator that serves one request, and what the command thread needs    *)
(* for itself by the fast allocator.                                       *)
(***************************************************************************)
EXTENDS BuddyAllocator, MemoryPool, FastAllocator, FiniteSets

CONSTANTS
    Buffers,
    Size,                \* the bytes of a buffer
    Alignment,           \* and the alignment it asks for
    Programs,            \* what the main thread may record, by frames
    SmallMax,            \* UploadHeapSmallBlockMaxAllocationSize
    DefaultPoolSize,     \* UploadHeapBigBlockHeapSize
    MaxAllocationSize,   \* UploadHeapBigBlockMaxAllocationSize
    PageUpdates,         \* how many constant buffers a page has room for
    FrameLag,            \* of Device::EndFrame
    NoPool,              \* of an index whose pool was trimmed
    NotRetired           \* of the page in use

ASSUME UploadAssumption ==
    /\ \A b \in Buffers : Size[b] \in Nat \ {0}
    /\ \A b \in Buffers : Alignment[b] \in 1..PoolAlignment
    /\ SmallMax \in Nat
    /\ DefaultPoolSize \in Nat \ {0}
    /\ MaxAllocationSize \in Nat
    /\ PageUpdates \in Nat \ {0}
    /\ FrameLag \in Nat

(***************************************************************************)
(* Memory that is handed out: the allocator it is from, the block that     *)
(* allocator knows it by, and the bytes its user may write.                *)
(***************************************************************************)
Extent == [offset : Nat, size : Nat]

Memory ==
    [heap : {"small"}, at : Nat, block : [offset : Nat, order : Nat],
     bytes : Extent]
    \cup [heap : {"big"}, at : Nat, block : Extent, bytes : Extent]

Pool == [size : Nat, freeSize : Nat, last : Nat, free : SUBSET Extent]

ASSUME NoneAssumption == NoPool \notin Pool /\ NotRetired \notin Nat

\* Of a buffer without memory, ELocationType::Undefined.
NoBlock == [heap |-> "none"]

(***************************************************************************)
(* What the main thread may do in a frame.  A buffer is created once, and  *)
(* before it is mapped or drawn.                                           *)
(***************************************************************************)
Operation ==
    [op : {"create", "map", "fill", "load", "draw"}, buffer : Buffers]
    \cup [op : {"constants"}]

Creates(p, b, f, i) ==
    \E g \in 1..Len(p) : \E j \in 1..Len(p[g]) :
        (g < f \/ (g = f /\ j < i)) /\ p[g][j] = [op |-> "create", buffer |-> b]

CreatedOnce(p, created) ==
    \A f \in 1..Len(p) : \A i \in 1..Len(p[f]) : \A b \in Buffers :
        LET known == b \in created \/ Creates(p, b, f, i) IN
        /\ p[f][i] = [op |-> "create", buffer |-> b] => ~ known
        /\ p[f][i] = [op |-> "map", buffer |-> b] => known
        /\ p[f][i] = [op |-> "draw", buffer |-> b] => known

ASSUME ProgramAssumption ==
    \A p \in Programs : p \in Seq(Seq(Operation)) /\ CreatedOnce(p, {})

VARIABLES
    program,     \* the operations of each frame still to be recorded
    frame,       \* FrameFence.GetCurrentFence()
    commands,    \* the commands the command thread has still to execute
    stage,       \* where the command thread is in the end of a frame
    visit,       \* the buddy allocator it frees the blocks of
    ended,       \* the frames it has ended
    location,    \* Location of each buffer
    used,        \* the memory that the commands of the open payload use
    submitted,   \* the payloads the submission thread has still to execute
    queue,       \* what the GPU has still to execute
    completed,   \* the value of the frame fence on the GPU
    small,       \* SmallBlockAllocator.Allocators
    pools,       \* BigBlockAllocator.Pools
    order,       \* PoolAllocationOrder
    operations,  \* FrameFencedOperations
    pages,       \* FastConstantAllocator.Allocators
    fast,        \* the DefaultFastAllocator
    page         \* the page of the TransientConstantBufferAllocator

heapVars == <<small, pools, order, operations>>
pageVars == <<pages, page, fast>>
mainVars == <<program, frame>>
endVars == <<stage, visit, ended>>
gpuVars == <<submitted, queue, completed>>

vars == <<mainVars, commands, endVars, location, used, gpuVars, heapVars,
          pageVars>>

Init ==
    /\ program \in Programs
    /\ frame = 1
    /\ commands = <<>>
    /\ stage = "commands"
    /\ visit = 1
    /\ ended = 0
    /\ location = [b \in Buffers |-> NoBlock]
    /\ used = {}
    /\ submitted = <<>>
    /\ queue = <<>>
    /\ completed = 0
    /\ small = <<>>
    /\ pools = <<>>
    /\ order = <<>>
    /\ operations = <<>>
    /\ pages = {}
    /\ fast = NewFastAllocator
    /\ page = [id |-> 0, updates |-> PageUpdates]

-----------------------------------------------------------------------------
(***************************************************************************)
(* Faults a change to the code could introduce, each in the place of a     *)
(* definition below: DefaultSizeOnly of NewPoolSize, FenceOfFrameBefore of *)
(* RetireFence, NotErased of Remaining, TrimmedInUse of PoolStays.         *)
(***************************************************************************)

\* CreateNewPool makes no larger pool for a larger request.
DefaultSizeOnly(size) == DefaultPoolSize

\* Memory is given back with the fence of the last complete frame.
FenceOfFrameBefore == frame - 1

\* What was freed is not erased.
NotErased(list) == list

\* A pool is trimmed when it is not used, empty or not.
TrimmedInUse(p) == p.last + FrameLag > completed

-----------------------------------------------------------------------------
SmallMemory(a, size, align) ==
    LET block == BlockFor(a, size, align)
    IN  [heap |-> "small", at |-> a.id, block |-> block,
         bytes |-> [offset |-> AlignArbitrary(block.offset * MinBlockSize, align),
                    size |-> size]]

BigMemory(i, block) ==
    [heap |-> "big", at |-> i, block |-> block, bytes |-> block]

FastMemory(block) ==
    [heap |-> "fast", at |-> block.id, block |-> block, bytes |-> block]

PageMemory(id) == [heap |-> "page", at |-> id]

(***************************************************************************)
(* MultiBuddyUploadAllocator::TryAllocate: the first allocator that has    *)
(* room, a new one otherwise.  The number of an allocator stands for its   *)
(* address.                                                                *)
(***************************************************************************)
UnusedNumber(things) ==
    CHOOSE n \in 1..(Cardinality(things) + 1) : \A t \in things : t.id # n

RoomFor(list, size, align) ==
    {i \in DOMAIN list : CanAllocate(list[i], size, align)}

WithRoom(size, align) ==
    IF RoomFor(small, size, align) # {} THEN small
    ELSE Append(small, NewAllocator(UnusedNumber(ToSet(small))))

FirstRoom(list, size, align) ==
    {i \in RoomFor(list, size, align) :
        \A j \in RoomFor(list, size, align) : i <= j}

SmallAllocations(size, align) ==
    LET list == WithRoom(size, align)
    IN  {[small |-> [list EXCEPT ![i] = AllocateBlock(@, size, align)],
          pools |-> pools,
          order |-> order,
          memory |-> SmallMemory(list[i], size, align)] :
            i \in FirstRoom(list, size, align)}

(***************************************************************************)
(* PoolAllocator::TryAllocateInternal: the first pool in the order of      *)
(* allocation that finds a block, a new one otherwise.  CreateNewPool      *)
(* sizes it for the request without its padding.                           *)
(***************************************************************************)
BitCeil(n) == CHOOSE c \in n..(2 * n) : \E k \in 0..n :
                    c = 2 ^ k /\ (k > 0 => 2 ^ (k - 1) < n)

NewPoolSize(size) ==
    IF size <= DefaultPoolSize THEN DefaultPoolSize
    ELSE IF BitCeil(size) <= MaxAllocationSize THEN BitCeil(size)
    ELSE MaxAllocationSize

MayPassOver(i, size, align) ==
    \/ pools[i] = NoPool
    \/ MayMiss(pools[i], GetAlignedSize(size, align))

FromPool(list, newOrder, i, size, align) ==
    {[small |-> small,
      pools |-> [list EXCEPT ![i] = TryAllocate(@, f, size, align)],
      order |-> newOrder,
      memory |-> BigMemory(i, Allocated(f, size, align))] :
        f \in Found(list[i], GetAlignedSize(size, align))}

FromExistingPools(size, align) ==
    UNION {FromPool(pools, order, order[n], size, align) :
            n \in {n \in DOMAIN order :
                    /\ pools[order[n]] # NoPool
                    /\ \A m \in 1..(n - 1) : MayPassOver(order[m], size, align)}}

FirstFreeIndex ==
    CHOOSE i \in 1..(Len(pools) + 1) :
        /\ i <= Len(pools) => pools[i] = NoPool
        /\ \A j \in 1..(i - 1) : pools[j] # NoPool

FromNewPool(size, align) ==
    LET i == FirstFreeIndex
        new == NewPool(NewPoolSize(size))
    IN  IF \A j \in DOMAIN pools : MayPassOver(j, size, align)
        THEN IF i <= Len(pools)
             THEN FromPool([pools EXCEPT ![i] = new], order, i, size, align)
             ELSE FromPool(Append(pools, new), Append(order, i), i, size, align)
        ELSE {}

BigAllocations(size, align) ==
    FromExistingPools(size, align) \cup FromNewPool(size, align)

(***************************************************************************)
(* AllocUploadResource.  The allocators are locked while the command       *)
(* thread cleans them up.                                                  *)
(***************************************************************************)
Fits(size) == size <= SmallMax

Allocations(size, align) ==
    IF Fits(size) THEN SmallAllocations(size, align)
    ELSE BigAllocations(size, align)

Unlocked(size) ==
    IF Fits(size) THEN stage # "small" ELSE stage \notin {"big", "trim pools"}

Takes(a) ==
    /\ small' = a.small
    /\ pools' = a.pools
    /\ order' = a.order

(***************************************************************************)
(* ResourceLocation::Clear gives memory back: Deallocate of the buddy      *)
(* allocator or of the pool allocator.  It is not free before the fence    *)
(* that is current has been passed.                                        *)
(***************************************************************************)
RetireFence == frame

GiveBackSmall(memory) ==
    /\ small' = [i \in DOMAIN small |->
            IF small[i].id # memory.at THEN small[i]
            ELSE [small[i] EXCEPT
                    !.retired = Append(@, [fence |-> RetireFence, memory |-> memory]),
                    !.last = Latest(@, RetireFence)]]
    /\ UNCHANGED <<pools, operations>>

GiveBackBig(memory) ==
    /\ operations' = Append(operations, [fence |-> RetireFence, memory |-> memory])
    /\ pools' = [pools EXCEPT ![memory.at].last = Latest(@, RetireFence)]
    /\ UNCHANGED small

GiveBack(memory) ==
    /\ memory.heap = "small" => GiveBackSmall(memory)
    /\ memory.heap = "big" => GiveBackBig(memory)

-----------------------------------------------------------------------------
(***************************************************************************)
(* The main thread.  It records one frame while the command thread may     *)
(* still be busy with the one before (see RenderThread).                   *)
(***************************************************************************)
MayRecord == ended + 2 >= frame

Records(op) ==
    /\ MayRecord
    /\ program # <<>>
    /\ Head(program) # <<>>
    /\ Head(Head(program)).op = op
    /\ program' = <<Tail(Head(program))>> \o Tail(program)

Buffer == Head(Head(program)).buffer

Enqueue(c) == commands' = Append(commands, c)

\* CreateBuffer of a dynamic buffer; its first Map takes what it has.
CreateBuffer ==
    /\ Records("create")
    /\ Unlocked(Size[Buffer])
    /\ \E a \in Allocations(Size[Buffer], Alignment[Buffer]) :
        /\ Takes(a)
        /\ location' = [location EXCEPT ![Buffer] = a.memory]
    /\ UNCHANGED <<frame, commands, endVars, used, gpuVars, operations,
                   pageVars>>

\* Map of a dynamic buffer: the command thread renames it.
MapBuffer ==
    /\ Records("map")
    /\ Unlocked(Size[Buffer])
    /\ \E a \in Allocations(Size[Buffer], Alignment[Buffer]) :
        /\ Takes(a)
        /\ Enqueue([op |-> "rename", buffer |-> Buffer, memory |-> a.memory])
    /\ UNCHANGED <<frame, endVars, location, used, gpuVars, operations,
                   pageVars>>

\* CreateBuffer with data: the GPU copies it out of the upload heap.
CopyAlignment == 4

FillBuffer ==
    /\ Records("fill")
    /\ Unlocked(Size[Buffer])
    /\ \E a \in Allocations(Size[Buffer], CopyAlignment) :
        /\ Takes(a)
        /\ Enqueue([op |-> "copy", memory |-> a.memory])
    /\ UNCHANGED <<frame, endVars, location, used, gpuVars, operations,
                   pageVars>>

\* A command that creates a buffer with data when it is executed.
LoadBuffer ==
    /\ Records("load")
    /\ Enqueue([op |-> "load", buffer |-> Buffer])
    /\ UNCHANGED <<frame, endVars, location, used, gpuVars, heapVars,
                   pageVars>>

Draw ==
    /\ Records("draw")
    /\ Enqueue([op |-> "draw", buffer |-> Buffer])
    /\ UNCHANGED <<frame, endVars, location, used, gpuVars, heapVars,
                   pageVars>>

(***************************************************************************)
(* ConstantBuffer::Update and a draw with it: FastConstantAllocator takes  *)
(* a part of its page; without room it gives the page back and takes       *)
(* another one.  No page is handed out twice.                              *)
(***************************************************************************)
PageHasRoom == page.updates < PageUpdates

Retired(id) ==
    {IF p.id = id THEN [p EXCEPT !.retire = RetireFence] ELSE p : p \in pages}

UpdateConstants ==
    /\ Records("constants")
    /\ IF PageHasRoom
       THEN /\ page' = [page EXCEPT !.updates = @ + 1]
            /\ UNCHANGED pages
       ELSE /\ stage # "pages"
            /\ page' = [id |-> UnusedNumber(pages), updates |-> 1]
            /\ pages' = Retired(page.id)
                        \cup {[id |-> page'.id, retire |-> NotRetired]}
    /\ Enqueue([op |-> "use", memory |-> PageMemory(page'.id)])
    /\ UNCHANGED <<frame, endVars, location, used, gpuVars, heapVars,
                   fast>>

\* EndFrame and AdvanceFrameFence.
EndFrame ==
    /\ MayRecord
    /\ program # <<>>
    /\ Head(program) = <<>>
    /\ program' = Tail(program)
    /\ frame' = frame + 1
    /\ commands' = commands \o <<[op |-> "end"], [op |-> "signal", fence |-> frame]>>
    /\ UNCHANGED <<endVars, location, used, gpuVars, heapVars, pageVars>>

-----------------------------------------------------------------------------
(***************************************************************************)
(* The command thread.                                                     *)
(***************************************************************************)
Executes(op) ==
    /\ stage = "commands"
    /\ commands # <<>>
    /\ Head(commands).op = op
    /\ commands' = Tail(commands)

ExecuteRename ==
    /\ Executes("rename")
    /\ GiveBack(location[Head(commands).buffer])
    /\ location' = [location EXCEPT ![Head(commands).buffer] = Head(commands).memory]
    /\ UNCHANGED <<mainVars, endVars, used, gpuVars, order, pageVars>>

ExecuteDraw ==
    /\ Executes("draw")
    /\ used' = used \cup {location[Head(commands).buffer]}
    /\ UNCHANGED <<mainVars, endVars, location, gpuVars, heapVars, pageVars>>

ExecuteCopy ==
    /\ Executes("copy")
    /\ used' = used \cup {Head(commands).memory}
    /\ GiveBack(Head(commands).memory)
    /\ UNCHANGED <<mainVars, endVars, location, gpuVars, order, pageVars>>

(***************************************************************************)
(* CreateBuffer with data on the command thread itself: it takes the       *)
(* memory from the fast allocator and copies out of it at once.            *)
(***************************************************************************)
ExecuteLoad ==
    /\ Executes("load")
    /\ LET b == Head(commands).buffer
           served == Serving(fast, Size[b], CopyAlignment, RetireFence, completed)
       IN  /\ fast' = FastAllocate(served, Size[b], CopyAlignment, RetireFence)
           /\ used' = used \cup {FastMemory(FastBlock(served, Size[b], CopyAlignment))}
    /\ UNCHANGED <<mainVars, endVars, location, gpuVars, heapVars, pages, page>>

ExecuteUse ==
    /\ Executes("use")
    /\ used' = used \cup {Head(commands).memory}
    /\ UNCHANGED <<mainVars, endVars, location, gpuVars, heapVars, pageVars>>

\* ManualFence::Signal goes to the queue of the GPU at once.
ExecuteSignal ==
    /\ Executes("signal")
    /\ queue' = Append(queue, [op |-> "signal", fence |-> Head(commands).fence])
    /\ UNCHANGED <<mainVars, endVars, location, used, submitted, completed,
                   heapVars, pageVars>>

ExecuteEnd ==
    /\ Executes("end")
    /\ stage' = "small"
    /\ visit' = 1
    /\ UNCHANGED <<mainVars, ended, location, used, gpuVars, heapVars, pageVars>>

-----------------------------------------------------------------------------
(***************************************************************************)
(* UploadHeapAllocator::CleanUpAllocations.  Each allocator frees from the *)
(* front what was given back in a frame that is complete, and goes itself  *)
(* when it is empty and was not used for FrameLag frames.                  *)
(***************************************************************************)
IsFenceComplete(fence) == fence <= completed

Lagging(last) == last + FrameLag <= completed

MayFree(list) == list # <<>> /\ IsFenceComplete(Head(list).fence)

Remaining(list) == Tail(list)

DeallocateRetired(a) ==
    DeallocateBlock([a EXCEPT !.retired = Remaining(@)],
                    Head(a.retired).memory.block)

\* An iteration of BuddyUploadAllocator::CleanUpAllocations; each reads the fence.
FreeRetired ==
    /\ stage = "small"
    /\ visit <= Len(small)
    /\ MayFree(small[visit].retired)
    /\ small' = [small EXCEPT ![visit] = DeallocateRetired(@)]
    /\ UNCHANGED <<mainVars, commands, endVars, location, used, gpuVars,
                   pools, order, operations, pageVars>>

CleanUpSmall ==
    /\ stage = "small"
    /\ visit <= Len(small)
    /\ ~ MayFree(small[visit].retired)
    /\ visit' = visit + 1
    /\ UNCHANGED <<mainVars, commands, stage, ended, location, used, gpuVars,
                   heapVars, pageVars>>

SmallStays(a) == ~ (NothingUsed(a) /\ Lagging(a.last))

\* The positions in a list that are in I, in their order.
InOrder(I) ==
    {f \in [1..Cardinality(I) -> I] :
        \A j, k \in 1..Cardinality(I) : j < k => f[j] < f[k]}

TrimSmall ==
    /\ stage = "small"
    /\ visit > Len(small)
    /\ \E f \in InOrder({i \in DOMAIN small : SmallStays(small[i])}) :
        small' = [k \in DOMAIN f |-> small[f[k]]]
    /\ stage' = "big"
    /\ UNCHANGED <<mainVars, commands, visit, ended, location, used, gpuVars,
                   pools, order, operations, pageVars>>

\* An iteration of the loop of PoolAllocator::CleanUpAllocations.
FreeOperation ==
    /\ stage = "big"
    /\ MayFree(operations)
    /\ LET memory == Head(operations).memory IN
        pools' = [pools EXCEPT ![memory.at] = Deallocate(@, memory.block)]
    /\ operations' = Remaining(operations)
    /\ UNCHANGED <<mainVars, commands, endVars, location, used, gpuVars, small,
                   order, pageVars>>

CleanUpBig ==
    /\ stage = "big"
    /\ ~ MayFree(operations)
    /\ stage' = "trim pools"
    /\ UNCHANGED <<mainVars, commands, visit, ended, location, used, gpuVars,
                   heapVars, pageVars>>

(***************************************************************************)
(* The pools that stay are put in the order of their sizes, then indices.  *)
(* std::sort leaves open how the places without a pool are ordered.        *)
(***************************************************************************)
PoolStays(p) == ~ (IsEmpty(p) /\ Lagging(p.last))

Precedes(list, i, j) ==
    /\ list[i] # NoPool
    /\ \/ list[j] = NoPool
       \/ list[i].size < list[j].size
       \/ list[i].size = list[j].size /\ i < j

Sorted(list, o) ==
    \A m, n \in DOMAIN o : m < n => ~ Precedes(list, o[n], o[m])

TrimBig ==
    /\ stage = "trim pools"
    /\ pools' = [i \in DOMAIN pools |->
                    IF pools[i] # NoPool /\ PoolStays(pools[i]) THEN pools[i]
                    ELSE NoPool]
    /\ order' \in {o \in [DOMAIN order -> ToSet(order)] :
                    ToSet(o) = ToSet(order) /\ Sorted(pools', o)}
    /\ stage' = "pages"
    /\ UNCHANGED <<mainVars, commands, visit, ended, location, used, gpuVars,
                   small, operations, pageVars>>

PageStays(p) == ~ (p.retire # NotRetired /\ Lagging(p.retire))

TrimPages ==
    /\ stage = "pages"
    /\ pages' = {p \in pages : PageStays(p)}
    /\ stage' = "flush"
    /\ UNCHANGED <<mainVars, commands, visit, ended, location, used, gpuVars,
                   heapVars, page, fast>>

(***************************************************************************)
(* The end of a frame goes on with FlushCommands: the payload is handed to *)
(* the submission thread, which hands it to the GPU.  At last the fast     *)
(* allocator is cleaned up.                                                *)
(***************************************************************************)
FlushCommands ==
    /\ stage = "flush"
    /\ submitted' = Append(submitted, [op |-> "payload", frame |-> ended + 1,
                                       used |-> used])
    /\ used' = {}
    /\ ended' = ended + 1
    /\ stage' = "fast"
    /\ UNCHANGED <<mainVars, commands, visit, location, queue, completed,
                   heapVars, pageVars>>

CleanUpFast ==
    /\ stage = "fast"
    /\ fast' = CleanupPages(fast, completed)
    /\ stage' = "commands"
    /\ UNCHANGED <<mainVars, commands, visit, ended, location, used, gpuVars,
                   heapVars, pages, page>>

ExecutePayload ==
    /\ submitted # <<>>
    /\ queue' = Append(queue, Head(submitted))
    /\ submitted' = Tail(submitted)
    /\ UNCHANGED <<mainVars, commands, endVars, location, used, completed,
                   heapVars, pageVars>>

GpuPayload ==
    /\ queue # <<>>
    /\ Head(queue).op = "payload"
    /\ queue' = Tail(queue)
    /\ UNCHANGED <<mainVars, commands, endVars, location, used, submitted,
                   completed, heapVars, pageVars>>

GpuSignal ==
    /\ queue # <<>>
    /\ Head(queue).op = "signal"
    /\ queue' = Tail(queue)
    /\ completed' = Head(queue).fence
    /\ UNCHANGED <<mainVars, commands, endVars, location, used, submitted,
                   heapVars, pageVars>>

MainThread ==
    \/ CreateBuffer \/ MapBuffer \/ FillBuffer \/ LoadBuffer \/ Draw
    \/ UpdateConstants \/ EndFrame

CommandThread ==
    \/ ExecuteRename \/ ExecuteDraw \/ ExecuteCopy \/ ExecuteLoad
    \/ ExecuteUse \/ ExecuteSignal \/ ExecuteEnd
    \/ FreeRetired \/ CleanUpSmall \/ TrimSmall
    \/ FreeOperation \/ CleanUpBig \/ TrimBig \/ TrimPages
    \/ FlushCommands \/ CleanUpFast

Gpu == GpuPayload \/ GpuSignal

\* All frames are recorded and executed.
Finished ==
    /\ program = <<>> /\ commands = <<>> /\ stage = "commands"
    /\ submitted = <<>> /\ queue = <<>>
    /\ UNCHANGED vars

Next == MainThread \/ CommandThread \/ ExecutePayload \/ Gpu \/ Finished

Spec == Init /\ [][Next]_vars

-----------------------------------------------------------------------------
(***************************************************************************)
(* Who holds memory, and who still uses it.                                *)
(***************************************************************************)
Carried == {c.memory : c \in {c \in ToSet(commands) : c.op \in {"rename", "copy"}}}

Owned == ({location[b] : b \in Buffers} \cup Carried) \ {NoBlock}

RetiredSmall ==
    UNION {{r.memory : r \in ToSet(a.retired)} : a \in ToSet(small)}

RetiredBig == {o.memory : o \in ToSet(operations)}

Held ==
    Owned \cup RetiredSmall \cup RetiredBig
    \cup {PageMemory(p.id) : p \in pages}

\* The payloads that the GPU has not executed, the open one among them.
Unexecuted ==
    ToSet(submitted) \cup {q \in ToSet(queue) : q.op = "payload"}
    \cup {[op |-> "payload", frame |-> ended + 1, used |-> used]}

HeldFrom(heap, at) == {m \in Held : m.heap = heap /\ m.at = at}

Existing(m) ==
    \/ m.heap = "small" /\ \E a \in ToSet(small) : a.id = m.at
    \/ m.heap = "big" /\ m.at \in DOMAIN pools /\ pools[m.at] # NoPool
    \/ m.heap = "page" /\ \E p \in pages : p.id = m.at

-----------------------------------------------------------------------------
TypeOK ==
    /\ frame \in Nat \ {0}
    /\ stage \in {"commands", "small", "big", "trim pools", "pages", "flush",
                 "fast"}
    /\ completed <= ended /\ ended < frame
    /\ \A a \in ToSet(small) : a.used \in 0..MaxBlockSize
    /\ \A i \in DOMAIN pools :
        pools[i] # NoPool => pools[i].freeSize \in 0..pools[i].size
    /\ ToSet(order) = DOMAIN pools /\ Len(order) = Len(pools)

(***************************************************************************)
(* No byte of the upload heap has two holders, neither of the blocks of    *)
(* the buddy allocators nor of those of the pools: what one command writes *)
(* or the GPU reads is never the memory of another one.                    *)
(***************************************************************************)
NoOverlap ==
    \A m, n \in Held :
        m # n /\ m.heap = n.heap /\ m.at = n.at => ~ Overlap(m.bytes, n.bytes)

(***************************************************************************)
(* The free blocks of a pool are what its blocks in use leave: none is     *)
(* lost, none belongs to a block in use, no two could be one, and FreeSize *)
(* is their sum (TryAllocate, Deallocate and AddToFreeBlocks keep three    *)
(* records of the same fact).                                              *)
(***************************************************************************)
InUse(i) == {Taken(m.block) : m \in HeldFrom("big", i)}

FreeListExact(i) ==
    /\ Disjoint(pools[i].free \cup InUse(i))
    /\ pools[i].free \cap InUse(i) = {}
    /\ Bytes(pools[i].free \cup InUse(i)) = 0..(pools[i].size - 1)
    /\ pools[i].freeSize = TotalSize(pools[i].free)
    /\ \A f, g \in pools[i].free : End(f) # g.offset

PoolsExact == \A i \in DOMAIN pools : pools[i] # NoPool => FreeListExact(i)

(***************************************************************************)
(* The blocks of a buddy allocator, free or in use, are disjoint and make  *)
(* up all but its first unit, which holds its lists; TotalSizeUsed counts  *)
(* those in use.  Splitting and freeing blocks must neither lose a half    *)
(* nor list it twice.                                                      *)
(***************************************************************************)
Units(offset, k) == [offset |-> offset, size |-> OrderToUnitSize(k)]

FreeUnits(a) ==
    UNION {{Units(offset, k) : offset \in ToSet(a.free[k])} : k \in Order}

UsedUnits(a) ==
    {Units(m.block.offset, m.block.order) : m \in HeldFrom("small", a.id)}

BuddyExact(a) ==
    /\ Disjoint(FreeUnits(a) \cup UsedUnits(a) \cup {Units(0, 0)})
    /\ FreeUnits(a) \cap UsedUnits(a) = {}
    /\ Bytes(FreeUnits(a) \cup UsedUnits(a)) = 1..(2 ^ MaxOrder - 1)
    /\ \A k \in Order : IsInjective(a.free[k])
    /\ a.used = (TotalSize(UsedUnits(a)) + 1) * MinBlockSize

BuddiesExact == \A a \in ToSet(small) : BuddyExact(a)

(***************************************************************************)
(* An allocator, pool or page is trimmed only when nobody holds memory of  *)
(* it, on the CPU or among what was given back.                            *)
(***************************************************************************)
NeededStay == \A m \in Held : Existing(m)

(***************************************************************************)
(* An allocation never fails, since a new allocator or pool is made for a  *)
(* request the existing ones cannot serve.                                 *)
(***************************************************************************)
Requests ==
    {<<Size[b], Alignment[b]>> : b \in Buffers}
    \cup {<<Size[b], CopyAlignment>> : b \in Buffers}

NeverRefused ==
    \A r \in Requests : Allocations(r[1], r[2]) # {}

(***************************************************************************)
(* Memory that a payload uses is not free before the fence of the frame    *)
(* that recorded the payload has been passed, even when the main thread    *)
(* takes the fence value of one frame and the command thread still         *)
(* executes the one before.                                                *)
(***************************************************************************)
HeldUntilFence ==
    \A w \in Unexecuted :
        w.frame > completed => \A m \in w.used : m.heap # "fast" => m \in Held

(***************************************************************************)
(* The same of the pages of the fast allocator, which nobody gives back:   *)
(* a page is neither reset nor deleted before the fence of the last frame  *)
(* that uses it has been passed.                                           *)
(***************************************************************************)
FastUntilFence ==
    \A w \in Unexecuted :
        w.frame > completed =>
            \A m \in w.used : m.heap = "fast" => Keeps(fast, m.block)

(***************************************************************************)
(* Memory that a payload uses is not free before the GPU has executed the  *)
(* payload.                                                                *)
(***************************************************************************)
HeldUntilExecuted ==
    \A w \in Unexecuted : \A m \in w.used : m.heap # "fast" => m \in Held

=============================================================================
