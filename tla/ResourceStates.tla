--------------------------- MODULE ResourceStates ---------------------------
(***************************************************************************)
(* The states of Direct3D resources: what the context records of them      *)
(* while a command list is open (CommandList.d3d12.cpp, CResourceState in  *)
(* ResourceHolder.h), the barriers it batches, and those the submission    *)
(* thread puts in front of a list once it knows the states the lists       *)
(* before it leave (GenerateBarrierCommandListAndUpdateState).             *)
(*                                                                         *)
(* Three actors: the thread that records on the default context, the       *)
(* submission thread, the graphics queue.  A state is a set of flags, as   *)
(* in the code; the flags of the two kinds of shader resource are always   *)
(* requested together and are one flag here.                               *)
(***************************************************************************)
EXTENDS Integers, FiniteSets, Sequences, SequencesExt

CONSTANTS
    Resource,       \* the resources whose states are tracked
    Count,          \* Count[r]: how many subresources r has
    DepthStencil,   \* the resources with a depth and a stencil plane
    Buffer,         \* the resources created with initial data
    Created,        \* Created[r]: the state r is created in
    Command,        \* the commands the context is asked for
    Requests(_),    \* Requests(c): the sequence of requests c consists of
    BackBuffer,     \* the resource that is presented
    MaxCommands     \* a bound: how many commands are recorded

ReadStates == {"VERTEX_AND_CONSTANT_BUFFER", "INDEX_BUFFER", "SHADER_RESOURCE",
               "INDIRECT_ARGUMENT", "COPY_SOURCE"}
Flags == {"RENDER_TARGET", "UNORDERED_ACCESS", "DEPTH_WRITE", "DEPTH_READ",
          "COPY_DEST"} \cup ReadStates

ASSUME CountAssumption == /\ Count \in [Resource -> Nat \ {0}]
                          /\ \A r \in DepthStencil : Count[r] = 2
                          /\ \A r \in Buffer \cup {BackBuffer} : Count[r] = 1

ASSUME ResourceAssumption == /\ DepthStencil \cup Buffer \subseteq Resource
                             /\ BackBuffer \in Resource \ Buffer
                             /\ Created \in [Resource -> SUBSET Flags]
                             /\ \A r \in Buffer : Created[r] = {"COPY_DEST"}
                             /\ MaxCommands \in Nat

VARIABLES
    asserts,        \* whether the build evaluates its assertions
    context,        \* the open list and the batch of barriers not yet in it
    closed,         \* the closed lists of the payload being built
    submitted,      \* the lists handed to the submission thread
    onResource,     \* the states tracked over all lists (ResourceState)
    queue,          \* what the graphics queue has not executed yet
    actual,         \* the states the resources are in on the GPU
    ready,          \* the buffers whose initial data was recorded
    waiting,        \* whether SwapBuffers waits for its submission
    recorded        \* how many commands were recorded

vars == <<asserts, context, closed, submitted, onResource, queue, actual,
          ready, waiting, recorded>>

Sub(r) == 0 .. Count[r] - 1
Subresources(r) == [n \in 1 .. Count[r] |-> n - 1]
All == -1
Affected(r, i) == IF i = All THEN Sub(r) ELSE {i}

-----------------------------------------------------------------------------
(***************************************************************************)
(* CResourceState: one state for the whole resource, or one for each       *)
(* subresource.  What is not valid is filled with CORRUPT, as in builds    *)
(* with assertions; other builds leave it, and must not read it either.    *)
(***************************************************************************)
COMMON == {}
TBD == {"TBD"}
CORRUPT == {"CORRUPT"}

SetResourceState(rs, state) ==
    [same |-> TRUE, whole |-> state, subs |-> [i \in DOMAIN rs.subs |-> CORRUPT]]

Initialize(r, state) ==
    SetResourceState([subs |-> [i \in Sub(r) |-> TBD]], state)

AreAllSubresourcesSame(rs) == rs.same /\ rs.whole # TBD

GetSubresourceState(rs, i) == IF rs.same THEN rs.whole ELSE rs.subs[i]

Spread(rs) == IF rs.same THEN [i \in DOMAIN rs.subs |-> rs.whole] ELSE rs.subs

SetSubresourceState(rs, i, state) ==
    IF i = All \/ Cardinality(DOMAIN rs.subs) = 1
    THEN SetResourceState(rs, state)
    ELSE [same |-> FALSE, whole |-> CORRUPT,
          subs |-> [Spread(rs) EXCEPT ![i] = state]]

(***************************************************************************)
(* It is called inside assertions only, and joins equal states.            *)
(***************************************************************************)
CheckAllSubresourceSame(rs) ==
    IF asserts /\ ~rs.same /\ \A i \in DOMAIN rs.subs : rs.subs[i] = rs.subs[0]
    THEN SetResourceState(rs, rs.subs[0])
    ELSE rs

-----------------------------------------------------------------------------
(***************************************************************************)
(* ResourceBarrierBatcher: a transition that undoes the last one removes   *)
(* it, one that continues it replaces it.                                  *)
(***************************************************************************)
Transition(r, i, before, after) ==
    [kind |-> "Transition", resource |-> r, sub |-> i,
     before |-> before, after |-> after]
UAVBarrier == [kind |-> "UAV"]

\* A variant with a plausible mistake: the combined transition keeps the newer
\* state before it (not used).
CombinedFromTheMiddle(batch, r, before, after, i) ==
    LET last == Last(batch)
    IN IF /\ batch # <<>> /\ last.kind = "Transition"
          /\ last.resource = r /\ last.sub = i /\ last.after = before
       THEN Append(Front(batch), Transition(r, i, before, after))
       ELSE Append(batch, Transition(r, i, before, after))

AddTransition(batch, r, before, after, i) ==
    LET last == Last(batch)
        follows == /\ batch # <<>> /\ last.kind = "Transition"
                   /\ last.resource = r /\ last.sub = i /\ last.after = before
    IN IF follows /\ last.before = after THEN Front(batch)
       ELSE IF follows
            THEN Append(Front(batch), Transition(r, i, last.before, after))
            ELSE Append(batch, Transition(r, i, before, after))

-----------------------------------------------------------------------------
(***************************************************************************)
(* The context: `tracked' holds the states on the open list, TBD for what  *)
(* the list has not touched; `pending' the states the list expects at its  *)
(* beginning.  A list is opened by the first call that needs it.           *)
(***************************************************************************)
Closed(batch) ==
    [open |-> FALSE, tracked |-> [r \in Resource |-> Initialize(r, TBD)],
     pending |-> <<>>, commands |-> <<>>, batch |-> batch]

GetCommandList(c) == [c EXCEPT !.open = TRUE]

FlushResourceBarriers(c) ==
    IF c.batch = <<>> THEN c
    ELSE [GetCommandList(c) EXCEPT !.commands = @ \o c.batch, !.batch = <<>>]

Track(c, r, i, state) ==
    [c EXCEPT !.tracked[r] = SetSubresourceState(@, i, state)]

AddPendingResourceBarrier(c, r, after, i) ==
    Track([c EXCEPT !.pending =
               Append(@, [resource |-> r, state |-> after, sub |-> i])],
          r, i, after)

AddTransitionBarrier(c, r, before, after, i) ==
    Track(IF before = after THEN c
          ELSE [c EXCEPT !.batch = AddTransition(@, r, before, after, i)],
          r, i, after)

(***************************************************************************)
(* IsTransitionNeeded: reads are merged with reads, and DEPTH_WRITE serves *)
(* for DEPTH_READ.                                                         *)
(***************************************************************************)
GENERIC_READ == ReadStates
Merged(before, after) ==
    IF after # COMMON /\ before \cup after \subseteq ReadStates
    THEN before \cup after ELSE after

IsTransitionNeeded(before, after) ==
    /\ ~(before = {"DEPTH_WRITE"} /\ after = {"DEPTH_READ"})
    /\ after = COMMON \/ before # Merged(before, after)

(***************************************************************************)
(* TransitionResource for one subresource, or for all of them at once.     *)
(***************************************************************************)
\* A variant with a plausible mistake: when no barrier is needed, the last
\* request is tracked, not what it is merged with (not used).
TrackedAsRequested(c, r, i, after, force) ==
    LET before == GetSubresourceState(c.tracked[r], i)
    IN IF before = TBD THEN AddPendingResourceBarrier(c, r, after, i)
       ELSE IF force /\ before # after
            THEN AddTransitionBarrier(c, r, before, after, i)
       ELSE IF IsTransitionNeeded(before, after)
            THEN AddTransitionBarrier(c, r, before, Merged(before, after), i)
       ELSE Track(c, r, i, after)

TransitionSubresource(c, r, i, after, force) ==
    LET before == GetSubresourceState(c.tracked[r], i)
    IN IF before = TBD THEN AddPendingResourceBarrier(c, r, after, i)
       ELSE IF force /\ before # after
            THEN AddTransitionBarrier(c, r, before, after, i)
       ELSE IF IsTransitionNeeded(before, after)
            THEN AddTransitionBarrier(c, r, before, Merged(before, after), i)
       ELSE Track(c, r, i, Merged(before, after))

EachSubresource(c, r, subset, after, force) ==
    FoldLeft(LAMBDA d, i : IF i \in subset
                           THEN TransitionSubresource(d, r, i, after, force) ELSE d,
             c, Subresources(r))

Joined(c, r) == [c EXCEPT !.tracked[r] = CheckAllSubresourceSame(@)]

TransitionView(context_, r, subset, after) ==
    LET c == GetCommandList(context_)
        each == EachSubresource(c, r, subset, after, FALSE)
    IN IF subset = Sub(r) /\ AreAllSubresourcesSame(c.tracked[r])
       THEN TransitionSubresource(c, r, All, after, FALSE)
       ELSE IF /\ subset = Sub(r)
               /\ \A i \in subset :
                      GetSubresourceState(each.tracked[r], i) = after
            THEN Joined(each, r) ELSE each

TransitionIndex(context_, r, i, after) ==
    LET c == GetCommandList(context_)
    IN IF i = All /\ ~AreAllSubresourcesSame(c.tracked[r])
       THEN Joined(EachSubresource(c, r, Sub(r), after, TRUE), r)
       ELSE TransitionSubresource(c, r, i, after, FALSE)

-----------------------------------------------------------------------------
(***************************************************************************)
(* What the bindings of a command request, in the order the code asks for  *)
(* it: a request for a view, for an index, or to flush the batch.          *)
(***************************************************************************)
View(r, subset, after) ==
    [how |-> "View", resource |-> r, subset |-> subset, after |-> after]
Index(r, i, after) == [how |-> "Index", resource |-> r, sub |-> i, after |-> after]
Flush == [how |-> "Flush"]

AsRenderTarget(r, mip) == Index(r, mip, {"RENDER_TARGET"})
AsUnorderedAccess(r, mip) == Index(r, mip, {"UNORDERED_ACCESS"})
AsShaderResource(r, subset) ==
    View(r, subset, IF r \in DepthStencil THEN {"SHADER_RESOURCE", "DEPTH_READ"}
                    ELSE {"SHADER_RESOURCE"})
AsVertexBuffer(r) == Index(r, All, {"VERTEX_AND_CONSTANT_BUFFER"})
AsIndexBuffer(r) == Index(r, All, {"INDEX_BUFFER"})
AsArguments(r) == Index(r, All, {"INDIRECT_ARGUMENT"})
AsDepthStencil(r) == <<View(r, {0}, {"DEPTH_WRITE"}), View(r, {1}, {"DEPTH_WRITE"})>>
ClearedPlanes(r, planes) == View(r, planes, {"DEPTH_WRITE"})

Draw(requests) == requests \o <<Flush>>
\* A variant with a plausible mistake: the transition of the arguments stays
\* in the batch (not used).
ArgumentsNotFlushed(requests, r) == Draw(requests) \o <<AsArguments(r)>>

DrawIndirect(requests, r) == Draw(requests) \o <<AsArguments(r), Flush>>

\* The requests there are: what a command may consist of.
RequestStates == {{"RENDER_TARGET"}, {"UNORDERED_ACCESS"}, {"DEPTH_WRITE"},
                  {"SHADER_RESOURCE"}, {"SHADER_RESOURCE", "DEPTH_READ"},
                  {"VERTEX_AND_CONSTANT_BUFFER"}, {"INDEX_BUFFER"},
                  {"INDIRECT_ARGUMENT"}}
Views(r, states) == {View(r, subset, after) :
                         subset \in SUBSET Sub(r) \ {{}}, after \in states}
Indexes(r, states) == {Index(r, i, after) :
                           i \in Sub(r) \cup {All}, after \in states}
Requested == {Flush} \cup UNION {Views(r, RequestStates) \cup
                                    Indexes(r, RequestStates) : r \in Resource}

ASSUME CommandAssumption == \A c \in Command : Requests(c) \in Seq(Requested)

Request(c, request) ==
    CASE request.how = "View" ->
            TransitionView(c, request.resource, request.subset, request.after)
      [] request.how = "Index" ->
            TransitionIndex(c, request.resource, request.sub, request.after)
      [] OTHER -> FlushResourceBarriers(c)

Needs(requests) ==
    LET R == {q \in ToSet(requests) : q.how # "Flush"}
        Subs(q) == IF q.how = "View" THEN q.subset ELSE Affected(q.resource, q.sub)
    IN UNION {{[resource |-> q.resource, sub |-> i, state |-> q.after] :
                   i \in Subs(q)} : q \in R}
Use(needs) == [kind |-> "Use", needs |-> needs]

(***************************************************************************)
(* A command on the context: its requests, then the call that executes it. *)
(***************************************************************************)
Performed(c, requests) ==
    [GetCommandList(FoldLeft(Request, c, requests)) EXCEPT
        !.commands = Append(@, Use(Needs(requests)))]

-----------------------------------------------------------------------------
Init ==
    /\ asserts \in BOOLEAN
    /\ context = Closed(<<>>)
    /\ closed = <<>>
    /\ submitted = <<>>
    /\ onResource = [r \in Resource |-> Initialize(r, Created[r])]
    /\ queue = <<>>
    /\ actual = [r \in Resource |-> [i \in Sub(r) |-> Created[r]]]
    /\ ready = {}
    /\ waiting = FALSE
    /\ recorded = 0

Recording ==
    ~waiting /\ recorded < MaxCommands /\ recorded' = recorded + 1

(***************************************************************************)
(* A draw, a dispatch or a clear.  A buffer is known to its users only     *)
(* after the command that fills it.                                        *)
(***************************************************************************)
Record(c) ==
    /\ Recording
    /\ \A q \in ToSet(Requests(c)) :
           q.how # "Flush" /\ q.resource \in Buffer => q.resource \in ready
    /\ context' = Performed(context, Requests(c))
    /\ UNCHANGED <<asserts, closed, submitted, onResource, queue, actual, ready,
                   waiting>>

(***************************************************************************)
(* CloseCommandList flushes the batch into the list it closes.             *)
(***************************************************************************)
CloseCommandList(c) ==
    LET flushed == FlushResourceBarriers(c)
    IN [tracked |-> flushed.tracked, pending |-> flushed.pending,
        commands |-> flushed.commands]

(***************************************************************************)
(* The initial data of a buffer created in COPY_DEST.  The transition out  *)
(* of it names the state without asking what is tracked, and stays in the  *)
(* batch; then the list may be split.                                      *)
(***************************************************************************)
InitializeBuffer(r, split) ==
    LET copied == [GetCommandList(FlushResourceBarriers(context)) EXCEPT
                      !.commands = Append(@, Use({[resource |-> r, sub |-> 0,
                                                   state |-> {"COPY_DEST"}]}))]
        c == AddTransitionBarrier(copied, r, {"COPY_DEST"}, GENERIC_READ, All)
    IN /\ Recording
       /\ r \notin ready
       /\ ready' = ready \cup {r}
       /\ context' = IF split THEN Closed(<<>>) ELSE c
       /\ closed' = IF split THEN Append(closed, CloseCommandList(c)) ELSE closed
       /\ UNCHANGED <<asserts, submitted, onResource, queue, actual, waiting>>

(***************************************************************************)
(* ExecuteUAVBarrier puts a barrier in the batch, and opens no list.       *)
(***************************************************************************)
AddUAVBarrier ==
    /\ Recording
    /\ context' = [context EXCEPT !.batch = Append(@, UAVBarrier)]
    /\ UNCHANGED <<asserts, closed, submitted, onResource, queue, actual, ready,
                   waiting>>

(***************************************************************************)
(* FlushCommands closes the list, if one is open, and submits the payload. *)
(***************************************************************************)
FlushCommands(c) ==
    LET lists == IF c.open THEN Append(closed, CloseCommandList(c)) ELSE closed
    IN /\ submitted' = submitted \o lists
       /\ closed' = <<>>
       /\ context' = IF c.open THEN Closed(<<>>) ELSE c
       /\ UNCHANGED <<asserts, onResource, queue, actual, ready>>

EndFrame ==
    /\ ~waiting
    /\ context.open \/ context.batch # <<>> \/ closed # <<>>
    /\ FlushCommands(FlushResourceBarriers(context))
    /\ UNCHANGED <<waiting, recorded>>

(***************************************************************************)
(* SwapBuffers waits until its list is submitted; the display reads the    *)
(* back buffer after the list.                                             *)
(***************************************************************************)
SwapBuffers ==
    /\ Recording
    /\ waiting' = TRUE
    /\ FlushCommands(Performed(context, <<Index(BackBuffer, 0, COMMON), Flush>>))

-----------------------------------------------------------------------------
(***************************************************************************)
(* The submission thread takes the next list, brings the resources from    *)
(* the states tracked so far to those the list expects, and then tracks    *)
(* the states the list leaves.                                             *)
(***************************************************************************)
\* A variant with a plausible mistake: a barrier for a state the resource is
\* already in (not used).
AlwaysPending(batch, pending) ==
    AddTransition(batch, pending.resource,
                  GetSubresourceState(onResource[pending.resource], pending.sub),
                  pending.state, pending.sub)

PendingBarrier(batch, pending) ==
    LET before == GetSubresourceState(onResource[pending.resource], pending.sub)
    IN IF before # pending.state
       THEN AddTransition(batch, pending.resource, before, pending.state,
                          pending.sub)
       ELSE batch

\* A variant with a plausible mistake: what the list has not touched is copied
\* too (not used).
UntouchedCopied(r, rs, list) ==
    IF AreAllSubresourcesSame(list) THEN SetResourceState(rs, list.whole)
    ELSE FoldLeft(LAMBDA s, i : SetSubresourceState(s, i, GetSubresourceState(list, i)),
                  rs, Subresources(r))

StateAfter(r, rs, list) ==
    IF AreAllSubresourcesSame(list) THEN SetResourceState(rs, list.whole)
    ELSE FoldLeft(LAMBDA s, i :
                      IF GetSubresourceState(list, i) = TBD THEN s
                      ELSE SetSubresourceState(s, i, GetSubresourceState(list, i)),
                  rs, Subresources(r))

GenerateBarrierCommandListAndUpdateState ==
    /\ submitted # <<>>
    /\ LET list == Head(submitted)
       IN /\ queue' = queue \o FoldLeft(PendingBarrier, <<>>, list.pending)
                            \o list.commands
          /\ onResource' = [r \in Resource |->
                               StateAfter(r, onResource[r], list.tracked[r])]
    /\ submitted' = Tail(submitted)
    /\ waiting' = (waiting /\ submitted' # <<>>)
    /\ UNCHANGED <<asserts, context, closed, actual, ready, recorded>>

(***************************************************************************)
(* The graphics queue executes barriers and commands in order.             *)
(***************************************************************************)
Executed(states, op) ==
    IF op.kind # "Transition" THEN states
    ELSE [states EXCEPT ![op.resource] =
             [i \in DOMAIN @ |-> IF i \in Affected(op.resource, op.sub)
                                 THEN op.after ELSE @[i]]]

Execute ==
    /\ queue # <<>>
    /\ actual' = Executed(actual, Head(queue))
    /\ queue' = Tail(queue)
    /\ UNCHANGED <<asserts, context, closed, submitted, onResource, ready, waiting,
                   recorded>>

Next ==
    \/ \E c \in Command : Record(c)
    \/ \E r \in Buffer, split \in BOOLEAN : InitializeBuffer(r, split)
    \/ AddUAVBarrier
    \/ EndFrame
    \/ SwapBuffers
    \/ GenerateBarrierCommandListAndUpdateState
    \/ Execute

Spec == Init /\ [][Next]_vars

-----------------------------------------------------------------------------
(***************************************************************************)
(* The variables keep their types: a list starts from states it does not   *)
(* know, the tracked states of the resources are known, nothing is         *)
(* recorded on a list that is not open, and SwapBuffers waits only for a   *)
(* submission that is still to come.                                       *)
(***************************************************************************)
TypeOK ==
    /\ asserts \in BOOLEAN
    /\ \A r \in Resource, i \in 0 .. 1 :
           i \in Sub(r) =>
               /\ GetSubresourceState(onResource[r], i) \subseteq Flags
               /\ actual[r][i] \subseteq Flags
               /\ \/ GetSubresourceState(context.tracked[r], i) = TBD
                  \/ GetSubresourceState(context.tracked[r], i) \subseteq Flags
    /\ ~context.open => context.pending = <<>> /\ context.commands = <<>>
    /\ ready \subseteq Buffer
    /\ waiting => submitted # <<>>
    /\ recorded \in 0 .. MaxCommands

(***************************************************************************)
(* Every transition the graphics queue comes to starts from the state the  *)
(* resource is in, whichever lists recorded the transitions before it and  *)
(* whenever the submission thread came to them.                            *)
(***************************************************************************)
BarriersMatch ==
    queue # <<>> /\ Head(queue).kind = "Transition" =>
        \A i \in Affected(Head(queue).resource, Head(queue).sub) :
            actual[Head(queue).resource][i] = Head(queue).before

(***************************************************************************)
(* A command finds each resource in a state that allows its use: the very  *)
(* state to write it, to present it or to copy to it, at least the flags   *)
(* it asked for to read it, though reads are merged, barriers are combined *)
(* and lists are split between the request and the use.                    *)
(***************************************************************************)
Allows(state, need) ==
    IF need # COMMON /\ need \subseteq ReadStates THEN need \subseteq state
    ELSE state = need
UsesFindState ==
    queue # <<>> /\ Head(queue).kind = "Use" =>
        \A n \in Head(queue).needs : Allows(actual[n.resource][n.sub], n.state)

(***************************************************************************)
(* What is tracked on the resources is what the GPU will have made of them *)
(* when it has executed what it was given: the lists' own records of the   *)
(* states they leave are exact, whole or by subresource.                   *)
(***************************************************************************)
TrackingExact ==
    LET final == FoldLeft(Executed, actual, queue)
    IN \A r \in Resource : \A i \in Sub(r) :
           GetSubresourceState(onResource[r], i) = final[r][i]

(***************************************************************************)
(* Every barrier recorded or batched changes the state, and names states   *)
(* that are known: neither TBD nor CORRUPT reaches the driver, nor a list  *)
(* of what must be known at submission (asserted in AddTransition and in   *)
(* GenerateBarrierCommandListAndUpdateState).                              *)
(***************************************************************************)
BarriersLegal ==
    LET ops == context.batch \o context.commands \o queue
    IN /\ \A k \in DOMAIN ops : ops[k].kind = "Transition" =>
              /\ ops[k].before # ops[k].after
              /\ ops[k].before \cup ops[k].after \subseteq Flags
       /\ \A k \in DOMAIN context.pending :
              context.pending[k].state \subseteq Flags

=============================================================================
