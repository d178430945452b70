---------------------------- MODULE MCSubmission ----------------------------
(***************************************************************************)
(* Small instances of Submission: the graphics and the async compute queue *)
(* of one device, two engine threads, up to three payloads.                *)
(***************************************************************************)
EXTENDS Submission, TLC

CONSTANTS direct, async, t1, t2, p1, p2, p3

MCQueueOrder == <<direct, async>>
MCGraphicsQueue == (direct :> direct @@ async :> direct)

Item(q, w, l, b) == [queue |-> q, waits |-> w, lists |-> l, barrier |-> b]

MCQueue == {direct, async}
MCEngineThread == {t1, t2}
MCPayload == {p1, p2, p3}

Silent == {{}}
Waiting == {{"submission"}}
Either == {{}, {"submission"}}
Blocking == {{"completion"}}

(***************************************************************************)
(* Two threads with one payload each: p1 works, with or without barriers;  *)
(* p2 waits on it, and once p1 on p2 as well.                              *)
(***************************************************************************)
Pair(flags, a, b) ==
    [program |-> t1 :> <<p1>> @@ t2 :> <<p2>>,
     contents |-> p1 :> a @@ p2 :> b @@ p3 :> b,
     flags |-> flags]

Circle ==
    Pair(Waiting, Item(direct, <<p2>>, TRUE, FALSE),
         Item(async, <<p1>>, TRUE, TRUE))
SameQueue ==
    Pair(Waiting, Item(direct, <<>>, TRUE, FALSE),
         Item(direct, <<p1>>, TRUE, FALSE))
TwoQueues(flags) ==
    Pair(flags, Item(direct, <<>>, TRUE, FALSE),
         Item(async, <<p1>>, TRUE, TRUE))

(***************************************************************************)
(* Three payloads recorded by one thread, flushed together or one by one.  *)
(***************************************************************************)
Chain(flags, a, b, c) ==
    [program |-> t1 :> <<p1, p2, p3>> @@ t2 :> <<>>,
     contents |-> p1 :> a @@ p2 :> b @@ p3 :> c,
     flags |-> flags]

(***************************************************************************)
(* Barrier work on the graphics queue while that queue is blocked on a     *)
(* payload that is still to come.                                          *)
(***************************************************************************)
BlockedGraphics ==
    Chain(Either, Item(async, <<>>, TRUE, TRUE),
          Item(direct, <<p3>>, TRUE, FALSE),
          Item(async, <<p1>>, TRUE, TRUE))

(***************************************************************************)
(* Two sync points of one queue awaited in the other order.                *)
(***************************************************************************)
LatestFirst ==
    Chain(Waiting, Item(async, <<>>, TRUE, FALSE),
          Item(async, <<>>, TRUE, FALSE),
          Item(direct, <<p2, p1>>, TRUE, FALSE))

(***************************************************************************)
(* A payload that only waits and signals between two that work.            *)
(***************************************************************************)
Relay ==
    Chain(Silent, Item(direct, <<>>, TRUE, FALSE),
          Item(async, <<p1>>, FALSE, FALSE),
          Item(direct, <<p2>>, TRUE, FALSE))

(***************************************************************************)
(* A payload that only waits, and the work that relies on it.              *)
(***************************************************************************)
WaitOnly ==
    Chain(Waiting, Item(async, <<>>, TRUE, FALSE),
          Item(direct, <<p1>>, FALSE, FALSE),
          Item(direct, <<>>, TRUE, FALSE))

(***************************************************************************)
(* One context's flush, the last payload without command lists.            *)
(***************************************************************************)
SignalLast ==
    Chain(Silent, Item(direct, <<>>, TRUE, FALSE),
          Item(direct, <<p1>>, TRUE, FALSE),
          Item(direct, <<>>, FALSE, FALSE))

(***************************************************************************)
(* A payload whose signaller is behind it in its own queue, which also has *)
(* barrier work to do for another one.                                     *)
(***************************************************************************)
WaitsBehind ==
    Chain(Silent, Item(async, <<>>, TRUE, TRUE),
          Item(direct, <<p3>>, TRUE, FALSE),
          Item(direct, <<p1>>, TRUE, FALSE))

PipeWorkloads ==
    {Circle, SameQueue, TwoQueues(Waiting),
     LatestFirst, Relay, WaitOnly, SignalLast, WaitsBehind}
FlushWorkloads == {TwoQueues(Blocking)}
BarrierWorkloads == {BlockedGraphics}

=============================================================================
