--------------------------- MODULE MCTaskScheduler --------------------------
(***************************************************************************)
(* Small instances of TaskScheduler: two or three pool threads, one thread *)
(* outside the pool, three or five operations.                             *)
(***************************************************************************)
EXTENDS TaskScheduler, TLC

CONSTANTS x1, o1, o2, o3, o4, o5

AgendaOf(f) ==
    [x \in External \cup Operation |-> IF x \in DOMAIN f THEN f[x] ELSE <<>>]

(***************************************************************************)
(* One coroutine starts three others, more than the ring of two slots      *)
(* holds, while a thread outside the pool pushes another one.              *)
(***************************************************************************)
OneExternal == {x1}
FiveOperations == {o1, o2, o3, o4, o5}
ForkAgenda == AgendaOf(x1 :> <<o1, o5>> @@ o1 :> <<o2, o3, o4>>)

(***************************************************************************)
(* Few operations, for more threads.                                       *)
(***************************************************************************)
ThreeOperations == {o1, o2, o3}
PairAgenda == AgendaOf(x1 :> <<o1>> @@ o1 :> <<o2, o3>>)

=============================================================================
