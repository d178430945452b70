------------------------------ MODULE WorkPool ------------------------------
(***************************************************************************)
(* What Engine/Core/Threading/TaskScheduler.cpp promises, whatever the     *)
(* interleaving of its threads: a common inbox that hands its operations   *)
(* out in the order they came, a deque per worker from whose one end the   *)
(* worker takes its latest operation and from whose other end the other    *)
(* workers steal, and every operation resumed once, by one worker.         *)
(***************************************************************************)
EXTENDS Sequences, SequencesExt

CONSTANTS
    Operation,   \* the schedule_operations of the program
    Worker,      \* the pool's threads
    None         \* no operation

VARIABLES
    inbox,       \* operations no worker has taken yet, the oldest first
    deque,       \* the operations each worker keeps, the oldest first
    hand,        \* the operation each worker is about to resume
    resumed      \* the operations that have been resumed

vars == <<inbox, deque, hand, resumed>>

Init ==
    /\ inbox = <<>>
    /\ deque = [w \in Worker |-> <<>>]
    /\ hand = [w \in Worker |-> None]
    /\ resumed = {}

Known ==
    ToSet(inbox) \cup (UNION {ToSet(deque[w]) : w \in Worker})
        \cup {hand[w] : w \in Worker} \cup resumed

Submit(o) ==
    /\ o \notin Known
    /\ inbox' = Append(inbox, o)
    /\ UNCHANGED <<deque, hand, resumed>>

Keep(w, o) ==
    /\ o \notin Known
    /\ deque' = [deque EXCEPT ![w] = Append(@, o)]
    /\ UNCHANGED <<inbox, hand, resumed>>

TakeOldest(w) ==
    /\ hand[w] = None
    /\ inbox # <<>>
    /\ hand' = [hand EXCEPT ![w] = Head(inbox)]
    /\ inbox' = Tail(inbox)
    /\ UNCHANGED <<deque, resumed>>

TakeLatest(w) ==
    /\ hand[w] = None
    /\ deque[w] # <<>>
    /\ hand' = [hand EXCEPT ![w] = Last(deque[w])]
    /\ deque' = [deque EXCEPT ![w] = Front(@)]
    /\ UNCHANGED <<inbox, resumed>>

Steal(w, v) ==
    /\ hand[w] = None
    /\ deque[v] # <<>>
    /\ hand' = [hand EXCEPT ![w] = Head(deque[v])]
    /\ deque' = [deque EXCEPT ![v] = Tail(@)]
    /\ UNCHANGED <<inbox, resumed>>

Resume(w) ==
    /\ hand[w] # None
    /\ resumed' = resumed \cup {hand[w]}
    /\ hand' = [hand EXCEPT ![w] = None]
    /\ UNCHANGED <<inbox, deque>>

Next ==
    \/ \E o \in Operation : Submit(o)
    \/ \E w \in Worker :
        \/ TakeOldest(w)
        \/ TakeLatest(w)
        \/ Resume(w)
        \/ \E o \in Operation : Keep(w, o)
        \/ \E v \in Worker \ {w} : Steal(w, v)

Spec == Init /\ [][Next]_vars

=============================================================================
