----------------------------- MODULE BoundedFifo -----------------------------
(***************************************************************************)
(* What include/queue.h promises: a bounded first-in first-out queue that  *)
(* can be closed, after which nothing more goes in and what is in can      *)
(* still be taken.  No ring, no indices, no blocking.                      *)
(***************************************************************************)
EXTENDS Naturals, Sequences

CONSTANTS Takers, Items, Capacity

VARIABLES
    queue,      \* the items in the order they were put
    isClosed,
    taken       \* what each taker took last

vars == <<queue, isClosed, taken>>

CONSTANT Nothing

Init ==
    /\ queue = <<>>
    /\ isClosed = FALSE
    /\ taken = [t \in Takers |-> Nothing]

Put(item) ==
    /\ ~isClosed
    /\ Len(queue) < Capacity
    /\ queue' = Append(queue, item)
    /\ UNCHANGED <<isClosed, taken>>

Take(t) ==
    /\ queue # <<>>
    /\ taken' = [taken EXCEPT ![t] = Head(queue)]
    /\ queue' = Tail(queue)
    /\ UNCHANGED isClosed

Close ==
    /\ isClosed' = TRUE
    /\ UNCHANGED <<queue, taken>>

Next == (\E i \in Items : Put(i)) \/ (\E t \in Takers : Take(t)) \/ Close

Spec == Init /\ [][Next]_vars
=============================================================================
