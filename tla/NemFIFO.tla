------------------------------ MODULE NemFIFO ------------------------------
(***************************************************************************)
(* What a nemesis cell queue promises to the processes that share it: cells*)
(* leave it in the order in which they entered, each one once, and a cell   *)
(* belongs to nobody else while it is queued.  Both implementations of     *)
(* mpid_nem_queue.h are shown to implement this specification.             *)
(***************************************************************************)
EXTENDS Sequences

CONSTANTS Cells,        \* the cells that may be queued
          NULL          \* the null pointer

VARIABLES queue,        \* the queued cells
          got           \* the cell the consumer took last and still holds

vars == <<queue, got>>

Queued == {queue[i] : i \in DOMAIN queue}

Init == queue = <<>> /\ got = NULL

\* A producer queues a cell that is neither queued nor with the consumer.
Enqueue(c) == /\ c \notin Queued \cup {got}
              /\ queue' = Append(queue, c)
              /\ UNCHANGED got

\* The consumer takes the oldest cell.
Dequeue == /\ got = NULL
           /\ queue # <<>>
           /\ got' = Head(queue)
           /\ queue' = Tail(queue)

\* The consumer gives the cell it took back to the producers.
Release == /\ got # NULL
           /\ got' = NULL
           /\ UNCHANGED queue

Next == Dequeue \/ Release \/ \E c \in Cells : Enqueue(c)

Spec == Init /\ [][Next]_vars

\* What the consumer polls for arrives, and what it takes it gives back.
FairSpec == Spec /\ WF_vars(Dequeue) /\ WF_vars(Release)
=============================================================================
