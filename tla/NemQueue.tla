------------------------------ MODULE NemQueue ------------------------------
(***************************************************************************)
(* The lock-free cell queue of the nemesis channel (mpid_nem_queue.h): any *)
(* number of producers, one consumer.  A queue is a linked list of cells   *)
(* with a tail pointer that producers swap, a head pointer that the first  *)
(* producer sets, and a shadow head my_head that is private to the         *)
(* consumer.  One action is one access to shared memory; memory is         *)
(* sequentially consistent, which is what the barriers of the code are     *)
(* for.                                                                    *)
(***************************************************************************)
EXTENDS Naturals, Sequences

CONSTANTS Procs,        \* the producers
          Cells,        \* the cells
          NULL          \* the null pointer

ASSUME CellsAssumption == NULL \notin Cells

VARIABLES
  head, my_head, tail,  \* the queue's pointers
  next,                 \* next[c]: the next field of cell c
  pc,                   \* pc[p]: "idle", or "link" after the swap of tail
  element, r_prev,      \* element[p], r_prev[p]: locals of p's enqueue
  cpc,                  \* where the consumer is
  e,                    \* _e: the local of dequeue
  got,                  \* the cell that dequeue returned last, until released
  queue                 \* history: the cells swapped in and not dequeued yet

pointers == <<head, my_head, tail, next>>
producer == <<pc, element, r_prev>>
vars == <<head, my_head, tail, next, pc, element, r_prev, cpc, e, got, queue>>

Pointer == Cells \cup {NULL}

ConsumerPc == {"idle", "reset", "ready", "tail", "spin", "clear"}

Queued == {queue[i] : i \in DOMAIN queue}

\* MPID_nem_queue_init and MPID_nem_cell_init.
Init ==
  /\ head = NULL /\ my_head = NULL /\ tail = NULL
  /\ next = [c \in Cells |-> NULL]
  /\ pc = [p \in Procs |-> "idle"]
  /\ element = [p \in Procs |-> NULL]
  /\ r_prev = [p \in Procs |-> NULL]
  /\ cpc = "idle"
  /\ e = NULL /\ got = NULL
  /\ queue = <<>>

-----------------------------------------------------------------------------
(* MPID_nem_queue_enqueue by producer p.                                   *)

\* A producer enqueues a cell that is its own: not queued, and not with the
\* consumer.
Swap(p, c) ==
  /\ pc[p] = "idle"
  /\ c \notin Queued \cup {e, got}
  /\ element' = [element EXCEPT ![p] = c]
  /\ r_prev' = [r_prev EXCEPT ![p] = tail]
  /\ tail' = c
  /\ pc' = [pc EXCEPT ![p] = "link"]
  /\ queue' = Append(queue, c)
  /\ UNCHANGED <<head, my_head, next, cpc, e, got>>

Link(p) ==
  /\ pc[p] = "link"
  /\ \/ /\ r_prev[p] = NULL
        /\ head' = element[p]
        /\ UNCHANGED next
     \/ /\ r_prev[p] # NULL
        /\ next' = [next EXCEPT ![r_prev[p]] = element[p]]
        /\ UNCHANGED head
  /\ pc' = [pc EXCEPT ![p] = "idle"]
  /\ element' = [element EXCEPT ![p] = NULL]
  /\ r_prev' = [r_prev EXCEPT ![p] = NULL]
  /\ UNCHANGED <<my_head, tail, cpc, e, got, queue>>

-----------------------------------------------------------------------------
(* The consumer: MPID_nem_queue_empty, then MPID_nem_queue_dequeue.        *)

\* MPID_nem_queue_empty finds a cell.  The consumer gives the cell that it
\* took before back first.
EmptyFalse ==
  /\ cpc = "idle"
  /\ got = NULL
  /\ \/ /\ my_head # NULL
        /\ cpc' = "ready"
        /\ UNCHANGED my_head
     \/ /\ my_head = NULL
        /\ head # NULL
        /\ my_head' = head
        /\ cpc' = "reset"
  /\ UNCHANGED <<head, tail, next, producer, e, got, queue>>

EmptyReset ==
  /\ cpc = "reset"
  /\ head' = NULL
  /\ cpc' = "ready"
  /\ UNCHANGED <<my_head, tail, next, producer, e, got, queue>>

\* The consumer takes the cell my_head points to and reads its next field.
DequeueRead ==
  /\ cpc = "ready"
  /\ e' = my_head
  /\ queue' = Tail(queue)
  /\ \/ /\ next[my_head] # NULL
        /\ my_head' = next[my_head]
        /\ cpc' = "clear"
     \/ /\ next[my_head] = NULL
        /\ my_head' = NULL
        /\ cpc' = "tail"
  /\ UNCHANGED <<head, tail, next, producer, got>>

\* Mutant: the tail is stored without a comparison.
DequeueCASStore ==
  /\ cpc = "tail"
  /\ tail' = NULL
  /\ cpc' = IF tail = e THEN "clear" ELSE "spin"
  /\ UNCHANGED <<head, my_head, next, producer, e, got, queue>>

\* Mutant: the consumer does not wait for the link when the comparison fails.
DequeueCASNoWait ==
  /\ cpc = "tail"
  /\ tail' = IF tail = e THEN NULL ELSE tail
  /\ cpc' = "clear"
  /\ UNCHANGED <<head, my_head, next, producer, e, got, queue>>

\* MPID_NEM_CAS_REL_NULL on the tail.
DequeueCAS ==
  /\ cpc = "tail"
  /\ \/ /\ tail = e
        /\ tail' = NULL
        /\ cpc' = "clear"
     \/ /\ tail # e
        /\ UNCHANGED tail
        /\ cpc' = "spin"
  /\ UNCHANGED <<head, my_head, next, producer, e, got, queue>>

\* The loop ends when the producer that swapped after _e has linked its cell.
DequeueSpin ==
  /\ cpc = "spin"
  /\ next[e] # NULL
  /\ my_head' = next[e]
  /\ cpc' = "clear"
  /\ UNCHANGED <<head, tail, next, producer, e, got, queue>>

\* Mutant: the next field of the returned cell is not reset.
DequeueClearNot ==
  /\ cpc = "clear"
  /\ got' = e
  /\ e' = NULL
  /\ cpc' = "idle"
  /\ UNCHANGED <<pointers, producer, queue>>

\* _e->next is reset and the cell returned.
DequeueClear ==
  /\ cpc = "clear"
  /\ next' = [next EXCEPT ![e] = NULL]
  /\ got' = e
  /\ e' = NULL
  /\ cpc' = "idle"
  /\ UNCHANGED <<head, my_head, tail, producer, queue>>

\* The consumer is through with the cell and somebody may enqueue it again.
Release ==
  /\ got # NULL
  /\ got' = NULL
  /\ UNCHANGED <<pointers, producer, cpc, e, queue>>

-----------------------------------------------------------------------------
Consumer == \/ EmptyFalse
            \/ EmptyReset
            \/ DequeueRead
            \/ DequeueCAS
            \/ DequeueSpin
            \/ DequeueClear

Next == \/ \E p \in Procs : Link(p) \/ \E c \in Cells : Swap(p, c)
        \/ Consumer
        \/ Release

Spec == Init /\ [][Next]_vars

\* A producer that has swapped the tail links its cell, and the consumer polls
\* its queue.
FairSpec == /\ Spec
            /\ \A p \in Procs : WF_vars(Link(p))
            /\ WF_vars(Consumer)
            /\ WF_vars(Release)

-----------------------------------------------------------------------------
(* Properties.                                                             *)

TypeOK ==
  /\ head \in Pointer /\ my_head \in Pointer /\ tail \in Pointer
  /\ next \in [Cells -> Pointer]
  /\ pc \in [Procs -> {"idle", "link"}]
  /\ element \in [Procs -> Pointer]
  /\ r_prev \in [Procs -> Pointer]
  /\ cpc \in ConsumerPc
  /\ e \in Pointer /\ got \in Pointer
  /\ queue \in Seq(Cells)

\* The assertions that the code keeps as structured comments: a cell that is
\* enqueued has a null next field, and so has the cell after which it is
\* linked; head and my_head are not both set outside of
\* MPID_nem_queue_empty; dequeue starts with my_head set and head null.
QueueAssertions ==
  /\ \A c \in Cells \ (Queued \cup {e, got}) : next[c] = NULL
  /\ \A p \in Procs : pc[p] = "link" /\ r_prev[p] # NULL => next[r_prev[p]] = NULL
  /\ cpc # "reset" => my_head = NULL \/ head = NULL
  /\ cpc = "ready" => my_head # NULL /\ head = NULL

\* MPID_nem_queue_empty may miss a queued cell, even one whose enqueue has
\* returned, but only while the producer of the oldest cell is between its
\* swap and its link.
EmptyIsHonest ==
  cpc = "idle" /\ my_head = NULL /\ head = NULL /\ queue # <<>>
    => \E p \in Procs : pc[p] = "link" /\ element[p] = Head(queue)

\* The queue is a FIFO of cells.
Fifo == INSTANCE NemFIFO
          WITH got <- IF cpc \in {"tail", "spin", "clear"} THEN e ELSE got

FifoFairSpec == Fifo!FairSpec
=============================================================================
