---------------------------- MODULE NemLockQueue ----------------------------
(***************************************************************************)
(* The cell queue of the nemesis channel on platforms without atomic       *)
(* operations (mpid_nem_queue.h, !MPID_NEM_USE_LOCK_FREE_QUEUES).  The     *)
(* data structure and MPID_nem_queue_empty are those of NemQueue; a lock   *)
(* replaces the swap and the compare-and-swap of the tail.  A producer     *)
(* holds the lock from Swap to Link.                                       *)
(***************************************************************************)
EXTENDS NemQueue

\* Mutant: the producers do not take the lock, so one may come between the two
\* accesses of the consumer or of another producer.
UnlockedNot == TRUE

\* No producer holds the lock.
Unlocked == \A p \in Procs : pc[p] # "link"

\* MPID_nem_queue_enqueue: lock, then exchange the tail.  Link unlocks.
LockSwap(p, c) == Unlocked /\ Swap(p, c)

\* MPID_nem_queue_dequeue reads _e->next without the lock.
LockDequeueRead ==
  /\ cpc = "ready"
  /\ e' = my_head
  /\ queue' = Tail(queue)
  /\ \/ /\ next[my_head] # NULL
        /\ my_head' = next[my_head]
        /\ cpc' = "clear"
     \/ /\ next[my_head] = NULL
        /\ UNCHANGED my_head
        /\ cpc' = "tail"
  /\ UNCHANGED <<head, tail, next, producer, got>>

\* Mutant: _e->next is not read again under the lock.
LockDequeueTailOnce ==
  /\ cpc = "tail"
  /\ Unlocked
  /\ my_head' = NULL
  /\ tail' = NULL
  /\ cpc' = "clear"
  /\ UNCHANGED <<head, next, producer, e, got, queue>>

\* A null _e->next is read again with the lock held.
LockDequeueTail ==
  /\ cpc = "tail"
  /\ Unlocked
  /\ my_head' = next[e]
  /\ tail' = IF next[e] = NULL THEN NULL ELSE tail
  /\ cpc' = "clear"
  /\ UNCHANGED <<head, next, producer, e, got, queue>>

LockConsumer == \/ EmptyFalse
                \/ EmptyReset
                \/ LockDequeueRead
                \/ LockDequeueTail
                \/ DequeueClear

LockNext == \/ \E p \in Procs : Link(p) \/ \E c \in Cells : LockSwap(p, c)
            \/ LockConsumer
            \/ Release

LockSpec == Init /\ [][LockNext]_vars

\* As in NemQueue; the lock itself need not be fair, because producers run out
\* of cells while the consumer waits for it.
LockFairSpec == /\ LockSpec
                /\ \A p \in Procs : WF_vars(Link(p))
                /\ WF_vars(LockConsumer)
                /\ WF_vars(Release)

-----------------------------------------------------------------------------
(* Properties.                                                             *)

\* MPID_nem_queue_empty misses a cell only while its producer is inside the
\* lock: a cell whose enqueue has returned is always found.
LockedEmptyIsExact ==
  cpc = "idle" /\ my_head = NULL /\ head = NULL /\ queue # <<>>
    => /\ Len(queue) = 1
       /\ \E p \in Procs : pc[p] = "link" /\ element[p] = Head(queue)
=============================================================================
