----------------------------- MODULE MCNemQueue -----------------------------
(***************************************************************************)
(* Both builds of the nemesis cell queue for TLC: the one with atomic      *)
(* operations (NemQueue) and the one with a lock (NemLockQueue).  A build  *)
(* is chosen when MPICH is configured, here in the initial state.          *)
(***************************************************************************)
EXTENDS NemLockQueue

VARIABLE build

MCvars == <<vars, build>>

MCInit == Init /\ build \in {"lock-free", "lock"}

MCProducer == \E p \in Procs :
                \/ Link(p)
                \/ \E c \in Cells : \/ build = "lock-free" /\ Swap(p, c)
                                    \/ build = "lock" /\ LockSwap(p, c)

MCConsumer == \/ build = "lock-free" /\ Consumer
              \/ build = "lock" /\ LockConsumer

MCNext == (MCProducer \/ MCConsumer \/ Release) /\ UNCHANGED build

MCSpec == /\ MCInit /\ [][MCNext]_MCvars
          /\ \A p \in Procs : WF_vars(Link(p))
          /\ WF_vars(MCConsumer)
          /\ WF_vars(Release)

\* Both builds hide a cell only while its producer is between swap and link;
\* with the lock, MPID_nem_queue_empty finds every cell whose enqueue returned.
LockedEmptyIsExactInBuild == build = "lock" => LockedEmptyIsExact
=============================================================================
