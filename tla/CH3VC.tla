------------------------------- MODULE CH3VC -------------------------------
(***************************************************************************)
(* The close protocol of CH3 virtual connections and its termination by    *)
(* process failure, over the nemesis shared-memory channel.                *)
(*                                                                         *)
(* Each process keeps one virtual connection (VC) per peer.  MPI_Finalize  *)
(* sends CLOSE on every VC and progresses until MPIDI_Outstanding_close_ops*)
(* is zero.  A CLOSE packet carries one bit, ack.  Packets go through one  *)
(* send queue per process (shmq) when no cell is free, so terminating a    *)
(* closed VC may have to wait for queued sends (termq).  A process may die *)
(* at any point; hydra then lists it under PMI_dead_processes and signals  *)
(* the others, which terminate their VC to it.                             *)
(*                                                                         *)
(* User data is left out: a correct program has completed its              *)
(* communication on a VC before it closes it.                              *)
(***************************************************************************)
EXTENDS Naturals, Sequences, FiniteSets

CONSTANTS N,            \* number of processes, all on one node
          MayFail,      \* the processes that may die
          MayQueue      \* the processes whose free cells may run out

ASSUME NAssumption == N \in Nat \ {0}

Procs == 0 .. N-1

ASSUME MayFailAssumption == MayFail \subseteq Procs
ASSUME MayQueueAssumption == MayQueue \subseteq Procs

VCState == {"INACTIVE", "ACTIVE", "LOCAL_CLOSE", "REMOTE_CLOSE",
            "CLOSE_ACKED", "CLOSED", "INACTIVE_CLOSED", "MORIBUND"}

\* The ack field of a CLOSE packet.
Ack == {"FALSE", "TRUE"}

Phase == {"running", "closing", "waiting", "done", "failed"}

VARIABLES
  vc,           \* vc[p][q]: state of p's VC to q
  wire,         \* wire[p][q]: the acks of the CLOSE packets p has started on
                \* its VC to q and q has not handled, oldest first; the last
                \* Queued(p, q) of them are still in p's send queue
  shmq,         \* shmq[p]: the sends in MPIDI_CH3I_shm_sendq, each with its
                \* destination and the number of its request; requests are
                \* numbered in the order in which p started them
  started,      \* the number of packets p has started
  termq,        \* termq[p]: vc_term_queue, each VC with the request it waits
                \* for, which is complete when it is no longer in shmq[p]
  outstanding,  \* MPIDI_Outstanding_close_ops of each process
  failedVCs,    \* MPIDI_Failed_vc_count of each process
  phase,        \* where each process is in MPI_Finalize
  n,            \* loop counter of MPIDI_PG_Close_VCs
  todo,         \* VCs that terminate_failed_VCs has still to terminate
  checking,     \* inside the loop of check_terminating_vcs
  known,        \* MPIDI_Failed_procs_group of each process
  dead,         \* the value of PMI_dead_processes
  aborted       \* an MPIR_Assert failed: MPID_Abort kills the job

vars == <<vc, wire, shmq, started, termq, outstanding, failedVCs, phase, n,
          todo, checking, known, dead, aborted>>

Failed == {p \in Procs : phase[p] = "failed"}

\* Process p is alive, the job is not aborted and p is in none of its inner
\* loops.
Ready(p) == /\ ~aborted
            /\ phase[p] \in {"running", "closing", "waiting"}
            /\ todo[p] = {}
            /\ ~checking[p]

\* p may enter the progress engine: in any MPI call, or in WaitForClose, but
\* not between the sends of MPIDI_PG_Close_VCs.
InProgress(p) == Ready(p) /\ phase[p] # "closing"

Queued(p, q) == Cardinality({r \in shmq[p] : r.dst = q})

\* The packets from p to q that have left p's send queue.
InCells(p, q) == SubSeq(wire[p][q], 1, Len(wire[p][q]) - Queued(p, q))

\* One of them has, so q can receive.
Receivable(p, q) == Len(wire[p][q]) > Queued(p, q)

Init ==
  /\ vc = [p \in Procs |-> [q \in Procs |-> "ACTIVE"]]
  /\ wire = [p \in Procs |-> [q \in Procs |-> <<>>]]
  /\ shmq = [p \in Procs |-> {}]
  /\ started = [p \in Procs |-> 0]
  /\ termq = [p \in Procs |-> <<>>]
  /\ outstanding = [p \in Procs |-> 0]
  /\ failedVCs = [p \in Procs |-> 0]
  /\ phase = [p \in Procs |-> "running"]
  /\ n = [p \in Procs |-> 0]
  /\ todo = [p \in Procs |-> {}]
  /\ checking = [p \in Procs |-> FALSE]
  /\ known = [p \in Procs |-> {}]
  /\ dead = {}
  /\ aborted = FALSE

-----------------------------------------------------------------------------
(* Sending: MPIDI_CH3_iStartMsg on a local VC.                             *)

\* The send queues that may result when p starts a packet to q: the packet
\* goes straight into a cell when the queue is empty and a cell is free, and
\* is queued otherwise.  The send progress that iStartMsg makes on a longer
\* queue is the action Shm_send_progress.
iStartMsg(p, q) ==
  (IF p \in MayQueue
   THEN {shmq[p] \cup {[dst |-> q, req |-> started[p]]}} ELSE {})
  \cup (IF shmq[p] = {} THEN {{}} ELSE {})

Start(p, q) ==
  /\ \E sq \in iStartMsg(p, q) : shmq' = [shmq EXCEPT ![p] = sq]
  /\ started' = [started EXCEPT ![p] = @ + 1]

Oldest(sq) == {r \in sq : \A r2 \in sq : r.req <= r2.req}
Newest(sq) == {r \in sq : \A r2 \in sq : r2.req <= r.req}

(* Terminating: MPIDI_CH3U_Handle_connection(vc, TERMINATED).              *)

AfterTerminated(s) == IF s = "CLOSED" THEN "INACTIVE" ELSE "MORIBUND"

CloseInitiated == {"LOCAL_CLOSE", "CLOSE_ACKED", "CLOSED"}

\* Mutant: a VC that fails in mid-protocol keeps its close operation.
Handle_connectionKeepsCount(p, q) ==
  /\ vc' = [vc EXCEPT ![p][q] = AfterTerminated(@)]
  /\ outstanding' = [outstanding EXCEPT
                       ![p] = IF vc[p][q] = "CLOSED" THEN @ - 1 ELSE @]
  /\ failedVCs' = [failedVCs EXCEPT
                       ![p] = IF vc[p][q] = "CLOSED" THEN @ ELSE @ + 1]

Handle_connection(p, q) ==
  /\ vc' = [vc EXCEPT ![p][q] = AfterTerminated(@)]
  /\ outstanding' = [outstanding EXCEPT
                       ![p] = IF vc[p][q] \in CloseInitiated THEN @ - 1 ELSE @]
  /\ failedVCs' = [failedVCs EXCEPT
                       ![p] = IF vc[p][q] = "CLOSED" THEN @ ELSE @ + 1]

-----------------------------------------------------------------------------
(* MPI_Finalize: MPIDI_PG_Close_VCs, then MPIDI_CH3U_VC_WaitForClose.      *)

Finalize(p) ==
  /\ Ready(p)
  /\ phase[p] = "running"
  /\ phase' = [phase EXCEPT ![p] = "closing"]
  /\ UNCHANGED <<vc, wire, shmq, started, termq, outstanding, failedVCs, n,
                 todo, checking, known, dead, aborted>>

\* The VC that iteration k of the loop of p's MPIDI_PG_Close_VCs visits.
ClosePeer(p, k) == (k + ((p + 1) % N)) % N

\* Mutant: the acknowledgement of an earlier close request is not counted.
VC_SendCloseUncounted(p, q) ==
  /\ vc[p][q] \in {"ACTIVE", "REMOTE_CLOSE"}
  /\ outstanding' = [outstanding EXCEPT ![p] =
                       IF vc[p][q] = "ACTIVE" THEN @ + 1 ELSE @]
  /\ vc' = [vc EXCEPT ![p][q] = IF @ = "ACTIVE" THEN "LOCAL_CLOSE"
                                                ELSE "CLOSE_ACKED"]
  /\ wire' = [wire EXCEPT ![p][q] =
                Append(@, IF vc[p][q] = "ACTIVE" THEN "FALSE" ELSE "TRUE")]
  /\ Start(p, q)

\* Mutant: the packet is built after the state has changed.
VC_SendCloseLate(p, q) ==
  /\ vc[p][q] \in {"ACTIVE", "REMOTE_CLOSE"}
  /\ outstanding' = [outstanding EXCEPT ![p] = @ + 1]
  /\ vc' = [vc EXCEPT ![p][q] = IF @ = "ACTIVE" THEN "LOCAL_CLOSE"
                                                ELSE "CLOSE_ACKED"]
  /\ wire' = [wire EXCEPT ![p][q] = Append(@, "TRUE")]
  /\ Start(p, q)

\* MPIDI_CH3U_VC_SendClose: the state changes before the packet is started.
VC_SendClose(p, q) ==
  /\ vc[p][q] \in {"ACTIVE", "REMOTE_CLOSE"}
  /\ outstanding' = [outstanding EXCEPT ![p] = @ + 1]
  /\ vc' = [vc EXCEPT ![p][q] = IF @ = "ACTIVE" THEN "LOCAL_CLOSE"
                                                ELSE "CLOSE_ACKED"]
  /\ wire' = [wire EXCEPT ![p][q] =
                Append(@, IF vc[p][q] = "ACTIVE" THEN "FALSE" ELSE "TRUE")]
  /\ Start(p, q)

\* The branches of the loop body that send nothing.
VC_SkipClose(p, q) ==
  /\ p = q \/ vc[p][q] \notin {"ACTIVE", "REMOTE_CLOSE"}
  /\ vc' = [vc EXCEPT ![p][q] = IF p # q /\ @ = "INACTIVE"
                                THEN "INACTIVE_CLOSED" ELSE @]
  /\ UNCHANGED <<outstanding, wire, shmq, started>>

PG_Close_VCs(p) ==
  /\ Ready(p)
  /\ phase[p] = "closing"
  /\ n[p] < N
  /\ LET q == ClosePeer(p, n[p])
     IN  \/ p # q /\ VC_SendClose(p, q)
         \/ VC_SkipClose(p, q)
  /\ n' = [n EXCEPT ![p] = @ + 1]
  /\ phase' = [phase EXCEPT ![p] = IF n[p] + 1 = N THEN "waiting" ELSE @]
  /\ UNCHANGED <<termq, failedVCs, todo, checking, known, dead, aborted>>

\* Mutant: MPI_Finalize does not wait for the peers.
VC_WaitForCloseNot(p) ==
  /\ Ready(p)
  /\ phase[p] = "waiting"
  /\ phase' = [phase EXCEPT ![p] = "done"]
  /\ UNCHANGED <<vc, wire, shmq, started, termq, outstanding, failedVCs, n,
                 todo, checking, known, dead, aborted>>

VC_WaitForClose(p) ==
  /\ Ready(p)
  /\ phase[p] = "waiting"
  /\ outstanding[p] = 0
  /\ phase' = [phase EXCEPT ![p] = "done"]
  /\ UNCHANGED <<vc, wire, shmq, started, termq, outstanding, failedVCs, n,
                 todo, checking, known, dead, aborted>>

-----------------------------------------------------------------------------
(* MPIDI_CH3_PktHandler_Close at p, for the oldest packet from q.          *)

\* MPIDI_PG_Get_vc_set_active, called before the handler.
SetActive(s) == IF s = "INACTIVE" THEN "ACTIVE" ELSE s

\* A request to close.  In LOCAL_CLOSE the two requests crossed, and p
\* acknowledges at once; in ACTIVE p will acknowledge when it closes itself.
CloseRequest(p, q) ==
  /\ Head(wire[q][p]) = "FALSE"
  /\ \/ /\ vc[p][q] = "LOCAL_CLOSE"
        /\ vc' = [vc EXCEPT ![p][q] = "CLOSE_ACKED"]
        /\ wire' = [wire EXCEPT ![q][p] = Tail(@), ![p][q] = Append(@, "TRUE")]
        /\ Start(p, q)
     \/ /\ SetActive(vc[p][q]) = "ACTIVE"
        /\ vc' = [vc EXCEPT ![p][q] = "REMOTE_CLOSE"]
        /\ wire' = [wire EXCEPT ![q][p] = Tail(@)]
        /\ UNCHANGED <<shmq, started>>
  /\ UNCHANGED <<termq, outstanding, aborted>>

\* Mutant: the channel is told before the VC is CLOSED.
CloseAckTooEarly(p, q) ==
  /\ Head(wire[q][p]) = "TRUE"
  /\ vc[p][q] \in {"LOCAL_CLOSE", "CLOSE_ACKED"}
  /\ wire' = [wire EXCEPT ![q][p] = Tail(@)]
  /\ vc' = [vc EXCEPT ![p][q] = AfterTerminated(@)]
  /\ outstanding' = [outstanding EXCEPT ![p] = @ - 1]
  /\ UNCHANGED <<shmq, started, termq, aborted>>

\* An acknowledgement: the VC is CLOSED, and MPIDI_CH3_Connection_terminate
\* ends it at once if no send is queued and otherwise when the send that is
\* now the last in the queue completes.
CloseAck(p, q) ==
  /\ Head(wire[q][p]) = "TRUE"
  /\ \/ /\ vc[p][q] = "LOCAL_CLOSE"
        /\ wire' = [wire EXCEPT ![q][p] = Tail(@), ![p][q] = Append(@, "TRUE")]
        /\ Start(p, q)
     \/ /\ vc[p][q] = "CLOSE_ACKED"
        /\ wire' = [wire EXCEPT ![q][p] = Tail(@)]
        /\ UNCHANGED <<shmq, started>>
  /\ \/ /\ shmq'[p] = {}
        /\ vc' = [vc EXCEPT ![p][q] = AfterTerminated("CLOSED")]
        /\ outstanding' = [outstanding EXCEPT ![p] = @ - 1]
        /\ UNCHANGED termq
     \/ /\ vc' = [vc EXCEPT ![p][q] = "CLOSED"]
        /\ \E r \in Newest(shmq'[p]) :
             termq' = [termq EXCEPT ![p] = Append(@, [vc |-> q, req |-> r.req])]
        /\ UNCHANGED outstanding
  /\ UNCHANGED aborted

\* The assertions of the handler.
CloseAssertFails(p, q) ==
  /\ \/ /\ Head(wire[q][p]) = "TRUE"
        /\ vc[p][q] \notin {"LOCAL_CLOSE", "CLOSE_ACKED"}
     \/ /\ Head(wire[q][p]) = "FALSE"
        /\ SetActive(vc[p][q]) \notin {"ACTIVE", "LOCAL_CLOSE"}
  /\ aborted' = TRUE
  /\ UNCHANGED <<vc, wire, shmq, started, termq, outstanding>>

PktHandler_Close(p, q) ==
  /\ InProgress(p)
  /\ p # q
  /\ Receivable(q, p)
  /\ CloseRequest(p, q) \/ CloseAck(p, q) \/ CloseAssertFails(p, q)
  /\ UNCHANGED <<failedVCs, phase, n, todo, checking, known, dead>>

-----------------------------------------------------------------------------
(* MPIDI_CH3I_Shm_send_progress: the oldest queued send gets a cell, and    *)
(* check_terminating_vcs then ends the VCs that were waiting for it.       *)

\* Mutant: nobody looks at the VCs that waited for the send.
Shm_send_progressOnly(p) ==
  /\ Ready(p)
  /\ \E r \in Oldest(shmq[p]) : shmq' = [shmq EXCEPT ![p] = @ \ {r}]
  /\ UNCHANGED <<vc, wire, started, termq, outstanding, failedVCs, phase, n,
                 todo, checking, known, dead, aborted>>

Shm_send_progress(p) ==
  /\ Ready(p)
  /\ \E r \in Oldest(shmq[p]) : shmq' = [shmq EXCEPT ![p] = @ \ {r}]
  /\ checking' = [checking EXCEPT ![p] = TRUE]
  /\ UNCHANGED <<vc, wire, started, termq, outstanding, failedVCs, phase, n,
                 todo, known, dead, aborted>>

\* The loop ends at the first entry whose send is not complete.
TermqHeadComplete(p) ==
  termq[p] # <<>> /\ \A r \in shmq[p] : r.req # Head(termq[p]).req

\* Mutant: the entry stays in the queue.
check_terminating_vcsKeeps(p) ==
  /\ ~aborted
  /\ phase[p] # "failed"
  /\ checking[p]
  /\ IF TermqHeadComplete(p)
     THEN Handle_connection(p, Head(termq[p]).vc)
     ELSE UNCHANGED <<vc, outstanding, failedVCs>>
  /\ checking' = [checking EXCEPT ![p] = FALSE]
  /\ UNCHANGED <<wire, shmq, started, termq, phase, n, todo, known, dead,
                 aborted>>

check_terminating_vcs(p) ==
  /\ ~aborted
  /\ phase[p] # "failed"
  /\ checking[p]
  /\ \/ /\ TermqHeadComplete(p)
        /\ termq' = [termq EXCEPT ![p] = Tail(@)]
        /\ Handle_connection(p, Head(termq[p]).vc)
        /\ UNCHANGED checking
     \/ /\ ~TermqHeadComplete(p)
        /\ checking' = [checking EXCEPT ![p] = FALSE]
        /\ UNCHANGED <<vc, termq, outstanding, failedVCs>>
  /\ UNCHANGED <<wire, shmq, started, phase, n, todo, known, dead, aborted>>

-----------------------------------------------------------------------------
(* Process failure.                                                        *)

\* Process p dies: what it had not yet put into a cell is lost, what is in
\* shared memory stays.
Fail(p) ==
  /\ ~aborted
  /\ phase[p] \in {"running", "closing", "waiting"}
  /\ p \in MayFail
  /\ phase' = [phase EXCEPT ![p] = "failed"]
  /\ wire' = [wire EXCEPT ![p] = [q \in Procs |-> InCells(p, q)]]
  /\ shmq' = [shmq EXCEPT ![p] = {}]
  /\ UNCHANGED <<vc, started, termq, outstanding, failedVCs, n, todo, checking,
                 known, dead, aborted>>

\* Hydra publishes a death and sends SIGUSR1 to the other processes.
PMI_dead_processes(p) ==
  /\ ~aborted
  /\ p \in Failed \ dead
  /\ dead' = dead \cup {p}
  /\ UNCHANGED <<vc, wire, shmq, started, termq, outstanding, failedVCs, phase,
                 n, todo, checking, known, aborted>>

\* The signal has been seen on entry to the progress engine.
Check_for_failed_procs(p) ==
  /\ InProgress(p)
  /\ dead # known[p]
  /\ known' = [known EXCEPT ![p] = dead]
  /\ todo' = [todo EXCEPT ![p] = dead \ known[p]]
  /\ UNCHANGED <<vc, wire, shmq, started, termq, outstanding, failedVCs, phase,
                 n, checking, dead, aborted>>

\* MPIDI_CH3_Connection_terminate on p's VC to a dead q.  A VC that fails
\* loses its queued sends (MPIDI_CH3I_Complete_sendq_with_error); a VC that is
\* already CLOSED ends as after an acknowledgement.
Connection_terminate(p, q) ==
  \/ /\ vc[p][q] \in {"MORIBUND", "INACTIVE_CLOSED"}
     /\ UNCHANGED <<vc, wire, shmq, termq, outstanding, failedVCs>>
  \/ /\ vc[p][q] \notin {"MORIBUND", "INACTIVE_CLOSED", "CLOSED"}
     /\ wire' = [wire EXCEPT ![p][q] = InCells(p, q)]
     /\ shmq' = [shmq EXCEPT ![p] = {r \in @ : r.dst # q}]
     /\ Handle_connection(p, q)
     /\ UNCHANGED termq
  \/ /\ vc[p][q] = "CLOSED"
     /\ shmq[p] = {}
     /\ Handle_connection(p, q)
     /\ UNCHANGED <<wire, shmq, termq>>
  \/ /\ vc[p][q] = "CLOSED"
     /\ \E r \in Newest(shmq[p]) :
          termq' = [termq EXCEPT ![p] = Append(@, [vc |-> q, req |-> r.req])]
     /\ UNCHANGED <<vc, wire, shmq, outstanding, failedVCs>>

terminate_failed_VCs(p) ==
  /\ ~aborted
  /\ phase[p] # "failed"
  /\ \E q \in todo[p] :
       /\ Connection_terminate(p, q)
       /\ todo' = [todo EXCEPT ![p] = @ \ {q}]
  /\ UNCHANGED <<started, phase, n, checking, known, dead, aborted>>

-----------------------------------------------------------------------------
\* Nothing is left to do: every process has left MPI_Finalize or is dead, or
\* the job was aborted.
Ended == /\ aborted \/ \A p \in Procs : phase[p] \in {"done", "failed"}
         /\ UNCHANGED vars

Step(p) == \/ PG_Close_VCs(p)
           \/ VC_WaitForClose(p)
           \/ Shm_send_progress(p)
           \/ check_terminating_vcs(p)
           \/ Check_for_failed_procs(p)
           \/ terminate_failed_VCs(p)
           \/ \E q \in Procs : PktHandler_Close(p, q)

Next == \/ \E p \in Procs : \/ Finalize(p)
                            \/ Step(p)
                            \/ Fail(p)
                            \/ PMI_dead_processes(p)
        \/ Ended

Spec == Init /\ [][Next]_vars

\* Every process calls MPI_Finalize and, while it can take a step in the
\* progress engine, takes one; hydra publishes a death.  Nothing is assumed of
\* the order: a process has finitely many steps to take.
Fairness == \A p \in Procs : /\ WF_vars(Finalize(p) \/ Step(p))
                             /\ WF_vars(PMI_dead_processes(p))

FairSpec == Spec /\ Fairness

-----------------------------------------------------------------------------
(* Properties.                                                             *)

\* Type correctness.
TypeOK ==
  /\ vc \in [Procs -> [Procs -> VCState]]
  /\ wire \in [Procs -> [Procs -> Seq(Ack)]]
  /\ shmq \in [Procs -> SUBSET [dst : Procs, req : Nat]]
  /\ started \in [Procs -> Nat]
  /\ termq \in [Procs -> Seq([vc : Procs, req : Nat])]
  /\ outstanding \in [Procs -> Nat]
  /\ failedVCs \in [Procs -> Nat]
  /\ phase \in [Procs -> Phase]
  /\ n \in [Procs -> 0 .. N]
  /\ todo \in [Procs -> SUBSET Procs]
  /\ checking \in [Procs -> BOOLEAN]
  /\ known \in [Procs -> SUBSET Procs]
  /\ dead \in SUBSET Procs
  /\ aborted \in BOOLEAN

\* MPIDI_Outstanding_close_ops, which several handlers increment and decrement
\* and MPI_Finalize waits on, counts exactly the VCs whose close is under way,
\* also when a VC is terminated twice or by a failure in mid-protocol.
OutstandingCount ==
  \A p \in Procs :
    outstanding[p] = Cardinality({q \in Procs : vc[p][q] \in CloseInitiated})

\* The assertions of MPIDI_CH3_PktHandler_Close hold whatever way the close
\* requests cross, unless a process has died.
AssertOnlyAfterFailure == aborted => Failed # {}

\* Once p's side of a VC is CLOSED, the peer, if it lives, has closed its side
\* too and nothing more will arrive on the VC: the channel may drop it.
ClosedIsQuiet ==
  \A p, q \in Procs :
    (p # q /\ {p, q} \cap Failed = {} /\ vc[p][q] \in {"CLOSED", "INACTIVE"})
      => /\ wire[q][p] = <<>>
         /\ vc[q][p] \in {"CLOSE_ACKED", "CLOSED", "INACTIVE",
                          "INACTIVE_CLOSED"}

\* A VC is reported as failed only if its process is dead.
FailureAccuracy ==
  \A p, q \in Procs : vc[p][q] = "MORIBUND" => q \in Failed

\* vc_term_queue never terminates a VC in a state that
\* MPIDI_CH3U_Handle_connection rejects: a VC waits in the queue at most twice
\* while CLOSED and at most once after that.
NoUnhandledTermination ==
  \A p \in Procs, q \in Procs :
    LET waiting == Cardinality({i \in 1 .. Len(termq[p]) : termq[p][i].vc = q})
    IN  waiting <= CASE vc[p][q] = "CLOSED" -> 2
                     [] vc[p][q] = "INACTIVE" -> 1
                     [] OTHER -> 0

\* When no process dies, a process leaves MPI_Finalize with every VC closed on
\* its side, its send queue drained and no VC waiting to be terminated.
CleanExit ==
  \A p \in Procs :
    phase[p] = "done" /\ Failed = {}
      => /\ \A q \in Procs \ {p} : vc[p][q] = "INACTIVE"
         /\ shmq[p] = {} /\ termq[p] = <<>>

\* When no process dies, every process leaves MPI_Finalize, however the close
\* requests cross and the sends are queued.
FinalizeReturns ==
  <>(aborted \/ Failed # {} \/ \A p \in Procs : phase[p] = "done")

\* The processes that live leave MPI_Finalize although others die: "finalize
\* won't hang when another processes has died".
FinalizeSurvivesDeath ==
  <>(aborted \/ \A p \in Procs : phase[p] \in {"done", "failed"})
=============================================================================
