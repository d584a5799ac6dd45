# TLA+ models of MPICH: the CH3 device, the nemesis channel, context ids and nonblocking collectives

TLA+ models of the parts of MPICH whose correctness depends on orders of events
that tests hardly reach, TLC configurations that check them on small instances,
and proofs that TLAPS checks for all instances.

Paths are relative to `src/src/`; `ch3` stands for `mpid/ch3/src` and `nemesis`
for `mpid/ch3/channels/nemesis`.

## 1. The system and its parts

An MPI program links the library: the MPI layer (`mpi/`) checks arguments and
implements collectives and communicators over the ADI (`MPID_*`), which the CH3
device implements with packets between processes; the nemesis channel carries
them, through shared memory inside a node and through a network module between
nodes.  A process manager (Hydra) starts the processes, serves their key-value
space (PMI) and tells them of deaths.  A process makes progress only inside MPI
calls: the progress engine polls the receive queue, calls a packet handler for
each packet, advances queued sends and reacts to signals.  With the default
global lock one thread at a time is inside the library.

| part | state | operations | interacts with | what is hard | what makes it correct |
|---|---|---|---|---|---|
| **virtual connections** (`ch3/ch3u_handle_connection.c`, `mpidi_pg.c`, `mpid_finalize.c`) | a VC per peer with one of eight states; `MPIDI_Outstanding_close_ops`; failed processes | send and handle CLOSE, terminate, wait, check for failures | channel (packets, termination), Hydra (deaths) | requests cross; a death at any point of the protocol | the counter is exact, nothing arrives on a closed VC, failures are reported only of the dead, MPI_Finalize returns |
| **progress engine and send queue** (`nemesis/src/ch3_progress.c`) | `MPIDI_CH3I_shm_sendq`, `vc_term_queue`, `recv_active` per VC | start, queue, complete sends; dispatch packets; fill requests; terminate VCs | all packet handlers | waits on a queue shared by all VCs | closed VCs end, and after their sends |
| **cell queues** (`nemesis/include/mpid_nem_queue.h`) | linked list of cells in shared memory: `head`, `my_head`, `tail`, `next` | enqueue (many), empty and dequeue (one) | progress engine | races between single memory accesses | it is a FIFO and no cell stays in it |
| **receive queues** (`ch3/ch3u_recvq.c`) | posted receives, unexpected messages | the six searches FDU, FDU_matchonly, FDU_or_AEP, DP, FDP_or_AEU, FU; cleaning after revocation or failure | packet handlers, MPID_Irecv, cancel, revoke | wild cards, error bits in tags, failure and revocation in any order | no match is missed, messages do not overtake, nobody awaits the dead |
| **point-to-point protocols** (`ch3/mpid_isend.c`, `ch3u_eager.c`, `ch3u_eagersync.c`, `ch3u_rndv.c`, `mpid_cancel_send.c`, `mpid_irecv.c`, `mpid_imrecv.c`) | requests with completion and reference counts, named across processes by handles | sends of three protocols, receive, matched probe, cancel, revoke, the packets between them | receive queues, channel | late answers for handles in use again; cancel against match; data against receive | a handle means what it meant, complete means received, cancel is all or nothing |
| large-message transfer (`nemesis/src/mpid_nem_lmt*.c`) | LMT state per VC, ring of copy buffers | cookie handshake, chunked copy by both sides | rendezvous protocol | two pollers on one ring | data arrive once, both sides finish |
| TCP module (`nemesis/netmod/tcp`) | sockets with a connection state machine | connect, accept, tie-break, close | VC termination | both sides connect at once | one connection per VC |
| **context ids** (`mpi/comm/contextid.c`) | bit mask of free ids, its two reservation flags, list of waiting callers | allocate (agreement), free | collectives, schedules, threads | overlapping groups, several threads, no common id | members agree, ids are unique, no mask stays reserved, allocation ends |
| **RMA** (`ch3/ch3u_rma_*.c`, `mpidrma.h`) | per window and target: access state, pending operations, outstanding acknowledgements; at the target: lock, lock queue | put, get, lock, unlock, flush; fence, PSCW, accumulates | packet handlers, progress engine | requests piggybacked on operations, full queues and retransmission, re-entered release | exclusion, completion at synchronisation, one acknowledgement for each that is awaited |
| **schedules** (`mpid/common/sched`) | list of entries per nonblocking collective, their status | build, start, continue, progress | requests, collectives | entries between two barriers run together | no buffer changes under a pending send, the schedule completes |
| **collectives** (`mpi/coll/i*.c`) | buffers, counters of callbacks | one algorithm per collective, size and kind of operation | schedules | numbers of processes that are no power of two, operations that do not commute, messages left out by both sides | the result is the one MPI defines, no message is too long or left over |
| fault tolerance (`ch3/mpid_comm_*.c`) | revoked flag, failed group | revoke, agree, shrink, acknowledge | receive queues | traffic that must survive revocation | see receive queues |
| Hydra (`pm/hydra`) | processes, proxies, key-value space | launch, PMI commands, death notification | all | proxies die, order of notices | every death is published |

`PROJECT.json` lists the remaining components, with why they are left out.

## 2. Modules

| module | models | uses |
|---|---|---|
| `CH3VC` | VCs, close protocol, send queue, termination queue, death | |
| `CH3VCProofs` | proofs about CH3VC, and about what closing leaves behind | CH3VC |
| `NemFIFO` | what a cell queue promises | |
| `NemQueue` | the lock-free queue, one memory access per action | implements NemFIFO |
| `NemLockQueue` | the variant with a lock | extends NemQueue, implements NemFIFO |
| `CH3Recvq` | the receive queues | |
| `CH3RecvqProofs` | proofs about CH3Recvq | CH3Recvq |
| `CH3Pt2pt` | point-to-point protocols, requests and handles | implements CH3Recvq |
| `CH3Pt2ptProofs` | proofs about CH3Pt2pt | CH3Pt2pt |
| `CH3Pt2ptRefinement` | the proof that CH3Pt2pt implements CH3Recvq | CH3Pt2ptProofs, CH3RecvqProofs |
| `ContextId` | allocation and freeing of context ids | |
| `ContextIdProofs` | proofs about ContextId | ContextId |
| `Sched` | the engine that runs schedules | |
| `CollSchedules` | the schedules that the nonblocking collectives build | |
| `CH3RMA` | passive-target one-sided communication | |
| `CH3RMAInv` | its inductive invariant | CH3RMA |
| `CH3RMAStepProofs` | the steps of the origins, and the release of a lock, keep it | CH3RMAInv |
| `CH3RMAProofs` | the steps of the target keep it; what follows | CH3RMAStepProofs |
| `MCNemQueue` | both builds of the queue in one specification | NemLockQueue |
| `NemQueueProofs` | proofs about both builds, and that both are FIFOs | MCNemQueue |
| `MCSched` | the collectives that are run, with what they must compute | Sched, CollSchedules |
| `MCCH3Recvq`, `MCCH3Pt2pt`, `MCContextId`, `MCCH3RMA` | constants and symmetries for TLC | |

Definitions keep the names of the functions they model.  A definition whose
comment says "mutant" is a wrong version of the one after it; no specification
uses it.  `PROJECT.json` ("mutants") says which property notices it.

### CH3VC

Processes `0 .. N-1` on one node.  `vc[p][q]` is the state of p's VC to q.
`wire[p][q]` holds the CLOSE packets that p has started and q has not handled;
the last of them are still in p's send queue `shmq[p]`, and the others are in
shared memory, where they survive p.  A packet is queued if no cell is free or
others are queued before it.  `Finalize`, `PG_Close_VCs` (one iteration of the
loop per step) and `VC_WaitForClose` are MPI_Finalize.  `PktHandler_Close` has
the branches of the handler, its assertions included (`CloseAssertFails` sets
`aborted`).  An acknowledged VC is CLOSED; it ends at once, or waits in `termq`
for the request that is last in the send queue at that time.
`Shm_send_progress` and `check_terminating_vcs` (one VC per step) end it.
`Fail` kills a process, `PMI_dead_processes` is Hydra's publication, and
`Check_for_failed_procs` and `terminate_failed_VCs` (one VC per step) the
reaction to it.

Left out: user data (a correct program has completed its communication on a VC
before it closes it), several process groups, MPI_Comm_disconnect, network VCs.

### NemFIFO, NemQueue, NemLockQueue

A step is one access to shared memory.  Enqueue is `Swap` (of the tail) and
`Link` (of the predecessor, or of head); `MPID_nem_queue_empty` is `EmptyFalse` or
`EmptyReset`; `MPID_nem_queue_dequeue` is `DequeueRead`, `DequeueCAS`,
`DequeueSpin`, `DequeueClear`.  `Release` gives a cell back, so that it is
enqueued again.  Memory is sequentially consistent: the model shows that the
algorithm is right with the barriers the code has, and not that each of them is
needed.  `queue` is a history variable that is changed by the swap (where the
order is decided) and by the dequeue.

### CH3Recvq

A list is the set of its requests, numbered in order of insertion.  Each
operation runs in one critical section and is one step.  A tag is a base tag and
whether it has the bit of tagged collectives; error bits are separate, since the
searches mask them differently.  A context is an id and a kind (point-to-point,
collective).  `matched` and `dropped` are history.

Left out: the read-only probe, hooks for network modules that match in hardware,
and the performance variables.  (Reading `dequeue_and_set_error` shows that the
latter drift: `unexpected_recvq_length` is never counted down there, and
`posted_recvq_length` only for requests at the head.)

### CH3Pt2pt

One sender, one receiver and the packets between them, in order.  Requests are
records at handles; a handle is free for another request as soon as the last
reference is gone, in any order of reuse, and the user may give a handle back at
any time.  `id` numbers messages for the properties; no action reads it.  A send
is eager, synchronous (eager with acknowledgement) or rendezvous.  The data of a
message can be all in the channel when its packet is handled, or come later
(`recv_active`, `DataArrives`), to the user's buffer or to a temporary one.  The
three handlers of arriving messages (EagerSend, EagerSyncSend, RndvReqToSend)
have the same branches and are one action, `PktHandler_Send`, with the protocol
as a parameter.  A message for a revoked communicator is thrown away without
setting `*buflen`, so the channel skips the rest of its buffer and may lose the
boundary of packets (`ThrowAway`, `GARBLED`).  The acknowledgement of a synchronous
send takes the sender's handle from the packet; the code takes it from the receive
request, into which the same handler copied it.

Left out: messages of length zero (as a whole arrival), truncation and derived
datatypes (data), sends to self, sends without a request, ready sends, persistent
and buffered sends, the revocation at the sender, the replacement of the
rendezvous protocol by LMT inside a node, the send requests of control packets,
which the code frees at once, and the null request of a message that is thrown
away, which is in no queue and which no action could use.

### ContextId

`context_mask[p]` is the set of free ids of p; `eager_in_use` and `mask_in_use`
are the flags that reserve its two segments, `next_gcn` the list of allocations
that wait for the second.  A blocking allocation is a thread in
`MPIR_Get_contextid_sparse_group`, a nonblocking one a schedule with the callbacks
`sched_cb_gcn_*`.  Both go through the same steps: `Reserve` (contribute a mask
or, if another allocation has it, nothing), `Allreduce` (external: all members
have contributed, each gets the intersection), `Finish` (an id is common) or
`Retry` (another iteration, or none is left).  A step is what a process does
without giving up the lock.  The two forms differ in when they enter the list and
in what they do when there is no id, and the model keeps that.

Left out: a failing Allreduce (reading the code shows that `fn_fail` then never
resets `eager_in_use`), and ids that are derived without an agreement.

### Sched, CollSchedules, MCSched

`Sched` is the engine.  `Startable` is the condition of `MPIDU_Sched_continue`: an
entry waits for everything up to every barrier before it.  `Sched_start` and
`Sched_progress_state` start all that may start, in order.  `Receive` (external)
delivers a message to the receive it matches; the k-th send from p to q matches
the k-th receive of q from p, as one tag is used.  Short messages leave the
buffer when the send starts and long ones stay in it until they are received
(`eager` is the limit), so that the model shows what a change of the buffer
would do.  A slot of a buffer holds the sequence of the contributions that were
reduced into it, in order: this tells results apart that a sum would not.

`CollSchedules` has one operator for each algorithm of barrier, broadcast,
reduce, allreduce, scan, exscan, reduce-scatter, allgather, alltoall, gather and
scatter; it returns the entries that process r of n adds, with the arithmetic of
the code on ranks, masks and counts.  Loops over masks are recursive operators,
so no theorem is stated about this module.

`MCSched` gives the inputs and, from the definition of each collective in MPI, the
results.  Where `prompt` holds a process that can make progress does so before any
other step.  This loses nothing: progress of p touches only p's memory and
disables no step of others, and a state in which p is slow is one in which the
messages that p's progress would send or await are slow.  The cases `Tiny` are run
without this reduction.

`MessagesFit` covers every entry, the local copies and reductions included: what
an entry writes lies within the allocated buffers, and an eager or pending message
is no longer than its receive.

Left out: collectives that run at the same time (their tags keep them apart),
the vector variants, intercommunicators, topology-aware variants, packing, and the
part of `MPIR_Ibcast_scatter_rec_dbl_allgather` for numbers of processes that are no
powers of two (`ibcast.c:527` to `:599`): the comment above it calls it experimental,
and `MPIR_Ibcast_intra` selects this algorithm for powers of two only
(`ibcast.c:892`).

### CH3RMA

Origins and one target.  `target[o]` is origin o's `MPIDI_RMA_Target_t`: access
state, synchronization asked for, the lists of operations waiting for the user
(`user`) or the network (`net`), acknowledgements awaited and operations not yet
flushed.  `check_and_switch_target_state` and `issue_ops_target` are functions of
it that also give the packets sent and whether an assertion fails; a call of the
user, a packet and a poll of the progress engine (`Make_progress_global`) each go
through them once, as in the code.  At the target, handlers are functions of its
state: a lock is granted, queued or refused, an operation is performed, queued
with or without its data, or dropped.  `Release_lock` is the loop over the queue,
with the passes that the counter `entered_count` adds when performing a queued
operation releases a lock again.  Data may follow a packet later (`DataArrives`),
and the channel may delay a response (`late`, `SendqProgress`).

A job has a program for each origin and a setting (`conf`): whether operations
are delayed to piggyback on them, how many entries the lock queue has and how
much data it may hold (`ConfsAssumption`; a program locks and unlocks in turn,
`Epochs`).  `discarded`, `dup`, `lost` and `stale` record what the
protocol does not recover from; after a use of a freed queue entry (`stale`) or a
failed assertion (`aborted`) the model stops.

Left out: fence and post-start-complete-wait, lock_all, flush_local,
MPI_MODE_NOCHECK, a process that locks its own window, accumulates and their
streams, windows in shared memory, networks without order, the pools of
operations and target elements of an origin.

## 3. Runs

| run | specification, instance | result |
|---|---|---|
| `vc` | CH3VC, 3 processes, one may die, the other two may queue sends; fair | types; `CleanExit`, `OutstandingCount`, `AssertOnlyAfterFailure`, `ClosedIsQuiet`, `FailureAccuracy`, `NoUnhandledTermination`; `FinalizeReturns`: if nobody dies, every MPI_Finalize returns |
| `vc_hang` | 3 processes, one may die; fair | **violated**: MPI_Finalize hangs (finding 1) |
| `nemq` | both builds of the queue, 3 producers, 4 cells; fair | `QueueAssertions` (the code's structured comments), `EmptyIsHonest`, `LockedEmptyIsExactInBuild`, and both implement NemFIFO, liveness included |
| `recvq` | 2 ranks, 2 tags (one of them of agreement), 2 contexts, error bits, 2 receives, 2 messages | `NoMissedMatch`, `NonOvertaking`, `FailedNotAwaited`, `RevokedIsClean`, `DroppedIsUnused` |
| `recvq_revoke` | an intra- and an intercommunicator, tagged collectives | **violated**: a needed message is thrown away and messages are queued after revocation (findings 2 and 3) |
| `pt2pt` | 2 sender handles, 3 receiver handles, 2 messages, 1 receive or probe, all cancellations, a revocation | `HandlesAreValid`, `AssertOnlyAfterRevoke`, `CancelIsHonest`, `SyncMeansMatched`, `CompleteMeansReceived`, and CH3Pt2pt implements CH3Recvq (`RecvqSpec`) |
| `pt2pt_live` | 1 sender handle used for 3 messages; fair | `SendReturns` |
| `pt2pt_revoke` | 1 message, 1 receive | **violated**: a completion counter becomes negative (finding 4) |
| `ctxid` | 3 processes, a nonblocking and two blocking allocations with overlapping members, one ignored id, 3 ids, 2 initial masks; fair | `MembersAgree`, `IdsAreDistinct`, `AssertOnlyAfterExhaustion`, `FlagsAreExact`, `ListIsPending`, `AllocationsEnd` |
| `sched` | 24 algorithms on 3 to 6 processes, several roots, counts, eager limits, in place and not | `ResultsAreCorrect`, `MessagesFit`, `NoStrayMessages`, `BarrierSynchronises`, `LengthErrors`, `SendBuffersAreStable`, no deadlock |
| `rma` | 3 origins, 66 combinations of program, delay, queue length and room | `MutualExclusion`, `RemoteCompletion`, `AckAccounting`, `LockRequestKept`, no deadlock except where something was thrown away |
| `rma_lock` | one of the programs, with delay | **violated**: a shared and an exclusive lock are held together (finding 5) |

Bounds.  The close protocol of a pair of processes does not depend on others,
except through the send queue and the termination queue of a process; with three
processes there are a dead one, a live one that is waited for, and the one that
waits, and the queues hold packets for both.  With 3 producers the oldest enqueue
can be unfinished while one after it is complete and a third begins; the fourth
cell is one the consumer has in hand.  Two receives and two messages are the
fewest that can overtake; the proofs remove this bound.  In CH3Pt2pt two messages
show one that has the handle of another; three receiver handles are those of two
unexpected messages and a posted receive.  `MaxRecvs = 2` was explored once and
takes just over five minutes, without an error.

In ContextId three allocations are one that has the mask, one that waits for it
and one that comes before both in the list; process 1 takes part in all, process
3 in one and without interest in the id.  One id is eager; process 2 may have
only one of the others, so that there are executions with an id for each
allocation and executions without.  The collectives have 3 and 4 processes (a
power of two and one that is not), and the algorithms that fold the excess
processes also 5 and 6, which leave one or two pairs; counts are smaller than,
equal to and larger than the number of processes, and not multiples of it.  Three
origins are the fewest with which `Release_lock` finds two requests in the queue;
queues of one entry and without room for data show refusal and retransmission.

Deadlock is checked where the system must not stop: in the queues producers and
consumer go on for ever; in ContextId, Sched and CH3RMA programs are finite and
the only step of a job that is over is an explicit one (`Done`, `Over`), so that
the check shows that every collective completes and every one-sided call returns,
without an assumption of fairness.  It is not checked where the bounded
environment runs out of messages or a process has died (`vc*`, `recvq*`,
`pt2pt*`).

Fairness.  In CH3VC every process calls MPI_Finalize, which MPI requires, and
then stays in the loop of `MPIDI_CH3U_VC_WaitForClose`, which calls the progress
engine: weak fairness of each of its parts.  The receive queue is a FIFO, so no
peer's packet is passed over for ever.  In the queues an enqueue that has begun
ends (a producer that dies between its two accesses is listed as a hazard
in `PROJECT.json`), and the consumer polls.  In CH3Pt2pt both processes poll, the
channel writes what it was given, and the user receives what a matched probe
found, as MPI requires; nobody has to receive, cancel or free anything else.  In ContextId a
communicator is created by all its members, as MPI requires, a thread that yields
runs again, and an Allreduce that all members have entered ends; nobody has to
free an id.

## 4. Findings

1. `vc_hang`.  Process 0 has a VC that is CLOSED and waits for a queued send to
   process 1.  1 dies, and `MPIDI_CH3I_Complete_sendq_with_error` removes that
   send without a call of `check_terminating_vcs`.  If no other send leaves the
   queue, MPI_Finalize waits for ever.
2. `recvq_revoke`.  The receive queue compares the tag with `MPIR_SHRINK_TAG`
   without taking `tagged_coll_mask` away (`ch3u_recvq.c:814`), MPID_Irecv does.
   A message of MPIX_Comm_shrink that comes before its receive is lost.
3. `recvq_revoke`.  `MPIDI_CH3I_Comm_find` looks for the id that an
   intercommunicator sends with, and the message has the id that it receives
   with.
4. `pt2pt_revoke`.  Revocation completes the requests of unexpected messages; for
   an eager message that has arrived this is the second completion, and the
   assertion of `MPIR_cc_decr` fails.
5. `rma_lock`.  In one pass over the lock queue `MPIDI_CH3I_Release_lock` performs
   an operation that carries its lock and its unlock, and then grants a shared
   lock.  The release inside the loop makes it run a second time, which starts
   with `current_lock_type = MPID_LOCK_NONE` (`ch3u_handle_recv_req.c:1929`).  The
   shared lock is forgotten, and an exclusive lock is granted beside it.
   `MutualExclusion` shows that this takes an operation delayed for
   piggybacking.

Pinned by a property that states what the code does:

- A CLOSE packet of a dead process is still in shared memory when its death is
  noticed and its VC becomes MORIBUND.  The handler's assertion
  (`ch3u_handle_connection.c:325`) fails and aborts a survivor.
  `AssertOnlyAfterFailure` says that it takes a death.
- The large-message broadcasts start with `curr_bytes = 0` (`ibcast.c:433`,
  `:683`) and so do not count the piece that the scatter left in a process; the
  check of the length at the end reports an error on every process whose piece is
  not empty.  `LengthErrors` says that exactly these report one.
- When no id is common, an allocation resets `mask_in_use` a second time on its
  way through `fn_fail` (`contextid.c:594`, `:640`), when another allocation may
  have it; that one then takes an id from a mask that a third has reserved, and
  the assertion at `contextid.c:243` can fail.  `AssertOnlyAfterExhaustion` says
  that it takes the exhaustion of ids.
- An operation with a flush or unlock that the target throws away is counted in
  `outstanding_acks` again when it is sent again (`ch3u_rma_progress.c:317`; the
  comment there says "but without LOCK piggyback"), and acknowledged once: the
  call that waits never returns.  `AckAccounting` says by how much the counter is
  too high.
- If the target has no queue entry for a lock request while the origin is already
  in MPI_Win_flush or MPI_Win_unlock, nobody sends the request again, since a
  window is put into the list of active ones only when its lock is granted; a
  later operation can fail the assertions of `check_and_switch_target_state` and
  `issue_ops_target`.  `LockRequestKept`, `AckAccounting` and the deadlock check
  exclude exactly this.
- The completion handler of data that are to be dropped uses the queue entry,
  which may have been granted and freed as a bare lock request
  (`ch3u_handle_recv_req.c:2010`); the model stops there (`stale`).

Seen while modelling, without a run:

- With four processes a closed VC can end while a send on it is queued.  Process
  0 has queued sends to x, q and d in this order, and its VC to q is CLOSED and
  waits for the last one.  d dies, and the send to d is completed out of order.
  When the send to x gets a cell, `check_terminating_vcs` finds the awaited
  request complete and ends the VC to q, whose send is still queued.  The comment
  at `ch3_progress.c:1142` takes this for impossible.
- The null request that `MPIDI_CH3U_Recvq_FDP_or_AEU` allocates for a message of a
  revoked communicator (`ch3u_recvq.c:817`) is never freed: the handlers set
  `*rreqp = NULL` and drop their only reference.
- `MPIDI_CH3_PktHandler_RndvReqToSend` leaves the message queue mutex locked when
  the communicator is revoked (`ch3u_rndv.c:136`).
- A rendezvous or synchronous send whose message the receiver removes by
  revocation is never answered; `SendReturns` excludes it.
- `MPIDU_Sched_next_tag` (`mpidu_sched.c:100`) fails with "**toomanynbc" before
  the wraparound of the tag, so that the tags of later schedules are beyond
  `tag_ub`; and an entry whose receive could not be posted stays STARTED without
  a request.
- `MPIR_Ibcast_SMP` (`ibcast.c:809`) adds a check of the received length on
  processes of the root's node that have received nothing.

## 5. Proofs

TLAPS proves the following for all values of the constants.

**CH3VCProofs**, for every number of processes, every set of processes that may
die and every set that may queue sends: `TypeOK`, `OutstandingCount`,
`AssertOnlyAfterFailure`, `FailureAccuracy`, `ClosedIsQuiet`.  None of them is
inductive alone.  The inductive invariant `IInv` has five parts.

- `CountInv`: types, the counter, and finite send queues.  Type correctness needs
  the counter: a counter that is decremented is positive since it counts the VC
  at hand.
- `PairInv`: the nine states in which a pair of live processes and the packets
  between them can be.  It is the heart of the argument; the handlers' assertions
  and `ClosedIsQuiet` can be read off it.
- `DeadInv`: only dead processes are published, noticed and terminated.
- `TermInv`: a VC to a live process waits at most once, and is CLOSED meanwhile;
  so the termination queue never makes one MORIBUND.
- `FailureAccuracy` and `AssertOnlyAfterFailure` themselves.

The second part of CH3VCProofs proves, with the same generality,
`NoUnhandledTermination`, whatever processes die, and `CleanExit`.  `IInv` is
silent on VCs to the dead and on the order of requests, so it is extended.

- `VisitInv`: a VC is closing or closed only if the loop of MPIDI_PG_Close_VCs has
  visited it, and the loop visits each VC exactly once (`PeerOnce`, `PeerAll`:
  arithmetic on remainders).  So the loop never meets an INACTIVE VC that may still
  wait in the termination queue.
- `QuietInv`: what a dead process left in shared memory is a prefix of what it had
  sent, and only the last packet of a close can be an acknowledgement; so nothing
  arrives on a VC whose close is over, and it is not reopened.
- `WaitInv`: a CLOSED VC waits once, or twice if the process has noticed the
  peer's death and terminated the VC for it, which happens once (`TodoInv`); an
  INACTIVE VC waits only in the latter case.
- `FifoInv`, only as long as nobody has died: requests leave the send queue in
  order, an entry of the termination queue waits for a request that is in the send
  queue or older than all of it, and a queued send belongs to a VC whose close is
  under way and whose entry, once it is CLOSED, waits for that send or a later one.
  When a VC is ended, its sends have therefore left the queue.  A death breaks this
  order (hazard `ch3_progress.c:1142`), and `CleanExit` is stated for runs without
  one.
- `DoneInv`: after MPI_Finalize the counter stays zero.

**CH3RecvqProofs**, for all ranks, tags, contexts, error bits and bounds:
`TypeOK`, `NoMissedMatch`, `NonOvertaking`, `FailedNotAwaited`; for
intracommunicators also `RevokedIsClean`; and, if collectives are not tagged and
context ids are distinct, `DroppedIsUnused`.  (Findings 2 and 3 show that these
assumptions are needed.)  The inductive invariant `QueueInv` adds to the
properties that no number in the queues or in `matched` exceeds the number given
out last (`SeqBounds`), that a receive that has taken a message accepts no earlier
message that still waits (`WaitingMsgs`), that a receive that still waits does not
accept what a later receive has taken (`WaitingRecvs`), and that a posted receive
has a context of its communicator (`PostedContexts`).

**NemQueueProofs**, for every set of producers and cells (`NULL` is not a cell):
the lock-free queue implements NemFIFO (`FreeQueueIsFifo`), so does the one with
a lock (`LockQueueIsFifo`), and `QueueAssertions`, `EmptyIsHonest` and
`LockedEmptyIsExactInBuild` hold in both builds.  `Prev[i]` is the cell in front of the
i-th of the queue; in front of the first it is the one that the consumer has taken
and still needs the next field of, or none.  The inductive invariant says

- `Places`: a cell is in one place at a time (free, with the consumer, or once in
  the queue), and the consumer has one exactly where its program counter says so;
- `Producers`: a producer between its two accesses has a cell of the queue, no two
  the same, and `r_prev` is `Prev` of that cell;
- `Links`: every next field is the successor of its cell, or `NULL` while the
  successor's producer has not linked it; a cell that is not in the queue has
  `NULL`;
- `LastCell`, `FirstCell`: what tail, head and my_head point to, in each state of
  the consumer.

It holds for both builds.  The lock adds that only the last cell can be unlinked
(`LockInv`), from which `LockedEmptyIsExactInBuild` follows.  In the refinement the
swap of the tail is the abstract enqueue, and the step that empties the queue,
takes the head or finds the next cell is the abstract dequeue.

**ContextIdProofs**, for all processes, groups, parents and tags, all initial masks
and sizes of the eager segment, and any mixture of blocking and nonblocking
allocations: `TypeOK`, `MembersAgree`, `IdsAreDistinct`,
`AssertOnlyAfterExhaustion`, `FlagsAreExact`, `ListIsPending`.  The inductive
invariant joins them with

- `Participation`: only members take part, and only those that want an id own a
  segment of the mask;
- `Contributions`: a member without a segment has contributed the empty mask, so
  that no id comes out of the Allreduce; id 0 is never free;
- `Agreement`: while one member has not looked at the result of an Allreduce, each
  other one has the same result before it, has found the id that the first will
  find, or has found none where the first will find none; and a member that has an
  id is at most one step ahead of the others;
- `Segments`: until an allocation runs out of ids, the ids in an outstanding mask
  are free and in the segment that the allocation owns, as nobody else may take
  ids from it;
- `Flags`: a segment has at most one user.

That a scan for the lowest common bit finds the same id everywhere needs that
nonempty sets of naturals have a least element (`LeastElement`), which the library
proves by well-founded induction.  `Insert` and `Removed` keep the list sorted and
lose nothing; the lemmas about them are stated for any sequence.

**CH3Pt2ptProofs**, for all sets of handles and tags and any number of messages and
receives: `TypeOK`, `HandlesAreValid`, `AssertOnlyAfterRevoke`, `CancelIsHonest`,
`SyncMeansMatched`, `CompleteMeansReceived`.  The inductive invariant follows each
message by its id.

- `Requests`: the completion counter of a send is at least the number of things
  still to come for it (the channel, the answer of the receiver if the protocol
  has one, the answer to a cancellation), and its reference count is the user's
  reference plus one while the counter is positive.  So a request that an answer
  is due for is not freed, and its handle not used again.
- `ToReceiver`, `ToSender`: the same for every packet under way, with the order of
  packets: a message comes before the request to cancel it, and ids of messages
  increase.
- `Receives`: the possible combinations of counters and buffers for a receive in
  each of its places, with the channel filling it and without.
- `Unexpected`, `Probed`, `InOrder`, `History`: a message is on the wire, in the
  unexpected queue, matched or removed, and in only one of these; the queues are
  in the order of sending.  It follows that the search of
  `MPIDI_CH3U_Recvq_FDU` with handle and tag finds, among several messages with
  the same handle and tag, the one that is to be cancelled: the last of them
  (`CancelIsExact`).

The only assumption is that `NULL` and `GARBLED` are not handles.

**CH3Pt2ptRefinement**: CH3Pt2pt implements CH3Recvq (`UsesReceiveQueues`, that is
`Spec => RecvqSpec`).  A queue of CH3Recvq is the set of requests of CH3Pt2pt that
are in that place; a packet handler or a call is one operation of the queues, and
the steps of the sender, the arrival of data, `MPID_Imrecv` and giving a handle
back are none.  Besides the invariant above the proof needs that no two posted
receives have the same number and that messages under way have not been counted
(`Numbers`), and that a message never has a wild card for its tag (`MsgTagsOK`).  The
lemmas follow one request at a time: it stays where it is (`PostedSame`,
`UnexpectedSame`), leaves a queue (`PostedLeaves`, `UnexpectedLeaves`) or enters one
(`QueueEnters`), and the searches of the two models find the same request
(`FirstPosted`, `FirstUnexpected`).

The theorems of CH3RecvqProofs then hold of point-to-point communication.  With one
more invariant, `InSequence` (messages are numbered on arrival in the order in which
they were sent), `MessagesDoNotOvertake` gives the rule of the MPI standard from
call to call (`CallsKeepOrder`): of two receives or probes the one posted first never
gets a message when one that was sent earlier, and that it accepts, goes to the
other, though eager, synchronous and rendezvous messages are mixed, and handles
are used again.  The assumptions are those of CH3Pt2pt: handles as above, the wild
card is not a tag, and the bounds are natural numbers.

**CH3RMAProofs**, for every finite set of origins, every length of the lock queue and
room for data, with and without delay, and all programs in which a lock follows an
unlock and nothing else (`Epochs`; the calls refuse a target that is locked twice
or not at all): `TypeOK`, `MutualExclusion`, `RemoteCompletion`, `AckAccounting`,
`LockRequestKept`.  All follow from one inductive invariant, `Inv` of CH3RMAInv, which
was model-checked on the instance of `rma` before it was proved.

- Each origin is in one of seven phases (`Phase`): `Idle`, `Requested` (the lock
  request is on its way), `Queued` (alone, with its operation, or alone since there
  was no room for the data), `Refused`, `Receiving` (granted; the data of the
  operation arrive), `Answered`, `Granted`.  A phase fixes every packet
  between the origin and the target, what the data that still arrive are for,
  which operations are performed (`Ids`), and the value of `outstanding_acks`.
  The phases are needed since the properties relate counts that each handler
  changes by one: that an acknowledgement decrements a counter that counts it
  holds because no other packet can be there.
- In phase `Granted` what is under way is a `Pipeline` of operations with consecutive
  numbers, of which the last one is flagged if nothing remains unflushed
  (`Flushed`), so an `outstanding_acks` of zero means that all of them are performed;
  and exactly one release is to come once the epoch is over, as unlock packet, as a
  flag of the last operation or with the response to a get that waits for the channel
  (`ReleasesOnce`).
- `Settled` relates the fields of an origin's target element between its steps:
  which synchronization it is in, and when `user` and `net` are empty.
- `TargetInv`: the target's lock type and reference count are exact (`Exact`) until a
  lock is forgotten, no queue entry with its data can be granted (`Blocked`), an
  origin has one entry (`OneEntry`).
- An origin whose assertion failed is in no phase (`Failed`); the model stops there.

The hard step is `MPIDI_CH3I_Release_lock`.  Its passes over the queue and their
repetition are recursive functions; that these exist is proved by induction over
the natural numbers in the form of sets (`NatSetInduction`, from the least element
of a set of naturals).  During a pass the account is only nearly exact, and each
grant moves the origin of an entry to `Answered` while the phases of all others stay
(`During`, `TryGrant`, `PassEffect`); a second pass is needed only after a release
inside the first, hence only with delay (`tgt.lost => conf.delay`), and after the last
pass nothing that could be granted is left (`ReleaseLoop`, `ReleaseRest`).
`AckAccounting` and `LockRequestKept` then count packets phase by phase
(`PhaseCounts`).  That a forgotten lock is possible at all is finding 5;
`MutualExclusion` proves that this takes an operation that carried its lock and its
unlock.

Only model-checked: liveness (`FinalizeReturns`, `SendReturns`, `AllocationsEnd`,
and the fairness in `FifoFairSpec`) and the absence of deadlock, since TLAPS proves
neither fairness nor ENABLED; and the properties of Sched, whose schedules are
recursive functions of the number of processes.

## 6. Plan

Done: CH3VC, the cell queues, CH3Recvq, CH3Pt2pt, ContextId, Sched with
CollSchedules, and CH3RMA, with their runs; the proofs of section 5.  Next, in this
order:

1. The shared-memory data path (cells, fast boxes, messages of several cells and
   the death of a process between two of them) and LMT over it.
2. The TCP connection state machine; active-target RMA and accumulates; REVOKE
   packets and agreement; Hydra's PMI server.

## 7. Not modelled

`PROJECT.json` gives the reason for each component.  In short: the CH4 device, the
network modules and the devices of vendors rest on libraries that are not in the
repository; ROMIO, hwloc, OpenPA and MPL are libraries of their own; datatypes,
attributes, info objects, topologies and error classes are sequential bookkeeping
without a protocol; bindings and error tables are generated.  The parts named in
the plan are protocols that could be modelled in the same way and are not yet.
