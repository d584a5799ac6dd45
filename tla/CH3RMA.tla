------------------------------- MODULE CH3RMA -------------------------------
(***************************************************************************)
(* Passive-target one-sided communication of CH3: origins lock the window  *)
(* of one target process, put to it and get from it, flush and unlock      *)
(* (ch3u_rma_sync.c, ch3u_rma_progress.c, ch3u_rma_pkthandler.c,           *)
(* mpidrma.h).                                                             *)
(*                                                                         *)
(* An origin may send its lock, flush and unlock requests on their own or  *)
(* piggybacked on an operation.  The target grants a lock, queues the      *)
(* request, with the data of its operation or without, or throws it away   *)
(* when the pool of queue entries is empty; what is thrown away the origin *)
(* sends again.  A synchronization returns when a counter of outstanding   *)
(* acknowledgements is zero.                                               *)
(*                                                                         *)
(* Connections keep the order of their packets.  The network flushes in    *)
(* order (am_flush_ordered), and the target is not one of the origins.     *)
(***************************************************************************)
EXTENDS Naturals, Sequences, FiniteSets, SequencesExt

CONSTANTS Origins,
          Confs  \* the settings and programs that are checked

(* A program is a sequence of calls: "SHARED" and "EXCLUSIVE" stand for    *)
(* MPI_Win_lock; "put" is a put whose data fit in the packet, "putd" one   *)
(* whose data follow it, "putn" one that is too long, or whose datatype is *)
(* derived, and cannot piggyback a lock.                                   *)
Locks == {"SHARED", "EXCLUSIVE"}
OpKinds == {"put", "putd", "putn", "get"}
Calls == Locks \cup OpKinds \cup {"flush", "unlock"}

ASSUME OriginsAssumption == IsFiniteSet(Origins)

\* MPID_Win_lock refuses a target that is locked already, the other calls one
\* that is not locked.
Epochs(p) == \A i \in DOMAIN p : p[i] \in Locks <=> (i = 1 \/ p[i - 1] = "unlock")

\* delay: MPIR_CVAR_CH3_RMA_DELAY_ISSUING_FOR_PIGGYBACKING.  pool: the entries
\* of the lock queue.  room: the operations whose data the queue can hold.
ASSUME ConfsAssumption ==
  \A c \in Confs : /\ c.delay \in BOOLEAN /\ c.pool \in Nat /\ c.room \in Nat
                   /\ c.prog \in [Origins -> Seq(Calls)]
                   /\ \A o \in Origins : Epochs(c.prog[o])

VARIABLES
  conf,      \* the setting of this job
  target,    \* target[o]: o's MPIDI_RMA_Target_t, and whether its window is
             \* in the list of active ones
  call,      \* call[o]: the call in which o waits
  prog,      \* prog[o]: the calls that o still has to make
  nops,      \* nops[o]: the operations that o has called
  toT,       \* toT[o]: packets from o to the target
  tgt,       \* the target process, see Init
  aborted    \* an assertion of an origin failed

vars == <<conf, target, call, prog, nops, toT, tgt, aborted>>

\* MPIDI_CH3I_Win_target_alloc.  net and user are the lists of pending
\* operations, acks is sync.outstanding_acks and unflushed is
\* num_ops_flush_not_issued.
NewTarget == [access |-> "NONE", type |-> "NONE", sync |-> "NONE", net |-> <<>>,
              user |-> <<>>, acks |-> 0, unflushed |-> 0, active |-> FALSE]

NoData == [what |-> "none"]

Init ==
  /\ conf \in Confs
  /\ target = [o \in Origins |-> NewTarget]
  /\ call = [o \in Origins |-> "none"]
  /\ prog = conf.prog
  /\ nops = [o \in Origins |-> 0]
  /\ toT = [o \in Origins |-> <<>>]
  /\ tgt = [lock |-> "NONE",                       \* current_lock_type
            ref |-> 0,                             \* shared_lock_ref_cnt
            queue |-> <<>>,                        \* target_lock_queue
            entered |-> 0,                         \* entered_count
            recv |-> [o \in Origins |-> NoData],   \* what the rest of the data from o is for
            sendq |-> [o \in Origins |-> <<>>],    \* packets that wait for the channel
            toO |-> [o \in Origins |-> <<>>],      \* packets on their way to o
            applied |-> [o \in Origins |-> <<>>],  \* history: operations performed
            holds |-> [o \in Origins |-> "NONE"],  \* history: locks granted, not released
            dup |-> [o \in Origins |-> 0],         \* history: acknowledgements lost
            discarded |-> {},                      \* history: whose lock requests were
            lost |-> FALSE,                        \* history: a lock that is held was forgotten
            stale |-> FALSE]                       \* a queue entry was used after it was freed
  /\ aborted = FALSE

-----------------------------------------------------------------------------
(* The origins.  An operator that sends packets returns the new target     *)
(* element t, the packets out, and whether an assertion fails.             *)

\* An operation is the packet that will be sent for it.
Op(kind, id) == [type |-> kind, id |-> id, lock |-> "NONE", flush |-> FALSE, unlock |-> FALSE]
Candidate(op) == op.type # "putn"
IsRead(op) == op.type = "get"

Result(t, out, bad) == [t |-> t, out |-> out, bad |-> bad]

\* An operation that waits to be piggybacked need not wait any longer.
MoveUserOp(t) ==
  IF t.user = <<>> THEN t
  ELSE [t EXCEPT !.net = Append(@, Head(t.user)), !.user = Tail(t.user)]

HasCandidate(ops) == ops # <<>> /\ Candidate(Head(ops))

\* The flush or unlock request that ends a synchronization; ack says whether
\* it has to be acknowledged.
EndSync(t, pkt, ack) ==
  Result([t EXCEPT !.sync = "NONE", !.acks = IF ack THEN @ + 1 ELSE @, !.unflushed = 0],
         pkt, FALSE)

check_and_switch_target_state(t0) ==
  LET t == IF t0.sync # "NONE" THEN MoveUserOp(t0) ELSE t0
      ack == t.unflushed > 0
  IN CASE t.access = "CALLED" /\ t.sync # "UNLOCK"
            /\ ~HasCandidate(t.net) /\ ~HasCandidate(t.user)
            -> Result([t EXCEPT !.access = "ISSUED"], <<[type |-> "lock", lock |-> t.type]>>, FALSE)
       [] t.access = "CALLED" /\ t.sync = "UNLOCK" /\ t.net = <<>>
            -> Result([t EXCEPT !.access = "GRANTED", !.sync = "NONE"], <<>>, FALSE)
       [] t.access = "CALLED" /\ t.sync = "UNLOCK" /\ t.net # <<>>
            -> Result(t, <<>>, ~(conf.delay /\ Len(t.net) = 1 /\ HasCandidate(t.net)))
       [] t.access = "GRANTED" /\ t.sync = "FLUSH" /\ t.net = <<>>
            -> EndSync(t, IF ack THEN <<[type |-> "flush"]>> ELSE <<>>, ack)
       [] t.access = "GRANTED" /\ t.sync = "UNLOCK" /\ t.net = <<>>
            -> EndSync(t, <<[type |-> "unlock", noack |-> ~ack]>>, ack)
       [] OTHER -> Result(t, <<>>, FALSE)

\* The flags that issue_ops_target gives to operation i of the list.
Flagged(t, i) ==
  LET op == t.net[i]
      last == i = Len(t.net)
  IN [op EXCEPT !.lock = IF t.access = "CALLED" THEN t.type ELSE "NONE",
                !.flush = (IsRead(op) \/ (last /\ t.sync = "FLUSH"))
                          /\ ~(last /\ t.sync = "UNLOCK"),
                !.unlock = last /\ t.sync = "UNLOCK"]

WantsAck(op) == op.flush \/ op.unlock

\* issue_ops_target: one operation with the lock, which stays in the list since
\* it may have to be sent again, or all of them.
issue_ops_target(t) ==
  LET first == Flagged(t, 1)
      all == [i \in DOMAIN t.net |-> Flagged(t, i)]
      acked == {i \in DOMAIN all : WantsAck(all[i])}
      done == (t.sync = "FLUSH" /\ Last(all).flush) \/ Last(all).unlock
  IN CASE t.net = <<>> \/ t.access = "ISSUED" -> Result(t, <<>>, FALSE)
       [] t.net # <<>> /\ t.access = "CALLED"
            -> Result([t EXCEPT !.access = "ISSUED", !.net[1] = first,
                                !.acks = IF WantsAck(first) THEN @ + 1 ELSE @,
                                !.unflushed = IF WantsAck(first) THEN 0 ELSE @ + 1],
                      <<first>>, ~Candidate(first))
       [] OTHER
            -> Result([t EXCEPT !.net = <<>>, !.active = FALSE,
                                !.acks = @ + Cardinality(acked),
                                !.unflushed = IF acked = {} THEN @ + Len(all)
                                              ELSE Len(all) - Max(acked),
                                !.sync = IF done THEN "NONE" ELSE @],
                      all, FALSE)

\* MPIDI_CH3I_RMA_Make_progress_target, and issue_ops_win for the one target.
Make_progress_target(t) ==
  LET s == check_and_switch_target_state(t)
      i == issue_ops_target(s.t)
  IN Result(i.t, s.out \o i.out, s.bad \/ i.bad)

\* Origin o goes on with result r.
Become(o, r) ==
  /\ target' = [target EXCEPT ![o] = r.t]
  /\ toT' = [toT EXCEPT ![o] = @ \o r.out]
  /\ aborted' = r.bad

\* The next call of o is c.
Calling(o, c) ==
  /\ ~aborted /\ ~tgt.stale
  /\ call[o] = "none" /\ prog[o] # <<>>
  /\ c = Head(prog[o])
  /\ prog' = [prog EXCEPT ![o] = Tail(@)]

\* MPID_Win_lock.
Win_lock(o) == \E type \in Locks :
  LET t == [NewTarget EXCEPT !.access = "CALLED", !.type = type]
  IN /\ Calling(o, type)
     /\ Become(o, IF conf.delay THEN Result(t, <<>>, FALSE) ELSE Make_progress_target(t))
     /\ UNCHANGED <<conf, call, nops, tgt>>

\* MPIDI_CH3I_Win_enqueue_op.
Win_enqueue_op(t, op) ==
  LET q == IF conf.delay THEN [MoveUserOp(t) EXCEPT !.user = <<op>>]
                         ELSE [t EXCEPT !.net = Append(@, op)]
  IN [q EXCEPT !.active = @ \/ (q.net # <<>> /\ q.access = "GRANTED")]

\* MPIDI_CH3I_Put and MPIDI_CH3I_Get.
PutOrGet(o) == \E kind \in OpKinds :
  /\ Calling(o, kind)
  /\ nops' = [nops EXCEPT ![o] = @ + 1]
  /\ Become(o, Make_progress_target(Win_enqueue_op(target[o], Op(kind, nops[o] + 1))))
  /\ UNCHANGED <<conf, call, tgt>>

\* MPID_Win_flush and MPID_Win_unlock up to where they wait.
Win_flush(o) ==
  /\ Calling(o, "flush")
  /\ call' = [call EXCEPT ![o] = "flush"]
  /\ Become(o, Make_progress_target([target[o] EXCEPT !.sync = "FLUSH"]))
  /\ UNCHANGED <<conf, nops, tgt>>

Win_unlock(o) ==
  /\ Calling(o, "unlock")
  /\ call' = [call EXCEPT ![o] = "unlock"]
  /\ Become(o, Make_progress_target([target[o] EXCEPT !.sync = "UNLOCK"]))
  /\ UNCHANGED <<conf, nops, tgt>>

\* Mutant: outstanding acknowledgements are not waited for.
ops_completionLocal(t) ==
  /\ t.access \notin {"CALLED", "ISSUED"}
  /\ t.net = <<>> /\ t.user = <<>>
  /\ t.sync = "NONE"

\* MPIDI_CH3I_RMA_ops_completion, remote_completed.  Packets that the channel of
\* the origin has not yet sent (num_pkts_wait_for_local_completion) are left out:
\* they are not acknowledged either.
ops_completion(t) ==
  /\ t.access \notin {"CALLED", "ISSUED"}
  /\ t.net = <<>> /\ t.user = <<>>
  /\ t.sync = "NONE" /\ t.unflushed = 0 /\ t.acks = 0

\* The waiting call returns; MPID_Win_unlock frees the target element.
Return(o) ==
  /\ ~aborted /\ ~tgt.stale
  /\ call[o] # "none" /\ ops_completion(target[o])
  /\ call' = [call EXCEPT ![o] = "none"]
  /\ target' = [target EXCEPT ![o] = IF call[o] = "unlock" THEN NewTarget ELSE @]
  /\ UNCHANGED <<conf, prog, nops, toT, tgt, aborted>>

\* MPIDI_CH3I_RMA_Make_progress_global, from the progress engine.
Make_progress_global(o) ==
  /\ ~aborted /\ ~tgt.stale
  /\ target[o].active
  /\ Become(o, Make_progress_target(target[o]))
  /\ UNCHANGED <<conf, call, prog, nops, tgt>>

\* handle_lock_ack_with_op: the operation that carried the lock request is
\* done, or its flags are erased and it is sent again.
handle_lock_ack_with_op(t, flag) ==
  LET op == Head(t.net)
      done == /\ Len(t.net) = 1
              /\ (t.sync = "FLUSH" /\ op.flush) \/ (t.sync = "UNLOCK" /\ op.unlock)
  IN CASE flag = "GRANTED" ->
            [t EXCEPT !.net = Tail(@), !.sync = IF done THEN "NONE" ELSE @,
                      !.active = @ /\ Len(t.net) > 1]
       [] flag \in {"DATA_DISCARDED", "DISCARDED"} -> [t EXCEPT !.net[1] = Op(op.type, op.id)]
       [] flag = "QUEUED" -> t

handle_lock_ack(t, flag) ==
  LET g == IF flag = "GRANTED"
           THEN [t EXCEPT !.access = "GRANTED", !.active = @ \/ t.net # <<>>] ELSE t
      r == IF g.access = "GRANTED" /\ g.net = <<>> THEN Make_progress_target(g)
                                                  ELSE Result(g, <<>>, FALSE)
  IN IF flag = "DISCARDED" THEN [r EXCEPT !.t.access = "CALLED"] ELSE r

\* MPIDI_CH3I_RMA_Handle_ack.
Handle_ack(r) == [r EXCEPT !.t.acks = IF @ = 0 THEN 0 ELSE @ - 1, !.bad = @ \/ r.t.acks = 0]

\* The packet handlers LockAck, LockOpAck, GetResp and Ack.
PktHandler_origin(t, p) ==
  LET op == p.type = "lock_op_ack" \/ (p.type = "get_resp" /\ p.flag = "GRANTED")
      bad == op /\ (t.net = <<>> \/ Head(t.net).lock = "NONE")
      u == IF op /\ ~bad THEN handle_lock_ack_with_op(t, p.flag) ELSE t
      r == IF op \/ p.type = "lock_ack" THEN handle_lock_ack(u, p.flag)
                                        ELSE Result(u, <<>>, FALSE)
      a == IF p.ack THEN Handle_ack(r) ELSE r
  IN [a EXCEPT !.bad = @ \/ bad]

OriginReceive(o) ==
  /\ ~aborted /\ ~tgt.stale
  /\ tgt.toO[o] # <<>>
  /\ Become(o, PktHandler_origin(target[o], Head(tgt.toO[o])))
  /\ tgt' = [tgt EXCEPT !.toO[o] = Tail(@)]
  /\ UNCHANGED <<conf, call, prog, nops>>

-----------------------------------------------------------------------------
(* The target.  Its operators map the state s of the process to the next   *)
(* one.  late says that the channel cannot take the response to a get at   *)
(* once.                                                                   *)

Ack == [type |-> "ack", flag |-> "NONE", ack |-> TRUE]
LockAck(flag) == [type |-> "lock_ack", flag |-> flag, ack |-> FALSE]
LockOpAck(flag, ack) == [type |-> "lock_op_ack", flag |-> flag, ack |-> ack]
GetResp(op) == [type |-> "get_resp", flag |-> IF op.lock # "NONE" THEN "GRANTED" ELSE "NONE",
                ack |-> WantsAck(op), unlock |-> op.unlock]

Send(s, o, pkt) == IF s.sendq[o] = <<>> THEN [s EXCEPT !.toO[o] = Append(@, pkt)]
                                        ELSE [s EXCEPT !.sendq[o] = Append(@, pkt)]
SendLate(s, o, pkt) == [s EXCEPT !.sendq[o] = Append(@, pkt)]

\* Mutant: an exclusive lock is granted while a shared one is held.
CanAcquireAny(s, type) == s.lock # "EXCLUSIVE"

\* MPIDI_CH3I_Try_acquire_win_lock.
CanAcquire(s, type) == s.lock = "NONE" \/ (s.lock = "SHARED" /\ type = "SHARED")
Acquire(s, o, type) == [s EXCEPT !.lock = type, !.holds[o] = type,
                                 !.ref = IF type = "SHARED" THEN @ + 1 ELSE @]

\* Mutant: a put with a lock and a flush is acknowledged twice.
PerformAckTwice(s, o, op, late) ==
  LET a == [s EXCEPT !.applied[o] = Append(@, op.id)]
      g == Send(a, o, LockOpAck("GRANTED", WantsAck(op)))
  IN CASE IsRead(op) /\ late -> SendLate(a, o, GetResp(op))
       [] IsRead(op) /\ ~late -> Send(a, o, GetResp(op))
       [] ~IsRead(op) /\ op.lock # "NONE" -> IF WantsAck(op) THEN Send(g, o, Ack) ELSE g
       [] ~IsRead(op) /\ op.lock = "NONE" /\ WantsAck(op) -> Send(a, o, Ack)
       [] OTHER -> a

\* An operation that may be performed: its effect and its answers.
Perform(s, o, op, late) ==
  LET a == [s EXCEPT !.applied[o] = Append(@, op.id)]
  IN CASE IsRead(op) /\ late -> SendLate(a, o, GetResp(op))
       [] IsRead(op) /\ ~late -> Send(a, o, GetResp(op))
       [] ~IsRead(op) /\ op.lock # "NONE" -> Send(a, o, LockOpAck("GRANTED", WantsAck(op)))
       [] ~IsRead(op) /\ op.lock = "NONE" /\ WantsAck(op) -> Send(a, o, Ack)
       [] OTHER -> a

\* Whether finish_op_on_target releases the lock now: after a put, and after a
\* get once its response is sent.
Releases(s, o, op, late) == op.unlock /\ (IsRead(op) => ~late /\ s.sendq[o] = <<>>)

\* The start of MPIDI_CH3I_Release_lock.
Decrement(s, o) == [s EXCEPT !.holds[o] = "NONE", !.ref = IF s.lock = "SHARED" THEN @ - 1 ELSE @]

\* MPIDI_CH3I_Release_lock when it is called from its own loop.
Reenter(s, o) == LET d == Decrement(s, o)
                 IN IF d.ref = 0 THEN [d EXCEPT !.entered = @ + 1] ELSE d

\* perform_op_in_lock_queue for entry e, whose lock is acquired, without the
\* release of the lock.
PerformEntry(s, e, late) ==
  IF e.op.type = "lock" THEN Send(s, e.o, LockAck("GRANTED")) ELSE Perform(s, e.o, e.op, late)
EntryReleases(s, e, late) == e.op.type # "lock" /\ Releases(s, e.o, e.op, late)

Dequeue(s, e) ==
  [s EXCEPT !.queue = RemoveAt(@, CHOOSE i \in DOMAIN s.queue : s.queue[i].o = e.o)]

\* The body of the loop over the queue.
TryEntry(x, e, late) ==
  IF x.stop \/ ~e.data \/ ~CanAcquire(x.s, e.op.lock) THEN x
  ELSE LET a == Dequeue(Acquire(x.s, e.o, e.op.lock), e)
           p == PerformEntry(a, e, late)
       IN [s |-> IF EntryReleases(a, e, late) THEN Reenter(p, e.o) ELSE p,
           stop |-> e.op.lock = "EXCLUSIVE"]

\* One pass over the queue.
Pass(s, late) ==
  LET free == [s EXCEPT !.lock = "NONE", !.lost = @ \/ \E o \in Origins : s.holds[o] # "NONE"]
      upto[i \in 0 .. Len(s.queue)] ==
        IF i = 0 THEN [s |-> free, stop |-> FALSE] ELSE TryEntry(upto[i - 1], s.queue[i], late)
  IN upto[Len(s.queue)].s

\* Mutant: the loop is not repeated for the releases inside it.
Release_lockOnce(s, o, late) ==
  LET d == Decrement(s, o)
  IN IF d.ref # 0 THEN d ELSE [Pass(d, late) EXCEPT !.entered = 0]

\* MPIDI_CH3I_Release_lock: after its first pass the loop makes one more for
\* each time that it was entered again.
Release_lock(s, o, late) ==
  LET d == Decrement(s, o)
      Again(x, i) == IF i - 1 <= x.entered THEN Pass(x, late) ELSE x
      loop[i \in 0 .. Len(d.queue) + 1] == IF i = 0 THEN d ELSE Again(loop[i - 1], i)
  IN IF d.ref # 0 THEN d ELSE [loop[Len(d.queue) + 1] EXCEPT !.entered = 0]

\* An operation is performed when a packet handler or the last of the data
\* allows it: the Put and Get handlers, PutRecvComplete.
Finish(s, o, op, late) ==
  LET p == Perform(s, o, op, late)
  IN IF Releases(s, o, op, late) THEN Release_lock(p, o, late) ELSE p

\* The queue entry for op; if there is no room for its data it becomes a
\* request for the lock alone.
Entry(o, op, part, room) ==
  [o |-> o, op |-> IF room THEN op ELSE [op EXCEPT !.type = "lock"],
   data |-> ~part \/ ~room]

Lose(s, o, op) == [s EXCEPT !.dup[o] = IF WantsAck(op) THEN @ + 1 ELSE @]

\* enqueue_lock_origin for a lock request, and for an operation with one; part
\* says that some of its data are still to come.  What remains of the data
\* belongs to the entry even if they are to be dropped.
enqueue_lock(s, o, p) ==
  IF Len(s.queue) = conf.pool
  THEN Send([s EXCEPT !.discarded = @ \cup {o}], o, LockAck("DISCARDED"))
  ELSE Send([s EXCEPT !.queue = Append(@, [o |-> o, op |-> p, data |-> TRUE])],
            o, LockAck("QUEUED"))

enqueue_op(s, o, op, part) ==
  LET rest(what) == IF part THEN [op |-> op, what |-> what] ELSE NoData
      room == \/ op.type # "putd"
              \/ Cardinality({i \in DOMAIN s.queue : s.queue[i].op.type = "putd"}) < conf.room
  IN IF Len(s.queue) = conf.pool
     THEN Send(Lose([s EXCEPT !.recv[o] = rest("drop"), !.discarded = @ \cup {o}], o, op),
               o, LockOpAck("DISCARDED", FALSE))
     ELSE LET q == [s EXCEPT !.queue = Append(@, Entry(o, op, part, room)),
                             !.recv[o] = rest("entry")]
          IN IF room THEN Send(q, o, LockOpAck("QUEUED", FALSE))
                     ELSE Send(Lose(q, o, op), o, LockOpAck("DATA_DISCARDED", FALSE))

\* The packet handlers Lock, Put, Get, Flush and Unlock.
PktHandler_target(s, o, p, part, late) ==
  CASE p.type = "lock" ->
         IF CanAcquire(s, p.lock) THEN Send(Acquire(s, o, p.lock), o, LockAck("GRANTED"))
                                  ELSE enqueue_lock(s, o, p)
    [] p.type \in OpKinds ->
         IF p.lock # "NONE" /\ ~CanAcquire(s, p.lock) THEN enqueue_op(s, o, p, part)
         ELSE LET a == IF p.lock # "NONE" THEN Acquire(s, o, p.lock) ELSE s
              IN IF part THEN [a EXCEPT !.recv[o] = [op |-> p, what |-> "op"]]
                         ELSE Finish(a, o, p, late)
    [] p.type = "flush" -> Send(s, o, Ack)
    [] p.type = "unlock" ->
         LET r == Release_lock(s, o, late) IN IF p.noack THEN r ELSE Send(r, o, Ack)

\* The target handles a packet from o.
TargetReceive(o) == \E part, late \in BOOLEAN :
  /\ ~aborted /\ ~tgt.stale
  /\ toT[o] # <<>> /\ tgt.recv[o] = NoData
  /\ part => Head(toT[o]).type \in {"putd", "putn"}
  /\ tgt' = PktHandler_target(tgt, o, Head(toT[o]), part, late)
  /\ toT' = [toT EXCEPT ![o] = Tail(@)]
  /\ UNCHANGED <<conf, target, call, prog, nops, aborted>>

\* MPIDI_CH3_ReqHandler_PiggybackLockOpRecvComplete.
PiggybackLockOpRecvComplete(s, o, late) ==
  LET queue == [i \in DOMAIN s.queue |->
                  IF s.queue[i].o = o THEN [s.queue[i] EXCEPT !.data = TRUE] ELSE s.queue[i]]
      e == CHOOSE x \in Range(queue) : x.o = o
      q == [s EXCEPT !.queue = queue]
      a == Dequeue(Acquire(q, o, e.op.lock), e)
      p == PerformEntry(a, e, late)
  IN CASE \A i \in DOMAIN s.queue : s.queue[i].o # o -> [s EXCEPT !.stale = TRUE]
       [] OTHER -> IF ~CanAcquire(q, e.op.lock) THEN q
                   ELSE IF EntryReleases(a, e, late) THEN Release_lock(p, o, late) ELSE p

\* The rest of the data of an operation has come.
DataArrives(o) == \E late \in BOOLEAN :
  LET r == tgt.recv[o]
      s == [tgt EXCEPT !.recv[o] = NoData]
  IN /\ ~aborted /\ ~tgt.stale
     /\ r # NoData
     /\ tgt' = CASE r.what = "op" -> Finish(s, o, r.op, late)
                 [] r.what = "entry" -> PiggybackLockOpRecvComplete(s, o, late)
                 [] r.what = "drop" -> s
     /\ UNCHANGED <<conf, target, call, prog, nops, toT, aborted>>

\* The channel takes a packet that waited; after the response to a get
\* MPIDI_CH3_ReqHandler_GetSendComplete releases the lock.
SendqProgress(o) == \E late \in BOOLEAN :
  LET pkt == Head(tgt.sendq[o])
      s == [tgt EXCEPT !.sendq[o] = Tail(@), !.toO[o] = Append(@, pkt)]
  IN /\ ~aborted /\ ~tgt.stale
     /\ tgt.sendq[o] # <<>>
     /\ tgt' = IF pkt.type = "get_resp" /\ pkt.unlock THEN Release_lock(s, o, late) ELSE s
     /\ UNCHANGED <<conf, target, call, prog, nops, toT, aborted>>

-----------------------------------------------------------------------------
Step(o) == \/ Win_lock(o) \/ PutOrGet(o) \/ Win_flush(o) \/ Win_unlock(o) \/ Return(o)
           \/ Make_progress_global(o) \/ OriginReceive(o)
           \/ TargetReceive(o) \/ DataArrives(o) \/ SendqProgress(o)

\* Origin o waits though nobody will ask for its lock again.
Stuck(o) == target[o].access = "CALLED" /\ call[o] # "none"

\* The job is over: the programs have ended, or they cannot, since a process
\* has died, or since something was thrown away for want of room or a lock was
\* forgotten and the protocol has not recovered.  In every other state there
\* is a step to take; as programs are finite, every call returns.
Over ==
  /\ \/ \A o \in Origins : prog[o] = <<>> /\ call[o] = "none"
     \/ aborted \/ tgt.stale \/ tgt.lost
     \/ \E o \in Origins : tgt.dup[o] > 0 \/ Stuck(o)
  /\ UNCHANGED vars

Next == (\E o \in Origins : Step(o)) \/ Over

Spec == Init /\ [][Next]_vars

-----------------------------------------------------------------------------
(* Properties.                                                             *)

TypeOK ==
  /\ conf \in Confs
  /\ \A o \in Origins :
       /\ target[o].access \in {"NONE", "CALLED", "ISSUED", "GRANTED"}
       /\ target[o].type \in Locks \cup {"NONE"}
       /\ target[o].sync \in {"NONE", "FLUSH", "UNLOCK"}
       /\ target[o].acks \in Nat /\ target[o].unflushed \in Nat
       /\ Len(target[o].user) <= 1
       /\ call[o] \in {"none", "flush", "unlock"}
       /\ prog[o] \in Seq(Calls)
  /\ tgt.lock \in Locks \cup {"NONE"}
  /\ tgt.ref \in Nat
  /\ Len(tgt.queue) <= conf.pool
  /\ tgt.entered = 0

Holders(type) == {o \in Origins : tgt.holds[o] = type}

\* The rule of MPIDI_CH3I_Try_acquire_win_lock: an exclusive lock is not
\* granted beside another lock.
ExclusiveLock == \A o \in Holders("EXCLUSIVE") : \A p \in Origins \ {o} : tgt.holds[p] = "NONE"

\* An origin that has an exclusive lock is alone, and the target knows what is
\* held, until Release_lock forgets a lock.  That takes its repeated loop, so
\* an operation that carried both a lock and an unlock: a job that does not
\* delay operations to piggyback on them is safe.
MutualExclusion ==
  /\ tgt.lost => conf.delay
  /\ tgt.lost \/ /\ tgt.ref = Cardinality(Holders("SHARED"))
                 /\ tgt.lock = IF Holders("EXCLUSIVE") # {} THEN "EXCLUSIVE"
                               ELSE IF Holders("SHARED") # {} THEN "SHARED" ELSE "NONE"
                 /\ ExclusiveLock

\* An operation is performed once, in the order of the calls, though it may be
\* sent several times, and what is sent without a request for the lock finds
\* the lock held; and when MPI_Win_flush or MPI_Win_unlock may return, all
\* operations are performed and all gets are answered.
RemoteCompletion ==
  \A o \in Origins :
    /\ tgt.applied[o] = [i \in 1 .. Len(tgt.applied[o]) |-> i]
    /\ \A op \in Range(toT[o]) :
         op.type \in OpKinds /\ op.lock = "NONE" => tgt.holds[o] # "NONE"
    /\ call[o] # "none" /\ ops_completion(target[o])
         => /\ Len(tgt.applied[o]) = nops[o]
            /\ \A i \in DOMAIN tgt.toO[o] : tgt.toO[o][i].type # "get_resp"

Count(S) == Cardinality(S)
Acks(pkts) == Count({i \in DOMAIN pkts : pkts[i].ack})

\* The acknowledgements that o will receive.
Expected(o) ==
  Acks(tgt.toO[o]) + Acks(tgt.sendq[o])
  + Count({i \in DOMAIN toT[o] :
             \/ toT[o][i].type \in OpKinds /\ WantsAck(toT[o][i])
             \/ toT[o][i].type = "flush"
             \/ toT[o][i].type = "unlock" /\ ~toT[o][i].noack})
  + Count({i \in DOMAIN tgt.queue : tgt.queue[i].o = o /\ tgt.queue[i].op.type # "lock"
                                      /\ WantsAck(tgt.queue[i].op)})
  + (IF tgt.recv[o].what = "op" /\ WantsAck(tgt.recv[o].op) THEN 1 ELSE 0)

\* An origin waits for the acknowledgements that will come, and for those of
\* operations that the target threw away, which it counts once for each time it
\* sends them.  The assertions of an origin fail only if the target had no
\* queue entry for its lock request.
AckAccounting ==
  /\ \A o \in Origins : aborted \/ target[o].acks = Expected(o) + tgt.dup[o]
  /\ aborted => tgt.discarded # {}

\* The requests for and answers about a lock of o that are on their way.
LockPkts(o) ==
  Count({i \in DOMAIN toT[o] : toT[o][i].type \in OpKinds \cup {"lock"} /\ toT[o][i].lock # "NONE"})
  + Count({i \in DOMAIN tgt.queue : tgt.queue[i].o = o})
  + (IF tgt.recv[o].what = "op" /\ tgt.recv[o].op.lock # "NONE" THEN 1 ELSE 0)
  + LET Granting(pkts) == Count({i \in DOMAIN pkts : pkts[i].flag \in {"GRANTED", "DISCARDED"}})
    IN Granting(tgt.toO[o]) + Granting(tgt.sendq[o])

\* A lock request is never forgotten and never made twice: an origin that has
\* asked for the lock has one request on its way, in the queue or answered;
\* and a request stays in the queue only while somebody has the lock or its
\* data have not come.
LockRequestKept ==
  ~tgt.stale /\ ~aborted =>
    /\ \A o \in Origins : LockPkts(o) = IF target[o].access = "ISSUED" THEN 1 ELSE 0
    /\ \A i \in DOMAIN tgt.queue :
         LET e == tgt.queue[i]
         IN \/ ~e.data \/ tgt.lost
            \/ \E p \in Origins \ {e.o} :
                 "EXCLUSIVE" \in {tgt.holds[p], e.op.lock} /\ tgt.holds[p] # "NONE"
=============================================================================
