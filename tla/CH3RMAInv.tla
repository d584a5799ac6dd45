----------------------------- MODULE CH3RMAInv -----------------------------
(***************************************************************************)
(* The inductive invariant of CH3RMA.  An origin is in one of seven        *)
(* phases of the lock protocol.  Each tells which packets are on the way   *)
(* between the origin and the target, whether the origin has an entry in   *)
(* the lock queue, what the target still receives from it, how many        *)
(* acknowledgements it waits for, and which operations are performed.      *)
(***************************************************************************)
EXTENDS CH3RMA, Integers

-----------------------------------------------------------------------------
(* The packets and records.                                                *)

Types == Locks \cup {"NONE"}
Flags == {"NONE", "GRANTED", "QUEUED", "DISCARDED", "DATA_DISCARDED"}

OpPkt == [type : OpKinds, id : Nat, lock : Types, flush : BOOLEAN, unlock : BOOLEAN]
LockReq == [type : {"lock"}, lock : Locks]
LockOnly == [type : {"lock"}, id : Nat, lock : Locks, flush : BOOLEAN, unlock : BOOLEAN]
FlushPkt == [type : {"flush"}]
UnlockPkt == [type : {"unlock"}, noack : BOOLEAN]
ToT == OpPkt \cup LockReq \cup FlushPkt \cup UnlockPkt

AckPkt == [type : {"ack", "lock_ack", "lock_op_ack"}, flag : Flags, ack : BOOLEAN]
RespPkt == [type : {"get_resp"}, flag : Flags, ack : BOOLEAN, unlock : BOOLEAN]
ToO == AckPkt \cup RespPkt

Entries == [o : Origins, op : OpPkt \cup LockReq \cup LockOnly, data : BOOLEAN]
RecvRec == [op : OpPkt, what : {"op", "entry", "drop"}]
Recvs == {NoData} \cup RecvRec

Targets == [access : {"NONE", "CALLED", "ISSUED", "GRANTED"}, type : Types,
            sync : {"NONE", "FLUSH", "UNLOCK"}, net : Seq(OpPkt), user : Seq(OpPkt),
            acks : Nat, unflushed : Nat, active : BOOLEAN]

Process == [lock : Types, ref : Int, queue : Seq(Entries), entered : Nat,
            recv : [Origins -> Recvs], sendq : [Origins -> Seq(ToO)],
            toO : [Origins -> Seq(ToO)], applied : [Origins -> Seq(Nat)],
            holds : [Origins -> Types], dup : [Origins -> Nat],
            discarded : SUBSET Origins, lost : BOOLEAN, stale : BOOLEAN]

-----------------------------------------------------------------------------
(* The phases of an origin.  t, c, n and ch stand for its target element,  *)
(* its call, the number of its operations and its packets to the target; s *)
(* is the target process and dl is conf.delay.                             *)

Bit(b) == IF b THEN 1 ELSE 0

Wants(p) == \/ p.type \in OpKinds /\ WantsAck(p)
            \/ p.type = "flush"
            \/ p.type = "unlock" /\ ~p.noack

OldUnlock == [type |-> "unlock", noack |-> TRUE]

NoEntry(o, s) == \A i \in DOMAIN s.queue : s.queue[i].o # o

\* The operations that o has not sent, or may have to send again, are numbered
\* from b + 1 to n.
Ids(t, n, b) ==
  /\ \A i \in DOMAIN t.net : t.net[i].id = b + i
  /\ \A i \in DOMAIN t.user : t.user[i].id = b + Len(t.net) + i
  /\ n = b + Len(t.net) + Len(t.user)

\* Operation q carries the lock request of t and is the first of its list.
LockOp(t, c, q, dl) ==
  /\ q \in OpPkt /\ t.net # <<>> /\ q = Head(t.net)
  /\ q.lock = t.type /\ q.lock # "NONE"
  /\ q.type # "putn"
  /\ IsRead(q) => WantsAck(q)
  /\ q.unlock => dl /\ Len(t.net) = 1 /\ c = "unlock" /\ t.sync = "UNLOCK"

Request(t, c, q, dl) ==
  \/ q \in LockReq /\ q.lock = t.type
  \/ LockOp(t, c, q, dl)

Idle(o, t, c, n, ch, s, dl) ==
  /\ t.access \in {"NONE", "CALLED"}
  /\ s.toO[o] = <<>> /\ s.sendq[o] = <<>> /\ NoEntry(o, s)
  /\ \/ s.recv[o].what = "none"
     \/ s.recv[o].what = "drop" /\ t.net # <<>> /\ ch = <<>>
  /\ \/ ch = <<>> /\ s.holds[o] = "NONE"
     \/ ch = <<OldUnlock>> /\ s.holds[o] # "NONE"
  /\ t.acks = s.dup[o]
  /\ Ids(t, n, Len(s.applied[o]))

Requested(o, t, c, n, ch, s, dl) ==
  /\ t.access = "ISSUED"
  /\ s.toO[o] = <<>> /\ s.sendq[o] = <<>> /\ NoEntry(o, s)
  /\ \/ Len(ch) = 1 /\ s.holds[o] = "NONE" /\ s.recv[o].what \in {"none", "drop"}
     \/ Len(ch) = 2 /\ s.holds[o] # "NONE" /\ s.recv[o].what = "none" /\ ch[1] = OldUnlock
  /\ Request(t, c, ch[Len(ch)], dl)
  /\ t.acks = s.dup[o] + Bit(Wants(ch[Len(ch)]))
  /\ Ids(t, n, Len(s.applied[o]))

\* The lock request is in the queue, alone, with its operation, or alone since
\* there was no room for the data of the operation.
QueuedLock(o, t, s, e) ==
  /\ e.op \in LockReq /\ e.data
  /\ s.toO[o] \in {<<>>, <<LockAck("QUEUED")>>}
  /\ s.recv[o].what = "none"
  /\ t.acks = s.dup[o]

QueuedOp(o, t, c, s, e, dl) ==
  /\ LockOp(t, c, e.op, dl)
  /\ s.toO[o] \in {<<>>, <<LockOpAck("QUEUED", FALSE)>>}
  /\ s.recv[o].what \in {"none", "entry"} /\ (e.data <=> s.recv[o].what = "none")
  /\ t.acks = s.dup[o] + Bit(WantsAck(e.op))

QueuedAlone(o, t, s, e) ==
  /\ e.op \in LockOnly /\ e.data /\ t.net # <<>>
  /\ \/ s.toO[o] = <<>>
     \/ s.toO[o] = <<LockOpAck("DATA_DISCARDED", FALSE)>> /\ Head(t.net).lock # "NONE"
  /\ s.recv[o].what \in {"none", "entry"}
  /\ t.acks = s.dup[o]

QueuedEntry(o, t, c, s, e, dl) ==
  \/ QueuedLock(o, t, s, e)
  \/ QueuedOp(o, t, c, s, e, dl)
  \/ QueuedAlone(o, t, s, e)

Queued(o, t, c, n, ch, s, dl) ==
  /\ t.access = "ISSUED" /\ ch = <<>>
  /\ s.holds[o] = "NONE" /\ s.sendq[o] = <<>>
  /\ \E i \in DOMAIN s.queue : /\ s.queue[i].o = o
                               /\ s.queue[i].op.lock = t.type
                               /\ QueuedEntry(o, t, c, s, s.queue[i], dl)
  /\ Ids(t, n, Len(s.applied[o]))

Refused(o, t, c, n, ch, s, dl) ==
  /\ t.access = "ISSUED" /\ ch = <<>> /\ o \in s.discarded
  /\ s.holds[o] = "NONE" /\ s.sendq[o] = <<>> /\ NoEntry(o, s)
  /\ \/ s.toO[o] = <<LockAck("DISCARDED")>> /\ s.recv[o].what = "none"
     \/ /\ s.toO[o] = <<LockOpAck("DISCARDED", FALSE)>>
        /\ t.net # <<>> /\ Head(t.net).lock # "NONE"
        /\ s.recv[o].what \in {"none", "drop"}
  /\ t.acks = s.dup[o]
  /\ Ids(t, n, Len(s.applied[o]))

\* The target has granted the lock and receives the data of the operation.
Receiving(o, t, c, n, ch, s, dl) ==
  /\ t.access = "ISSUED" /\ ch = <<>>
  /\ s.holds[o] # "NONE" /\ NoEntry(o, s)
  /\ s.toO[o] = <<>> /\ s.sendq[o] = <<>>
  /\ s.recv[o].what = "op" /\ LockOp(t, c, s.recv[o].op, dl)
  /\ t.acks = s.dup[o] + Bit(WantsAck(s.recv[o].op))
  /\ Ids(t, n, Len(s.applied[o]))

AnsweredLock(o, t, n, s) ==
  /\ s.holds[o] # "NONE" /\ s.sendq[o] = <<>>
  /\ \/ s.toO[o] \in {<<LockAck("GRANTED")>>, <<LockAck("QUEUED"), LockAck("GRANTED")>>}
     \/ /\ s.toO[o] = <<LockOpAck("DATA_DISCARDED", FALSE), LockAck("GRANTED")>>
        /\ t.net # <<>> /\ Head(t.net).lock # "NONE"
  /\ \/ s.recv[o].what = "none"
     \/ s.recv[o].what = "entry" /\ t.net # <<>>
  /\ t.acks = s.dup[o]
  /\ Ids(t, n, Len(s.applied[o]))

\* The answer to the operation that carried the lock request.
Answer(q) == IF IsRead(q) THEN GetResp(q) ELSE LockOpAck("GRANTED", WantsAck(q))

AnsweredOp(o, t, c, n, s, dl) ==
  LET q == Head(t.net)
      a == Answer(q)
      w == LockOpAck("QUEUED", FALSE)
  IN /\ LockOp(t, c, q, dl)
     /\ \/ s.sendq[o] = <<>> /\ s.toO[o] \in {<<a>>, <<w, a>>}
        \/ s.sendq[o] = <<a>> /\ s.toO[o] \in {<<>>, <<w>>} /\ IsRead(q)
     /\ s.holds[o] = "NONE" <=> (q.unlock /\ s.sendq[o] = <<>>)
     /\ s.recv[o].what = "none"
     /\ t.acks = s.dup[o] + Bit(WantsAck(q))
     /\ Len(s.applied[o]) > 0 /\ Ids(t, n, Len(s.applied[o]) - 1)

Answered(o, t, c, n, ch, s, dl) ==
  /\ t.access = "ISSUED" /\ ch = <<>> /\ NoEntry(o, s)
  /\ AnsweredLock(o, t, n, s) \/ AnsweredOp(o, t, c, n, s, dl)

\* Of the packets of an epoch all are operations but perhaps the last one.
NumOps(ch) == IF ch # <<>> /\ ch[Len(ch)].type \notin OpKinds THEN Len(ch) - 1 ELSE Len(ch)

CountWants(ch) == Count({i \in DOMAIN ch : Wants(ch[i])})

RecvOp(o, s) == s.recv[o].what = "op"
Base(o, s) == Len(s.applied[o]) + Bit(RecvOp(o, s))

PlainOp(p) == p \in OpPkt /\ p.lock = "NONE" /\ (IsRead(p) => WantsAck(p))

\* What o sends without a lock request.
Pipeline(o, t, c, n, ch, s) ==
  /\ \A i \in 1 .. NumOps(ch) : PlainOp(ch[i]) /\ ch[i].id = Base(o, s) + i
  /\ NumOps(ch) < Len(ch) =>
       /\ c # "none" /\ t.sync = "NONE"
       /\ \/ ch[Len(ch)] \in FlushPkt
          \/ ch[Len(ch)] \in UnlockPkt /\ c = "unlock"
  /\ RecvOp(o, s) => PlainOp(s.recv[o].op) /\ s.recv[o].op.id = Base(o, s)
  /\ s.recv[o].what = "entry" => t.net # <<>> \/ NumOps(ch) > 0
  /\ Ids(t, n, Base(o, s) + NumOps(ch))

\* The last operation that the target has not performed is acknowledged.
LastOpWants(o, ch, s) ==
  IF NumOps(ch) > 0 THEN WantsAck(ch[NumOps(ch)])
                    ELSE RecvOp(o, s) => WantsAck(s.recv[o].op)

Flushed(o, t, ch, s) ==
  \/ t.unflushed = 0 /\ NumOps(ch) = Len(ch)
  \/ ch # <<>> /\ ch[Len(ch)] = OldUnlock
  => LastOpWants(o, ch, s)

\* o has sent its unlock, or had nothing to unlock.
Left(t, c) == c = "unlock" /\ t.sync = "NONE"

Releasing(p) == p.type = "unlock" \/ (p.type \in OpKinds /\ p.unlock)
LateRelease(p) == p.type = "get_resp" /\ p.unlock

ReleasePending(o, ch, s) ==
  \/ ch # <<>> /\ Releasing(ch[Len(ch)])
  \/ RecvOp(o, s) /\ s.recv[o].op.unlock
  \/ \E i \in DOMAIN s.sendq[o] : LateRelease(s.sendq[o][i])

ReleasesOnce(o, t, c, ch, s) ==
  /\ \A i \in 1 .. NumOps(ch) : ch[i].unlock => i = Len(ch) /\ Left(t, c)
  /\ RecvOp(o, s) /\ s.recv[o].op.unlock => ch = <<>> /\ Left(t, c)
  /\ \A i \in DOMAIN s.sendq[o] : LateRelease(s.sendq[o][i]) =>
       /\ i = Len(s.sendq[o]) /\ ch = <<>> /\ ~RecvOp(o, s) /\ Left(t, c)
  /\ s.holds[o] # "NONE" <=> (~Left(t, c) \/ ReleasePending(o, ch, s))
  /\ s.holds[o] = "NONE" => ch = <<>> /\ ~RecvOp(o, s)

Plain(pkts) ==
  \A i \in DOMAIN pkts : /\ pkts[i].type \in {"ack", "get_resp"}
                         /\ pkts[i].flag = "NONE" /\ pkts[i].ack

Granted(o, t, c, n, ch, s, dl) ==
  /\ t.access = "GRANTED" /\ NoEntry(o, s)
  /\ Plain(s.toO[o]) /\ Plain(s.sendq[o])
  /\ s.recv[o].what # "drop"
  /\ Pipeline(o, t, c, n, ch, s)
  /\ Flushed(o, t, ch, s)
  /\ ReleasesOnce(o, t, c, ch, s)
  /\ t.acks = s.dup[o] + Len(s.toO[o]) + Len(s.sendq[o]) + CountWants(ch)
              + Bit(RecvOp(o, s) /\ WantsAck(s.recv[o].op))

\* An assertion failed when o asked for the lock again.
Failed(o, t, c, n, ch, s, dl) ==
  /\ t.access = "ISSUED" /\ o \in s.discarded
  /\ \A i \in DOMAIN ch : ch[i].type \in OpKinds => ch[i].lock # "NONE"

Phase(o, t, c, n, ch, s, dl) ==
  \/ Idle(o, t, c, n, ch, s, dl)
  \/ Requested(o, t, c, n, ch, s, dl)
  \/ Queued(o, t, c, n, ch, s, dl)
  \/ Refused(o, t, c, n, ch, s, dl)
  \/ Receiving(o, t, c, n, ch, s, dl)
  \/ Answered(o, t, c, n, ch, s, dl)
  \/ Granted(o, t, c, n, ch, s, dl)

\* What holds of an origin in every phase, between two steps.
Settled(o, t, c, s, dl) ==
  /\ Len(t.user) <= 1 /\ (~dl => t.user = <<>>)
  /\ t.sync = "FLUSH" => c = "flush"
  /\ t.sync = "UNLOCK" => c = "unlock"
  /\ t.sync # "NONE" => t.user = <<>>
  /\ c # "none" /\ t.sync = "NONE" => t.access = "GRANTED" /\ t.net = <<>> /\ t.user = <<>>
  /\ t.access = "NONE" => t = NewTarget /\ c = "none"
  /\ t.access # "NONE" => t.type # "NONE"
  /\ t.access = "CALLED" /\ o \notin s.discarded =>
       /\ dl /\ c = "none" /\ t.net = <<>>
       /\ t.user = <<>> \/ Candidate(Head(t.user))

\* The program p goes on with a lock if, and only if, the epoch has ended.
Follows(t, c, p) ==
  \A i \in DOMAIN p :
    p[i] \in Locks <=> IF i = 1 THEN t.access = "NONE" \/ c = "unlock" ELSE p[i - 1] = "unlock"

Origin(o, t, c, p, s, dl) == Settled(o, t, c, s, dl) /\ Follows(t, c, p)

-----------------------------------------------------------------------------
(* The target.                                                             *)

HoldersIn(s, type) == {o \in Origins : s.holds[o] = type}

Alone(s) == \A o \in HoldersIn(s, "EXCLUSIVE") : \A p \in Origins \ {o} : s.holds[p] = "NONE"

Exact(s) ==
  /\ s.ref = Cardinality(HoldersIn(s, "SHARED"))
  /\ s.lock = IF HoldersIn(s, "EXCLUSIVE") # {} THEN "EXCLUSIVE"
              ELSE IF HoldersIn(s, "SHARED") # {} THEN "SHARED" ELSE "NONE"
  /\ Alone(s)

OneEntry(s) == \A i, j \in DOMAIN s.queue : s.queue[i].o = s.queue[j].o => i = j

Blocked(s) == \A i \in DOMAIN s.queue : s.queue[i].data => ~CanAcquire(s, s.queue[i].op.lock)

TargetInv(s) ==
  /\ OneEntry(s) /\ Blocked(s)
  /\ s.lost \/ Exact(s)
  /\ s.ref >= 0 /\ (s.lock = "SHARED" => s.ref > 0)
  /\ s.entered = 0
  /\ \A o \in Origins : \A i \in DOMAIN s.applied[o] : s.applied[o][i] = i

Shape ==
  /\ conf \in Confs
  /\ target \in [Origins -> Targets]
  /\ call \in [Origins -> {"none", "flush", "unlock"}]
  /\ prog \in [Origins -> Seq(Calls)]
  /\ nops \in [Origins -> Nat]
  /\ toT \in [Origins -> Seq(ToT)]
  /\ tgt \in Process
  /\ aborted \in BOOLEAN

Inv ==
  /\ Shape
  /\ TargetInv(tgt)
  /\ Len(tgt.queue) <= conf.pool
  /\ tgt.lost => conf.delay
  /\ aborted => tgt.discarded # {}
  /\ \A o \in Origins :
       /\ Origin(o, target[o], call[o], prog[o], tgt, conf.delay)
       /\ \/ Phase(o, target[o], call[o], nops[o], toT[o], tgt, conf.delay)
          \/ aborted /\ Failed(o, target[o], call[o], nops[o], toT[o], tgt, conf.delay)

=============================================================================
