---------------------------- MODULE CH3RMAProofs ----------------------------
(***************************************************************************)
(* The steps of the target of CH3RMA preserve the invariant, and what      *)
(* follows from it: an operation is performed once and in order, locks are *)
(* exclusive unless one was forgotten, acknowledgements are accounted for  *)
(* and no lock request is forgotten.                                       *)
(***************************************************************************)
EXTENDS CH3RMAStepProofs

-----------------------------------------------------------------------------
(* The steps of the target.                                                *)

\* The target goes from s to z, and ch is then what o has sent.
Works(o, ch, s, z) ==
  /\ Rest(o, z) /\ s.discarded \subseteq z.discarded
  /\ Phase(o, target[o], call[o], nops[o], ch, z, conf.delay)

\* What the invariant says of o, and of the target and the others.
LEMMA InvRest ==
  ASSUME Inv, ~aborted, NEW o \in Origins
  PROVE  /\ Shape /\ Rest(o, tgt) /\ Numbered(tgt.applied[o])
         /\ PhaseOf(o, tgt) /\ Settled(o, target[o], call[o], tgt, conf.delay)
<1>1. /\ Shape /\ TargetInv(tgt) /\ Len(tgt.queue) <= conf.pool /\ (tgt.lost => conf.delay)
  BY DEF Inv
<1>2. ASSUME NEW p \in Origins
      PROVE  PhaseOf(p, tgt) /\ Settled(p, target[p], call[p], tgt, conf.delay)
  BY DEF Inv, PhaseOf, Origin
<1>3. tgt \in Process
  BY <1>1 DEF Shape
<1> QED BY <1>1, <1>2, <1>3 DEF Rest, TargetInv, Numbered

\* A step that keeps both keeps the invariant.
LEMMA WorksInv ==
  ASSUME Inv, ~aborted, NEW o \in Origins, NEW ch \in Seq(ToT), Works(o, ch, tgt, tgt'),
         toT' = [toT EXCEPT ![o] = ch], UNCHANGED <<conf, target, call, prog, nops, aborted>>
  PROVE  Inv'
<1>1. /\ Rest(o, tgt') /\ tgt.discarded \subseteq tgt'.discarded
      /\ Phase(o, target[o], call[o], nops[o], ch, tgt', conf.delay)
  BY DEF Works
<1>2. /\ tgt' \in Process /\ TargetInv(tgt') /\ Len(tgt'.queue) <= conf.pool
      /\ tgt'.lost => conf.delay
  BY <1>1 DEF Rest
<1>3. Shape
  BY DEF Inv
<1>4. Shape'
  BY <1>2, <1>3 DEF Shape
<1>5. toT'[o] = ch /\ \A p \in Origins \ {o} : toT'[p] = toT[p]
  BY <1>3 DEF Shape
<1>6. ASSUME NEW p \in Origins
      PROVE  Phase(p, target[p], call[p], nops[p], toT'[p], tgt', conf.delay)
  <2>1. CASE p = o
    BY <1>1, <1>5, <2>1
  <2>2. CASE p # o
    BY <1>1, <1>5, <2>2 DEF Rest, PhaseOf
  <2> QED BY <2>1, <2>2
<1>7. ASSUME NEW p \in Origins
      PROVE  Origin(p, target[p], call[p], prog[p], tgt', conf.delay)
  <2>1. Origin(p, target[p], call[p], prog[p], tgt, conf.delay)
    BY DEF Inv
  <2> QED BY <1>1, <2>1 DEF Origin, Settled
<1> QED BY <1>2, <1>4, <1>6, <1>7 DEF Inv

\* MPIDI_CH3I_Try_acquire_win_lock.
LEMMA AcquireRest ==
  ASSUME NEW o \in Origins, NEW s, Rest(o, s), NEW type \in Locks, s.holds[o] = "NONE",
         CanAcquire(s, type), NEW a, a = Acquire(s, o, type)
  PROVE  Rest(o, a)
<1>1. /\ s \in Process /\ TargetInv(s)
      /\ Len(s.queue) <= conf.pool
      /\ s.lost => conf.delay
      /\ \A p \in Origins \ {o} : PhaseOf(p, s)
  BY DEF Rest
<1>2. /\ OneEntry(s) /\ Blocked(s)
      /\ s.lost \/ Exact(s)
      /\ s.ref >= 0 /\ s.entered = 0
      /\ \A p \in Origins : \A i \in DOMAIN s.applied[p] : s.applied[p][i] = i
  BY <1>1 DEF TargetInv
<1>3. /\ a \in Process /\ Others(o, s, a)
      /\ a.lock = type /\ a.ref = (IF type = "SHARED" THEN s.ref + 1 ELSE s.ref)
      /\ a.holds = [s.holds EXCEPT ![o] = type] /\ a.holds[o] = type
      /\ a.queue = s.queue /\ a.entered = s.entered /\ a.lost = s.lost
      /\ a.discarded = s.discarded /\ a.stale = s.stale
      /\ a.toO = s.toO /\ a.sendq = s.sendq /\ a.recv = s.recv
      /\ a.applied = s.applied /\ a.dup = s.dup
  BY <1>1, AcquireEffect
<1>4. s.ref \in Int /\ s.holds \in [Origins -> Types]
  BY <1>1 DEF Process
<1>5. ASSUME NEW p \in Origins \ {o} PROVE PhaseOf(p, a)
  <2>1. Same(p, s, a)
    BY <1>3, <1>4 DEF Same, NoEntry
  <2> QED BY <1>1, <2>1, PhaseFrame DEF PhaseOf
<1>6. OneEntry(a)
  BY <1>2, <1>3 DEF OneEntry
<1>7. Blocked(a)
  <2>1. \A x : CanAcquire(a, x) => CanAcquire(s, x)
    BY <1>3, AcquireBlocks
  <2> QED BY <1>2, <1>3, <2>1 DEF Blocked
<1>8. a.ref >= 0 /\ (a.lock = "SHARED" => a.ref > 0)
  BY <1>2, <1>3, <1>4
<1>9. a.lost \/ Exact(a)
  <2>1. SUFFICES ASSUME Exact(s) PROVE Exact(a)
    BY <1>2, <1>3
  <2>2. s.ref = Cardinality(HoldersIn(s, "SHARED")) /\ Near(s)
    BY <1>1, <2>1, NearExact
  <2>3. Near(a) /\ HoldersIn(a, type) # {}
    BY <1>1, <1>3, <2>2, AcquireNear
  <2>4. /\ Cardinality(HoldersIn(a, type)) = Cardinality(HoldersIn(s, type)) + 1
        /\ \A x \in Locks : x # type => HoldersIn(a, x) = HoldersIn(s, x)
    <3>1. s \in Process /\ a.holds = [s.holds EXCEPT ![o] = type]
      BY <1>1, <1>3
    <3> QED BY ONLY <3>1, HoldersAcquire, o \in Origins, type \in Locks, s.holds[o] = "NONE"
  <2>5. a.ref = Cardinality(HoldersIn(a, "SHARED"))
    BY <1>3, <2>2, <2>4 DEF Locks
  <2> QED BY <1>3, <2>3, <2>5, NearExact
<1>10. TargetInv(a)
  BY <1>2, <1>3, <1>6, <1>7, <1>8, <1>9 DEF TargetInv
<1> QED BY <1>1, <1>3, <1>5, <1>10 DEF Rest

\* What Send does.
LEMMA SendRest ==
  ASSUME NEW o \in Origins, NEW s, Rest(o, s), NEW pkt \in ToO, NEW z, z = Send(s, o, pkt)
  PROVE  /\ Rest(o, z) /\ z.discarded = s.discarded
         /\ z.holds = s.holds /\ z.queue = s.queue
         /\ z.recv[o] = s.recv[o] /\ z.applied[o] = s.applied[o] /\ z.dup[o] = s.dup[o]
         /\ s.sendq[o] = <<>> => z.toO[o] = Append(s.toO[o], pkt) /\ z.sendq[o] = <<>>
         /\ s.sendq[o] # <<>> => z.toO[o] = s.toO[o] /\ z.sendq[o] = Append(s.sendq[o], pkt)
<1>1. s \in Process /\ Numbered(s.applied[o])
  BY DEF Rest, TargetInv, Numbered
<1>2. /\ z \in Process /\ Global(s, z) /\ Others(o, s, z)
      /\ z.discarded = s.discarded /\ z.stale = s.stale
      /\ z.recv[o] = s.recv[o] /\ z.applied[o] = s.applied[o] /\ z.dup[o] = s.dup[o]
      /\ s.sendq[o] = <<>> => z.toO[o] = Append(s.toO[o], pkt) /\ z.sendq[o] = <<>>
      /\ s.sendq[o] # <<>> => z.toO[o] = s.toO[o] /\ z.sendq[o] = Append(s.sendq[o], pkt)
  BY ONLY <1>1, SendEffect, o \in Origins, pkt \in ToO, z = Send(s, o, pkt)
<1>3. Rest(o, z)
  BY <1>1, <1>2, RestFrame
<1> QED BY <1>2, <1>3 DEF Global

\* An operation is performed, and the lock given back if it says so.
LEMMA FinishRest ==
  ASSUME Shape, NEW o \in Origins, NEW s, Rest(o, s), NoEntry(o, s), NEW op \in OpPkt, NEW late,
         Releases(s, o, op, late) => s.holds[o] # "NONE",
         op.id = Len(s.applied[o]) + 1,
         NEW p, p = Perform(s, o, op, late), NEW z, z = Finish(s, o, op, late)
  PROVE  /\ Rest(o, z) /\ Alike(o, p, z) /\ NoEntry(o, z) /\ z.discarded = s.discarded
         /\ z.holds[o] = IF Releases(s, o, op, late) THEN "NONE" ELSE s.holds[o]
<1>1. s \in Process /\ Numbered(s.applied[o]) /\ s.applied[o] \in Seq(Nat)
  BY DEF Rest, TargetInv, Numbered, Process
<1>2. /\ p \in Process /\ Global(s, p) /\ Others(o, s, p)
      /\ p.discarded = s.discarded
      /\ p.applied[o] = Append(s.applied[o], op.id)
  BY ONLY <1>1, PerformEffect, o \in Origins, op \in OpPkt, p = Perform(s, o, op, late)
<1>3. Numbered(p.applied[o])
  BY ONLY <1>1, <1>2, NumberedAppend, op.id = Len(s.applied[o]) + 1
<1>4. Rest(o, p)
  BY <1>2, <1>3, RestFrame
<1>5. p.holds = s.holds /\ NoEntry(o, p)
  BY <1>2 DEF Global, NoEntry
<1>6. CASE Releases(s, o, op, late)
  <2>1. z = Release_lock(p, o, late)
    BY <1>6 DEF Finish
  <2>2. Rest(o, z) /\ Released(o, p, z)
    BY <1>4, <1>5, <1>6, <2>1, ReleaseRest
  <2> QED BY <1>2, <1>6, <2>2 DEF Released
<1>7. CASE ~Releases(s, o, op, late)
  <2>1. z = p
    BY <1>7 DEF Finish
  <2> QED BY <1>2, <1>4, <1>5, <1>7, <2>1 DEF Alike
<1> QED BY <1>6, <1>7

\* The same for one origin whose state is given.
Goes(o, t, c, n, ch, s, z, dl) ==
  /\ Rest(o, z) /\ s.discarded \subseteq z.discarded
  /\ Phase(o, t, c, n, ch, z, dl)

Receives(o, s, v, z) == z = [s EXCEPT !.recv[o] = v]

LEMMA RecvRest ==
  ASSUME NEW o \in Origins, NEW s, Rest(o, s), NEW v \in Recvs, NEW z, Receives(o, s, v, z)
  PROVE  /\ Rest(o, z) /\ z \in Process /\ z.discarded = s.discarded /\ z.stale = s.stale
         /\ z.holds = s.holds /\ z.queue = s.queue /\ z.lock = s.lock /\ z.toO = s.toO
         /\ z.sendq = s.sendq /\ z.applied = s.applied /\ z.dup = s.dup /\ z.recv[o] = v
<1>1. s \in Process /\ Numbered(s.applied[o]) /\ s.recv \in [Origins -> Recvs]
  BY DEF Rest, TargetInv, Numbered, Process
<1>2. PICK f : f = [s.recv EXCEPT ![o] = v]
  OBVIOUS
<1>3. f \in [Origins -> Recvs] /\ f[o] = v /\ \A p \in Origins \ {o} : f[p] = s.recv[p]
  BY <1>1, <1>2
<1>4. z = [s EXCEPT !.recv = f]
  BY <1>1, <1>2 DEF Process, Receives
<1>5. /\ z \in Process /\ z.toO = s.toO /\ z.sendq = s.sendq /\ z.recv = f
      /\ z.applied = s.applied /\ z.dup = s.dup /\ z.discarded = s.discarded /\ z.stale = s.stale
      /\ z.lock = s.lock /\ z.ref = s.ref /\ z.queue = s.queue /\ z.entered = s.entered
      /\ z.holds = s.holds /\ z.lost = s.lost
  BY <1>1, <1>3, <1>4 DEF Process
<1>6. Global(s, z) /\ Others(o, s, z)
  BY <1>3, <1>5 DEF Global, Others
<1>7. Rest(o, z)
  BY <1>1, <1>5, <1>6, RestFrame
<1> QED BY <1>2, <1>3, <1>5, <1>7

LEMMA UnlockHandler ==
  ASSUME NEW s, NEW o, NEW p \in UnlockPkt, NEW part, NEW late
  PROVE  PktHandler_target(s, o, p, part, late) =
           IF p.noack THEN Release_lock(s, o, late) ELSE Send(Release_lock(s, o, late), o, Ack)
<1>1. p.type = "unlock"
  BY DEF UnlockPkt
<1> QED BY <1>1 DEF PktHandler_target, OpKinds

LEMMA LockHandler ==
  ASSUME NEW s, NEW o, NEW p \in LockReq, NEW part, NEW late
  PROVE  PktHandler_target(s, o, p, part, late) =
           IF CanAcquire(s, p.lock) THEN Send(Acquire(s, o, p.lock), o, LockAck("GRANTED"))
                                    ELSE enqueue_lock(s, o, p)
<1>1. p.type = "lock"
  BY DEF LockReq
<1> QED BY <1>1 DEF PktHandler_target, OpKinds

Locking(s, o, p) == IF p.lock # "NONE" THEN Acquire(s, o, p.lock) ELSE s

Handles(s, o, p, part, late, a, z) ==
  /\ p.lock # "NONE" /\ ~CanAcquire(s, p.lock) => z = enqueue_op(s, o, p, part)
  /\ (p.lock = "NONE" \/ CanAcquire(s, p.lock)) /\ part =>
       Receives(o, a, [op |-> p, what |-> "op"], z)
  /\ (p.lock = "NONE" \/ CanAcquire(s, p.lock)) /\ ~part => z = Finish(a, o, p, late)

LEMMA OpHandler ==
  ASSUME NEW s, NEW o, NEW p \in OpPkt, NEW part \in BOOLEAN, NEW late, NEW z,
         z = PktHandler_target(s, o, p, part, late),
         NEW a, a = Locking(s, o, p)
  PROVE  Handles(s, o, p, part, late, a, z)
<1>1. p.type \in OpKinds /\ p.type # "lock" /\ p.type # "flush" /\ p.type # "unlock"
  BY DEF OpPkt, OpKinds
<1>5. PktHandler_target(s, o, p, part, late) =
        IF p.lock # "NONE" /\ ~CanAcquire(s, p.lock) THEN enqueue_op(s, o, p, part)
         ELSE LET x == IF p.lock # "NONE" THEN Acquire(s, o, p.lock) ELSE s
              IN IF part THEN [x EXCEPT !.recv[o] = [op |-> p, what |-> "op"]]
                         ELSE Finish(x, o, p, late)
  BY <1>1 DEF PktHandler_target
<1>6. a = IF p.lock # "NONE" THEN Acquire(s, o, p.lock) ELSE s
  BY DEF Locking
<1>2. CASE p.lock # "NONE" /\ ~CanAcquire(s, p.lock)
  BY <1>5, <1>2, <1>6 DEF Handles
<1>3. CASE (p.lock = "NONE" \/ CanAcquire(s, p.lock)) /\ part
  BY <1>5, <1>3, <1>6 DEF Handles, Receives
<1>4. CASE (p.lock = "NONE" \/ CanAcquire(s, p.lock)) /\ ~part
  BY <1>5, <1>4, <1>6 DEF Handles
<1> QED BY <1>2, <1>3, <1>4

LEMMA FlushHandler ==
  ASSUME NEW s, NEW o, NEW p \in FlushPkt, NEW part, NEW late
  PROVE  PktHandler_target(s, o, p, part, late) = Send(s, o, Ack)
<1>1. p.type = "flush"
  BY DEF FlushPkt
<1> QED BY <1>1 DEF PktHandler_target, OpKinds

\* The unlock request that the previous epoch left behind.
LEMMA ReceiveOldUnlock ==
  ASSUME Shape, NEW o \in Origins, NEW t, NEW c, NEW n, NEW ch \in Seq(ToT), NEW s, NEW dl, Rest(o, s),
         Idle(o, t, c, n, ch, s, dl) \/ Requested(o, t, c, n, ch, s, dl),
         ch # <<>>, Head(ch) = OldUnlock, s.recv[o] = NoData,
         NEW part, NEW late, NEW z, z = PktHandler_target(s, o, OldUnlock, part, late)
  PROVE  Goes(o, t, c, n, Tail(ch), s, z, dl)
<1>1. OldUnlock \in UnlockPkt /\ OldUnlock.noack
  BY DEF OldUnlock, UnlockPkt
<1>2. z = Release_lock(s, o, late)
  BY <1>1, UnlockHandler
<1>3. PICK l \in Nat : l = Len(ch) /\ DOMAIN ch = 1 .. l /\ l >= 1
  BY TailFacts
<1>4. /\ Head(ch) = ch[1] /\ Tail(ch) \in Seq(ToT) /\ Len(Tail(ch)) = l - 1
      /\ \A i \in 1 .. l - 1 : Tail(ch)[i] = ch[i + 1]
  BY <1>3, TailFacts
<1>5. NoEntry(o, s)
  BY DEF Idle, Requested
<1>6. ASSUME s.holds[o] # "NONE"
      PROVE  /\ Rest(o, z) /\ z.discarded = s.discarded /\ z.holds[o] = "NONE" /\ NoEntry(o, z)
             /\ z.toO[o] = s.toO[o] /\ z.sendq[o] = s.sendq[o] /\ z.recv[o] = s.recv[o]
             /\ z.applied[o] = s.applied[o] /\ z.dup[o] = s.dup[o]
  <2>1. Rest(o, z) /\ Released(o, s, z)
    BY <1>2, <1>5, <1>6, ReleaseRest
  <2> QED BY <2>1 DEF Released, Alike
<1>7. NoData.what = "none"
  BY DEF NoData
<1>8. CASE Idle(o, t, c, n, ch, s, dl)
  <2>1. ch = <<OldUnlock>> /\ s.holds[o] # "NONE"
    BY <1>8 DEF Idle
  <2>2. Tail(ch) = <<>>
    BY <2>1
  <2>3. Idle(o, t, c, n, <<>>, z, dl)
    BY <1>6, <1>7, <1>8, <2>1 DEF Idle
  <2> QED BY <1>6, <2>1, <2>2, <2>3 DEF Goes, Phase
<1>9. CASE Requested(o, t, c, n, ch, s, dl)
  <2>1. l # 1
    <3>1. SUFFICES ASSUME l = 1 PROVE FALSE
      OBVIOUS
    <3>2. Request(t, c, OldUnlock, dl)
      BY <1>3, <1>4, <1>9, <3>1 DEF Requested
    <3>3. OldUnlock.type = "unlock"
      BY DEF OldUnlock
    <3> QED BY <3>2, <3>3 DEF Request, LockOp, LockReq, OpPkt, OpKinds
  <2>2. l = 2 /\ s.holds[o] # "NONE"
    BY <1>3, <1>9, <2>1 DEF Requested
  <2>3. Len(Tail(ch)) = 1 /\ Tail(ch)[1] = ch[2]
    BY <1>4, <2>2
  <2>4. /\ Request(t, c, ch[2], dl) /\ t.acks = s.dup[o] + Bit(Wants(ch[2]))
    BY <1>3, <1>9, <2>2 DEF Requested
  <2>5. Requested(o, t, c, n, Tail(ch), z, dl)
    BY <1>6, <1>7, <1>9, <2>2, <2>3, <2>4 DEF Requested
  <2> QED BY <1>6, <2>2, <2>5 DEF Goes, Phase
<1> QED BY <1>8, <1>9

\* The only packet is a request for the lock.
LEMMA RequestOnly ==
  ASSUME NEW o \in Origins, NEW t, NEW c, NEW n, NEW ch \in Seq(ToT), NEW s, NEW dl,
         Requested(o, t, c, n, ch, s, dl), Head(ch) # OldUnlock
  PROVE  /\ ch # <<>> /\ Tail(ch) = <<>> /\ Request(t, c, Head(ch), dl) /\ s.holds[o] = "NONE"
         /\ t.access = "ISSUED" /\ s.toO[o] = <<>> /\ s.sendq[o] = <<>> /\ NoEntry(o, s)
         /\ t.acks = s.dup[o] + Bit(Wants(Head(ch)))
         /\ Ids(t, n, Len(s.applied[o]))
<1>1. PICK l \in Nat : l = Len(ch) /\ DOMAIN ch = 1 .. l
  OBVIOUS
<1>2. ch # <<>>
  BY <1>1 DEF Requested
<1>3. Head(ch) = ch[1]
  BY <1>2, TailFacts
<1>4. l = 1 /\ s.holds[o] = "NONE"
  BY <1>1, <1>3 DEF Requested
<1>5. Tail(ch) = <<>>
  <2>1. Len(ch) <= 1
    BY <1>1, <1>4
  <2> QED BY ONLY <1>2, <2>1, OneElement, ch \in Seq(ToT)
<1> QED BY <1>1, <1>2, <1>3, <1>4, <1>5 DEF Requested

\* The handler Lock.
LEMMA ReceiveLock ==
  ASSUME Shape, NEW o \in Origins, NEW t, NEW c, NEW n, NEW ch \in Seq(ToT), NEW s, NEW dl, Rest(o, s),
         Requested(o, t, c, n, ch, s, dl), NEW p, p = Head(ch), p \in LockReq, s.recv[o] = NoData,
         CanAcquire(s, p.lock),
         NEW part, NEW late, NEW z, z = PktHandler_target(s, o, p, part, late)
  PROVE  Goes(o, t, c, n, Tail(ch), s, z, dl)
<1>1. p.type = "lock" /\ p.lock \in Locks /\ p # OldUnlock
  BY DEF LockReq, OldUnlock
<1>2. /\ ch # <<>> /\ Tail(ch) = <<>> /\ s.holds[o] = "NONE"
      /\ t.access = "ISSUED" /\ s.toO[o] = <<>> /\ s.sendq[o] = <<>> /\ NoEntry(o, s)
      /\ t.acks = s.dup[o] + Bit(Wants(p))
      /\ Ids(t, n, Len(s.applied[o]))
  <2>1. Head(ch) # OldUnlock
    BY <1>1
  <2>2. /\ ch # <<>> /\ Tail(ch) = <<>> /\ Request(t, c, Head(ch), dl) /\ s.holds[o] = "NONE"
        /\ t.access = "ISSUED" /\ s.toO[o] = <<>> /\ s.sendq[o] = <<>> /\ NoEntry(o, s)
        /\ t.acks = s.dup[o] + Bit(Wants(Head(ch)))
        /\ Ids(t, n, Len(s.applied[o]))
    BY ONLY <2>1, RequestOnly, o \in Origins, ch \in Seq(ToT), Requested(o, t, c, n, ch, s, dl)
  <2> QED BY <2>2
<1>3. s \in Process /\ s.dup[o] \in Nat
  BY DEF Rest, Process
<1>4. t.acks = s.dup[o]
  BY <1>2, <1>3, BitWants
<1>5. PICK a : a = Acquire(s, o, p.lock)
  OBVIOUS
<1>6. Rest(o, a)
  BY <1>1, <1>2, <1>5, AcquireRest
<1>7. /\ a.holds[o] = p.lock /\ a.queue = s.queue /\ a.discarded = s.discarded
      /\ a.toO = s.toO /\ a.sendq = s.sendq /\ a.recv = s.recv
      /\ a.applied = s.applied /\ a.dup = s.dup
  <2>1. PICK y \in Locks : y = p.lock
    BY <1>1
  <2>2. a = Acquire(s, o, y)
    BY <1>3, <1>5, <2>1
  <2>4. s \in Process
    BY <1>3
  <2>3. /\ a \in Process /\ Others(o, s, a)
        /\ a.lock = y /\ a.ref = (IF y = "SHARED" THEN s.ref + 1 ELSE s.ref)
        /\ a.holds = [s.holds EXCEPT ![o] = y] /\ a.holds[o] = y
        /\ a.queue = s.queue /\ a.entered = s.entered /\ a.lost = s.lost
        /\ a.discarded = s.discarded /\ a.stale = s.stale
        /\ a.toO = s.toO /\ a.sendq = s.sendq /\ a.recv = s.recv
        /\ a.applied = s.applied /\ a.dup = s.dup
    BY ONLY <2>2, <2>4, y \in Locks, AcquireEffect, o \in Origins
  <2> QED BY <2>1, <2>3
<1>8. PICK k \in ToO : k = LockAck("GRANTED")
  BY LockAckType
<1>9. z = Send(a, o, k)
  BY <1>5, <1>8, LockHandler
<1>10. /\ Rest(o, z) /\ z.discarded = a.discarded
       /\ z.holds = a.holds /\ z.queue = a.queue
       /\ z.recv[o] = a.recv[o] /\ z.applied[o] = a.applied[o] /\ z.dup[o] = a.dup[o]
       /\ a.sendq[o] = <<>> => z.toO[o] = Append(a.toO[o], k) /\ z.sendq[o] = <<>>
  BY ONLY <1>6, <1>9, SendRest, o \in Origins, k \in ToO
<1>11. z.toO[o] = <<LockAck("GRANTED")>> /\ z.sendq[o] = <<>>
  BY <1>2, <1>7, <1>8, <1>10, AppendOne
<1>12. NoEntry(o, z) /\ z.holds[o] # "NONE"
  BY <1>1, <1>2, <1>7, <1>10 DEF NoEntry, Locks
<1>13. z.recv[o].what = "none"
  BY <1>7, <1>10 DEF NoData
<1>14. AnsweredLock(o, t, n, z)
  BY <1>2, <1>4, <1>7, <1>10, <1>11, <1>12, <1>13 DEF AnsweredLock
<1>15. Answered(o, t, c, n, <<>>, z, dl)
  BY <1>2, <1>12, <1>14 DEF Answered
<1> QED BY <1>2, <1>7, <1>10, <1>15 DEF Goes, Phase

LEMMA DiscardRest ==
  ASSUME NEW o \in Origins, NEW s, Rest(o, s), NEW z, z = [s EXCEPT !.discarded = @ \cup {o}]
  PROVE  /\ Rest(o, z) /\ z \in Process /\ z.discarded = s.discarded \cup {o}
         /\ z.holds = s.holds /\ z.queue = s.queue /\ z.toO = s.toO /\ z.sendq = s.sendq
         /\ z.applied = s.applied /\ z.dup = s.dup /\ z.recv = s.recv
<1>1. s \in Process /\ Numbered(s.applied[o]) /\ s.discarded \in SUBSET Origins
  BY DEF Rest, TargetInv, Numbered, Process
<1>2. PICK f : f = s.discarded \cup {o} /\ f \in SUBSET Origins
  BY <1>1
<1>4. z = [s EXCEPT !.discarded = f]
  BY <1>1, <1>2 DEF Process
<1>5. /\ z \in Process /\ z.toO = s.toO /\ z.sendq = s.sendq /\ z.recv = s.recv
      /\ z.applied = s.applied /\ z.dup = s.dup /\ z.discarded = f /\ z.stale = s.stale
      /\ z.lock = s.lock /\ z.ref = s.ref /\ z.queue = s.queue /\ z.entered = s.entered
      /\ z.holds = s.holds /\ z.lost = s.lost
  BY <1>1, <1>2, <1>4 DEF Process
<1>6. Global(s, z) /\ Others(o, s, z)
  BY <1>2, <1>5 DEF Global, Others
<1>7. Rest(o, z)
  BY <1>1, <1>5, <1>6, RestFrame
<1> QED BY <1>2, <1>5, <1>7

LEMMA LoseRest ==
  ASSUME NEW o \in Origins, NEW s, Rest(o, s), NEW op \in OpPkt, NEW z, z = Lose(s, o, op)
  PROVE  /\ Rest(o, z) /\ z \in Process /\ z.discarded = s.discarded
         /\ z.holds = s.holds /\ z.queue = s.queue /\ z.toO = s.toO /\ z.sendq = s.sendq
         /\ z.applied = s.applied /\ z.dup[o] = s.dup[o] + Bit(WantsAck(op)) /\ z.recv = s.recv
<1>1. s \in Process /\ Numbered(s.applied[o]) /\ s.dup \in [Origins -> Nat]
  BY DEF Rest, TargetInv, Numbered, Process
<1>2. PICK d \in Nat : d = s.dup[o] + Bit(WantsAck(op)) /\ d = IF WantsAck(op) THEN s.dup[o] + 1 ELSE s.dup[o]
  <2>1. s.dup[o] \in Nat
    BY <1>1
  <2> QED BY <2>1 DEF Bit
<1>3. PICK f : f = [s.dup EXCEPT ![o] = d]
  OBVIOUS
<1>8. f \in [Origins -> Nat] /\ f[o] = d /\ \A p \in Origins \ {o} : f[p] = s.dup[p]
  BY <1>1, <1>3
<1>4. z = [s EXCEPT !.dup = f]
  BY <1>1, <1>2, <1>3 DEF Process, Lose
<1>5. /\ z \in Process /\ z.toO = s.toO /\ z.sendq = s.sendq /\ z.recv = s.recv
      /\ z.applied = s.applied /\ z.dup = f /\ z.discarded = s.discarded /\ z.stale = s.stale
      /\ z.lock = s.lock /\ z.ref = s.ref /\ z.queue = s.queue /\ z.entered = s.entered
      /\ z.holds = s.holds /\ z.lost = s.lost
  BY <1>1, <1>8, <1>4 DEF Process
<1>6. Global(s, z) /\ Others(o, s, z)
  BY <1>5, <1>8 DEF Global, Others
<1>7. Rest(o, z)
  BY <1>1, <1>5, <1>6, RestFrame
<1> QED BY <1>2, <1>5, <1>7, <1>8

\* Entry e of origin o enters the lock queue.
Enters(o, s, e, z) ==
  /\ Rest(o, s) /\ NoEntry(o, s) /\ Len(s.queue) # conf.pool
  /\ e \in Entries /\ e.o = o /\ (e.data => ~CanAcquire(s, e.op.lock))
  /\ z = [s EXCEPT !.queue = Append(@, e)]

Entered(o, s, e, z) ==
  /\ Rest(o, z) /\ z \in Process /\ z.discarded = s.discarded
  /\ z.holds = s.holds /\ z.toO = s.toO /\ z.sendq = s.sendq
  /\ z.applied = s.applied /\ z.dup = s.dup /\ z.recv = s.recv
  /\ \E i \in DOMAIN z.queue : z.queue[i] = e

\* An entry is appended to the queue.
LEMMA EnqueueRest ==
  ASSUME Shape, NEW o \in Origins, NEW s, NEW e, NEW z, Enters(o, s, e, z)
  PROVE  Entered(o, s, e, z)
<1>0. /\ Rest(o, s) /\ NoEntry(o, s) /\ Len(s.queue) # conf.pool
      /\ e \in Entries /\ e.o = o /\ (e.data => ~CanAcquire(s, e.op.lock))
      /\ z = [s EXCEPT !.queue = Append(@, e)]
  BY DEF Enters
<1>1. /\ s \in Process /\ TargetInv(s) /\ Len(s.queue) <= conf.pool
      /\ s.lost => conf.delay
      /\ \A p \in Origins \ {o} : PhaseOf(p, s)
      /\ s.queue \in Seq(Entries)
  BY <1>0 DEF Rest, Process
<1>2. PICK q : q = Append(s.queue, e)
  OBVIOUS
<1>3. PICK l \in Nat : l = Len(s.queue) /\ DOMAIN s.queue = 1 .. l
  BY <1>1
<1>4. /\ q \in Seq(Entries) /\ Len(q) = l + 1 /\ DOMAIN q = 1 .. l + 1 /\ q[l + 1] = e
      /\ \A i \in 1 .. l : q[i] = s.queue[i]
  BY <1>0, <1>1, <1>2, <1>3
<1>5. z = [s EXCEPT !.queue = q]
  BY <1>0, <1>1, <1>2 DEF Process
<1>6. /\ z \in Process /\ z.toO = s.toO /\ z.sendq = s.sendq /\ z.recv = s.recv
      /\ z.applied = s.applied /\ z.dup = s.dup /\ z.discarded = s.discarded /\ z.stale = s.stale
      /\ z.lock = s.lock /\ z.ref = s.ref /\ z.queue = q /\ z.entered = s.entered
      /\ z.holds = s.holds /\ z.lost = s.lost
  BY <1>1, <1>4, <1>5 DEF Process
<1>7. l + 1 \in DOMAIN q
  BY <1>4
<1>8. \A i \in DOMAIN q : i = l + 1 \/ (i \in DOMAIN s.queue /\ q[i] = s.queue[i])
  BY <1>3, <1>4
<1>9. \A i \in DOMAIN s.queue : i \in DOMAIN q /\ q[i] = s.queue[i]
  BY <1>3, <1>4
<1>10. ASSUME NEW p \in Origins \ {o} PROVE PhaseOf(p, z)
  <2>1. NoEntry(p, s) => NoEntry(p, z)
    BY <1>0, <1>4, <1>6, <1>8 DEF NoEntry
  <2>2. Same(p, s, z)
    BY <1>6, <1>9, <2>1 DEF Same
  <2> QED BY <1>1, <2>2, PhaseFrame DEF PhaseOf
<1>11. OneEntry(z)
  BY <1>0, <1>1, <1>4, <1>6, <1>8 DEF OneEntry, NoEntry, TargetInv
<1>12. Blocked(z)
  BY <1>0, <1>1, <1>4, <1>6, <1>8 DEF Blocked, TargetInv, CanAcquire
<1>13. Exact(z) <=> Exact(s)
  BY <1>6 DEF Exact, Alone, HoldersIn
<1>14. TargetInv(z)
  BY <1>1, <1>6, <1>11, <1>12, <1>13 DEF TargetInv
<1>15. Len(z.queue) <= conf.pool
  <2>1. conf.pool \in Nat
    BY ConfsAssumption DEF Shape
  <2>2. l <= conf.pool /\ l # conf.pool /\ Len(z.queue) = l + 1
    BY <1>0, <1>1, <1>3, <1>4, <1>6
  <2> QED BY ONLY <2>1, <2>2, l \in Nat
<1>16. Rest(o, z)
  BY <1>1, <1>6, <1>10, <1>14, <1>15 DEF Rest
<1>17. \E i \in DOMAIN z.queue : z.queue[i] = e
  BY <1>4, <1>6, <1>7
<1> QED BY <1>6, <1>16, <1>17 DEF Entered

\* The request for a lock that cannot be granted.
LEMMA EnqueueLock ==
  ASSUME Shape, NEW o \in Origins, NEW t, NEW c, NEW n, NEW ch \in Seq(ToT), NEW s, NEW dl, Rest(o, s),
         Requested(o, t, c, n, ch, s, dl), NEW p, p = Head(ch), p \in LockReq, s.recv[o] = NoData,
         ~CanAcquire(s, p.lock), p.lock = t.type,
         NEW z, z = enqueue_lock(s, o, p)
  PROVE  Goes(o, t, c, n, Tail(ch), s, z, dl)
<1>1. p.type = "lock" /\ p.lock \in Locks /\ p # OldUnlock
  BY DEF LockReq, OldUnlock
<1>2. /\ ch # <<>> /\ Tail(ch) = <<>> /\ s.holds[o] = "NONE"
      /\ t.access = "ISSUED" /\ s.toO[o] = <<>> /\ s.sendq[o] = <<>> /\ NoEntry(o, s)
      /\ t.acks = s.dup[o] + Bit(Wants(p))
      /\ Ids(t, n, Len(s.applied[o]))
  <2>1. Head(ch) # OldUnlock
    BY <1>1
  <2>2. /\ ch # <<>> /\ Tail(ch) = <<>> /\ Request(t, c, Head(ch), dl) /\ s.holds[o] = "NONE"
        /\ t.access = "ISSUED" /\ s.toO[o] = <<>> /\ s.sendq[o] = <<>> /\ NoEntry(o, s)
        /\ t.acks = s.dup[o] + Bit(Wants(Head(ch)))
        /\ Ids(t, n, Len(s.applied[o]))
    BY ONLY <2>1, RequestOnly, o \in Origins, ch \in Seq(ToT), Requested(o, t, c, n, ch, s, dl)
  <2> QED BY <2>2
<1>3. s \in Process /\ s.dup[o] \in Nat
  BY DEF Rest, Process
<1>4. t.acks = s.dup[o]
  BY <1>2, <1>3, BitWants
<1>5. s.recv[o].what = "none"
  BY DEF NoData
<1>6. CASE Len(s.queue) = conf.pool
  <2>1. PICK a : a = [s EXCEPT !.discarded = @ \cup {o}]
    OBVIOUS
  <2>2. /\ Rest(o, a) /\ a \in Process /\ a.discarded = s.discarded \cup {o}
        /\ a.holds = s.holds /\ a.queue = s.queue /\ a.toO = s.toO /\ a.sendq = s.sendq
        /\ a.applied = s.applied /\ a.dup = s.dup /\ a.recv = s.recv
    BY <2>1, DiscardRest
  <2>3. PICK k \in ToO : k = LockAck("DISCARDED")
    BY LockAckType
  <2>4. z = Send(a, o, k)
    BY <1>6, <2>1, <2>3 DEF enqueue_lock
  <2>5. Rest(o, a)
    BY <2>2
  <2>6. /\ Rest(o, z) /\ z.discarded = a.discarded
        /\ z.holds = a.holds /\ z.queue = a.queue
        /\ z.recv[o] = a.recv[o] /\ z.applied[o] = a.applied[o] /\ z.dup[o] = a.dup[o]
        /\ a.sendq[o] = <<>> => z.toO[o] = Append(a.toO[o], k) /\ z.sendq[o] = <<>>
        /\ a.sendq[o] # <<>> => z.toO[o] = a.toO[o] /\ z.sendq[o] = Append(a.sendq[o], k)
    BY ONLY <2>4, <2>5, SendRest, o \in Origins, k \in ToO
  <2>7. z.toO[o] = <<LockAck("DISCARDED")>> /\ z.sendq[o] = <<>>
    BY <1>2, <2>2, <2>3, <2>6, AppendOne
  <2>9. NoEntry(o, z) /\ o \in z.discarded /\ z.holds[o] = "NONE"
    BY <1>2, <2>2, <2>6 DEF NoEntry
  <2>10. z.recv[o].what = "none" /\ t.acks = z.dup[o] /\ Ids(t, n, Len(z.applied[o]))
    BY <1>2, <1>4, <1>5, <2>2, <2>6
  <2>8. Refused(o, t, c, n, <<>>, z, dl)
    BY ONLY <1>2, <2>7, <2>9, <2>10 DEF Refused
  <2> QED BY <1>2, <2>2, <2>6, <2>8 DEF Goes, Phase
<1>7. CASE Len(s.queue) # conf.pool
  <2>1. PICK e : e = [o |-> o, op |-> p, data |-> TRUE]
    OBVIOUS
  <2>2. e \in Entries /\ e.o = o /\ e.op = p /\ e.data
    BY <2>1 DEF Entries
  <2>3. PICK a : a = [s EXCEPT !.queue = Append(@, e)]
    OBVIOUS
  <2>4. /\ Rest(o, a) /\ a \in Process /\ a.discarded = s.discarded
        /\ a.holds = s.holds /\ a.toO = s.toO /\ a.sendq = s.sendq
        /\ a.applied = s.applied /\ a.dup = s.dup /\ a.recv = s.recv
        /\ \E i \in DOMAIN a.queue : a.queue[i] = e
    <3>1. Enters(o, s, e, a)
      BY <1>2, <1>7, <2>2, <2>3 DEF Enters
    <3>2. Entered(o, s, e, a)
      BY <3>1, EnqueueRest
    <3> QED BY <3>2 DEF Entered
  <2>5. PICK k \in ToO : k = LockAck("QUEUED")
    BY LockAckType
  <2>6. z = Send(a, o, k)
    BY <1>7, <2>1, <2>3, <2>5 DEF enqueue_lock
  <2>7. Rest(o, a)
    BY <2>4
  <2>8. /\ Rest(o, z) /\ z.discarded = a.discarded
        /\ z.holds = a.holds /\ z.queue = a.queue
        /\ z.recv[o] = a.recv[o] /\ z.applied[o] = a.applied[o] /\ z.dup[o] = a.dup[o]
        /\ a.sendq[o] = <<>> => z.toO[o] = Append(a.toO[o], k) /\ z.sendq[o] = <<>>
        /\ a.sendq[o] # <<>> => z.toO[o] = a.toO[o] /\ z.sendq[o] = Append(a.sendq[o], k)
    BY ONLY <2>6, <2>7, SendRest, o \in Origins, k \in ToO
  <2>9. z.toO[o] = <<LockAck("QUEUED")>> /\ z.sendq[o] = <<>>
    BY <1>2, <2>4, <2>5, <2>8, AppendOne
  <2>10. QueuedLock(o, t, z, e)
    <3>1. e.op \in LockReq /\ e.data
      BY <2>2
    <3>2. z.toO[o] \in {<<>>, <<LockAck("QUEUED")>>}
      BY <2>9
    <3>3. z.recv[o].what = "none" /\ t.acks = z.dup[o]
      BY <1>4, <1>5, <2>4, <2>8
    <3> QED BY ONLY <3>1, <3>2, <3>3 DEF QueuedLock
  <2>11. \E i \in DOMAIN z.queue : z.queue[i] = e
    BY <2>4, <2>8
  <2>12. Queued(o, t, c, n, <<>>, z, dl)
    BY <1>2, <2>2, <2>4, <2>8, <2>9, <2>10, <2>11 DEF Queued, QueuedEntry
  <2> QED BY <1>2, <2>4, <2>8, <2>12 DEF Goes, Phase
<1> QED BY <1>6, <1>7

\* Where the target stands during a step for o: what concerns o is given, Q is
\* the queue, and nothing of D was thrown away.
Stands(o, D, Q, z, x, y, v, h, a, d) ==
  /\ Rest(o, z) /\ D \subseteq z.discarded /\ z.queue = Q
  /\ Fields(o, z, x, y, v, h, a, d)

LEMMA StandsStart ==
  ASSUME NEW o \in Origins, NEW s, Rest(o, s)
  PROVE  Stands(o, s.discarded, s.queue, s, s.toO[o], s.sendq[o], s.recv[o], s.holds[o], s.applied[o], s.dup[o])
BY DEF Stands, Fields

LEMMA StandsRecv ==
  ASSUME NEW o \in Origins, NEW D, NEW Q, NEW s, NEW x, NEW y, NEW v, NEW h, NEW a, NEW d,
         Stands(o, D, Q, s, x, y, v, h, a, d),
         NEW w \in Recvs, NEW z, Receives(o, s, w, z)
  PROVE  Stands(o, D, Q, z, x, y, w, h, a, d)
<1>1. Rest(o, s) /\ D \subseteq s.discarded /\ s.queue = Q /\ Fields(o, s, x, y, v, h, a, d)
  BY DEF Stands
<1>2. Rest(o, s)
  BY <1>1
<1>3. /\ Rest(o, z) /\ z \in Process /\ z.discarded = s.discarded /\ z.stale = s.stale
      /\ z.holds = s.holds /\ z.queue = s.queue /\ z.lock = s.lock /\ z.toO = s.toO
      /\ z.sendq = s.sendq /\ z.applied = s.applied /\ z.dup = s.dup /\ z.recv[o] = w
  BY ONLY <1>2, RecvRest, o \in Origins, w \in Recvs, Receives(o, s, w, z)
<1> QED BY ONLY <1>1, <1>3 DEF Stands, Fields

LEMMA StandsDiscard ==
  ASSUME NEW o \in Origins, NEW D, NEW Q, NEW s, NEW x, NEW y, NEW v, NEW h, NEW a, NEW d,
         Stands(o, D, Q, s, x, y, v, h, a, d),
         NEW z, z = [s EXCEPT !.discarded = @ \cup {o}]
  PROVE  Stands(o, D \cup {o}, Q, z, x, y, v, h, a, d)
<1>1. Rest(o, s) /\ D \subseteq s.discarded /\ s.queue = Q /\ Fields(o, s, x, y, v, h, a, d)
  BY DEF Stands
<1>2. Rest(o, s)
  BY <1>1
<1>3. /\ Rest(o, z) /\ z \in Process /\ z.discarded = s.discarded \cup {o}
      /\ z.holds = s.holds /\ z.queue = s.queue /\ z.toO = s.toO /\ z.sendq = s.sendq
      /\ z.applied = s.applied /\ z.dup = s.dup /\ z.recv = s.recv
  BY ONLY <1>2, DiscardRest, o \in Origins, z = [s EXCEPT !.discarded = @ \cup {o}]
<1> QED BY ONLY <1>1, <1>3 DEF Stands, Fields

LEMMA StandsLose ==
  ASSUME NEW o \in Origins, NEW D, NEW Q, NEW s, NEW x, NEW y, NEW v, NEW h, NEW a, NEW d,
         Stands(o, D, Q, s, x, y, v, h, a, d), NEW op \in OpPkt, NEW z, z = Lose(s, o, op)
  PROVE  Stands(o, D, Q, z, x, y, v, h, a, d + Bit(WantsAck(op)))
<1>1. Rest(o, s) /\ D \subseteq s.discarded /\ s.queue = Q /\ Fields(o, s, x, y, v, h, a, d)
  BY DEF Stands
<1>2. Rest(o, s)
  BY <1>1
<1>3. /\ Rest(o, z) /\ z \in Process /\ z.discarded = s.discarded
      /\ z.holds = s.holds /\ z.queue = s.queue /\ z.toO = s.toO /\ z.sendq = s.sendq
      /\ z.applied = s.applied /\ z.dup[o] = s.dup[o] + Bit(WantsAck(op)) /\ z.recv = s.recv
  BY ONLY <1>2, LoseRest, o \in Origins, op \in OpPkt, z = Lose(s, o, op)
<1> QED BY ONLY <1>1, <1>3 DEF Stands, Fields

LEMMA StandsSend ==
  ASSUME NEW o \in Origins, NEW D, NEW Q, NEW s, NEW x, NEW y, NEW v, NEW h, NEW a, NEW d,
         Stands(o, D, Q, s, x, y, v, h, a, d), NEW k \in ToO, NEW z, z = Send(s, o, k)
  PROVE  /\ y = <<>> => Stands(o, D, Q, z, Append(x, k), <<>>, v, h, a, d)
         /\ y # <<>> => Stands(o, D, Q, z, x, Append(y, k), v, h, a, d)
<1>1. Rest(o, s) /\ D \subseteq s.discarded /\ s.queue = Q /\ Fields(o, s, x, y, v, h, a, d)
  BY DEF Stands
<1>2. Rest(o, s)
  BY <1>1
<1>3. /\ Rest(o, z) /\ z.discarded = s.discarded
      /\ z.holds = s.holds /\ z.queue = s.queue
      /\ z.recv[o] = s.recv[o] /\ z.applied[o] = s.applied[o] /\ z.dup[o] = s.dup[o]
      /\ s.sendq[o] = <<>> => z.toO[o] = Append(s.toO[o], k) /\ z.sendq[o] = <<>>
      /\ s.sendq[o] # <<>> => z.toO[o] = s.toO[o] /\ z.sendq[o] = Append(s.sendq[o], k)
  BY ONLY <1>2, SendRest, o \in Origins, k \in ToO, z = Send(s, o, k)
<1> QED BY ONLY <1>1, <1>3 DEF Stands, Fields

LEMMA StandsEnqueue ==
  ASSUME Shape, NEW o \in Origins, NEW D, NEW Q, NEW s, NEW x, NEW y, NEW v, NEW h, NEW a, NEW d,
         Stands(o, D, Q, s, x, y, v, h, a, d), NEW e, NEW z, Enters(o, s, e, z)
  PROVE  Stands(o, D, z.queue, z, x, y, v, h, a, d) /\ \E i \in DOMAIN z.queue : z.queue[i] = e
<1>1. Rest(o, s) /\ D \subseteq s.discarded /\ s.queue = Q /\ Fields(o, s, x, y, v, h, a, d)
  BY DEF Stands
<1>2. Entered(o, s, e, z)
  BY EnqueueRest
<1> QED BY ONLY <1>1, <1>2 DEF Stands, Fields, Entered

LEMMA StandsAcquire ==
  ASSUME NEW o \in Origins, NEW D, NEW Q, NEW s, NEW x, NEW y, NEW v, NEW a, NEW d,
         Stands(o, D, Q, s, x, y, v, "NONE", a, d), NEW type \in Locks, CanAcquire(s, type),
         NEW z, z = Acquire(s, o, type)
  PROVE  Stands(o, D, Q, z, x, y, v, type, a, d)
<1>1. Rest(o, s) /\ D \subseteq s.discarded /\ s.queue = Q /\ Fields(o, s, x, y, v, "NONE", a, d)
  BY DEF Stands
<1>2. Rest(o, s) /\ s.holds[o] = "NONE"
  BY <1>1 DEF Fields
<1>3. Rest(o, z)
  BY <1>2, AcquireRest
<1>4. s \in Process
  BY <1>2 DEF Rest
<1>5. /\ z \in Process /\ Others(o, s, z)
      /\ z.lock = type /\ z.ref = (IF type = "SHARED" THEN s.ref + 1 ELSE s.ref)
      /\ z.holds = [s.holds EXCEPT ![o] = type] /\ z.holds[o] = type
      /\ z.queue = s.queue /\ z.entered = s.entered /\ z.lost = s.lost
      /\ z.discarded = s.discarded /\ z.stale = s.stale
      /\ z.toO = s.toO /\ z.sendq = s.sendq /\ z.recv = s.recv
      /\ z.applied = s.applied /\ z.dup = s.dup
  BY ONLY <1>4, z = Acquire(s, o, type), type \in Locks, AcquireEffect, o \in Origins
<1> QED BY ONLY <1>1, <1>3, <1>5 DEF Stands, Fields

LEMMA StandsRelease ==
  ASSUME Shape, NEW o \in Origins, NEW D, NEW Q, NEW s, NEW x, NEW y, NEW v, NEW h, NEW a, NEW d,
         Stands(o, D, Q, s, x, y, v, h, a, d), h # "NONE", NoEntry(o, s), NEW late,
         NEW z, z = Release_lock(s, o, late)
  PROVE  Stands(o, D, z.queue, z, x, y, v, "NONE", a, d) /\ NoEntry(o, z)
<1>1. Rest(o, s) /\ D \subseteq s.discarded /\ s.queue = Q /\ Fields(o, s, x, y, v, h, a, d)
  BY DEF Stands
<1>2. Rest(o, s) /\ s.holds[o] # "NONE"
  BY <1>1 DEF Fields
<1>3. Rest(o, z) /\ Released(o, s, z)
  BY <1>2, ReleaseRest
<1> QED BY ONLY <1>1, <1>3 DEF Stands, Fields, Released, Alike


\* The queue entry for an operation.
LEMMA EntryFields ==
  ASSUME NEW o \in Origins, NEW op \in OpPkt, op.lock # "NONE", NEW part \in BOOLEAN, NEW r \in BOOLEAN,
         NEW e, e = Entry(o, op, part, r)
  PROVE  /\ e \in Entries /\ e.o = o /\ e.op.lock = op.lock
         /\ r => e.op = op /\ (e.data <=> ~part)
         /\ ~r => e.op \in LockOnly /\ e.data
<1>1. PICK d \in BOOLEAN : d = (~part \/ ~r)
  OBVIOUS
<1>2. PICK y : y = IF r THEN op ELSE [op EXCEPT !.type = "lock"]
  OBVIOUS
<1>3. e = [o |-> o, op |-> y, data |-> d]
  BY <1>1, <1>2 DEF Entry
<1>4. op.lock \in Locks
  BY DEF OpPkt, Types
<1>5. CASE r
  <2>1. y = op
    BY <1>2, <1>5
  <2>2. e \in Entries /\ e.o = o /\ e.op = op /\ e.data = d
    BY <1>3, <2>1 DEF Entries
  <2>3. d <=> ~part
    BY <1>1, <1>5
  <2> QED BY ONLY <1>5, <2>2, <2>3
<1>6. CASE ~r
  <2>1. y = [op EXCEPT !.type = "lock"]
    BY <1>2, <1>6
  <2>2. y \in LockOnly /\ y.lock = op.lock
    BY <1>4, <2>1 DEF OpPkt, LockOnly
  <2>3. e \in Entries /\ e.o = o /\ e.op = y /\ e.data = d
    BY <1>3, <2>2 DEF Entries
  <2>4. d
    BY <1>1, <1>6
  <2> QED BY ONLY <1>6, <2>2, <2>3, <2>4
<1> QED BY <1>5, <1>6

Rests(op, part, what, v) == v \in Recvs /\ v = IF part THEN [op |-> op, what |-> what] ELSE NoData

LEMMA RestsFields ==
  ASSUME NEW op \in OpPkt, NEW part \in BOOLEAN, NEW what \in {"drop", "entry"}
  PROVE  \E v : /\ Rests(op, part, what, v)
                /\ part => v.what = what
                /\ ~part => v.what = "none"
<1>1. PICK v : v = IF part THEN [op |-> op, what |-> what] ELSE NoData
  OBVIOUS
<1>2. CASE part
  <2>1. v = [op |-> op, what |-> what]
    BY <1>1, <1>2
  <2>2. v \in Recvs /\ v.what = what
    BY <2>1 DEF Recvs, RecvRec
  <2> QED BY <1>1, <1>2, <2>2 DEF Rests
<1>3. CASE ~part
  <2>1. v = NoData
    BY <1>1, <1>3
  <2>2. v \in Recvs /\ v.what = "none"
    BY <2>1 DEF Recvs, NoData
  <2> QED BY <1>1, <1>3, <2>2 DEF Rests
<1> QED BY <1>2, <1>3

\* The three ways of enqueue_lock_origin with an operation.
QueueFull(s, o, op, v, z) ==
  z = Send(Lose([s EXCEPT !.recv[o] = v, !.discarded = @ \cup {o}], o, op),
           o, LockOpAck("DISCARDED", FALSE))
WithEntry(s, o, e, w, q) == q = [s EXCEPT !.queue = Append(@, e), !.recv[o] = w]
QueueWithData(s, o, op, part, r, w, z) ==
  \E q : /\ WithEntry(s, o, Entry(o, op, part, r), w, q)
         /\ z = Send(q, o, LockOpAck("QUEUED", FALSE))
QueueAlone(s, o, op, part, r, w, z) ==
  \E q : /\ WithEntry(s, o, Entry(o, op, part, r), w, q)
         /\ z = Send(Lose(q, o, op), o, LockOpAck("DATA_DISCARDED", FALSE))

LEMMA EnqueueOpCases ==
  ASSUME NEW s, NEW o, NEW op, NEW part \in BOOLEAN, NEW z, z = enqueue_op(s, o, op, part),
         NEW v, Rests(op, part, "drop", v), NEW w, Rests(op, part, "entry", w)
  PROVE  \E r \in BOOLEAN :
           /\ Len(s.queue) = conf.pool => QueueFull(s, o, op, v, z)
           /\ Len(s.queue) # conf.pool /\ r => QueueWithData(s, o, op, part, r, w, z)
           /\ Len(s.queue) # conf.pool /\ ~r => QueueAlone(s, o, op, part, r, w, z)
<1>1. PICK r \in BOOLEAN :
        r = (\/ op.type # "putd"
             \/ Cardinality({i \in DOMAIN s.queue : s.queue[i].op.type = "putd"}) < conf.room)
  OBVIOUS
<1>2. v = IF part THEN [op |-> op, what |-> "drop"] ELSE NoData
  BY DEF Rests
<1>3. w = IF part THEN [op |-> op, what |-> "entry"] ELSE NoData
  BY DEF Rests
<1>4. z = IF Len(s.queue) = conf.pool
          THEN Send(Lose([s EXCEPT !.recv[o] = v, !.discarded = @ \cup {o}], o, op),
                    o, LockOpAck("DISCARDED", FALSE))
          ELSE LET q == [s EXCEPT !.queue = Append(@, Entry(o, op, part, r)), !.recv[o] = w]
               IN IF r THEN Send(q, o, LockOpAck("QUEUED", FALSE))
                       ELSE Send(Lose(q, o, op), o, LockOpAck("DATA_DISCARDED", FALSE))
  BY <1>1, <1>2, <1>3 DEF enqueue_op
<1>5. PICK q : WithEntry(s, o, Entry(o, op, part, r), w, q)
  BY DEF WithEntry
<1>6. z = IF Len(s.queue) = conf.pool
          THEN Send(Lose([s EXCEPT !.recv[o] = v, !.discarded = @ \cup {o}], o, op),
                    o, LockOpAck("DISCARDED", FALSE))
          ELSE IF r THEN Send(q, o, LockOpAck("QUEUED", FALSE))
                    ELSE Send(Lose(q, o, op), o, LockOpAck("DATA_DISCARDED", FALSE))
  BY <1>4, <1>5 DEF WithEntry
<1>7. CASE Len(s.queue) = conf.pool
  BY <1>1, <1>6, <1>7 DEF QueueFull
<1>8. CASE Len(s.queue) # conf.pool /\ r
  <2>1. QueueWithData(s, o, op, part, r, w, z)
    BY ONLY <1>5, <1>6, <1>8 DEF QueueWithData
  <2> QED BY <1>1, <1>8, <2>1
<1>9. CASE Len(s.queue) # conf.pool /\ ~r
  <2>1. QueueAlone(s, o, op, part, r, w, z)
    BY ONLY <1>5, <1>6, <1>9 DEF QueueAlone
  <2> QED BY <1>1, <1>9, <2>1
<1> QED BY <1>1, <1>7, <1>8, <1>9

\* The phases that the handler of an operation with a lock request starts from.
Asked(o, t, c, n, ch, p, s, dl) ==
  /\ ch # <<>> /\ Tail(ch) = <<>> /\ LockOp(t, c, p, dl) /\ s.holds[o] = "NONE"
  /\ t.access = "ISSUED" /\ s.toO[o] = <<>> /\ s.sendq[o] = <<>> /\ NoEntry(o, s)
  /\ t.acks = s.dup[o] + Bit(WantsAck(p)) /\ s.dup[o] \in Nat
  /\ Ids(t, n, Len(s.applied[o]))
  /\ p.lock = t.type /\ p.lock \in Locks /\ t.net # <<>> /\ p = Head(t.net)
  /\ Head(t.net).lock # "NONE"

LEMMA RequestedOp ==
  ASSUME NEW o \in Origins, NEW t, NEW c, NEW n, NEW ch \in Seq(ToT), NEW s, NEW dl, Rest(o, s),
         Requested(o, t, c, n, ch, s, dl), NEW p, p = Head(ch), p \in OpPkt
  PROVE  Asked(o, t, c, n, ch, p, s, dl)
<1>1. p.type \in OpKinds
  BY DEF OpPkt
<1>2. Head(ch) # OldUnlock
  BY <1>1 DEF OldUnlock, OpKinds
<1>3. /\ ch # <<>> /\ Tail(ch) = <<>> /\ Request(t, c, Head(ch), dl) /\ s.holds[o] = "NONE"
      /\ t.access = "ISSUED" /\ s.toO[o] = <<>> /\ s.sendq[o] = <<>> /\ NoEntry(o, s)
      /\ t.acks = s.dup[o] + Bit(Wants(Head(ch)))
      /\ Ids(t, n, Len(s.applied[o]))
  BY ONLY <1>2, RequestOnly, o \in Origins, ch \in Seq(ToT), Requested(o, t, c, n, ch, s, dl)
<1>4. LockOp(t, c, p, dl)
  <2>1. p \notin LockReq
    BY <1>1 DEF LockReq, OpKinds
  <2> QED BY <1>3, <2>1 DEF Request
<1>5. p.lock = t.type /\ p.lock # "NONE" /\ t.net # <<>> /\ p = Head(t.net)
  BY <1>4 DEF LockOp
<1>6. p.lock \in Locks
  BY <1>5 DEF OpPkt, Types
<1>7. Bit(Wants(p)) = Bit(WantsAck(p))
  BY BitWants
<1>8. s.dup[o] \in Nat
  BY DEF Rest, Process
<1> QED BY <1>3, <1>4, <1>5, <1>6, <1>7, <1>8 DEF Asked

\* The request of an operation for a lock that cannot be granted finds the
\* queue full.
LEMMA EnqueueOpRefused ==
  ASSUME NEW o \in Origins, NEW t, NEW c, NEW n, NEW ch, NEW s, NEW dl, Rest(o, s),
         NEW p \in OpPkt, Asked(o, t, c, n, ch, p, s, dl),
         NEW v \in Recvs, v.what \in {"none", "drop"}, NEW z, QueueFull(s, o, p, v, z)
  PROVE  Goes(o, t, c, n, Tail(ch), s, z, dl)
<1>1. /\ Tail(ch) = <<>> /\ s.holds[o] = "NONE" /\ t.access = "ISSUED"
      /\ s.toO[o] = <<>> /\ s.sendq[o] = <<>> /\ NoEntry(o, s)
      /\ t.acks = s.dup[o] + Bit(WantsAck(p)) /\ s.dup[o] \in Nat
      /\ Ids(t, n, Len(s.applied[o])) /\ t.net # <<>> /\ Head(t.net).lock # "NONE"
  BY DEF Asked
<1>2. PICK A, B, D, Q : A = s.applied[o] /\ B = s.dup[o] /\ D = s.discarded /\ Q = s.queue
  OBVIOUS
<1>3. Stands(o, D, Q, s, <<>>, <<>>, s.recv[o], "NONE", A, B)
  BY <1>1, <1>2, StandsStart
<1>4. PICK a : Receives(o, s, v, a)
  BY DEF Receives
<1>5. Stands(o, D, Q, a, <<>>, <<>>, v, "NONE", A, B)
  BY ONLY <1>3, <1>4, StandsRecv, o \in Origins, v \in Recvs
<1>6. PICK b : b = [a EXCEPT !.discarded = @ \cup {o}]
  OBVIOUS
<1>7. Stands(o, D \cup {o}, Q, b, <<>>, <<>>, v, "NONE", A, B)
  BY ONLY <1>5, <1>6, StandsDiscard, o \in Origins
<1>8. PICK d : d = Lose(b, o, p)
  OBVIOUS
<1>9. Stands(o, D \cup {o}, Q, d, <<>>, <<>>, v, "NONE", A, B + Bit(WantsAck(p)))
  BY ONLY <1>7, <1>8, StandsLose, o \in Origins, p \in OpPkt
<1>10. PICK k \in ToO : k = LockOpAck("DISCARDED", FALSE)
  BY LockAckType
<1>11. z = Send(d, o, k)
  <2>1. s \in Process
    BY DEF Rest
  <2>2. b = [s EXCEPT !.recv[o] = v, !.discarded = @ \cup {o}]
    BY <1>4, <1>6, <2>1 DEF Process, Receives
  <2> QED BY <1>8, <1>10, <2>2 DEF QueueFull
<1>12. Stands(o, D \cup {o}, Q, z, Append(<<>>, k), <<>>, v, "NONE", A, B + Bit(WantsAck(p)))
  BY ONLY <1>9, <1>11, StandsSend, o \in Origins, k \in ToO
<1>13. /\ Rest(o, z) /\ D \cup {o} \subseteq z.discarded /\ z.queue = Q
       /\ z.toO[o] = Append(<<>>, k) /\ z.sendq[o] = <<>> /\ z.recv[o] = v
       /\ z.holds[o] = "NONE" /\ z.applied[o] = A /\ z.dup[o] = B + Bit(WantsAck(p))
  BY ONLY <1>12 DEF Stands, Fields
<1>14. z.toO[o] = <<LockOpAck("DISCARDED", FALSE)>>
  BY ONLY <1>10, <1>13, AppendOne
<1>15. NoEntry(o, z)
  BY <1>1, <1>2, <1>13 DEF NoEntry
<1>16. t.acks = z.dup[o] /\ Ids(t, n, Len(z.applied[o])) /\ z.recv[o].what \in {"none", "drop"}
  BY <1>1, <1>2, <1>13
<1>17. Refused(o, t, c, n, <<>>, z, dl)
  BY ONLY <1>1, <1>13, <1>14, <1>15, <1>16 DEF Refused
<1>18. s.discarded \subseteq z.discarded
  BY <1>2, <1>13
<1> QED BY ONLY <1>1, <1>13, <1>17, <1>18 DEF Goes, Phase

\* It enters the queue.
LEMMA EnqueueOpEnters ==
  ASSUME Shape, NEW o \in Origins, NEW t, NEW c, NEW n, NEW ch, NEW s, NEW dl, Rest(o, s),
         NEW p \in OpPkt, Asked(o, t, c, n, ch, p, s, dl),
         ~CanAcquire(s, p.lock), Len(s.queue) # conf.pool,
         NEW w \in Recvs, NEW e \in Entries, e.o = o, e.op.lock = p.lock,
         NEW q, WithEntry(s, o, e, w, q)
  PROVE  /\ Stands(o, s.discarded, q.queue, q, <<>>, <<>>, w, "NONE", s.applied[o], s.dup[o])
         /\ \E i \in DOMAIN q.queue : q.queue[i] = e
<1>1. /\ s.holds[o] = "NONE" /\ s.toO[o] = <<>> /\ s.sendq[o] = <<>> /\ NoEntry(o, s)
  BY DEF Asked
<1>2. PICK A, B, D, Q : A = s.applied[o] /\ B = s.dup[o] /\ D = s.discarded /\ Q = s.queue
  OBVIOUS
<1>3. Stands(o, D, Q, s, <<>>, <<>>, s.recv[o], "NONE", A, B)
  BY <1>1, <1>2, StandsStart
<1>4. PICK a : a = [s EXCEPT !.queue = Append(@, e)]
  OBVIOUS
<1>5. Enters(o, s, e, a)
  BY <1>1, <1>4 DEF Enters
<1>6. /\ Stands(o, D, a.queue, a, <<>>, <<>>, s.recv[o], "NONE", A, B)
      /\ \E i \in DOMAIN a.queue : a.queue[i] = e
  BY ONLY <1>3, <1>5, StandsEnqueue, Shape, o \in Origins
<1>7. Receives(o, a, w, q)
  <2>1. s \in Process
    BY DEF Rest
  <2> QED BY <1>4, <2>1 DEF Process, Receives, WithEntry
<1>8. Stands(o, D, a.queue, q, <<>>, <<>>, w, "NONE", A, B)
  BY ONLY <1>6, <1>7, StandsRecv, o \in Origins, w \in Recvs
<1>9. q.queue = a.queue
  BY <1>8 DEF Stands
<1> QED BY ONLY <1>2, <1>6, <1>8, <1>9

LEMMA EnqueueOpQueued ==
  ASSUME NEW o \in Origins, NEW t, NEW c, NEW n, NEW ch, NEW s, NEW dl,
         NEW p \in OpPkt, Asked(o, t, c, n, ch, p, s, dl), NEW w, NEW e, e.o = o, e.op = p,
         w.what \in {"none", "entry"}, e.data <=> w.what = "none",
         NEW q, Stands(o, s.discarded, q.queue, q, <<>>, <<>>, w, "NONE", s.applied[o], s.dup[o]),
         \E i \in DOMAIN q.queue : q.queue[i] = e,
         NEW z, z = Send(q, o, LockOpAck("QUEUED", FALSE))
  PROVE  Goes(o, t, c, n, Tail(ch), s, z, dl)
<1>1. /\ Tail(ch) = <<>> /\ t.access = "ISSUED" /\ LockOp(t, c, p, dl) /\ p.lock = t.type
      /\ t.acks = s.dup[o] + Bit(WantsAck(p)) /\ Ids(t, n, Len(s.applied[o]))
  BY DEF Asked
<1>2. PICK k \in ToO : k = LockOpAck("QUEUED", FALSE)
  BY LockAckType
<1>3. PICK A, B, D, Q : A = s.applied[o] /\ B = s.dup[o] /\ D = s.discarded /\ Q = q.queue
  OBVIOUS
<1>4. Stands(o, D, Q, q, <<>>, <<>>, w, "NONE", A, B) /\ z = Send(q, o, k)
  BY <1>2, <1>3
<1>5. Stands(o, D, Q, z, Append(<<>>, k), <<>>, w, "NONE", A, B)
  BY ONLY <1>4, StandsSend, o \in Origins, k \in ToO
<1>6. /\ Rest(o, z) /\ D \subseteq z.discarded /\ z.queue = Q
      /\ z.toO[o] = Append(<<>>, k) /\ z.sendq[o] = <<>> /\ z.recv[o] = w
      /\ z.holds[o] = "NONE" /\ z.applied[o] = A /\ z.dup[o] = B
  BY ONLY <1>5 DEF Stands, Fields
<1>7. z.toO[o] \in {<<>>, <<LockOpAck("QUEUED", FALSE)>>}
  BY ONLY <1>2, <1>6, AppendOne
<1>8. /\ t.acks = z.dup[o] + Bit(WantsAck(e.op)) /\ Ids(t, n, Len(z.applied[o]))
      /\ LockOp(t, c, e.op, dl) /\ e.op.lock = t.type
      /\ z.recv[o].what \in {"none", "entry"} /\ (e.data <=> z.recv[o].what = "none")
  BY <1>1, <1>3, <1>6
<1>9. QueuedOp(o, t, c, z, e, dl)
  BY ONLY <1>7, <1>8 DEF QueuedOp
<1>10. \E i \in DOMAIN z.queue : z.queue[i] = e
  BY <1>3, <1>6
<1>11. Queued(o, t, c, n, <<>>, z, dl)
  BY ONLY <1>1, <1>6, <1>8, <1>9, <1>10, e.o = o DEF Queued, QueuedEntry
<1>12. s.discarded \subseteq z.discarded
  BY <1>3, <1>6
<1> QED BY ONLY <1>1, <1>6, <1>11, <1>12 DEF Goes, Phase

LEMMA EnqueueOpAlone ==
  ASSUME NEW o \in Origins, NEW t, NEW c, NEW n, NEW ch, NEW s, NEW dl,
         NEW p \in OpPkt, Asked(o, t, c, n, ch, p, s, dl), NEW w, NEW e, e.o = o,
         e.op \in LockOnly, e.data, e.op.lock = p.lock, w.what \in {"none", "entry"},
         NEW q, Stands(o, s.discarded, q.queue, q, <<>>, <<>>, w, "NONE", s.applied[o], s.dup[o]),
         \E i \in DOMAIN q.queue : q.queue[i] = e,
         NEW z, z = Send(Lose(q, o, p), o, LockOpAck("DATA_DISCARDED", FALSE))
  PROVE  Goes(o, t, c, n, Tail(ch), s, z, dl)
<1>1. /\ Tail(ch) = <<>> /\ t.access = "ISSUED" /\ p.lock = t.type
      /\ t.acks = s.dup[o] + Bit(WantsAck(p)) /\ Ids(t, n, Len(s.applied[o]))
      /\ t.net # <<>> /\ Head(t.net).lock # "NONE"
  BY DEF Asked
<1>2. PICK k \in ToO : k = LockOpAck("DATA_DISCARDED", FALSE)
  BY LockAckType
<1>3. PICK A, B, D, Q : A = s.applied[o] /\ B = s.dup[o] /\ D = s.discarded /\ Q = q.queue
  OBVIOUS
<1>4. PICK y : y = Lose(q, o, p)
  OBVIOUS
<1>5. Stands(o, D, Q, q, <<>>, <<>>, w, "NONE", A, B) /\ z = Send(y, o, k)
  BY <1>2, <1>3, <1>4
<1>6. Stands(o, D, Q, y, <<>>, <<>>, w, "NONE", A, B + Bit(WantsAck(p)))
  BY ONLY <1>4, <1>5, StandsLose, o \in Origins, p \in OpPkt
<1>7. Stands(o, D, Q, z, Append(<<>>, k), <<>>, w, "NONE", A, B + Bit(WantsAck(p)))
  BY ONLY <1>5, <1>6, StandsSend, o \in Origins, k \in ToO
<1>8. /\ Rest(o, z) /\ D \subseteq z.discarded /\ z.queue = Q
      /\ z.toO[o] = Append(<<>>, k) /\ z.sendq[o] = <<>> /\ z.recv[o] = w
      /\ z.holds[o] = "NONE" /\ z.applied[o] = A /\ z.dup[o] = B + Bit(WantsAck(p))
  BY ONLY <1>7 DEF Stands, Fields
<1>9. z.toO[o] = <<LockOpAck("DATA_DISCARDED", FALSE)>>
  BY ONLY <1>2, <1>8, AppendOne
<1>10. /\ t.acks = z.dup[o] /\ Ids(t, n, Len(z.applied[o])) /\ e.op.lock = t.type
       /\ z.recv[o].what \in {"none", "entry"}
  BY <1>1, <1>3, <1>8
<1>11. QueuedAlone(o, t, z, e)
  BY ONLY <1>1, <1>9, <1>10, e.op \in LockOnly, e.data DEF QueuedAlone
<1>12. \E i \in DOMAIN z.queue : z.queue[i] = e
  BY ONLY <1>3, <1>8, \E i \in DOMAIN q.queue : q.queue[i] = e
<1>13. Queued(o, t, c, n, <<>>, z, dl)
  BY ONLY <1>1, <1>8, <1>10, <1>11, <1>12, e.o = o DEF Queued, QueuedEntry
<1>14. s.discarded \subseteq z.discarded
  BY <1>3, <1>8
<1> QED BY ONLY <1>1, <1>8, <1>13, <1>14 DEF Goes, Phase

LEMMA EnqueueOp ==
  ASSUME Shape, NEW o \in Origins, NEW t, NEW c, NEW n, NEW ch, NEW s, NEW dl, Rest(o, s),
         NEW p \in OpPkt, Asked(o, t, c, n, ch, p, s, dl), ~CanAcquire(s, p.lock),
         NEW part \in BOOLEAN, NEW z, z = enqueue_op(s, o, p, part)
  PROVE  Goes(o, t, c, n, Tail(ch), s, z, dl)
<1>1. PICK v : /\ Rests(p, part, "drop", v)
               /\ part => v.what = "drop"
               /\ ~part => v.what = "none"
  <2>1. "drop" \in {"drop", "entry"}
    OBVIOUS
  <2> QED BY ONLY <2>1, RestsFields, p \in OpPkt, part \in BOOLEAN
<1>2. PICK w : /\ Rests(p, part, "entry", w)
               /\ part => w.what = "entry"
               /\ ~part => w.what = "none"
  <2>1. "entry" \in {"drop", "entry"}
    OBVIOUS
  <2> QED BY ONLY <2>1, RestsFields, p \in OpPkt, part \in BOOLEAN
<1>3. v \in Recvs /\ w \in Recvs
  BY <1>1, <1>2 DEF Rests
<1>4. PICK r \in BOOLEAN :
         /\ Len(s.queue) = conf.pool => QueueFull(s, o, p, v, z)
         /\ Len(s.queue) # conf.pool /\ r => QueueWithData(s, o, p, part, r, w, z)
         /\ Len(s.queue) # conf.pool /\ ~r => QueueAlone(s, o, p, part, r, w, z)
  BY <1>1, <1>2, EnqueueOpCases
<1>5. CASE Len(s.queue) = conf.pool
  <2>1. v.what \in {"none", "drop"}
    BY <1>1
  <2> QED BY <1>3, <1>4, <1>5, <2>1, EnqueueOpRefused
<1>6. CASE Len(s.queue) # conf.pool
  <2>1. PICK e : e = Entry(o, p, part, r)
    OBVIOUS
  <2>2. p.lock # "NONE"
    BY DEF Asked, Locks
  <2>3. /\ e \in Entries /\ e.o = o /\ e.op.lock = p.lock
        /\ r => e.op = p /\ (e.data <=> ~part)
        /\ ~r => e.op \in LockOnly /\ e.data
    BY ONLY <2>1, <2>2, EntryFields, o \in Origins, p \in OpPkt, part \in BOOLEAN, r \in BOOLEAN
  <2>4. e \in Entries /\ e.o = o /\ e.op.lock = p.lock /\ w.what \in {"none", "entry"}
    BY <1>2, <2>3
  <2>5. ASSUME NEW q, WithEntry(s, o, e, w, q)
        PROVE  /\ Stands(o, s.discarded, q.queue, q, <<>>, <<>>, w, "NONE", s.applied[o], s.dup[o])
               /\ \E i \in DOMAIN q.queue : q.queue[i] = e
    <3>1. e \in Entries
      BY <2>4
    <3>2. e.o = o
      BY <2>4
    <3>3. e.op.lock = p.lock
      BY <2>4
    <3>4. w \in Recvs
      BY <1>3
    <3> QED BY ONLY <1>6, <2>5, <3>1, <3>2, <3>3, <3>4, EnqueueOpEnters, Shape, o \in Origins, Rest(o, s),
                    p \in OpPkt, Asked(o, t, c, n, ch, p, s, dl), ~CanAcquire(s, p.lock)
  <2>7. CASE r
    <3>1. PICK q : WithEntry(s, o, e, w, q) /\ z = Send(q, o, LockOpAck("QUEUED", FALSE))
      BY <1>4, <1>6, <2>1, <2>7 DEF QueueWithData
    <3>2. e.op = p /\ (e.data <=> w.what = "none")
      BY <1>2, <2>3, <2>7
    <3> QED BY <2>4, <2>5, <3>1, <3>2, EnqueueOpQueued
  <2>8. CASE ~r
    <3>1. PICK q : WithEntry(s, o, e, w, q) /\ z = Send(Lose(q, o, p), o, LockOpAck("DATA_DISCARDED", FALSE))
      BY <1>4, <1>6, <2>1, <2>8 DEF QueueAlone
    <3>2. e.op \in LockOnly /\ e.data
      BY <2>3, <2>8
    <3> QED BY <2>4, <2>5, <3>1, <3>2, EnqueueOpAlone
  <2> QED BY <2>7, <2>8
<1> QED BY <1>5, <1>6

\* The operation that carried the lock request is performed.
LEMMA FinishLockOp ==
  ASSUME Shape, NEW o \in Origins, NEW t \in Targets, NEW c, NEW n \in Nat, NEW dl, NEW s, Rest(o, s),
         NEW q, t.access = "ISSUED", LockOp(t, c, q, dl), s.toO[o] = <<>>, s.sendq[o] = <<>>,
         s.recv[o].what = "none", s.holds[o] # "NONE", NoEntry(o, s),
         t.acks = s.dup[o] + Bit(WantsAck(q)), Ids(t, n, Len(s.applied[o])),
         NEW late, NEW z, z = Finish(s, o, q, late)
  PROVE  Goes(o, t, c, n, <<>>, s, z, dl)
<1>1. s \in Process /\ Numbered(s.applied[o]) /\ s.applied[o] \in Seq(Nat)
  BY DEF Rest, TargetInv, Numbered, Process
<1>2. q \in OpPkt /\ q = Head(t.net) /\ t.net # <<>>
  BY DEF LockOp
<1>3. q.id = Len(s.applied[o]) + 1
  <2>1. PICK l \in Nat : l = Len(s.applied[o])
    BY <1>1
  <2>2. Ids(t, n, l)
    BY <2>1
  <2>3. Head(t.net).id = l + 1
    BY <1>2, <2>2, NextId
  <2> QED BY <1>2, <2>1, <2>3
<1>4. PICK b : b = Perform(s, o, q, late)
  OBVIOUS
<1>5. /\ Numbered(b.applied[o])
      /\ Answers(o, t, c, n, <<>>, dl, b, Releases(s, o, q, late))
  <2>1. s.toO[o] \in {<<>>, <<LockOpAck("QUEUED", FALSE)>>}
    OBVIOUS
  <2>2. s \in Process
    BY <1>1
  <2>3. Numbered(s.applied[o])
    BY <1>1
  <2> QED BY <1>4, <2>1, <2>2, <2>3, LockOpAnswered
<1>6. /\ Rest(o, z) /\ Alike(o, b, z) /\ NoEntry(o, z) /\ z.discarded = s.discarded
      /\ z.holds[o] = IF Releases(s, o, q, late) THEN "NONE" ELSE s.holds[o]
  <2>1. Releases(s, o, q, late) => s.holds[o] # "NONE"
    OBVIOUS
  <2>2. q \in OpPkt
    BY <1>2
  <2> QED BY ONLY <1>3, <1>4, <2>1, <2>2, FinishRest, Shape, o \in Origins, Rest(o, s), NoEntry(o, s),
                  z = Finish(s, o, q, late)
<1>7. z.holds[o] = "NONE" <=> Releases(s, o, q, late)
  BY <1>6
<1>8. Phase(o, t, c, n, <<>>, z, dl)
  BY ONLY <1>5, <1>6, <1>7 DEF Answers
<1> QED BY <1>6, <1>8 DEF Goes

\* The lock request of an operation is granted.
LEMMA GrantLockOp ==
  ASSUME Shape, NEW o \in Origins, NEW t \in Targets, NEW c, NEW n \in Nat, NEW ch, NEW s, NEW dl, Rest(o, s),
         NEW p \in OpPkt, Asked(o, t, c, n, ch, p, s, dl), CanAcquire(s, p.lock), s.recv[o] = NoData,
         NEW a, a = Acquire(s, o, p.lock)
  PROVE  /\ \A z : Receives(o, a, [op |-> p, what |-> "op"], z) => Goes(o, t, c, n, Tail(ch), s, z, dl)
         /\ \A late, z : z = Finish(a, o, p, late) => Goes(o, t, c, n, Tail(ch), s, z, dl)
<1>1. /\ Tail(ch) = <<>> /\ LockOp(t, c, p, dl) /\ s.holds[o] = "NONE"
      /\ t.access = "ISSUED" /\ s.toO[o] = <<>> /\ s.sendq[o] = <<>> /\ NoEntry(o, s)
      /\ t.acks = s.dup[o] + Bit(WantsAck(p)) /\ Ids(t, n, Len(s.applied[o]))
      /\ p.lock \in Locks
  BY DEF Asked
<1>2. PICK A, B, D, Q, v, y : /\ A = s.applied[o] /\ B = s.dup[o] /\ D = s.discarded /\ Q = s.queue
                              /\ v = s.recv[o] /\ y = p.lock
  OBVIOUS
<1>3. Stands(o, D, Q, s, <<>>, <<>>, v, "NONE", A, B)
  BY <1>1, <1>2, StandsStart
<1>4. y \in Locks /\ CanAcquire(s, y) /\ a = Acquire(s, o, y)
  BY <1>1, <1>2
<1>5. Stands(o, D, Q, a, <<>>, <<>>, v, y, A, B)
  BY ONLY <1>3, <1>4, StandsAcquire, o \in Origins
<1>6. /\ Rest(o, a) /\ D \subseteq a.discarded /\ a.queue = Q
      /\ a.toO[o] = <<>> /\ a.sendq[o] = <<>> /\ a.recv[o] = v
      /\ a.holds[o] = y /\ a.applied[o] = A /\ a.dup[o] = B
  BY ONLY <1>5 DEF Stands, Fields
<1>7. NoEntry(o, a) /\ y # "NONE"
  BY <1>1, <1>2, <1>4, <1>6 DEF NoEntry, Locks
<1>8. ASSUME NEW z, Receives(o, a, [op |-> p, what |-> "op"], z)
      PROVE  Goes(o, t, c, n, Tail(ch), s, z, dl)
  <2>1. PICK w : w = [op |-> p, what |-> "op"]
    OBVIOUS
  <2>2. w \in Recvs /\ w.what = "op" /\ w.op = p
    BY <2>1 DEF Recvs, RecvRec
  <2>3. Receives(o, a, w, z)
    BY <1>8, <2>1
  <2>4. w \in Recvs
    BY <2>2
  <2>5. Stands(o, D, Q, z, <<>>, <<>>, w, y, A, B)
    BY ONLY <1>5, <2>3, <2>4, StandsRecv, o \in Origins
  <2>6. /\ Rest(o, z) /\ D \subseteq z.discarded /\ z.queue = Q
        /\ z.toO[o] = <<>> /\ z.sendq[o] = <<>> /\ z.recv[o] = w
        /\ z.holds[o] = y /\ z.applied[o] = A /\ z.dup[o] = B
    BY ONLY <2>5 DEF Stands, Fields
  <2>7. NoEntry(o, z) /\ z.holds[o] # "NONE"
    BY <1>6, <1>7, <2>6 DEF NoEntry
  <2>8. /\ z.recv[o].what = "op" /\ z.recv[o].op = p
        /\ t.acks = z.dup[o] + Bit(WantsAck(p)) /\ Ids(t, n, Len(z.applied[o]))
    BY <1>1, <1>2, <2>2, <2>6
  <2>9. Receiving(o, t, c, n, <<>>, z, dl)
    BY ONLY <1>1, <2>6, <2>7, <2>8 DEF Receiving
  <2>10. s.discarded \subseteq z.discarded
    BY <1>2, <2>6
  <2> QED BY ONLY <1>1, <2>6, <2>9, <2>10 DEF Goes, Phase
<1>9. ASSUME NEW late, NEW z, z = Finish(a, o, p, late)
      PROVE  Goes(o, t, c, n, Tail(ch), s, z, dl)
  <2>1. a.recv[o].what = "none"
    BY <1>2, <1>6 DEF NoData
  <2>2. /\ a.holds[o] # "NONE" /\ t.acks = a.dup[o] + Bit(WantsAck(p))
        /\ Ids(t, n, Len(a.applied[o]))
    BY <1>1, <1>2, <1>6, <1>7
  <2>3. Goes(o, t, c, n, <<>>, a, z, dl)
    BY <1>1, <1>6, <1>7, <1>9, <2>1, <2>2, FinishLockOp
  <2>4. D \subseteq z.discarded /\ Rest(o, z) /\ Phase(o, t, c, n, <<>>, z, dl)
    BY <1>6, <2>3 DEF Goes
  <2> QED BY <1>1, <1>2, <2>4 DEF Goes
<1> QED BY <1>8, <1>9

\* The handlers Put and Get for an operation with a lock request.
LEMMA ReceiveLockOp ==
  ASSUME Shape, NEW o \in Origins, NEW t \in Targets, NEW c, NEW n \in Nat, NEW ch \in Seq(ToT), NEW s, NEW dl,
         Rest(o, s), Requested(o, t, c, n, ch, s, dl), NEW p, p = Head(ch), p \in OpPkt, s.recv[o] = NoData,
         NEW part \in BOOLEAN, NEW late, NEW z, z = PktHandler_target(s, o, p, part, late)
  PROVE  Goes(o, t, c, n, Tail(ch), s, z, dl)
<1>1. Asked(o, t, c, n, ch, p, s, dl)
  BY RequestedOp
<1>2. p.lock # "NONE"
  BY <1>1 DEF Asked, Locks
<1>3. PICK a : a = Locking(s, o, p)
  OBVIOUS
<1>4. Handles(s, o, p, part, late, a, z)
  BY ONLY <1>3, OpHandler, p \in OpPkt, part \in BOOLEAN, z = PktHandler_target(s, o, p, part, late)
<1>5. CASE ~CanAcquire(s, p.lock)
  <2>1. z = enqueue_op(s, o, p, part)
    BY <1>2, <1>4, <1>5 DEF Handles
  <2> QED BY <1>1, <1>5, <2>1, EnqueueOp
<1>6. CASE CanAcquire(s, p.lock)
  <2>1. a = Acquire(s, o, p.lock)
    BY <1>2, <1>3 DEF Locking
  <2>2. /\ \A y : Receives(o, a, [op |-> p, what |-> "op"], y) => Goes(o, t, c, n, Tail(ch), s, y, dl)
        /\ \A l, y : y = Finish(a, o, p, l) => Goes(o, t, c, n, Tail(ch), s, y, dl)
    BY <1>1, <1>6, <2>1, GrantLockOp
  <2>3. CASE part
    <3>1. Receives(o, a, [op |-> p, what |-> "op"], z)
      BY <1>4, <1>6, <2>3 DEF Handles
    <3> QED BY <2>2, <3>1
  <2>4. CASE ~part
    <3>1. z = Finish(a, o, p, late)
      BY <1>4, <1>6, <2>4 DEF Handles
    <3> QED BY <2>2, <3>1
  <2> QED BY <2>3, <2>4
<1> QED BY <1>5, <1>6

\* Data that nobody wants have come.
LEMMA DataDropped ==
  ASSUME NEW o, NEW t, NEW c, NEW n, NEW ch, NEW s, NEW z, NEW dl,
         Phase(o, t, c, n, ch, s, dl), NoEntry(o, s), s.recv[o].what \in {"drop", "entry"},
         z.recv[o].what = "none", NoEntry(o, z), o \in s.discarded => o \in z.discarded,
         z.toO[o] = s.toO[o], z.sendq[o] = s.sendq[o], z.holds[o] = s.holds[o],
         z.applied[o] = s.applied[o], z.dup[o] = s.dup[o]
  PROVE  Phase(o, t, c, n, ch, z, dl)
<1>1. ~Queued(o, t, c, n, ch, s, dl)
  BY DEF Queued, NoEntry
<1>2. s.recv[o].what # "op" /\ s.recv[o].what # "none"
  OBVIOUS
<1>3. CASE Idle(o, t, c, n, ch, s, dl)
  <2>1. Idle(o, t, c, n, ch, z, dl)
    BY <1>3 DEF Idle
  <2> QED BY <2>1 DEF Phase
<1>4. CASE Requested(o, t, c, n, ch, s, dl)
  <2>1. Requested(o, t, c, n, ch, z, dl)
    BY <1>4 DEF Requested
  <2> QED BY <2>1 DEF Phase
<1>5. CASE Refused(o, t, c, n, ch, s, dl)
  <2>1. Refused(o, t, c, n, ch, z, dl)
    BY <1>5 DEF Refused
  <2> QED BY <2>1 DEF Phase
<1>6. CASE Receiving(o, t, c, n, ch, s, dl)
  BY <1>2, <1>6 DEF Receiving
<1>7. CASE Answered(o, t, c, n, ch, s, dl)
  <2>1. AnsweredLock(o, t, n, s) /\ t.access = "ISSUED" /\ ch = <<>>
    BY <1>2, <1>7 DEF Answered, AnsweredOp
  <2>2. AnsweredLock(o, t, n, z)
    BY <2>1 DEF AnsweredLock
  <2>3. Answered(o, t, c, n, ch, z, dl)
    BY <2>1, <2>2 DEF Answered
  <2> QED BY <2>3 DEF Phase
<1>8. CASE Granted(o, t, c, n, ch, s, dl)
  <2>1. ~RecvOp(o, s) /\ ~RecvOp(o, z) /\ z.recv[o].what # "drop" /\ z.recv[o].what # "entry"
    BY <1>2 DEF RecvOp
  <2>2. Base(o, z) = Base(o, s)
    BY <2>1 DEF Base, Bit
  <2>3. Pipeline(o, t, c, n, ch, z)
    <3>1. Pipeline(o, t, c, n, ch, s)
      BY <1>8 DEF Granted
    <3> QED BY <2>1, <2>2, <3>1 DEF Pipeline
  <2>4. Flushed(o, t, ch, z)
    <3>1. Flushed(o, t, ch, s)
      BY <1>8 DEF Granted
    <3> QED BY <2>1, <3>1 DEF Flushed, LastOpWants
  <2>5. ReleasesOnce(o, t, c, ch, z)
    <3>1. ReleasesOnce(o, t, c, ch, s)
      BY <1>8 DEF Granted
    <3> QED BY <2>1, <3>1 DEF ReleasesOnce, ReleasePending
  <2>6. Bit(RecvOp(o, s) /\ WantsAck(s.recv[o].op)) = Bit(RecvOp(o, z) /\ WantsAck(z.recv[o].op))
    BY <2>1 DEF Bit
  <2>7. Granted(o, t, c, n, ch, z, dl)
    BY <1>8, <2>1, <2>3, <2>4, <2>5, <2>6 DEF Granted
  <2> QED BY <2>7 DEF Phase
<1> QED BY <1>1, <1>3, <1>4, <1>5, <1>6, <1>7, <1>8 DEF Phase

\* The data of the operation of entry m have come.
Marked(o, s, m, q) ==
  /\ q \in Process
  /\ q.toO = s.toO /\ q.sendq = s.sendq /\ q.recv = s.recv /\ q.applied = s.applied /\ q.dup = s.dup
  /\ q.holds = s.holds /\ q.lock = s.lock /\ q.ref = s.ref /\ q.entered = s.entered
  /\ q.lost = s.lost /\ q.discarded = s.discarded /\ q.stale = s.stale
  /\ DOMAIN q.queue = DOMAIN s.queue /\ Len(q.queue) = Len(s.queue)
  /\ q.queue[m] = [s.queue[m] EXCEPT !.data = TRUE]
  /\ q.queue[m].o = o /\ q.queue[m].op = s.queue[m].op /\ q.queue[m].data
  /\ \A i \in DOMAIN s.queue : i # m => q.queue[i] = s.queue[i] /\ s.queue[i].o # o

MarkedQueue(o, s) ==
  [i \in DOMAIN s.queue |->
     IF s.queue[i].o = o THEN [s.queue[i] EXCEPT !.data = TRUE] ELSE s.queue[i]]

LEMMA MarkEffect ==
  ASSUME NEW o \in Origins, NEW s \in Process, OneEntry(s), NEW m \in DOMAIN s.queue, s.queue[m].o = o,
         NEW q, q = [s EXCEPT !.queue = MarkedQueue(o, s)]
  PROVE  Marked(o, s, m, q)
<1>1. s.queue \in Seq(Entries)
  BY DEF Process
<1>2. PICK l \in Nat : l = Len(s.queue) /\ DOMAIN s.queue = 1 .. l
  BY <1>1
<1>3. \A i \in DOMAIN s.queue : s.queue[i] \in Entries
  BY <1>1
<1>4. PICK u : u = MarkedQueue(o, s)
  OBVIOUS
<1>5. \A i \in DOMAIN s.queue : i # m => u[i] = s.queue[i] /\ s.queue[i].o # o
  BY <1>4 DEF MarkedQueue, OneEntry
<1>6. u[m] = [s.queue[m] EXCEPT !.data = TRUE] /\ DOMAIN u = DOMAIN s.queue
  BY <1>4 DEF MarkedQueue
<1>7. u[m] \in Entries /\ u[m].o = o /\ u[m].op = s.queue[m].op /\ u[m].data = TRUE
  BY <1>3, <1>6 DEF Entries
<1>8. \A i \in 1 .. l : u[i] \in Entries
  BY <1>2, <1>3, <1>5, <1>7
<1>9. u \in [1 .. l -> Entries]
  <2>1. u = [i \in DOMAIN s.queue |->
               IF s.queue[i].o = o THEN [s.queue[i] EXCEPT !.data = TRUE] ELSE s.queue[i]]
    BY <1>4 DEF MarkedQueue
  <2> QED BY <1>2, <1>8, <2>1
<1>10. u \in Seq(Entries) /\ Len(u) = l
  BY <1>9
<1>11. q = [s EXCEPT !.queue = u]
  BY <1>4
<1>12. /\ q \in Process /\ q.queue = u
       /\ q.toO = s.toO /\ q.sendq = s.sendq /\ q.recv = s.recv /\ q.applied = s.applied /\ q.dup = s.dup
       /\ q.holds = s.holds /\ q.lock = s.lock /\ q.ref = s.ref /\ q.entered = s.entered
       /\ q.lost = s.lost /\ q.discarded = s.discarded /\ q.stale = s.stale
  BY <1>10, <1>11 DEF Process
<1> QED BY <1>2, <1>5, <1>6, <1>7, <1>10, <1>12 DEF Marked

\* What the other origins see of it.
LEMMA MarkedSame ==
  ASSUME NEW o \in Origins, NEW s \in Process, NEW m \in DOMAIN s.queue, s.queue[m].o = o, NEW q,
         Marked(o, s, m, q), NEW p \in Origins \ {o}
  PROVE  Same(p, s, q)
<1>1. /\ q.toO[p] = s.toO[p] /\ q.sendq[p] = s.sendq[p] /\ q.recv[p] = s.recv[p]
      /\ q.holds[p] = s.holds[p] /\ q.applied[p] = s.applied[p] /\ q.dup[p] = s.dup[p]
      /\ p \in s.discarded => p \in q.discarded
  BY DEF Marked
<1>2. \A i \in DOMAIN s.queue : s.queue[i].o = p => i \in DOMAIN q.queue /\ q.queue[i] = s.queue[i]
  BY DEF Marked
<1>4. \A i \in DOMAIN s.queue : q.queue[i].o = s.queue[i].o
  BY DEF Marked
<1>5. DOMAIN q.queue = DOMAIN s.queue
  BY DEF Marked
<1>3. NoEntry(p, s) => NoEntry(p, q)
  BY <1>4, <1>5 DEF NoEntry
<1> QED BY <1>1, <1>2, <1>3 DEF Same

\* The entry still waits.
LEMMA MarkedRest ==
  ASSUME NEW o \in Origins, NEW s, Rest(o, s), NEW m \in DOMAIN s.queue, s.queue[m].o = o, NEW q,
         Marked(o, s, m, q), ~CanAcquire(q, q.queue[m].op.lock)
  PROVE  Rest(o, q)
<1>1. /\ s \in Process /\ TargetInv(s) /\ Len(s.queue) <= conf.pool
      /\ s.lost => conf.delay
      /\ \A p \in Origins \ {o} : PhaseOf(p, s)
  BY DEF Rest
<1>2. ASSUME NEW p \in Origins \ {o} PROVE PhaseOf(p, q)
  <2>1. Same(p, s, q)
    BY <1>1, MarkedSame
  <2> QED BY <1>1, <2>1, PhaseFrame DEF PhaseOf
<1>3. OneEntry(q)
  <2>1. \A i \in DOMAIN s.queue : q.queue[i].o = s.queue[i].o
    BY DEF Marked
  <2>2. DOMAIN q.queue = DOMAIN s.queue
    BY DEF Marked
  <2>3. OneEntry(s)
    BY <1>1 DEF TargetInv
  <2> QED BY <2>1, <2>2, <2>3 DEF OneEntry
<1>4. Blocked(q)
  <2>1. \A x : CanAcquire(q, x) <=> CanAcquire(s, x)
    BY DEF Marked, CanAcquire
  <2>2. Blocked(s)
    BY <1>1 DEF TargetInv
  <2> QED BY <2>1, <2>2 DEF Marked, Blocked
<1>5. Exact(q) <=> Exact(s)
  BY DEF Marked, Exact, Alone, HoldersIn
<1>6. TargetInv(q)
  BY <1>1, <1>3, <1>4, <1>5 DEF TargetInv, Marked
<1> QED BY <1>1, <1>2, <1>6 DEF Rest, Marked

\* It gets the lock.
LEMMA MarkedGives ==
  ASSUME Shape, NEW o \in Origins, NEW s, Rest(o, s), NEW m \in DOMAIN s.queue, s.queue[m].o = o, NEW q,
         Marked(o, s, m, q), NEW y, CanAcquire(q, y), NEW b, Gives(o, q, y, b)
  PROVE  Rest(o, b)
<1>1. /\ s \in Process /\ TargetInv(s) /\ Len(s.queue) <= conf.pool
      /\ s.lost => conf.delay
      /\ \A p \in Origins \ {o} : PhaseOf(p, s)
  BY DEF Rest
<1>2. /\ Blocked(s) /\ (s.lost \/ Exact(s)) /\ s.ref >= 0 /\ s.entered = 0
      /\ \A p \in Origins : \A i \in DOMAIN s.applied[p] : s.applied[p][i] = i
  BY <1>1 DEF TargetInv
<1>3. /\ y \in Locks /\ q.holds[o] = "NONE"
      /\ b \in Process /\ Others(o, q, b)
      /\ b.lock = y /\ b.ref = (IF y = "SHARED" THEN q.ref + 1 ELSE q.ref)
      /\ b.holds = [q.holds EXCEPT ![o] = y]
      /\ b.entered = q.entered /\ b.lost = q.lost /\ b.discarded = q.discarded /\ b.stale = q.stale
      /\ Len(b.queue) = Len(q.queue) - 1 /\ NoEntry(o, b) /\ OneEntry(b)
      /\ \A k \in DOMAIN b.queue : \E j \in DOMAIN q.queue : b.queue[k] = q.queue[j]
      /\ Numbered(b.applied[o])
  BY DEF Gives
<1>4. /\ q \in Process /\ q.holds = s.holds /\ q.lock = s.lock /\ q.ref = s.ref /\ q.entered = s.entered
      /\ q.lost = s.lost /\ q.applied = s.applied /\ Len(q.queue) = Len(s.queue)
      /\ q.queue[m].o = o /\ DOMAIN q.queue = DOMAIN s.queue
      /\ \A i \in DOMAIN s.queue : i # m => q.queue[i] = s.queue[i]
  BY DEF Marked
<1>5. s.ref \in Int /\ s.queue \in Seq(Entries)
  BY <1>1 DEF Process
<1>6. ASSUME NEW p \in Origins \ {o} PROVE PhaseOf(p, b)
  <2>1. Same(p, s, q)
    BY <1>1, MarkedSame
  <2>2. PhaseOf(p, q)
    BY <1>1, <2>1, PhaseFrame DEF PhaseOf
  <2>3. PICK rel \in BOOLEAN : rel = FALSE
    OBVIOUS
  <2>4. Takes(o, q, y, rel, b)
    BY <2>3, TakesKept
  <2>5. q \in Process
    BY <1>4
  <2>6. Same(p, q, b)
    BY ONLY <2>4, <2>5, TakesSame, o \in Origins, p \in Origins \ {o}, rel \in BOOLEAN
  <2> QED BY <2>2, <2>6, PhaseFrame DEF PhaseOf
<1>7. Blocked(b)
  <2>1. CanAcquire(s, y)
    BY <1>4 DEF CanAcquire
  <2>2. \A x : CanAcquire(b, x) => CanAcquire(s, x)
    BY <1>3, <2>1, AcquireBlocks
  <2>3. \A k \in DOMAIN b.queue : \E j \in DOMAIN s.queue : b.queue[k] = s.queue[j]
    BY <1>3, <1>4 DEF NoEntry
  <2> QED BY <1>2, <2>2, <2>3 DEF Blocked
<1>8. b.ref >= 0 /\ (b.lock = "SHARED" => b.ref > 0)
  BY <1>2, <1>3, <1>4, <1>5
<1>9. b.lost \/ Exact(b)
  <2>1. SUFFICES ASSUME Exact(s) PROVE Exact(b)
    BY <1>2, <1>3, <1>4
  <2>2. s.ref = Cardinality(HoldersIn(s, "SHARED")) /\ Near(s)
    BY <1>1, <2>1, NearExact
  <2>3. s.holds[o] = "NONE" /\ b.holds = [s.holds EXCEPT ![o] = y] /\ CanAcquire(s, y)
    BY <1>3, <1>4 DEF CanAcquire
  <2>4. Near(b) /\ HoldersIn(b, y) # {}
    <3>1. y \in Locks /\ b \in Process /\ b.lock = y
      BY <1>3
    <3> QED BY <1>1, <2>2, <2>3, <3>1, AcquireNear
  <2>5. /\ HoldersIn(b, y) = HoldersIn(s, y) \cup {o}
        /\ Cardinality(HoldersIn(b, y)) = Cardinality(HoldersIn(s, y)) + 1
        /\ \A x \in Locks : x # y => HoldersIn(b, x) = HoldersIn(s, x)
    <3>1. s \in Process
      BY <1>1
    <3>2. y \in Locks
      BY <1>3
    <3> QED BY ONLY <2>3, <3>1, <3>2, HoldersAcquire, o \in Origins
  <2>6. b.ref = Cardinality(HoldersIn(b, "SHARED"))
    BY <1>3, <1>4, <2>2, <2>5 DEF Locks
  <2> QED BY <1>3, <2>4, <2>6, NearExact
<1>10. ASSUME NEW p \in Origins PROVE \A i \in DOMAIN b.applied[p] : b.applied[p][i] = i
  <2>1. CASE p = o
    BY <1>3, <2>1 DEF Numbered
  <2>2. CASE p # o
    BY <1>2, <1>3, <1>4, <2>2 DEF Others
  <2> QED BY <2>1, <2>2
<1>11. TargetInv(b)
  BY <1>2, <1>3, <1>4, <1>7, <1>8, <1>9, <1>10 DEF TargetInv
<1>12. Len(b.queue) <= conf.pool
  <2>1. PICK l \in Nat : l = Len(s.queue)
    BY <1>5
  <2>2. Len(b.queue) = l - 1 /\ l <= conf.pool
    BY <1>1, <1>3, <1>4, <2>1
  <2>3. conf.pool \in Nat
    BY ConfsAssumption DEF Shape
  <2> QED BY ONLY <2>1, <2>2, <2>3, l \in Nat
<1> QED BY <1>1, <1>3, <1>4, <1>6, <1>11, <1>12 DEF Rest

\* The entry that PiggybackLockOpRecvComplete finds.
EntryOf(u, o) == CHOOSE x \in Range(u) : x.o = o

LEMMA EntryOfIs ==
  ASSUME NEW u, NEW o, NEW m \in DOMAIN u, u[m].o = o, \A i \in DOMAIN u : i # m => u[i].o # o
  PROVE  EntryOf(u, o) = u[m]
<1>1. \A x : x \in Range(u) <=> \E i \in DOMAIN u : x = u[i]
  BY DEF Range
<1>2. \E x \in Range(u) : x.o = o
  BY <1>1
<1>3. EntryOf(u, o) \in Range(u) /\ EntryOf(u, o).o = o
  BY ONLY <1>2 DEF EntryOf
<1> QED BY <1>1, <1>3

Taking(o, q, e, late, a, b) ==
  a = Dequeue(Acquire(q, o, e.op.lock), e) /\ b = PerformEntry(a, e, late)

Arrives(o, q, e, late, a, b, z) ==
  z = IF ~CanAcquire(q, e.op.lock) THEN q
      ELSE IF EntryReleases(a, e, late) THEN Release_lock(b, o, late) ELSE b

\* The outcomes of PiggybackLockOpRecvComplete.
LEMMA PiggybackCases ==
  ASSUME NEW s, NEW o, NEW late, NEW z, z = PiggybackLockOpRecvComplete(s, o, late)
  PROVE  /\ NoEntry(o, s) => z = [s EXCEPT !.stale = TRUE]
         /\ ~NoEntry(o, s) =>
              \E q, e, a, b : /\ q = [s EXCEPT !.queue = MarkedQueue(o, s)]
                              /\ e = EntryOf(MarkedQueue(o, s), o)
                              /\ Taking(o, q, e, late, a, b) /\ Arrives(o, q, e, late, a, b, z)
<1>1. PICK u : u = MarkedQueue(o, s)
  OBVIOUS
<1>2. z = LET v == MarkedQueue(o, s)
              x == EntryOf(v, o)
              w == [s EXCEPT !.queue = v]
              k == Dequeue(Acquire(w, o, x.op.lock), x)
              p == PerformEntry(k, x, late)
          IN CASE \A i \in DOMAIN s.queue : s.queue[i].o # o -> [s EXCEPT !.stale = TRUE]
               [] OTHER -> IF ~CanAcquire(w, x.op.lock) THEN w
                           ELSE IF EntryReleases(k, x, late) THEN Release_lock(p, o, late) ELSE p
  BY Zenon DEF PiggybackLockOpRecvComplete, MarkedQueue, EntryOf
<1>3. PICK e : e = EntryOf(u, o)
  OBVIOUS
<1>5. PICK q : q = [s EXCEPT !.queue = u]
  OBVIOUS
<1>6. PICK a : a = Dequeue(Acquire(q, o, e.op.lock), e)
  OBVIOUS
<1>7. PICK b : b = PerformEntry(a, e, late)
  OBVIOUS
<1>8. z = CASE \A i \in DOMAIN s.queue : s.queue[i].o # o -> [s EXCEPT !.stale = TRUE]
            [] OTHER -> IF ~CanAcquire(q, e.op.lock) THEN q
                        ELSE IF EntryReleases(a, e, late) THEN Release_lock(b, o, late) ELSE b
  BY <1>1, <1>2, <1>3, <1>5, <1>6, <1>7
<1>9. CASE NoEntry(o, s)
  BY <1>8, <1>9 DEF NoEntry
<1>10. CASE ~NoEntry(o, s)
  <2>1. ~(\A i \in DOMAIN s.queue : s.queue[i].o # o)
    BY <1>10 DEF NoEntry
  <2>2. z = IF ~CanAcquire(q, e.op.lock) THEN q
            ELSE IF EntryReleases(a, e, late) THEN Release_lock(b, o, late) ELSE b
    BY <1>8, <2>1
  <2>3. Taking(o, q, e, late, a, b) /\ Arrives(o, q, e, late, a, b, z)
    BY <1>6, <1>7, <2>2 DEF Taking, Arrives
  <2> QED BY <1>1, <1>3, <1>5, <1>10, <2>3
<1> QED BY <1>9, <1>10

\* The phase of o when the data of its entry have come.
LEMMA MarkedPhase ==
  ASSUME NEW o \in Origins, NEW t, NEW c, NEW n, NEW ch, NEW r, NEW s, NEW dl, Phase(o, t, c, n, ch, r, dl),
         OneEntry(r), r.recv[o].what = "entry", s.recv[o].what = "none",
         s.toO = r.toO, s.sendq = r.sendq, s.holds = r.holds, s.applied = r.applied, s.dup = r.dup,
         s.queue = r.queue, NEW m \in DOMAIN s.queue, s.queue[m].o = o,
         NEW q, Marked(o, s, m, q)
  PROVE  Queued(o, t, c, n, ch, q, dl) /\ Phase(o, t, c, n, ch, q, dl)
<1>1. PICK e0 : e0 = r.queue[m]
  OBVIOUS
<1>2. /\ Queued(o, t, c, n, ch, r, dl)
      /\ e0.op.lock = t.type /\ QueuedEntry(o, t, c, r, e0, dl)
  <2>1. m \in DOMAIN r.queue /\ e0.o = o
    BY <1>1
  <2> QED BY <1>1, <2>1, EntryQueued
<1>3. PICK e : e = q.queue[m]
  OBVIOUS
<1>4. /\ m \in DOMAIN q.queue /\ e.o = o /\ e.op = e0.op /\ e.data
  BY <1>1, <1>3 DEF Marked
<1>5. /\ q.toO[o] = r.toO[o] /\ q.sendq[o] = r.sendq[o] /\ q.holds[o] = r.holds[o]
      /\ q.applied[o] = r.applied[o] /\ q.dup[o] = r.dup[o] /\ q.recv[o].what = "none"
  BY DEF Marked
<1>6. QueuedEntry(o, t, c, q, e, dl)
  <2>1. CASE QueuedLock(o, t, r, e0)
    BY <2>1 DEF QueuedLock
  <2>2. CASE QueuedOp(o, t, c, r, e0, dl)
    <3>1. QueuedOp(o, t, c, q, e, dl)
      BY <1>4, <1>5, <2>2 DEF QueuedOp
    <3> QED BY <3>1 DEF QueuedEntry
  <2>3. CASE QueuedAlone(o, t, r, e0)
    <3>1. QueuedAlone(o, t, q, e)
      BY <1>4, <1>5, <2>3 DEF QueuedAlone
    <3> QED BY <3>1 DEF QueuedEntry
  <2> QED BY <1>2, <2>1, <2>2, <2>3 DEF QueuedEntry
<1>7. \E i \in DOMAIN q.queue : /\ q.queue[i].o = o
                                /\ q.queue[i].op.lock = t.type
                                /\ QueuedEntry(o, t, c, q, q.queue[i], dl)
  BY <1>2, <1>3, <1>4, <1>6
<1>8. Queued(o, t, c, n, ch, q, dl)
  BY <1>2, <1>5, <1>7 DEF Queued
<1> QED BY <1>8 DEF Phase

\* MPIDI_CH3_ReqHandler_PiggybackLockOpRecvComplete.
LEMMA EntryArrives ==
  ASSUME Shape, NEW o \in Origins, NEW t \in Targets, NEW c, NEW n \in Nat, NEW ch, NEW r, NEW dl \in BOOLEAN,
         Rest(o, r), Phase(o, t, c, n, ch, r, dl), r.recv[o].what = "entry", NEW s, Receives(o, r, NoData, s),
         NEW late, NEW z, z = PiggybackLockOpRecvComplete(s, o, late)
  PROVE  Goes(o, t, c, n, ch, r, z, dl)
<1>1. NoData \in Recvs /\ NoData.what = "none"
  BY DEF Recvs, NoData
<1>2. PICK v \in Recvs : v = NoData
  BY <1>1
<1>3. Receives(o, r, v, s)
  BY <1>2
<1>4. /\ Rest(o, s) /\ s \in Process /\ s.discarded = r.discarded /\ s.stale = r.stale
      /\ s.holds = r.holds /\ s.queue = r.queue /\ s.lock = r.lock /\ s.toO = r.toO
      /\ s.sendq = r.sendq /\ s.applied = r.applied /\ s.dup = r.dup /\ s.recv[o] = v
  BY ONLY <1>3, RecvRest, o \in Origins, v \in Recvs, Rest(o, r)
<1>5. s.recv[o].what = "none"
  BY <1>1, <1>2, <1>4
<1>6. OneEntry(r) /\ OneEntry(s) /\ Numbered(s.applied[o])
  BY <1>4 DEF Rest, TargetInv, OneEntry, Numbered
<1>7. /\ NoEntry(o, s) => z = [s EXCEPT !.stale = TRUE]
      /\ ~NoEntry(o, s) =>
           \E q, e, a, b : /\ q = [s EXCEPT !.queue = MarkedQueue(o, s)]
                           /\ e = EntryOf(MarkedQueue(o, s), o)
                           /\ Taking(o, q, e, late, a, b) /\ Arrives(o, q, e, late, a, b, z)
  BY PiggybackCases
<1>8. CASE NoEntry(o, s)
  <2>1. z = [s EXCEPT !.stale = TRUE]
    BY <1>7, <1>8
  <2>2. /\ z \in Process /\ z.toO = s.toO /\ z.sendq = s.sendq /\ z.recv = s.recv
        /\ z.applied = s.applied /\ z.dup = s.dup /\ z.discarded = s.discarded
        /\ z.lock = s.lock /\ z.ref = s.ref /\ z.queue = s.queue /\ z.entered = s.entered
        /\ z.holds = s.holds /\ z.lost = s.lost
    BY <1>4, <2>1 DEF Process
  <2>3. Global(s, z) /\ Others(o, s, z)
    BY <2>2 DEF Global, Others
  <2>4. Rest(o, z)
    BY <1>4, <1>6, <2>2, <2>3, RestFrame
  <2>5. NoEntry(o, r) /\ NoEntry(o, z)
    BY <1>4, <1>8, <2>2 DEF NoEntry
  <2>6. z.recv[o].what = "none" /\ r.recv[o].what \in {"drop", "entry"}
    BY <1>5, <2>2
  <2>7. Phase(o, t, c, n, ch, z, dl)
    BY <1>4, <2>2, <2>5, <2>6, DataDropped
  <2> QED BY <1>4, <2>2, <2>4, <2>7 DEF Goes
<1>9. CASE ~NoEntry(o, s)
  <2>1. PICK q, e, a, b : /\ q = [s EXCEPT !.queue = MarkedQueue(o, s)]
                          /\ e = EntryOf(MarkedQueue(o, s), o)
                          /\ Taking(o, q, e, late, a, b) /\ Arrives(o, q, e, late, a, b, z)
    BY <1>7, <1>9
  <2>2. PICK m \in DOMAIN s.queue : s.queue[m].o = o
    BY <1>9 DEF NoEntry
  <2>3. Marked(o, s, m, q)
    <3>1. q = [s EXCEPT !.queue = MarkedQueue(o, s)]
      BY <2>1
    <3>2. s \in Process /\ OneEntry(s)
      BY <1>4, <1>6
    <3> QED BY <2>2, <3>1, <3>2, MarkEffect
  <2>4. q.queue = MarkedQueue(o, s)
    BY <1>4, <2>1 DEF Process
  <2>5. m \in DOMAIN q.queue /\ q.queue[m].o = o /\ q.queue[m].data
        /\ \A i \in DOMAIN q.queue : i # m => q.queue[i].o # o
    BY <2>2, <2>3 DEF Marked
  <2>6. e = q.queue[m]
    BY <2>1, <2>4, <2>5, EntryOfIs
  <2>7. Queued(o, t, c, n, ch, q, dl) /\ Phase(o, t, c, n, ch, q, dl)
    BY <1>4, <1>5, <1>6, <2>2, <2>3, MarkedPhase
  <2>8. q.discarded = r.discarded /\ q.applied = s.applied /\ q \in Process
    BY <1>4, <2>3 DEF Marked
  <2>9. CASE ~CanAcquire(q, e.op.lock)
    <3>1. z = q
      BY <2>1, <2>9 DEF Arrives
    <3>2. Rest(o, q)
      BY <1>4, <2>2, <2>3, <2>6, <2>9, MarkedRest
    <3> QED BY <2>7, <2>8, <3>1, <3>2 DEF Goes
  <2>10. CASE CanAcquire(q, e.op.lock)
    <3>1. a = Dequeue(Acquire(q, o, e.op.lock), e) /\ b = PerformEntry(a, e, late)
      BY <2>1 DEF Taking
    <3>2. OneEntry(q)
      <4>1. \A i \in DOMAIN s.queue : q.queue[i].o = s.queue[i].o
        BY <2>2, <2>3 DEF Marked
      <4>2. DOMAIN q.queue = DOMAIN s.queue
        BY <2>3 DEF Marked
      <4> QED BY <1>6, <4>1, <4>2 DEF OneEntry
    <3>3. q \in Process /\ Numbered(q.applied[o]) /\ e.o = o /\ e.data /\ m \in DOMAIN q.queue
      BY <1>6, <2>5, <2>6, <2>8
    <3>4. /\ Gives(o, q, e.op.lock, b)
          /\ EntryReleases(a, e, late) => dl = TRUE
          /\ Answers(o, t, c, n, ch, dl, b, EntryReleases(a, e, late))
      <4>1. Phase(o, t, c, n, ch, q, dl)
        BY <2>7
      <4>2. q \in Process
        BY <3>3
      <4>3. Numbered(q.applied[o])
        BY <3>3
      <4>4. m \in DOMAIN q.queue
        BY <3>3
      <4>5. e.o = o
        BY <3>3
      <4>6. e.data
        BY <3>3
      <4>7. a = Dequeue(Acquire(q, o, e.op.lock), e)
        BY <3>1
      <4>8. b = PerformEntry(a, e, late)
        BY <3>1
      <4>9. EntryGiven(o, t, c, n, ch, q, dl, late, e, a, b)
        BY ONLY <2>6, <3>2, <4>1, <4>2, <4>3, <4>4, <4>5, <4>6, <4>7, <4>8, GrantEntry,
                o \in Origins, t \in Targets, n \in Nat, dl \in BOOLEAN
      <4> QED BY ONLY <4>9 DEF EntryGiven
    <3>5. PICK y : y = e.op.lock
      OBVIOUS
    <3>6. CanAcquire(q, y) /\ Gives(o, q, y, b)
      BY <2>10, <3>4, <3>5
    <3>7. Rest(o, b)
      BY <1>4, <2>2, <2>3, <3>6, MarkedGives
    <3>8. NoEntry(o, b) /\ b.discarded = q.discarded /\ b.holds[o] # "NONE"
      <4>1. y \in Locks /\ b.holds = [q.holds EXCEPT ![o] = y] /\ q.holds \in [Origins -> Types]
        BY <2>8, <3>6 DEF Gives, Process
      <4> QED BY <3>6, <4>1 DEF Gives, Locks
    <3>9. CASE EntryReleases(a, e, late)
      <4>1. z = Release_lock(b, o, late)
        BY <2>1, <2>10, <3>9 DEF Arrives
      <4>2. Rest(o, z) /\ Released(o, b, z)
        BY <3>7, <3>8, <4>1, ReleaseRest
      <4>3. Alike(o, b, z) /\ NoEntry(o, z) /\ z.holds[o] = "NONE" /\ z.discarded = b.discarded
        BY <4>2 DEF Released
      <4>4. Phase(o, t, c, n, ch, z, dl)
        BY <3>4, <3>9, <4>3 DEF Answers
      <4> QED BY <2>8, <3>8, <4>2, <4>3, <4>4 DEF Goes
    <3>10. CASE ~EntryReleases(a, e, late)
      <4>1. z = b
        BY <2>1, <2>10, <3>10 DEF Arrives
      <4>2. Alike(o, b, b)
        BY DEF Alike
      <4>3. Phase(o, t, c, n, ch, b, dl)
        BY <3>4, <3>8, <3>10, <4>2 DEF Answers
      <4> QED BY <2>8, <3>7, <3>8, <4>1, <4>3 DEF Goes
    <3> QED BY <3>9, <3>10
  <2> QED BY <2>9, <2>10
<1> QED BY <1>8, <1>9

-----------------------------------------------------------------------------
(* The steps of the target for an origin that has the lock.                *)

\* The first packet is an operation.
LEMMA HeadOp ==
  ASSUME NEW o \in Origins, NEW t, NEW c, NEW n, NEW ch \in Seq(ToT), NEW s, Pipeline(o, t, c, n, ch, s),
         ch # <<>>, NEW p, p = Head(ch), p \in OpPkt
  PROVE  \E l \in Nat, k \in Nat :
           /\ l = Len(ch) /\ k = NumOps(ch) /\ DOMAIN ch = 1 .. l
           /\ l >= 1 /\ k >= 1 /\ k <= l /\ ch[1] = p
           /\ Tail(ch) \in Seq(ToT) /\ Len(Tail(ch)) = l - 1 /\ DOMAIN Tail(ch) = 1 .. l - 1
           /\ Tail(ch) = <<>> <=> l = 1
           /\ NumOps(Tail(ch)) = k - 1
           /\ \A i \in 1 .. l - 1 : Tail(ch)[i] = ch[i + 1]
           /\ l = 1 => k = 1
<1>1. PICK l \in Nat : l = Len(ch) /\ DOMAIN ch = 1 .. l
  OBVIOUS
<1>2. PICK u : u = Tail(ch)
  OBVIOUS
<1>3. /\ u \in Seq(ToT) /\ Len(u) = l - 1 /\ l >= 1 /\ ch[1] = p
      /\ \A i \in 1 .. l - 1 : u[i] = ch[i + 1]
  BY <1>1, <1>2, TailFacts
<1>4. DOMAIN u = 1 .. l - 1 /\ (u = <<>> <=> l = 1)
  BY <1>1, <1>3
<1>5. PICK k \in Nat : k = NumOps(ch)
  BY NumOpsNat
<1>6. k = IF ch[l].type \notin OpKinds THEN l - 1 ELSE l
  BY <1>1, <1>5 DEF NumOps
<1>7. p.type \in OpKinds
  BY PktTypes
<1>8. CASE l = 1
  <2>1. k = 1
    BY <1>3, <1>6, <1>7, <1>8
  <2>2. u = <<>> /\ Len(u) = 0
    BY <1>3, <1>4, <1>8
  <2>3. NumOps(u) = 0
    BY <2>2 DEF NumOps
  <2> QED BY <1>1, <1>2, <1>3, <1>4, <1>5, <1>8, <2>1, <2>3
<1>9. CASE l # 1
  <2>1. u # <<>> /\ u[l - 1] = ch[l]
    BY <1>3, <1>4, <1>9
  <2>2. NumOps(u) = k - 1
    BY <1>3, <1>6, <2>1 DEF NumOps
  <2>3. k >= 1 /\ k <= l
    BY <1>3, <1>6, <1>9
  <2> QED BY <1>1, <1>2, <1>3, <1>4, <1>5, <1>9, <2>2, <2>3
<1> QED BY <1>8, <1>9

\* It is a flush or an unlock request.
EndOnly(t, c, ch, p) ==
  /\ Len(ch) = 1 /\ ch = <<p>> /\ Tail(ch) = <<>> /\ NumOps(ch) = 0 /\ ch[Len(ch)] = p
  /\ c # "none" /\ t.sync = "NONE"
  /\ p \in FlushPkt \/ (p \in UnlockPkt /\ c = "unlock")

LEMMA HeadEnd ==
  ASSUME NEW o \in Origins, NEW t, NEW c, NEW n, NEW ch \in Seq(ToT), NEW s, Pipeline(o, t, c, n, ch, s),
         ch # <<>>, NEW p, p = Head(ch), p \notin OpPkt
  PROVE  EndOnly(t, c, ch, p)
<1>1. PICK l \in Nat : l = Len(ch) /\ DOMAIN ch = 1 .. l /\ l >= 1
  BY TailFacts
<1>2. ch[1] = p
  BY TailFacts
<1>3. PICK k \in Nat : k = NumOps(ch) /\ k <= l /\ l <= k + 1
  BY <1>1, NumOpsNat
<1>4. \A i \in 1 .. k : PlainOp(ch[i])
  BY <1>3 DEF Pipeline
<1>5. k = 0
  <2>1. SUFFICES ASSUME k # 0 PROVE FALSE
    OBVIOUS
  <2>2. 1 \in 1 .. k
    BY <2>1
  <2>3. PlainOp(ch[1])
    BY <1>4, <2>2
  <2> QED BY <1>2, <2>3 DEF PlainOp
<1>6. l = 1
  BY <1>1, <1>3, <1>5
<1>7. Len(ch) <= 1
  BY <1>1, <1>6
<1>8. ch = <<ch[1]>> /\ Tail(ch) = <<>>
  BY ONLY <1>7, OneElement, ch \in Seq(ToT), ch # <<>>
<1>9. NumOps(ch) < Len(ch)
  BY <1>1, <1>3, <1>5, <1>6
<1> QED BY <1>1, <1>2, <1>3, <1>5, <1>6, <1>8, <1>9 DEF Pipeline, EndOnly

\* The target starts to receive the data of an operation.
LEMMA GrantedStarts ==
  ASSUME NEW o \in Origins, NEW t, NEW c, NEW n, NEW ch \in Seq(ToT), NEW s \in Process, NEW dl,
         Granted(o, t, c, n, ch, s, dl), ch # <<>>, NEW p, p = Head(ch), p \in OpPkt,
         s.recv[o].what = "none", NEW z, z.recv[o].what = "op", z.recv[o].op = p, NoEntry(o, z),
         z.toO[o] = s.toO[o], z.sendq[o] = s.sendq[o], z.holds[o] = s.holds[o],
         z.applied[o] = s.applied[o], z.dup[o] = s.dup[o]
  PROVE  Granted(o, t, c, n, Tail(ch), z, dl) /\ PlainOp(p)
<1>1. Pipeline(o, t, c, n, ch, s) /\ Flushed(o, t, ch, s) /\ ReleasesOnce(o, t, c, ch, s)
  BY DEF Granted
<1>2. PICK l \in Nat, k \in Nat :
           /\ l = Len(ch) /\ k = NumOps(ch) /\ DOMAIN ch = 1 .. l
           /\ l >= 1 /\ k >= 1 /\ k <= l /\ ch[1] = p
           /\ Tail(ch) \in Seq(ToT) /\ Len(Tail(ch)) = l - 1 /\ DOMAIN Tail(ch) = 1 .. l - 1
           /\ Tail(ch) = <<>> <=> l = 1
           /\ NumOps(Tail(ch)) = k - 1
           /\ \A i \in 1 .. l - 1 : Tail(ch)[i] = ch[i + 1]
           /\ l = 1 => k = 1
  BY <1>1, HeadOp
<1>3. PICK u : u = Tail(ch)
  OBVIOUS
<1>4. /\ Len(u) = l - 1 /\ NumOps(u) = k - 1 /\ (u = <<>> <=> l = 1) /\ u \in Seq(ToT)
      /\ \A i \in 1 .. l - 1 : u[i] = ch[i + 1]
  BY <1>2, <1>3
<1>5. ~RecvOp(o, s) /\ RecvOp(o, z) /\ z.recv[o].what # "drop" /\ z.recv[o].what # "entry"
  BY DEF RecvOp
<1>6. PICK b \in Nat : b = Base(o, s) /\ Base(o, z) = b + 1
  <2>1. Len(s.applied[o]) \in Nat
    BY BaseNat
  <2> QED BY <1>5, <2>1 DEF Base, Bit
<1>7. \A i \in 1 .. k : PlainOp(ch[i]) /\ ch[i].id = b + i
  BY <1>1, <1>2, <1>6 DEF Pipeline
<1>8. PlainOp(p) /\ p.id = b + 1
  BY <1>2, <1>7
<1>9. Pipeline(o, t, c, n, u, z)
  <2>1. ASSUME NEW i \in 1 .. NumOps(u) PROVE PlainOp(u[i]) /\ u[i].id = Base(o, z) + i
    <3>1. i \in 1 .. k - 1 /\ i \in Nat
      BY <1>4
    <3>2. i + 1 \in 1 .. k /\ i \in 1 .. l - 1
      BY <1>2, <3>1
    <3>3. PlainOp(ch[i + 1]) /\ ch[i + 1].id = b + (i + 1) /\ u[i] = ch[i + 1]
      BY <1>4, <1>7, <3>2
    <3>4. (b + 1) + i = b + (i + 1)
      BY <3>1
    <3> QED BY <1>6, <3>3, <3>4
  <2>2. ASSUME NumOps(u) < Len(u)
        PROVE  /\ c # "none" /\ t.sync = "NONE"
               /\ \/ u[Len(u)] \in FlushPkt
                  \/ u[Len(u)] \in UnlockPkt /\ c = "unlock"
    <3>1. k < l /\ l - 1 \in 1 .. l - 1
      BY <1>2, <1>4, <2>2
    <3>2. u[Len(u)] = ch[l]
      BY <1>2, <1>4, <3>1
    <3> QED BY <1>1, <1>2, <3>1, <3>2 DEF Pipeline
  <2>3. Ids(t, n, Base(o, z) + NumOps(u))
    <3>1. (b + 1) + (k - 1) = b + k
      OBVIOUS
    <3>2. Ids(t, n, b + k)
      BY <1>1, <1>2, <1>6 DEF Pipeline
    <3> QED BY <1>4, <1>6, <3>1, <3>2
  <2> QED BY <1>5, <1>6, <1>8, <2>1, <2>2, <2>3 DEF Pipeline
<1>10. u # <<>> => u[Len(u)] = ch[l]
  <2>1. SUFFICES ASSUME u # <<>> PROVE u[Len(u)] = ch[l]
    OBVIOUS
  <2>2. l - 1 \in 1 .. l - 1
    BY <1>2, <1>4, <2>1
  <2> QED BY <1>2, <1>4, <2>2
<1>11. p.type \in OpKinds /\ p.type # "unlock"
  BY PktTypes DEF OpKinds
<1>12. Flushed(o, t, u, z)
  <2>1. LastOpWants(o, ch, s) => LastOpWants(o, u, z)
    <3>1. SUFFICES ASSUME LastOpWants(o, ch, s) PROVE LastOpWants(o, u, z)
      OBVIOUS
    <3>2. WantsAck(ch[k])
      BY <1>2, <3>1 DEF LastOpWants
    <3>3. CASE k = 1
      BY <1>2, <1>4, <3>2, <3>3 DEF LastOpWants
    <3>4. CASE k # 1
      <4>1. k - 1 \in 1 .. l - 1 /\ NumOps(u) > 0
        BY <1>2, <1>4, <3>4
      <4>2. u[NumOps(u)] = ch[k]
        BY <1>4, <4>1
      <4> QED BY <3>2, <4>1, <4>2 DEF LastOpWants
    <3> QED BY <3>3, <3>4
  <2>2. NumOps(u) = Len(u) => NumOps(ch) = Len(ch)
    BY <1>2, <1>4
  <2>3. u # <<>> /\ u[Len(u)] = OldUnlock => ch # <<>> /\ ch[Len(ch)] = OldUnlock
    BY <1>2, <1>10
  <2> QED BY <1>1, <2>1, <2>2, <2>3 DEF Flushed
<1>13. ReleasesOnce(o, t, c, u, z)
  <2>1. ASSUME NEW i \in 1 .. NumOps(u), u[i].unlock PROVE i = Len(u) /\ Left(t, c)
    <3>1. i \in 1 .. k - 1 /\ i \in Nat
      BY <1>4
    <3>2. i + 1 \in 1 .. k /\ i \in 1 .. l - 1
      BY <1>2, <3>1
    <3>3. ch[i + 1].unlock
      BY <1>4, <2>1, <3>2
    <3>4. i + 1 = l /\ Left(t, c)
      BY <1>1, <1>2, <3>2, <3>3 DEF ReleasesOnce
    <3> QED BY <1>4, <3>1, <3>4
  <2>2. p.unlock => u = <<>> /\ Left(t, c)
    BY <1>1, <1>2, <1>4 DEF ReleasesOnce
  <2>3. \A i \in DOMAIN s.sendq[o] : ~LateRelease(s.sendq[o][i])
    BY <1>1 DEF ReleasesOnce
  <2>4. ReleasePending(o, ch, s) <=> Releasing(ch[l])
    BY <1>2, <1>5, <2>3 DEF ReleasePending
  <2>5. ReleasePending(o, u, z) <=> (u # <<>> /\ Releasing(ch[l])) \/ p.unlock
    BY <1>5, <1>10, <2>3 DEF ReleasePending
  <2>6. Releasing(p) <=> p.unlock
    BY <1>11 DEF Releasing
  <2>7. ReleasePending(o, ch, s) <=> ReleasePending(o, u, z)
    <3>1. CASE l = 1
      BY <1>2, <1>4, <2>4, <2>5, <2>6, <3>1
    <3>2. CASE l # 1
      <4>1. u # <<>> /\ ~p.unlock
        BY <1>4, <2>2, <3>2
      <4> QED BY <2>4, <2>5, <4>1
    <3> QED BY <3>1, <3>2
  <2>8. \A i \in DOMAIN z.sendq[o] : ~LateRelease(z.sendq[o][i])
    BY <2>3
  <2>9. s.holds[o] # "NONE" <=> (~Left(t, c) \/ ReleasePending(o, ch, s))
    BY <1>1 DEF ReleasesOnce
  <2>10. s.holds[o] # "NONE"
    BY <1>1 DEF ReleasesOnce
  <2> QED BY ONLY <2>1, <2>2, <2>7, <2>8, <2>9, <2>10, z.recv[o].op = p, z.holds[o] = s.holds[o] DEF ReleasesOnce
<1>14. t.acks = z.dup[o] + Len(z.toO[o]) + Len(z.sendq[o]) + CountWants(u)
                + Bit(RecvOp(o, z) /\ WantsAck(z.recv[o].op))
  <2>1. PICK w \in Nat : w = CountWants(u)
    BY <1>4, CountNat
  <2>2. PICK x \in Nat : x = Bit(WantsAck(p))
    BY DEF Bit
  <2>3. CountWants(ch) = x + w
    BY <1>3, <2>1, <2>2, CountTail, BitWants
  <2>4. Bit(RecvOp(o, s) /\ WantsAck(s.recv[o].op)) = 0 /\ Bit(RecvOp(o, z) /\ WantsAck(z.recv[o].op)) = x
    BY <1>5, <2>2 DEF Bit
  <2>5. PICK d \in Nat, i \in Nat, j \in Nat : d = s.dup[o] /\ i = Len(s.toO[o]) /\ j = Len(s.sendq[o])
    BY DEF Process
  <2>6. t.acks = d + i + j + (x + w) + 0
    BY <2>3, <2>4, <2>5 DEF Granted
  <2>7. t.acks = d + i + j + w + x
    BY <2>6
  <2> QED BY <2>1, <2>4, <2>5, <2>7
<1>15. t.access = "GRANTED" /\ Plain(z.toO[o]) /\ Plain(z.sendq[o])
  BY DEF Granted
<1>16. Granted(o, t, c, n, u, z, dl)
  BY ONLY <1>5, <1>9, <1>12, <1>13, <1>14, <1>15, NoEntry(o, z) DEF Granted
<1> QED BY <1>3, <1>8, <1>16

\* The answer to an operation that did not ask for the lock.
LEMMA PlainReply ==
  ASSUME NEW op, PlainOp(op)
  PROVE  /\ op \in OpPkt /\ (Replies(op) <=> WantsAck(op)) /\ Reply(op) \in ToO
         /\ Reply(op).type \in {"ack", "get_resp"} /\ Reply(op).flag = "NONE"
         /\ WantsAck(op) => Reply(op).ack
         /\ LateRelease(Reply(op)) <=> IsRead(op) /\ op.unlock
<1>1. op \in OpPkt /\ op.lock = "NONE" /\ (IsRead(op) => WantsAck(op))
  BY DEF PlainOp
<1>2. Replies(op) <=> WantsAck(op)
  BY <1>1 DEF Replies
<1>3. Reply(op) \in ToO
  BY <1>1, ReplyType
<1>4. PICK w \in BOOLEAN : w = WantsAck(op)
  BY <1>1 DEF WantsAck, OpPkt
<1>5. CASE IsRead(op)
  <2>1. Reply(op) = [type |-> "get_resp", flag |-> "NONE", ack |-> w, unlock |-> op.unlock]
    BY <1>1, <1>4, <1>5 DEF Reply, Answer, GetResp
  <2>2. Reply(op).type = "get_resp" /\ Reply(op).flag = "NONE" /\ Reply(op).ack = w /\ Reply(op).unlock = op.unlock
    BY <2>1
  <2>3. LateRelease(Reply(op)) <=> op.unlock
    BY <2>2 DEF LateRelease
  <2> QED BY <1>1, <1>2, <1>3, <1>4, <1>5, <2>2, <2>3
<1>6. CASE ~IsRead(op)
  <2>1. Reply(op) = Ack
    BY <1>1, <1>6 DEF Reply
  <2>2. Reply(op).type = "ack" /\ Reply(op).flag = "NONE" /\ Reply(op).ack = TRUE
    BY <2>1 DEF Ack
  <2>3. ~LateRelease(Reply(op))
    BY <2>2 DEF LateRelease
  <2> QED BY <1>1, <1>2, <1>3, <1>6, <2>2, <2>3
<1> QED BY <1>5, <1>6

PlainPkt(k) == k \in ToO /\ k.type \in {"ack", "get_resp"} /\ k.flag = "NONE" /\ k.ack

LEMMA PlainAppend ==
  ASSUME NEW q \in Seq(ToO), Plain(q), NEW k, PlainPkt(k)
  PROVE  /\ Plain(Append(q, k)) /\ Append(q, k) \in Seq(ToO) /\ Len(Append(q, k)) = Len(q) + 1
         /\ \A i \in DOMAIN Append(q, k) :
              \/ i = Len(Append(q, k)) /\ Append(q, k)[i] = k
              \/ i \in DOMAIN q /\ Append(q, k)[i] = q[i]
         /\ Len(Append(q, k)) \in DOMAIN Append(q, k) /\ Append(q, k)[Len(Append(q, k))] = k
<1>1. PICK l \in Nat : l = Len(q) /\ DOMAIN q = 1 .. l
  OBVIOUS
<1>2. PICK u : u = Append(q, k)
  OBVIOUS
<1>3. /\ u \in Seq(ToO) /\ Len(u) = l + 1 /\ DOMAIN u = 1 .. l + 1 /\ u[l + 1] = k
      /\ \A i \in 1 .. l : u[i] = q[i]
  BY <1>1, <1>2 DEF PlainPkt
<1>4. \A i \in DOMAIN u : (i = l + 1 /\ u[i] = k) \/ (i \in DOMAIN q /\ u[i] = q[i])
  BY <1>1, <1>3
<1>5. Plain(u)
  BY <1>4 DEF Plain, PlainPkt
<1>6. l + 1 \in DOMAIN u
  BY <1>3
<1> QED BY <1>1, <1>2, <1>3, <1>4, <1>5, <1>6

\* The packets to an origin after an answer k.
Answering(o, s, z, k, now) ==
  /\ now => z.toO[o] = Append(s.toO[o], k) /\ z.sendq[o] = s.sendq[o]
  /\ ~now => z.toO[o] = s.toO[o] /\ z.sendq[o] = Append(s.sendq[o], k)

Appended(o, s, z, k, now) ==
  /\ Plain(z.toO[o]) /\ Plain(z.sendq[o]) /\ z.toO[o] \in Seq(ToO) /\ z.sendq[o] \in Seq(ToO)
  /\ Len(z.toO[o]) + Len(z.sendq[o]) = Len(s.toO[o]) + Len(s.sendq[o]) + 1
  /\ \A i \in DOMAIN z.sendq[o] : \/ ~now /\ i = Len(z.sendq[o]) /\ z.sendq[o][i] = k
                                  \/ i \in DOMAIN s.sendq[o] /\ z.sendq[o][i] = s.sendq[o][i]
  /\ ~now => \E i \in DOMAIN z.sendq[o] : z.sendq[o][i] = k

LEMMA AnsweringFacts ==
  ASSUME NEW o \in Origins, NEW s \in Process, Plain(s.toO[o]), Plain(s.sendq[o]), NEW k, PlainPkt(k),
         NEW now \in BOOLEAN, NEW z, Answering(o, s, z, k, now)
  PROVE  Appended(o, s, z, k, now)
<1>1. s.toO[o] \in Seq(ToO) /\ s.sendq[o] \in Seq(ToO)
  BY DEF Process
<1>2. PICK x, y : x = s.toO[o] /\ y = s.sendq[o] /\ x \in Seq(ToO) /\ y \in Seq(ToO)
  BY <1>1
<1>3. PICK i \in Nat, j \in Nat : i = Len(x) /\ j = Len(y)
  BY <1>2
<1>4. CASE now
  <2>1. z.toO[o] = Append(x, k) /\ z.sendq[o] = y
    BY <1>2, <1>4 DEF Answering
  <2>2. Plain(Append(x, k)) /\ Append(x, k) \in Seq(ToO) /\ Len(Append(x, k)) = i + 1
    BY <1>2, <1>3, PlainAppend
  <2>3. Len(z.toO[o]) + Len(z.sendq[o]) = Len(s.toO[o]) + Len(s.sendq[o]) + 1
    <3>1. Len(z.toO[o]) = i + 1 /\ Len(z.sendq[o]) = j /\ Len(s.toO[o]) = i /\ Len(s.sendq[o]) = j
      BY <1>2, <1>3, <2>1, <2>2
    <3>2. (i + 1) + j = i + j + 1
      OBVIOUS
    <3> QED BY <3>1, <3>2
  <2> QED BY <1>2, <1>4, <2>1, <2>2, <2>3 DEF Appended
<1>5. CASE ~now
  <2>1. z.toO[o] = x /\ z.sendq[o] = Append(y, k)
    BY <1>2, <1>5 DEF Answering
  <2>2. Plain(y)
    BY <1>2
  <2>3. /\ Plain(Append(y, k)) /\ Append(y, k) \in Seq(ToO) /\ Len(Append(y, k)) = Len(y) + 1
        /\ \A a \in DOMAIN Append(y, k) :
             \/ a = Len(Append(y, k)) /\ Append(y, k)[a] = k
             \/ a \in DOMAIN y /\ Append(y, k)[a] = y[a]
        /\ Len(Append(y, k)) \in DOMAIN Append(y, k) /\ Append(y, k)[Len(Append(y, k))] = k
    BY <1>2, <2>2, PlainAppend
  <2>4. Len(x) + Len(Append(y, k)) = Len(x) + Len(y) + 1
    BY <1>3, <2>3
  <2> QED BY <1>2, <1>5, <2>1, <2>3, <2>4 DEF Appended
<1> QED BY <1>4, <1>5

\* The operation whose data the target has received is performed.
LEMMA GrantedFinishes ==
  ASSUME NEW o \in Origins, NEW t, NEW c, NEW n, NEW ch \in Seq(ToT), NEW s \in Process, NEW dl,
         Granted(o, t, c, n, ch, s, dl), RecvOp(o, s), NEW op, op = s.recv[o].op, NEW late \in BOOLEAN,
         NEW z, z.recv[o].what = "none", NoEntry(o, z), z.dup[o] = s.dup[o],
         z.applied[o] = Append(s.applied[o], op.id),
         ~Replies(op) => z.toO[o] = s.toO[o] /\ z.sendq[o] = s.sendq[o],
         Replies(op) /\ Delivered(s, o, op, late) => z.toO[o] = Append(s.toO[o], Reply(op)) /\ z.sendq[o] = <<>>,
         Replies(op) /\ ~Delivered(s, o, op, late) => z.toO[o] = s.toO[o] /\ z.sendq[o] = Append(s.sendq[o], Reply(op)),
         z.holds[o] = IF Releases(s, o, op, late) THEN "NONE" ELSE s.holds[o]
  PROVE  Granted(o, t, c, n, ch, z, dl)
<1>1. Pipeline(o, t, c, n, ch, s) /\ Flushed(o, t, ch, s) /\ ReleasesOnce(o, t, c, ch, s)
  BY DEF Granted
<1>2. PlainOp(op)
  BY <1>1 DEF Pipeline
<1>3. PICK k : k = Reply(op)
  OBVIOUS
<1>4. /\ op \in OpPkt /\ (Replies(op) <=> WantsAck(op)) /\ k \in ToO
      /\ k.type \in {"ack", "get_resp"} /\ k.flag = "NONE"
      /\ WantsAck(op) => k.ack
      /\ LateRelease(k) <=> IsRead(op) /\ op.unlock
  BY <1>2, <1>3, PlainReply
<1>5. PICK now \in BOOLEAN : now = Delivered(s, o, op, late)
  BY DEF Delivered
<1>6. WantsAck(op) => Answering(o, s, z, k, now)
  BY <1>3, <1>4, <1>5 DEF Answering, Delivered
<1>7. Plain(s.toO[o]) /\ Plain(s.sendq[o]) /\ t.access = "GRANTED"
  BY DEF Granted
<1>8. PICK w \in Nat : w = Bit(WantsAck(op)) /\ (w = 1 <=> WantsAck(op)) /\ (w = 0 <=> ~WantsAck(op))
  BY DEF Bit
<1>9. s.toO[o] \in Seq(ToO) /\ s.sendq[o] \in Seq(ToO) /\ s.dup[o] \in Nat /\ s.applied[o] \in Seq(Nat)
  BY DEF Process
<1>10. PICK i \in Nat, j \in Nat : i = Len(s.toO[o]) /\ j = Len(s.sendq[o])
  BY <1>9
<1>11. /\ Plain(z.toO[o]) /\ Plain(z.sendq[o]) /\ z.toO[o] \in Seq(ToO) /\ z.sendq[o] \in Seq(ToO)
       /\ Len(z.toO[o]) + Len(z.sendq[o]) = i + j + w
       /\ \A a \in DOMAIN z.sendq[o] :
            \/ WantsAck(op) /\ ~now /\ a = Len(z.sendq[o]) /\ z.sendq[o][a] = k
            \/ a \in DOMAIN s.sendq[o] /\ z.sendq[o][a] = s.sendq[o][a]
       /\ WantsAck(op) /\ ~now => \E a \in DOMAIN z.sendq[o] : z.sendq[o][a] = k
  <2>1. CASE WantsAck(op)
    <3>1. Answering(o, s, z, k, now) /\ PlainPkt(k)
      BY <1>4, <1>6, <2>1 DEF PlainPkt
    <3>2. Appended(o, s, z, k, now)
      BY <1>7, <3>1, AnsweringFacts
    <3> QED BY <1>8, <1>10, <2>1, <3>2 DEF Appended
  <2>2. CASE ~WantsAck(op)
    <3>1. z.toO[o] = s.toO[o] /\ z.sendq[o] = s.sendq[o] /\ w = 0
      BY <1>4, <1>8, <2>2
    <3>2. Len(z.toO[o]) + Len(z.sendq[o]) = i + j + w
      BY <1>10, <3>1
    <3> QED BY <1>7, <1>9, <2>2, <3>1, <3>2
  <2> QED BY <2>1, <2>2
<1>12. ~RecvOp(o, z) /\ z.recv[o].what # "drop" /\ z.recv[o].what # "entry"
  BY DEF RecvOp
<1>13. Base(o, z) = Base(o, s)
  <2>1. PICK l \in Nat : l = Len(s.applied[o])
    BY <1>9
  <2>2. op.id \in Nat
    BY <1>4 DEF OpPkt
  <2>3. Len(z.applied[o]) = l + 1
    BY <1>9, <2>1, <2>2
  <2> QED BY <1>12, <2>1, <2>3 DEF Base, Bit
<1>14. Pipeline(o, t, c, n, ch, z)
  BY <1>1, <1>12, <1>13 DEF Pipeline
<1>15. Flushed(o, t, ch, z)
  BY <1>1, <1>12 DEF Flushed, LastOpWants
<1>16. \A a \in DOMAIN s.sendq[o] : ~LateRelease(s.sendq[o][a])
  BY <1>1 DEF ReleasesOnce
<1>17. op.unlock => ch = <<>> /\ Left(t, c)
  BY <1>1 DEF ReleasesOnce
<1>18. \A a \in DOMAIN z.sendq[o] : LateRelease(z.sendq[o][a]) =>
         /\ IsRead(op) /\ op.unlock /\ ~now /\ a = Len(z.sendq[o])
  BY <1>4, <1>11, <1>16
<1>19. s.holds[o] # "NONE" <=> (~Left(t, c) \/ ReleasePending(o, ch, s))
  BY <1>1 DEF ReleasesOnce
<1>20. z.holds[o] # "NONE" <=> (~Left(t, c) \/ ReleasePending(o, ch, z))
  <2>1. CASE ~op.unlock
    <3>1. z.holds[o] = s.holds[o]
      BY <2>1 DEF Releases
    <3>2. ReleasePending(o, ch, z) <=> (ch # <<>> /\ Releasing(ch[Len(ch)]))
      BY <1>12, <1>18, <2>1 DEF ReleasePending
    <3>3. ReleasePending(o, ch, s) <=> (ch # <<>> /\ Releasing(ch[Len(ch)]))
      BY <1>16, <2>1 DEF ReleasePending
    <3> QED BY <1>19, <3>1, <3>2, <3>3
  <2>2. CASE op.unlock
    <3>1. ch = <<>> /\ Left(t, c)
      BY <1>17, <2>2
    <3>2. s.holds[o] # "NONE"
      BY <1>19, <2>2 DEF ReleasePending
    <3>3. Releases(s, o, op, late) <=> ~IsRead(op) \/ now
      BY <1>5, <2>2 DEF Releases, Delivered
    <3>4. ReleasePending(o, ch, z) <=> \E a \in DOMAIN z.sendq[o] : LateRelease(z.sendq[o][a])
      BY <1>12, <3>1 DEF ReleasePending
    <3>5. CASE ~IsRead(op) \/ now
      BY <1>18, <3>1, <3>3, <3>4, <3>5
    <3>6. CASE IsRead(op) /\ ~now
      <4>1. WantsAck(op)
        BY <2>2 DEF WantsAck
      <4>2. LateRelease(k)
        BY <1>4, <2>2, <3>6
      <4>3. ReleasePending(o, ch, z)
        BY <1>11, <3>4, <3>6, <4>1, <4>2
      <4>4. z.holds[o] = s.holds[o]
        BY <3>3, <3>6
      <4> QED BY <3>2, <4>3, <4>4
    <3> QED BY <3>5, <3>6
  <2> QED BY <2>1, <2>2
<1>21. ReleasesOnce(o, t, c, ch, z)
  <2>1. \A a \in 1 .. NumOps(ch) : ch[a].unlock => a = Len(ch) /\ Left(t, c)
    BY <1>1 DEF ReleasesOnce
  <2>2. \A a \in DOMAIN z.sendq[o] : LateRelease(z.sendq[o][a]) =>
          /\ a = Len(z.sendq[o]) /\ ch = <<>> /\ ~RecvOp(o, z) /\ Left(t, c)
    BY <1>12, <1>17, <1>18
  <2>3. z.holds[o] = "NONE" => ch = <<>> /\ ~RecvOp(o, z)
    <3>1. CASE op.unlock
      BY <1>12, <1>17, <3>1
    <3>2. CASE ~op.unlock
      <4>1. z.holds[o] = s.holds[o]
        BY <3>2 DEF Releases
      <4>2. s.holds[o] # "NONE"
        BY <1>1 DEF ReleasesOnce
      <4> QED BY <4>1, <4>2
    <3> QED BY <3>1, <3>2
  <2> QED BY ONLY <1>12, <1>20, <2>1, <2>2, <2>3 DEF ReleasesOnce
<1>22. t.acks = z.dup[o] + Len(z.toO[o]) + Len(z.sendq[o]) + CountWants(ch)
                + Bit(RecvOp(o, z) /\ WantsAck(z.recv[o].op))
  <2>1. PICK x \in Nat : x = CountWants(ch)
    BY CountNat
  <2>2. PICK d \in Nat : d = s.dup[o]
    BY <1>9
  <2>3. Bit(RecvOp(o, s) /\ WantsAck(s.recv[o].op)) = w /\ Bit(RecvOp(o, z) /\ WantsAck(z.recv[o].op)) = 0
    BY <1>8, <1>12 DEF Bit
  <2>4. t.acks = d + i + j + x + w
    BY <1>10, <2>1, <2>2, <2>3 DEF Granted
  <2>5. PICK e \in Nat, f \in Nat : e = Len(z.toO[o]) /\ f = Len(z.sendq[o])
    BY <1>11
  <2>6. e + f = i + j + w
    BY <1>11, <2>5
  <2>7. t.acks = d + e + f + x + 0
    BY ONLY <2>4, <2>6, d \in Nat, e \in Nat, f \in Nat, x \in Nat, i \in Nat, j \in Nat, w \in Nat
  <2> QED BY <2>1, <2>2, <2>3, <2>5, <2>7
<1> QED BY ONLY <1>7, <1>11, <1>12, <1>14, <1>15, <1>21, <1>22, NoEntry(o, z) DEF Granted

\* The operation is performed; r is the target without what it received.
LEMMA GrantedFinish ==
  ASSUME Shape, NEW o \in Origins, NEW t, NEW c, NEW n, NEW ch \in Seq(ToT), NEW s \in Process, NEW dl,
         Granted(o, t, c, n, ch, s, dl), RecvOp(o, s), NEW op, op = s.recv[o].op, NEW late \in BOOLEAN,
         NEW r, Rest(o, r), NoEntry(o, r), r.recv[o].what = "none",
         r.toO[o] = s.toO[o], r.sendq[o] = s.sendq[o], r.holds[o] = s.holds[o],
         r.applied[o] = s.applied[o], r.dup[o] = s.dup[o],
         NEW z, z = Finish(r, o, op, late)
  PROVE  Goes(o, t, c, n, ch, r, z, dl)
<1>1. Pipeline(o, t, c, n, ch, s) /\ ReleasesOnce(o, t, c, ch, s)
  BY DEF Granted
<1>2. PlainOp(op) /\ op.id = Base(o, s)
  BY <1>1 DEF Pipeline
<1>3. op \in OpPkt
  BY <1>2 DEF PlainOp
<1>4. op.id = Len(r.applied[o]) + 1
  BY <1>2 DEF Base, Bit
<1>5. Releases(r, o, op, late) => r.holds[o] # "NONE"
  <2>1. op.unlock => ReleasePending(o, ch, s)
    BY DEF ReleasePending
  <2> QED BY <1>1, <2>1 DEF ReleasesOnce, Releases
<1>6. PICK b : b = Perform(r, o, op, late)
  OBVIOUS
<1>7. r \in Process
  BY DEF Rest
<1>8. /\ b \in Process /\ Global(r, b) /\ Others(o, r, b)
      /\ b.discarded = r.discarded /\ b.stale = r.stale
      /\ b.recv[o] = r.recv[o] /\ b.dup[o] = r.dup[o]
      /\ b.applied[o] = Append(r.applied[o], op.id)
      /\ ~Replies(op) => b.toO[o] = r.toO[o] /\ b.sendq[o] = r.sendq[o]
      /\ Replies(op) /\ Delivered(r, o, op, late) =>
           b.toO[o] = Append(r.toO[o], Reply(op)) /\ b.sendq[o] = <<>>
      /\ Replies(op) /\ ~Delivered(r, o, op, late) =>
           b.toO[o] = r.toO[o] /\ b.sendq[o] = Append(r.sendq[o], Reply(op))
  BY ONLY <1>3, <1>6, <1>7, PerformEffect, o \in Origins
<1>9. /\ Rest(o, z) /\ Alike(o, b, z) /\ NoEntry(o, z) /\ z.discarded = r.discarded
      /\ z.holds[o] = IF Releases(r, o, op, late) THEN "NONE" ELSE r.holds[o]
  BY ONLY <1>3, <1>4, <1>5, <1>6, FinishRest, Shape, o \in Origins, Rest(o, r), NoEntry(o, r),
          z = Finish(r, o, op, late)
<1>10. (Releases(r, o, op, late) <=> Releases(s, o, op, late))
       /\ (Delivered(r, o, op, late) <=> Delivered(s, o, op, late))
  BY DEF Releases, Delivered
<1>11. /\ z.recv[o].what = "none" /\ z.dup[o] = s.dup[o]
       /\ z.applied[o] = Append(s.applied[o], op.id)
  BY <1>8, <1>9 DEF Alike
<1>12. ~Replies(op) => z.toO[o] = s.toO[o] /\ z.sendq[o] = s.sendq[o]
  BY <1>8, <1>9 DEF Alike
<1>13. Replies(op) /\ Delivered(s, o, op, late) =>
         z.toO[o] = Append(s.toO[o], Reply(op)) /\ z.sendq[o] = <<>>
  BY <1>8, <1>9, <1>10 DEF Alike
<1>14. Replies(op) /\ ~Delivered(s, o, op, late) =>
         z.toO[o] = s.toO[o] /\ z.sendq[o] = Append(s.sendq[o], Reply(op))
  BY <1>8, <1>9, <1>10 DEF Alike
<1>15. z.holds[o] = IF Releases(s, o, op, late) THEN "NONE" ELSE s.holds[o]
  BY <1>9, <1>10
<1>16. NoEntry(o, z)
  BY <1>9
<1>17. Granted(o, t, c, n, ch, z, dl)
  BY ONLY <1>11, <1>12, <1>13, <1>14, <1>15, <1>16, GrantedFinishes, o \in Origins, ch \in Seq(ToT), s \in Process,
          Granted(o, t, c, n, ch, s, dl), RecvOp(o, s), op = s.recv[o].op, late \in BOOLEAN
<1> QED BY <1>9, <1>17 DEF Goes, Phase

\* The handlers Put and Get for an operation without a lock request.
LEMMA ReceiveOp ==
  ASSUME Shape, NEW o \in Origins, NEW t, NEW c, NEW n, NEW ch \in Seq(ToT), NEW s, NEW dl,
         Rest(o, s), Granted(o, t, c, n, ch, s, dl), ch # <<>>, NEW p, p = Head(ch), p \in OpPkt,
         s.recv[o] = NoData, NEW part \in BOOLEAN, NEW late \in BOOLEAN,
         NEW z, z = PktHandler_target(s, o, p, part, late)
  PROVE  Goes(o, t, c, n, Tail(ch), s, z, dl)
<1>1. s \in Process /\ s.recv[o].what = "none" /\ NoEntry(o, s)
  BY DEF Rest, NoData, Granted
<1>2. PICK w : w = [op |-> p, what |-> "op"]
  OBVIOUS
<1>3. w \in Recvs /\ w.what = "op" /\ w.op = p
  BY <1>2 DEF Recvs, RecvRec
<1>4. PICK b : Receives(o, s, w, b)
  BY DEF Receives
<1>5. w \in Recvs
  BY <1>3
<1>6. /\ Rest(o, b) /\ b \in Process /\ b.discarded = s.discarded /\ b.stale = s.stale
      /\ b.holds = s.holds /\ b.queue = s.queue /\ b.lock = s.lock /\ b.toO = s.toO
      /\ b.sendq = s.sendq /\ b.applied = s.applied /\ b.dup = s.dup /\ b.recv[o] = w
  BY ONLY <1>4, <1>5, RecvRest, o \in Origins, Rest(o, s)
<1>7. NoEntry(o, b) /\ b.recv[o].what = "op" /\ b.recv[o].op = p
  BY <1>1, <1>3, <1>6 DEF NoEntry
<1>8. Granted(o, t, c, n, Tail(ch), b, dl) /\ PlainOp(p)
  BY <1>1, <1>6, <1>7, GrantedStarts
<1>9. Locking(s, o, p) = s /\ p.lock = "NONE"
  BY <1>8 DEF Locking, PlainOp
<1>10. PICK a : a = Locking(s, o, p)
  OBVIOUS
<1>11. Handles(s, o, p, part, late, a, z)
  BY ONLY <1>10, OpHandler, p \in OpPkt, part \in BOOLEAN, z = PktHandler_target(s, o, p, part, late)
<1>12. CASE part
  <2>1. Receives(o, s, w, z)
    BY <1>2, <1>9, <1>10, <1>11, <1>12 DEF Handles
  <2>2. z = b
    BY <1>4, <2>1 DEF Receives
  <2> QED BY <1>6, <1>8, <2>2 DEF Goes, Phase
<1>13. CASE ~part
  <2>1. z = Finish(s, o, p, late)
    BY <1>9, <1>10, <1>11, <1>13 DEF Handles
  <2>2. Tail(ch) \in Seq(ToT) /\ RecvOp(o, b)
    BY <1>7, TailFacts DEF RecvOp
  <2>3. PICK u \in Seq(ToT) : u = Tail(ch)
    BY <2>2
  <2>4. Goes(o, t, c, n, u, s, z, dl)
    BY <1>1, <1>6, <1>7, <1>8, <2>1, <2>2, <2>3, GrantedFinish
  <2> QED BY <2>3, <2>4
<1> QED BY <1>12, <1>13

\* The flush or unlock request at the end of a synchronization is handled.
LEMMA GrantedEnded ==
  ASSUME NEW o \in Origins, NEW t, NEW c, NEW n, NEW ch, NEW s \in Process, NEW dl,
         Granted(o, t, c, n, ch, s, dl), NEW p, ch = <<p>>, NumOps(ch) = 0, s.recv[o].what = "none",
         NEW z, z.recv[o].what = "none", NoEntry(o, z), z.applied[o] = s.applied[o], z.dup[o] = s.dup[o],
         NEW now \in BOOLEAN, Wants(p) => Answering(o, s, z, Ack, now),
         ~Wants(p) => z.toO[o] = s.toO[o] /\ z.sendq[o] = s.sendq[o],
         z.holds[o] # "NONE" <=> ~Left(t, c)
  PROVE  Granted(o, t, c, n, <<>>, z, dl)
<1>1. Pipeline(o, t, c, n, ch, s) /\ ReleasesOnce(o, t, c, ch, s) /\ t.access = "GRANTED"
      /\ Plain(s.toO[o]) /\ Plain(s.sendq[o])
  BY DEF Granted
<1>2. NumOps(<<>>) = 0 /\ Len(<<>>) = 0 /\ CountWants(<<>>) = 0
  BY CountEmpty DEF NumOps
<1>3. ~RecvOp(o, s) /\ ~RecvOp(o, z) /\ z.recv[o].what # "drop" /\ z.recv[o].what # "entry"
  BY DEF RecvOp
<1>4. Base(o, z) = Base(o, s)
  BY <1>3 DEF Base, Bit
<1>5. Pipeline(o, t, c, n, <<>>, z)
  <2>1. Ids(t, n, Base(o, s) + 0)
    BY <1>1 DEF Pipeline
  <2>2. \A i \in 1 .. 0 : FALSE
    OBVIOUS
  <2> QED BY <1>2, <1>3, <1>4, <2>1, <2>2 DEF Pipeline
<1>6. Flushed(o, t, <<>>, z)
  BY <1>2, <1>3 DEF Flushed, LastOpWants
<1>7. s.toO[o] \in Seq(ToO) /\ s.sendq[o] \in Seq(ToO) /\ s.dup[o] \in Nat
  BY DEF Process
<1>8. PICK i \in Nat, j \in Nat, d \in Nat : i = Len(s.toO[o]) /\ j = Len(s.sendq[o]) /\ d = s.dup[o]
  BY <1>7
<1>9. PICK w \in Nat : w = Bit(Wants(p)) /\ (w = 1 <=> Wants(p)) /\ (w = 0 <=> ~Wants(p))
  BY DEF Bit
<1>10. /\ Ack \in ToO /\ Ack.type = "ack" /\ Ack.flag = "NONE" /\ Ack.ack
       /\ ~LateRelease(Ack)
  BY DEF Ack, ToO, AckPkt, Flags, LateRelease
<1>11. PlainPkt(Ack)
  BY <1>10 DEF PlainPkt
<1>12. \A a \in DOMAIN s.sendq[o] : ~LateRelease(s.sendq[o][a])
  BY <1>1 DEF ReleasesOnce
<1>13. /\ Plain(z.toO[o]) /\ Plain(z.sendq[o]) /\ z.toO[o] \in Seq(ToO) /\ z.sendq[o] \in Seq(ToO)
       /\ Len(z.toO[o]) + Len(z.sendq[o]) = i + j + w
       /\ \A a \in DOMAIN z.sendq[o] : ~LateRelease(z.sendq[o][a])
  <2>1. CASE Wants(p)
    <3>1. Answering(o, s, z, Ack, now)
      BY <2>1
    <3>2. Appended(o, s, z, Ack, now)
      BY <1>1, <1>11, <3>1, AnsweringFacts
    <3>3. \A a \in DOMAIN z.sendq[o] :
            z.sendq[o][a] = Ack \/ (a \in DOMAIN s.sendq[o] /\ z.sendq[o][a] = s.sendq[o][a])
      BY <3>2 DEF Appended
    <3>4. \A a \in DOMAIN z.sendq[o] : ~LateRelease(z.sendq[o][a])
      BY <1>10, <1>12, <3>3
    <3> QED BY <1>8, <1>9, <2>1, <3>2, <3>4 DEF Appended
  <2>2. CASE ~Wants(p)
    <3>1. z.toO[o] = s.toO[o] /\ z.sendq[o] = s.sendq[o] /\ w = 0
      BY <1>9, <2>2
    <3>2. Len(z.toO[o]) + Len(z.sendq[o]) = i + j + w
      BY <1>8, <3>1
    <3> QED BY <1>1, <1>7, <1>12, <3>1, <3>2
  <2> QED BY <2>1, <2>2
<1>14. ReleasesOnce(o, t, c, <<>>, z)
  <2>1. ~ReleasePending(o, <<>>, z)
    BY <1>3, <1>13 DEF ReleasePending
  <2> QED BY <1>2, <1>3, <1>13, <2>1 DEF ReleasesOnce
<1>15. t.acks = z.dup[o] + Len(z.toO[o]) + Len(z.sendq[o]) + CountWants(<<>>)
                + Bit(RecvOp(o, z) /\ WantsAck(z.recv[o].op))
  <2>1. CountWants(ch) = w
    BY <1>9, CountOne
  <2>2. Bit(RecvOp(o, s) /\ WantsAck(s.recv[o].op)) = 0 /\ Bit(RecvOp(o, z) /\ WantsAck(z.recv[o].op)) = 0
    BY <1>3 DEF Bit
  <2>3. t.acks = d + i + j + w + 0
    BY <1>8, <2>1, <2>2 DEF Granted
  <2>4. PICK e \in Nat, f \in Nat : e = Len(z.toO[o]) /\ f = Len(z.sendq[o])
    BY <1>13
  <2>5. e + f = i + j + w
    BY <1>13, <2>4
  <2>6. t.acks = d + e + f + 0 + 0
    BY ONLY <2>3, <2>5, d \in Nat, e \in Nat, f \in Nat, i \in Nat, j \in Nat, w \in Nat
  <2> QED BY <1>2, <1>8, <2>2, <2>4, <2>6
<1> QED BY ONLY <1>1, <1>3, <1>5, <1>6, <1>13, <1>14, <1>15, NoEntry(o, z) DEF Granted

\* The handler Flush, and Unlock for the epoch that ends.
LEMMA ReceiveEnd ==
  ASSUME Shape, NEW o \in Origins, NEW t, NEW c, NEW n, NEW ch \in Seq(ToT), NEW s, NEW dl,
         Rest(o, s), Granted(o, t, c, n, ch, s, dl), ch # <<>>, NEW p, p = Head(ch), p \notin OpPkt,
         s.recv[o] = NoData, NEW part, NEW late,
         NEW z, z = PktHandler_target(s, o, p, part, late)
  PROVE  Goes(o, t, c, n, Tail(ch), s, z, dl)
<1>1. s \in Process /\ s.recv[o].what = "none" /\ NoEntry(o, s)
  BY DEF Rest, NoData, Granted
<1>2. Pipeline(o, t, c, n, ch, s) /\ ReleasesOnce(o, t, c, ch, s)
  BY DEF Granted
<1>3. /\ Len(ch) = 1 /\ ch = <<p>> /\ Tail(ch) = <<>> /\ NumOps(ch) = 0 /\ ch[Len(ch)] = p
      /\ c # "none" /\ t.sync = "NONE"
      /\ p \in FlushPkt \/ (p \in UnlockPkt /\ c = "unlock")
  <2>1. EndOnly(t, c, ch, p)
    BY <1>2, HeadEnd
  <2> QED BY <2>1 DEF EndOnly
<1>4. /\ s.holds[o] # "NONE" <=> (~Left(t, c) \/ ReleasePending(o, ch, s))
      /\ ReleasePending(o, ch, s) <=> Releasing(p)
  BY <1>1, <1>2, <1>3 DEF ReleasesOnce, ReleasePending, RecvOp
<1>5. PICK D, Q, x, y, v, h, a, d : /\ D = s.discarded /\ Q = s.queue /\ x = s.toO[o] /\ y = s.sendq[o]
                                    /\ v = s.recv[o] /\ h = s.holds[o] /\ a = s.applied[o] /\ d = s.dup[o]
  OBVIOUS
<1>6. Stands(o, D, Q, s, x, y, v, h, a, d)
  BY <1>5, StandsStart
<1>7. PICK k \in ToO : k = Ack
  BY DEF Ack, ToO, AckPkt, Flags
<1>8. PICK now \in BOOLEAN : now = (y = <<>>)
  OBVIOUS
<1>9. CASE p \in FlushPkt
  <2>1. z = Send(s, o, k)
    BY <1>7, <1>9, FlushHandler
  <2>2. /\ y = <<>> => Stands(o, D, Q, z, Append(x, k), <<>>, v, h, a, d)
        /\ y # <<>> => Stands(o, D, Q, z, x, Append(y, k), v, h, a, d)
    BY ONLY <1>6, <2>1, StandsSend, o \in Origins, k \in ToO
  <2>3. /\ Rest(o, z) /\ D \subseteq z.discarded /\ z.queue = Q /\ z.recv[o] = v /\ z.holds[o] = h
        /\ z.applied[o] = a /\ z.dup[o] = d
        /\ now => z.toO[o] = Append(x, k) /\ z.sendq[o] = y
        /\ ~now => z.toO[o] = x /\ z.sendq[o] = Append(y, k)
    BY ONLY <1>8, <2>2 DEF Stands, Fields
  <2>4. Answering(o, s, z, Ack, now)
    BY <1>5, <1>7, <2>3 DEF Answering
  <2>5. p.type = "flush"
    BY <1>9, PktTypes
  <2>6. Wants(p) /\ ~Releasing(p)
    BY <2>5 DEF Wants, Releasing, OpKinds
  <2>7. z.holds[o] # "NONE" <=> ~Left(t, c)
    BY <1>4, <1>5, <2>3, <2>6
  <2>8. /\ z.recv[o].what = "none" /\ NoEntry(o, z) /\ z.applied[o] = s.applied[o]
        /\ z.dup[o] = s.dup[o]
    BY <1>1, <1>5, <2>3 DEF NoEntry
  <2>9. Granted(o, t, c, n, <<>>, z, dl)
    BY <1>1, <1>3, <2>4, <2>6, <2>7, <2>8, GrantedEnded
  <2> QED BY <1>3, <1>5, <2>3, <2>9 DEF Goes, Phase
<1>10. CASE p \in UnlockPkt /\ c = "unlock"
  <2>1. p.type = "unlock"
    BY <1>10, PktTypes
  <2>2. Left(t, c) /\ h # "NONE" /\ (Wants(p) <=> ~p.noack)
    BY <1>3, <1>4, <1>5, <1>10, <2>1 DEF Left, Releasing, Wants, OpKinds
  <2>3. PICK b : b = Release_lock(s, o, late)
    OBVIOUS
  <2>4. h # "NONE" /\ NoEntry(o, s)
    BY <1>1, <2>2
  <2>5. Stands(o, D, b.queue, b, x, y, v, "NONE", a, d) /\ NoEntry(o, b)
    BY ONLY <1>6, <2>3, <2>4, StandsRelease, Shape, o \in Origins
  <2>6. z = IF p.noack THEN b ELSE Send(b, o, k)
    BY <1>7, <1>10, <2>3, UnlockHandler
  <2>7. PICK R : R = b.queue
    OBVIOUS
  <2>8. Stands(o, D, R, b, x, y, v, "NONE", a, d) /\ NoEntry(o, b)
    BY <2>5, <2>7
  <2>9. CASE p.noack
    <3>1. z = b /\ ~Wants(p)
      BY <2>2, <2>6, <2>9
    <3>2. /\ Rest(o, z) /\ D \subseteq z.discarded /\ z.recv[o] = v /\ z.holds[o] = "NONE"
          /\ z.applied[o] = a /\ z.dup[o] = d /\ z.toO[o] = x /\ z.sendq[o] = y
      BY ONLY <2>8, <3>1 DEF Stands, Fields
    <3>3. NoEntry(o, z) /\ z.recv[o].what = "none" /\ (z.holds[o] # "NONE" <=> ~Left(t, c))
      BY <1>1, <1>5, <2>2, <2>8, <3>1, <3>2
    <3>4. Granted(o, t, c, n, <<>>, z, dl)
      BY <1>1, <1>3, <1>5, <3>1, <3>2, <3>3, GrantedEnded
    <3> QED BY <1>3, <1>5, <3>2, <3>4 DEF Goes, Phase
  <2>10. CASE ~p.noack
    <3>1. z = Send(b, o, k) /\ Wants(p)
      BY <2>2, <2>6, <2>10
    <3>2. Stands(o, D, R, b, x, y, v, "NONE", a, d) /\ z = Send(b, o, k)
      BY <2>8, <3>1
    <3>3. PICK g : g = "NONE"
      OBVIOUS
    <3>4. Stands(o, D, R, b, x, y, v, g, a, d)
      BY <3>2, <3>3
    <3>5. /\ y = <<>> => Stands(o, D, R, z, Append(x, k), <<>>, v, g, a, d)
          /\ y # <<>> => Stands(o, D, R, z, x, Append(y, k), v, g, a, d)
      BY ONLY <3>2, <3>4, StandsSend, o \in Origins, k \in ToO
    <3>6. /\ Rest(o, z) /\ D \subseteq z.discarded /\ z.queue = R /\ z.recv[o] = v /\ z.holds[o] = g
          /\ z.applied[o] = a /\ z.dup[o] = d
          /\ now => z.toO[o] = Append(x, k) /\ z.sendq[o] = y
          /\ ~now => z.toO[o] = x /\ z.sendq[o] = Append(y, k)
      BY ONLY <1>8, <3>5 DEF Stands, Fields
    <3>7. Answering(o, s, z, Ack, now)
      BY <1>5, <1>7, <3>6 DEF Answering
    <3>8. NoEntry(o, z) /\ z.recv[o].what = "none" /\ (z.holds[o] # "NONE" <=> ~Left(t, c))
      BY <1>1, <1>5, <2>2, <2>7, <2>8, <3>3, <3>6 DEF NoEntry
    <3>9. z.applied[o] = s.applied[o] /\ z.dup[o] = s.dup[o]
      BY <1>5, <3>6
    <3>10. Granted(o, t, c, n, <<>>, z, dl)
      BY <1>1, <1>3, <3>1, <3>7, <3>8, <3>9, GrantedEnded
    <3> QED BY <1>3, <1>5, <3>6, <3>10 DEF Goes, Phase
  <2> QED BY <2>9, <2>10
<1> QED BY <1>3, <1>9, <1>10

\* A packet from o is handled.
LEMMA ReceivesPacket ==
  ASSUME Shape, NEW o \in Origins, NEW t \in Targets, NEW c, NEW n \in Nat, NEW ch \in Seq(ToT), NEW s, NEW dl,
         Rest(o, s), Phase(o, t, c, n, ch, s, dl), ch # <<>>, s.recv[o] = NoData,
         NEW part \in BOOLEAN, NEW late \in BOOLEAN,
         NEW z, z = PktHandler_target(s, o, Head(ch), part, late)
  PROVE  Goes(o, t, c, n, Tail(ch), s, z, dl)
<1>1. PICK p : p = Head(ch)
  OBVIOUS
<1>2. z = PktHandler_target(s, o, p, part, late)
  BY <1>1
<1>3. CASE /\ p = OldUnlock
           /\ Idle(o, t, c, n, ch, s, dl) \/ Requested(o, t, c, n, ch, s, dl)
  <2>1. z = PktHandler_target(s, o, OldUnlock, part, late) /\ Head(ch) = OldUnlock
    BY <1>1, <1>2, <1>3
  <2> QED BY <1>3, <2>1, ReceiveOldUnlock
<1>4. CASE Idle(o, t, c, n, ch, s, dl)
  <2>1. ch = <<OldUnlock>>
    BY <1>4 DEF Idle
  <2> QED BY <1>1, <1>3, <1>4, <2>1
<1>5. CASE Requested(o, t, c, n, ch, s, dl) /\ p # OldUnlock
  <2>1. Head(ch) # OldUnlock /\ Requested(o, t, c, n, ch, s, dl)
    BY <1>1, <1>5
  <2>2. /\ ch # <<>> /\ Tail(ch) = <<>> /\ Request(t, c, Head(ch), dl) /\ s.holds[o] = "NONE"
        /\ t.access = "ISSUED" /\ s.toO[o] = <<>> /\ s.sendq[o] = <<>> /\ NoEntry(o, s)
        /\ t.acks = s.dup[o] + Bit(Wants(Head(ch)))
        /\ Ids(t, n, Len(s.applied[o]))
    BY ONLY <2>1, RequestOnly, o \in Origins, ch \in Seq(ToT)
  <2>3. (p \in LockReq /\ p.lock = t.type) \/ p \in OpPkt
    BY <1>1, <2>2 DEF Request, LockOp
  <2>4. CASE p \in LockReq /\ p.lock = t.type
    <3>1. CASE CanAcquire(s, p.lock)
      BY <1>1, <1>2, <2>1, <2>4, <3>1, ReceiveLock
    <3>2. CASE ~CanAcquire(s, p.lock)
      <4>1. z = enqueue_lock(s, o, p)
        BY <1>2, <2>4, <3>2, LockHandler
      <4> QED BY <1>1, <2>1, <2>4, <3>2, <4>1, EnqueueLock
    <3> QED BY <3>1, <3>2
  <2>5. CASE p \in OpPkt
    BY <1>1, <1>2, <2>1, <2>5, ReceiveLockOp
  <2> QED BY <2>3, <2>4, <2>5
<1>6. CASE Granted(o, t, c, n, ch, s, dl)
  <2>1. CASE p \in OpPkt
    BY <1>1, <1>2, <1>6, <2>1, ReceiveOp
  <2>2. CASE p \notin OpPkt
    BY <1>1, <1>2, <1>6, <2>2, ReceiveEnd
  <2> QED BY <2>1, <2>2
<1> QED BY <1>3, <1>4, <1>5, <1>6 DEF Phase, Queued, Refused, Receiving, Answered

LEMMA GoesWorks ==
  ASSUME NEW o \in Origins, NEW ch, NEW s, NEW z,
         Goes(o, target[o], call[o], nops[o], ch, s, z, conf.delay)
  PROVE  Works(o, ch, s, z)
BY DEF Goes, Works

\* Every packet that the target handles keeps the invariant.
LEMMA TargetReceiveInv ==
  ASSUME Inv, NEW o \in Origins, TargetReceive(o)
  PROVE  Inv'
<1>1. PICK part \in BOOLEAN, late \in BOOLEAN :
        /\ ~aborted /\ toT[o] # <<>> /\ tgt.recv[o] = NoData
        /\ tgt' = PktHandler_target(tgt, o, Head(toT[o]), part, late)
        /\ toT' = [toT EXCEPT ![o] = Tail(@)]
        /\ UNCHANGED <<conf, target, call, prog, nops, aborted>>
  BY DEF TargetReceive
<1>2. /\ Shape /\ Rest(o, tgt) /\ Numbered(tgt.applied[o])
      /\ PhaseOf(o, tgt) /\ Settled(o, target[o], call[o], tgt, conf.delay)
  BY <1>1, InvRest
<1>3. target[o] \in Targets /\ nops[o] \in Nat /\ toT[o] \in Seq(ToT) /\ conf.delay \in BOOLEAN
  BY <1>2, ShapeOf
<1>4. PICK ch, z : ch = toT[o] /\ z = tgt'
  OBVIOUS
<1>5. PICK u : u = Tail(ch)
  OBVIOUS
<1>6. u \in Seq(ToT) /\ toT' = [toT EXCEPT ![o] = u]
  BY <1>1, <1>3, <1>4, <1>5
<1>7. Phase(o, target[o], call[o], nops[o], ch, tgt, conf.delay)
  BY <1>2, <1>4 DEF PhaseOf
<1>8. z = PktHandler_target(tgt, o, Head(ch), part, late) /\ ch # <<>> /\ ch \in Seq(ToT)
  BY <1>1, <1>3, <1>4
<1>9. Goes(o, target[o], call[o], nops[o], Tail(ch), tgt, z, conf.delay)
  BY <1>1, <1>2, <1>3, <1>7, <1>8, ReceivesPacket
<1>10. Works(o, u, tgt, tgt')
  BY <1>4, <1>5, <1>9, GoesWorks
<1> QED BY <1>1, <1>6, <1>10, WorksInv

-----------------------------------------------------------------------------
(* The rest of the data of an operation comes.                             *)

LEMMA DataCome ==
  ASSUME Shape, NEW o \in Origins, NEW t \in Targets, NEW c, NEW n \in Nat, NEW ch \in Seq(ToT), NEW s,
         NEW dl \in BOOLEAN, Rest(o, s), Phase(o, t, c, n, ch, s, dl), s.recv[o] # NoData, NEW r, Receives(o, s, NoData, r),
         NEW late \in BOOLEAN,
         NEW z, z = CASE s.recv[o].what = "op" -> Finish(r, o, s.recv[o].op, late)
                      [] s.recv[o].what = "entry" -> PiggybackLockOpRecvComplete(r, o, late)
                      [] s.recv[o].what = "drop" -> r
  PROVE  Goes(o, t, c, n, ch, s, z, dl)
<1>1. s \in Process /\ s.recv[o] \in RecvRec
  BY DEF Rest, Process, Recvs
<1>2. s.recv[o].what \in {"op", "entry", "drop"}
  BY <1>1 DEF RecvRec
<1>3. PICK v \in Recvs : v = NoData /\ v.what = "none"
  BY DEF Recvs, NoData
<1>4. Receives(o, s, v, r)
  BY <1>3
<1>5. /\ Rest(o, r) /\ r \in Process /\ r.discarded = s.discarded /\ r.stale = s.stale
      /\ r.holds = s.holds /\ r.queue = s.queue /\ r.lock = s.lock /\ r.toO = s.toO
      /\ r.sendq = s.sendq /\ r.applied = s.applied /\ r.dup = s.dup /\ r.recv[o] = v
  BY ONLY <1>4, RecvRest, o \in Origins, v \in Recvs, Rest(o, s)
<1>6. NoEntry(o, s) => NoEntry(o, r)
  BY <1>5 DEF NoEntry
<1>7. CASE s.recv[o].what = "op"
  <2>1. PICK op : op = s.recv[o].op
    OBVIOUS
  <2>2. z = Finish(r, o, op, late)
    BY <1>7, <2>1
  <2>3. CASE Receiving(o, t, c, n, ch, s, dl)
    <3>1. /\ t.access = "ISSUED" /\ ch = <<>> /\ LockOp(t, c, op, dl) /\ r.toO[o] = <<>> /\ r.sendq[o] = <<>>
          /\ r.recv[o].what = "none" /\ r.holds[o] # "NONE" /\ NoEntry(o, r)
          /\ t.acks = r.dup[o] + Bit(WantsAck(op)) /\ Ids(t, n, Len(r.applied[o]))
      BY <1>3, <1>5, <1>6, <2>1, <2>3 DEF Receiving
    <3>2. Goes(o, t, c, n, <<>>, r, z, dl)
      BY <1>5, <2>2, <3>1, FinishLockOp
    <3> QED BY <1>5, <3>1, <3>2 DEF Goes
  <2>4. CASE Granted(o, t, c, n, ch, s, dl)
    <3>1. RecvOp(o, s) /\ NoEntry(o, r) /\ r.recv[o].what = "none"
      BY <1>3, <1>5, <1>6, <1>7, <2>4 DEF Granted, RecvOp
    <3>2. Goes(o, t, c, n, ch, r, z, dl)
      BY <1>1, <1>5, <2>1, <2>2, <2>4, <3>1, GrantedFinish
    <3> QED BY <1>5, <3>2 DEF Goes
  <2>5. \/ Receiving(o, t, c, n, ch, s, dl) \/ Granted(o, t, c, n, ch, s, dl)
    <3>1. ~Idle(o, t, c, n, ch, s, dl) /\ ~Requested(o, t, c, n, ch, s, dl) /\ ~Refused(o, t, c, n, ch, s, dl)
      BY <1>7 DEF Idle, Requested, Refused
    <3>2. ~Queued(o, t, c, n, ch, s, dl)
      BY <1>7 DEF Queued, QueuedEntry, QueuedLock, QueuedOp, QueuedAlone
    <3>3. ~Answered(o, t, c, n, ch, s, dl)
      BY <1>7 DEF Answered, AnsweredLock, AnsweredOp
    <3> QED BY <3>1, <3>2, <3>3 DEF Phase
  <2> QED BY <2>3, <2>4, <2>5
<1>8. CASE s.recv[o].what = "entry"
  <2>1. z = PiggybackLockOpRecvComplete(r, o, late)
    BY <1>8
  <2> QED BY <1>8, <2>1, EntryArrives
<1>9. CASE s.recv[o].what = "drop"
  <2>1. z = r
    BY <1>9
  <2>2. NoEntry(o, s)
    <3>1. ~Queued(o, t, c, n, ch, s, dl)
      BY <1>9 DEF Queued, QueuedEntry, QueuedLock, QueuedOp, QueuedAlone
    <3> QED BY <3>1 DEF Phase, Idle, Requested, Refused, Receiving, Answered, Granted
  <2>3. Phase(o, t, c, n, ch, r, dl)
    BY <1>3, <1>5, <1>6, <1>9, <2>2, DataDropped
  <2> QED BY <1>5, <2>1, <2>3 DEF Goes
<1> QED BY <1>2, <1>7, <1>8, <1>9

LEMMA DataArrivesInv ==
  ASSUME Inv, NEW o \in Origins, DataArrives(o)
  PROVE  Inv'
<1>1. PICK late \in BOOLEAN :
        LET r == tgt.recv[o]
            s == [tgt EXCEPT !.recv[o] = NoData]
        IN /\ ~aborted /\ r # NoData
           /\ tgt' = CASE r.what = "op" -> Finish(s, o, r.op, late)
                       [] r.what = "entry" -> PiggybackLockOpRecvComplete(s, o, late)
                       [] r.what = "drop" -> s
           /\ UNCHANGED <<conf, target, call, prog, nops, toT, aborted>>
  BY DEF DataArrives
<1>2. /\ Shape /\ Rest(o, tgt) /\ Numbered(tgt.applied[o])
      /\ PhaseOf(o, tgt) /\ Settled(o, target[o], call[o], tgt, conf.delay)
  BY <1>1, InvRest
<1>3. target[o] \in Targets /\ nops[o] \in Nat /\ toT[o] \in Seq(ToT) /\ conf.delay \in BOOLEAN
  BY <1>2, ShapeOf
<1>4. PICK ch, z : ch = toT[o] /\ z = tgt'
  OBVIOUS
<1>5. PICK r : r = [tgt EXCEPT !.recv[o] = NoData]
  OBVIOUS
<1>6. Receives(o, tgt, NoData, r)
  BY <1>5 DEF Receives
<1>7. z = CASE tgt.recv[o].what = "op" -> Finish(r, o, tgt.recv[o].op, late)
            [] tgt.recv[o].what = "entry" -> PiggybackLockOpRecvComplete(r, o, late)
            [] tgt.recv[o].what = "drop" -> r
  BY <1>1, <1>4, <1>5
<1>8. Phase(o, target[o], call[o], nops[o], ch, tgt, conf.delay) /\ ch \in Seq(ToT)
  BY <1>2, <1>3, <1>4 DEF PhaseOf
<1>9. Goes(o, target[o], call[o], nops[o], ch, tgt, z, conf.delay)
  BY <1>1, <1>2, <1>3, <1>6, <1>7, <1>8, DataCome
<1>10. Works(o, ch, tgt, tgt')
  BY <1>4, <1>9, GoesWorks
<1>11. toT' = [toT EXCEPT ![o] = ch]
  BY <1>1, <1>2, <1>4 DEF Shape
<1> QED BY <1>1, <1>8, <1>10, <1>11, WorksInv

-----------------------------------------------------------------------------
(* The channel takes a packet that waited.                                 *)

Delivers(o, r, k, s) == s = [r EXCEPT !.sendq[o] = Tail(@), !.toO[o] = Append(@, k)]

LEMMA DeliversRest ==
  ASSUME NEW o \in Origins, NEW r, Rest(o, r), r.sendq[o] # <<>>, NEW k \in ToO, NEW s, Delivers(o, r, k, s)
  PROVE  Stands(o, r.discarded, r.queue, s, Append(r.toO[o], k), Tail(r.sendq[o]),
                r.recv[o], r.holds[o], r.applied[o], r.dup[o])
<1>1. r \in Process /\ Numbered(r.applied[o])
  BY DEF Rest, TargetInv, Numbered
<1>2. r.toO \in [Origins -> Seq(ToO)] /\ r.sendq \in [Origins -> Seq(ToO)]
  BY <1>1 DEF Process
<1>3. PICK x, y : x = Append(r.toO[o], k) /\ y = Tail(r.sendq[o])
  OBVIOUS
<1>4. x \in Seq(ToO) /\ y \in Seq(ToO)
  <2>1. r.toO[o] \in Seq(ToO) /\ r.sendq[o] \in Seq(ToO)
    BY <1>2
  <2> QED BY <1>3, <2>1, TailFacts
<1>5. PICK f, g : f = [r.toO EXCEPT ![o] = x] /\ g = [r.sendq EXCEPT ![o] = y]
  OBVIOUS
<1>6. /\ f \in [Origins -> Seq(ToO)] /\ f[o] = x /\ \A p \in Origins \ {o} : f[p] = r.toO[p]
      /\ g \in [Origins -> Seq(ToO)] /\ g[o] = y /\ \A p \in Origins \ {o} : g[p] = r.sendq[p]
  BY <1>2, <1>4, <1>5
<1>7. s = [r EXCEPT !.sendq = g, !.toO = f]
  BY <1>1, <1>3, <1>5 DEF Process, Delivers
<1>8. /\ s \in Process /\ s.toO = f /\ s.sendq = g /\ s.recv = r.recv
      /\ s.applied = r.applied /\ s.dup = r.dup /\ s.discarded = r.discarded
      /\ s.lock = r.lock /\ s.ref = r.ref /\ s.queue = r.queue /\ s.entered = r.entered
      /\ s.holds = r.holds /\ s.lost = r.lost
  BY <1>1, <1>6, <1>7 DEF Process
<1>9. Global(r, s) /\ Others(o, r, s)
  BY <1>6, <1>8 DEF Global, Others
<1>10. Rest(o, s)
  BY <1>1, <1>8, <1>9, RestFrame
<1> QED BY <1>3, <1>6, <1>8, <1>10 DEF Stands, Fields

\* What the packets to o are after the step.
HandedOver(o, r, z) ==
  /\ z.toO[o] = Append(r.toO[o], Head(r.sendq[o])) /\ z.sendq[o] = Tail(r.sendq[o])
  /\ z.recv[o] = r.recv[o] /\ z.applied[o] = r.applied[o] /\ z.dup[o] = r.dup[o]
  /\ z.holds[o] = IF LateRelease(Head(r.sendq[o])) THEN "NONE" ELSE r.holds[o]
  /\ NoEntry(o, z)

LEMMA AnsweredDelivers ==
  ASSUME NEW o \in Origins, NEW t, NEW c, NEW n, NEW r, NEW dl, AnsweredOp(o, t, c, n, r, dl),
         r.sendq[o] # <<>>, NEW z, HandedOver(o, r, z)
  PROVE  AnsweredOp(o, t, c, n, z, dl)
<1>1. PICK q, a, w : q = Head(t.net) /\ a = Answer(q) /\ w = LockOpAck("QUEUED", FALSE)
  OBVIOUS
<1>2. /\ LockOp(t, c, q, dl) /\ r.sendq[o] = <<a>> /\ r.toO[o] \in {<<>>, <<w>>} /\ IsRead(q)
      /\ r.holds[o] # "NONE" /\ r.recv[o].what = "none" /\ t.acks = r.dup[o] + Bit(WantsAck(q))
      /\ Len(r.applied[o]) > 0 /\ Ids(t, n, Len(r.applied[o]) - 1)
  BY <1>1 DEF AnsweredOp
<1>3. Head(r.sendq[o]) = a /\ Tail(r.sendq[o]) = <<>>
  BY <1>2
<1>4. Append(<<>>, a) = <<a>> /\ Append(<<w>>, a) = <<w, a>>
  BY AppendOne
<1>5. z.toO[o] \in {<<a>>, <<w, a>>} /\ z.sendq[o] = <<>>
  BY <1>2, <1>3, <1>4 DEF HandedOver
<1>6. LateRelease(a) <=> q.unlock
  BY <1>1, <1>2 DEF Answer, LateRelease, GetResp
<1>7. q.unlock \in BOOLEAN
  BY <1>2 DEF LockOp, OpPkt
<1>8. z.holds[o] = "NONE" <=> (q.unlock /\ z.sendq[o] = <<>>)
  BY <1>2, <1>3, <1>5, <1>6, <1>7 DEF HandedOver
<1>9. /\ z.recv[o].what = "none" /\ t.acks = z.dup[o] + Bit(WantsAck(q))
      /\ Len(z.applied[o]) > 0 /\ Ids(t, n, Len(z.applied[o]) - 1)
  BY <1>2 DEF HandedOver
<1> QED BY ONLY <1>1, <1>2, <1>5, <1>8, <1>9 DEF AnsweredOp

LEMMA GrantedDelivers ==
  ASSUME NEW o \in Origins, NEW t, NEW c, NEW n, NEW ch \in Seq(ToT), NEW r \in Process, NEW dl,
         Granted(o, t, c, n, ch, r, dl), r.sendq[o] # <<>>, NEW z, HandedOver(o, r, z)
  PROVE  Granted(o, t, c, n, ch, z, dl)
<1>1. /\ Pipeline(o, t, c, n, ch, r) /\ Flushed(o, t, ch, r) /\ ReleasesOnce(o, t, c, ch, r)
      /\ Plain(r.toO[o]) /\ Plain(r.sendq[o])
      /\ t.access = "GRANTED" /\ r.recv[o].what # "drop"
  BY DEF Granted
<1>2. PICK x, y, k, v : x = r.toO[o] /\ y = r.sendq[o] /\ k = Head(y) /\ v = Tail(y)
  OBVIOUS
<1>3. x \in Seq(ToO) /\ y \in Seq(ToO) /\ y # <<>> /\ Plain(x) /\ Plain(y)
  BY <1>1, <1>2 DEF Process
<1>4. PICK i \in Nat, j \in Nat : i = Len(x) /\ j = Len(y)
  BY <1>3
<1>5. /\ k \in ToO /\ k = y[1] /\ v \in Seq(ToO) /\ j >= 1 /\ Len(v) = j - 1
      /\ \A a \in 1 .. j - 1 : v[a] = y[a + 1]
  BY <1>2, <1>3, <1>4, TailFacts
<1>6. DOMAIN y = 1 .. j /\ DOMAIN v = 1 .. j - 1
  BY <1>3, <1>4, <1>5
<1>7. \A a \in DOMAIN v : a + 1 \in DOMAIN y /\ v[a] = y[a + 1]
  BY <1>5, <1>6
<1>8. PlainPkt(k) /\ Plain(v)
  <2>1. 1 \in DOMAIN y
    BY <1>5, <1>6
  <2> QED BY <1>3, <1>5, <1>7, <2>1 DEF Plain, PlainPkt
<1>9. /\ Plain(Append(x, k)) /\ Append(x, k) \in Seq(ToO) /\ Len(Append(x, k)) = i + 1
  BY <1>3, <1>4, <1>8, PlainAppend
<1>10. z.toO[o] = Append(x, k) /\ z.sendq[o] = v
  BY <1>2 DEF HandedOver
<1>11. z.recv[o] = r.recv[o] /\ z.applied[o] = r.applied[o] /\ z.dup[o] = r.dup[o] /\ NoEntry(o, z)
  BY DEF HandedOver
<1>12. (RecvOp(o, z) <=> RecvOp(o, r)) /\ Base(o, z) = Base(o, r)
  BY <1>11 DEF RecvOp, Base
<1>13. Pipeline(o, t, c, n, ch, z)
  BY <1>1, <1>11, <1>12 DEF Pipeline
<1>14. Flushed(o, t, ch, z)
  BY <1>1, <1>11, <1>12 DEF Flushed, LastOpWants
<1>15. t.acks = z.dup[o] + Len(z.toO[o]) + Len(z.sendq[o]) + CountWants(ch)
                 + Bit(RecvOp(o, z) /\ WantsAck(z.recv[o].op))
  <2>1. PICK e \in Nat, d \in Nat, b \in Nat :
          e = CountWants(ch) /\ d = r.dup[o] /\ b = Bit(RecvOp(o, r) /\ WantsAck(r.recv[o].op))
    BY CountNat DEF Process, Bit
  <2>2. t.acks = d + i + j + e + b
    BY <1>2, <1>4, <2>1 DEF Granted
  <2>3. t.acks = d + (i + 1) + (j - 1) + e + b
    BY <2>2
  <2>4. Bit(RecvOp(o, z) /\ WantsAck(z.recv[o].op)) = b
    BY <1>11, <2>1 DEF RecvOp
  <2> QED BY <1>5, <1>9, <1>10, <1>11, <2>1, <2>3, <2>4
<1>16. ReleasesOnce(o, t, c, ch, z)
  <2>1. /\ \A a \in 1 .. NumOps(ch) : ch[a].unlock => a = Len(ch) /\ Left(t, c)
        /\ RecvOp(o, r) /\ r.recv[o].op.unlock => ch = <<>> /\ Left(t, c)
        /\ \A a \in DOMAIN y : LateRelease(y[a]) =>
             /\ a = j /\ ch = <<>> /\ ~RecvOp(o, r) /\ Left(t, c)
        /\ r.holds[o] # "NONE" <=> (~Left(t, c) \/ ReleasePending(o, ch, r))
    BY <1>1, <1>2, <1>4 DEF ReleasesOnce
  <2>2. \A a \in DOMAIN v : LateRelease(v[a]) =>
          /\ a = j - 1 /\ ch = <<>> /\ ~RecvOp(o, r) /\ Left(t, c)
    <3>1. SUFFICES ASSUME NEW a \in DOMAIN v, LateRelease(v[a])
                   PROVE  a = j - 1 /\ ch = <<>> /\ ~RecvOp(o, r) /\ Left(t, c)
      OBVIOUS
    <3>2. a \in 1 .. j - 1 /\ a \in Nat
      BY <1>6
    <3>3. a + 1 = j /\ ch = <<>> /\ ~RecvOp(o, r) /\ Left(t, c)
      BY <1>7, <2>1, <3>1
    <3> QED BY <3>2, <3>3
  <2>3. z.holds[o] # "NONE" <=> (~Left(t, c) \/ ReleasePending(o, ch, z))
    <3>1. CASE LateRelease(k)
      <4>1. 1 \in DOMAIN y /\ LateRelease(y[1])
        BY <1>5, <1>6, <3>1
      <4>2. j = 1 /\ ch = <<>> /\ ~RecvOp(o, r) /\ Left(t, c)
        BY <2>1, <4>1
      <4>3. \A a \in DOMAIN v : FALSE
        BY <1>6, <4>2
      <4>4. ~ReleasePending(o, ch, z)
        BY <1>10, <1>12, <4>2, <4>3 DEF ReleasePending
      <4>5. z.holds[o] = "NONE"
        BY <1>2, <3>1 DEF HandedOver
      <4> QED BY <4>2, <4>4, <4>5
    <3>2. CASE ~LateRelease(k)
      <4>1. (\E a \in DOMAIN v : LateRelease(v[a])) <=> (\E a \in DOMAIN y : LateRelease(y[a]))
        <5>1. ASSUME NEW a \in DOMAIN y, LateRelease(y[a]) PROVE \E b \in DOMAIN v : LateRelease(v[b])
          <6>1. a \in 1 .. j /\ a \in Nat /\ a # 1
            BY <1>5, <1>6, <3>2, <5>1
          <6>2. PICK b \in Nat : b = a - 1 /\ b + 1 = a /\ b \in 1 .. j - 1
            BY <6>1
          <6>3. b \in DOMAIN v /\ v[b] = y[a]
            BY <1>6, <1>7, <6>2
          <6> QED BY <5>1, <6>3
        <5> QED BY <1>7, <5>1
      <4>2. ReleasePending(o, ch, z) <=> ReleasePending(o, ch, r)
        BY <1>2, <1>10, <1>11, <1>12, <4>1 DEF ReleasePending
      <4>3. z.holds[o] = r.holds[o]
        BY <1>2, <3>2 DEF HandedOver
      <4> QED BY <2>1, <4>2, <4>3
    <3> QED BY <3>1, <3>2
  <2>4. Len(z.sendq[o]) = j - 1
    BY <1>5, <1>10
  <2>5. z.holds[o] = "NONE" => ch = <<>> /\ ~RecvOp(o, z)
    <3>1. CASE LateRelease(k)
      <4>1. 1 \in DOMAIN y /\ LateRelease(y[1])
        BY <1>5, <1>6, <3>1
      <4> QED BY <1>12, <2>1, <4>1
    <3>2. CASE ~LateRelease(k)
      <4>1. z.holds[o] = r.holds[o]
        BY <1>2, <3>2 DEF HandedOver
      <4> QED BY <1>1, <1>12, <4>1 DEF ReleasesOnce
    <3> QED BY <3>1, <3>2
  <2> QED BY ONLY <1>10, <1>11, <1>12, <2>1, <2>2, <2>3, <2>4, <2>5 DEF ReleasesOnce
<1> QED BY ONLY <1>1, <1>8, <1>9, <1>10, <1>11, <1>13, <1>14, <1>15, <1>16 DEF Granted

LEMMA ChannelTakes ==
  ASSUME Shape, NEW o \in Origins, NEW t, NEW c, NEW n, NEW ch \in Seq(ToT), NEW r, NEW dl,
         Rest(o, r), Phase(o, t, c, n, ch, r, dl), r.sendq[o] # <<>>,
         NEW k, k = Head(r.sendq[o]), NEW s, Delivers(o, r, k, s), NEW late,
         NEW z, z = IF LateRelease(k) THEN Release_lock(s, o, late) ELSE s
  PROVE  Goes(o, t, c, n, ch, r, z, dl)
<1>1. r \in Process /\ r.sendq[o] \in Seq(ToO)
  BY DEF Rest, Process
<1>2. k \in ToO /\ k = r.sendq[o][1] /\ 1 \in DOMAIN r.sendq[o]
  <2>1. PICK y \in Seq(ToO) : y = r.sendq[o] /\ y # <<>>
    BY <1>1
  <2>2. PICK j \in Nat : j = Len(y) /\ DOMAIN y = 1 .. j /\ j >= 1
    BY <2>1, TailFacts
  <2>3. Head(y) \in ToO /\ Head(y) = y[1]
    BY <2>1, TailFacts
  <2> QED BY <2>1, <2>2, <2>3
<1>3. \/ ch = <<>> /\ t.access = "ISSUED" /\ NoEntry(o, r) /\ AnsweredOp(o, t, c, n, r, dl)
      \/ Granted(o, t, c, n, ch, r, dl)
  BY DEF Phase, Idle, Requested, Queued, Refused, Receiving, Answered, AnsweredLock
<1>4. NoEntry(o, r)
  BY <1>3 DEF Granted
<1>5. LateRelease(k) => r.holds[o] # "NONE"
  <2>1. CASE AnsweredOp(o, t, c, n, r, dl)
    BY <2>1 DEF AnsweredOp
  <2>2. CASE Granted(o, t, c, n, ch, r, dl)
    <3>1. ReleasesOnce(o, t, c, ch, r)
      BY <2>2 DEF Granted
    <3> QED BY <1>2, <3>1 DEF ReleasesOnce, ReleasePending
  <2> QED BY <1>3, <2>1, <2>2
<1>6. PICK D, Q, x, y, v, h, a, d : /\ D = r.discarded /\ Q = r.queue /\ x = Append(r.toO[o], k)
                                    /\ y = Tail(r.sendq[o]) /\ v = r.recv[o] /\ h = r.holds[o]
                                    /\ a = r.applied[o] /\ d = r.dup[o]
  OBVIOUS
<1>7. Stands(o, D, Q, s, x, y, v, h, a, d)
  <2>1. Stands(o, r.discarded, r.queue, s, Append(r.toO[o], k), Tail(r.sendq[o]),
                r.recv[o], r.holds[o], r.applied[o], r.dup[o])
    BY <1>2, DeliversRest
  <2> QED BY <1>6, <2>1
<1>8. NoEntry(o, s)
  BY <1>4, <1>6, <1>7 DEF Stands, NoEntry
<1>9. Rest(o, z) /\ D \subseteq z.discarded /\ HandedOver(o, r, z)
  <2>1. CASE LateRelease(k)
    <3>1. h # "NONE" /\ NoEntry(o, s) /\ z = Release_lock(s, o, late)
      BY <1>5, <1>6, <1>8, <2>1
    <3>2. Stands(o, D, z.queue, z, x, y, v, "NONE", a, d) /\ NoEntry(o, z)
      BY ONLY <1>7, <3>1, StandsRelease, Shape, o \in Origins
    <3>3. /\ Rest(o, z) /\ D \subseteq z.discarded /\ z.toO[o] = x /\ z.sendq[o] = y /\ z.recv[o] = v
          /\ z.holds[o] = "NONE" /\ z.applied[o] = a /\ z.dup[o] = d
      BY ONLY <3>2 DEF Stands, Fields
    <3> QED BY <1>6, <2>1, <3>2, <3>3 DEF HandedOver
  <2>2. CASE ~LateRelease(k)
    <3>1. z = s
      BY <2>2
    <3>2. /\ Rest(o, z) /\ D \subseteq z.discarded /\ z.toO[o] = x /\ z.sendq[o] = y /\ z.recv[o] = v
          /\ z.holds[o] = h /\ z.applied[o] = a /\ z.dup[o] = d
      BY ONLY <1>7, <3>1 DEF Stands, Fields
    <3> QED BY <1>6, <1>8, <2>2, <3>1, <3>2 DEF HandedOver
  <2> QED BY <2>1, <2>2
<1>10. Phase(o, t, c, n, ch, z, dl)
  <2>1. CASE ch = <<>> /\ t.access = "ISSUED" /\ NoEntry(o, r) /\ AnsweredOp(o, t, c, n, r, dl)
    <3>1. AnsweredOp(o, t, c, n, z, dl) /\ NoEntry(o, z)
      BY <1>9, <2>1, AnsweredDelivers DEF HandedOver
    <3> QED BY <2>1, <3>1 DEF Phase, Answered
  <2>2. CASE Granted(o, t, c, n, ch, r, dl)
    BY <1>1, <1>9, <2>2, GrantedDelivers DEF Phase
  <2> QED BY <1>3, <2>1, <2>2
<1> QED BY <1>6, <1>9, <1>10 DEF Goes

LEMMA SendqProgressInv ==
  ASSUME Inv, NEW o \in Origins, SendqProgress(o)
  PROVE  Inv'
<1>1. PICK late \in BOOLEAN :
        LET pkt == Head(tgt.sendq[o])
            s == [tgt EXCEPT !.sendq[o] = Tail(@), !.toO[o] = Append(@, pkt)]
        IN /\ ~aborted /\ tgt.sendq[o] # <<>>
           /\ tgt' = IF pkt.type = "get_resp" /\ pkt.unlock THEN Release_lock(s, o, late) ELSE s
           /\ UNCHANGED <<conf, target, call, prog, nops, toT, aborted>>
  BY DEF SendqProgress
<1>2. /\ Shape /\ Rest(o, tgt) /\ Numbered(tgt.applied[o])
      /\ PhaseOf(o, tgt) /\ Settled(o, target[o], call[o], tgt, conf.delay)
  BY <1>1, InvRest
<1>3. target[o] \in Targets /\ nops[o] \in Nat /\ toT[o] \in Seq(ToT) /\ conf.delay \in BOOLEAN
  BY <1>2, ShapeOf
<1>4. PICK ch, z, k : ch = toT[o] /\ z = tgt' /\ k = Head(tgt.sendq[o])
  OBVIOUS
<1>5. PICK s : s = [tgt EXCEPT !.sendq[o] = Tail(@), !.toO[o] = Append(@, k)]
  OBVIOUS
<1>6. Delivers(o, tgt, k, s)
  BY <1>5 DEF Delivers
<1>7. z = IF LateRelease(k) THEN Release_lock(s, o, late) ELSE s
  BY <1>1, <1>4, <1>5 DEF LateRelease
<1>8. Phase(o, target[o], call[o], nops[o], ch, tgt, conf.delay) /\ ch \in Seq(ToT)
  BY <1>2, <1>3, <1>4 DEF PhaseOf
<1>9. Goes(o, target[o], call[o], nops[o], ch, tgt, z, conf.delay)
  BY <1>1, <1>2, <1>4, <1>6, <1>7, <1>8, ChannelTakes
<1>10. Works(o, ch, tgt, tgt')
  BY <1>4, <1>9, GoesWorks
<1>11. toT' = [toT EXCEPT ![o] = ch]
  BY <1>1, <1>2, <1>4 DEF Shape
<1> QED BY <1>1, <1>8, <1>10, <1>11, WorksInv

-----------------------------------------------------------------------------
(* The invariant.                                                          *)

LEMMA InitInv == Init => Inv
<1> SUFFICES ASSUME Init PROVE Inv
  OBVIOUS
<1>1. /\ conf \in Confs /\ conf.pool \in Nat /\ conf.delay \in BOOLEAN
      /\ conf.prog \in [Origins -> Seq(Calls)] /\ \A o \in Origins : Epochs(conf.prog[o])
  BY ConfsAssumption DEF Init
<1>2. /\ target = [o \in Origins |-> NewTarget] /\ call = [o \in Origins |-> "none"]
      /\ prog = conf.prog /\ nops = [o \in Origins |-> 0] /\ toT = [o \in Origins |-> <<>>]
      /\ aborted = FALSE
  BY DEF Init
<1>3. /\ tgt.lock = "NONE" /\ tgt.ref = 0 /\ tgt.queue = <<>> /\ tgt.entered = 0
      /\ tgt.recv = [o \in Origins |-> NoData] /\ tgt.sendq = [o \in Origins |-> <<>>]
      /\ tgt.toO = [o \in Origins |-> <<>>] /\ tgt.applied = [o \in Origins |-> <<>>]
      /\ tgt.holds = [o \in Origins |-> "NONE"] /\ tgt.dup = [o \in Origins |-> 0]
      /\ tgt.discarded = {} /\ tgt.lost = FALSE /\ tgt.stale = FALSE
  BY DEF Init
<1>4. tgt \in Process
  <2>1. NoData \in Recvs /\ "NONE" \in Types
    BY DEF Recvs, Types
  <2>2. /\ tgt.recv \in [Origins -> Recvs] /\ tgt.sendq \in [Origins -> Seq(ToO)]
        /\ tgt.toO \in [Origins -> Seq(ToO)] /\ tgt.applied \in [Origins -> Seq(Nat)]
        /\ tgt.holds \in [Origins -> Types] /\ tgt.dup \in [Origins -> Nat]
    BY <1>3, <2>1
  <2>3. /\ tgt.lock \in Types /\ tgt.ref \in Int /\ tgt.queue \in Seq(Entries) /\ tgt.entered \in Nat
        /\ tgt.discarded \in SUBSET Origins /\ tgt.lost \in BOOLEAN /\ tgt.stale \in BOOLEAN
    <3>1. <<>> \in Seq(Entries) /\ {} \in SUBSET Origins
      OBVIOUS
    <3>2. tgt.queue \in Seq(Entries) /\ tgt.discarded \in SUBSET Origins
      BY ONLY <1>3, <3>1
    <3>3. tgt.lock \in Types /\ tgt.ref \in Int /\ tgt.entered \in Nat
      BY <1>3, <2>1
    <3>4. tgt.lost \in BOOLEAN /\ tgt.stale \in BOOLEAN
      BY ONLY <1>3
    <3> QED BY <3>2, <3>3, <3>4
  <2>4. tgt = [lock |-> tgt.lock, ref |-> tgt.ref, queue |-> tgt.queue, entered |-> tgt.entered,
               recv |-> tgt.recv, sendq |-> tgt.sendq, toO |-> tgt.toO, applied |-> tgt.applied,
               holds |-> tgt.holds, dup |-> tgt.dup, discarded |-> tgt.discarded,
               lost |-> tgt.lost, stale |-> tgt.stale]
    BY DEF Init
  <2> QED BY <2>2, <2>3, <2>4 DEF Process
<1>5. Shape
  <2>1. target \in [Origins -> Targets] /\ nops \in [Origins -> Nat] /\ toT \in [Origins -> Seq(ToT)]
    BY <1>2, NewTargetFacts, EmptyToT
  <2> QED BY <1>1, <1>2, <1>4, <2>1 DEF Shape
<1>6. TargetInv(tgt)
  <2>1. HoldersIn(tgt, "SHARED") = {} /\ HoldersIn(tgt, "EXCLUSIVE") = {}
    BY <1>3 DEF HoldersIn
  <2>2. Exact(tgt)
    BY <1>3, <2>1, FS_EmptySet DEF Exact, Alone
  <2>3. OneEntry(tgt) /\ Blocked(tgt)
    BY <1>3 DEF OneEntry, Blocked
  <2> QED BY <1>3, <2>2, <2>3 DEF TargetInv
<1>7. Len(tgt.queue) <= conf.pool /\ ~tgt.lost /\ ~aborted
  BY <1>1, <1>2, <1>3
<1>8. ASSUME NEW o \in Origins
      PROVE  /\ Origin(o, target[o], call[o], prog[o], tgt, conf.delay)
             /\ Phase(o, target[o], call[o], nops[o], toT[o], tgt, conf.delay)
  <2>1. target[o] = NewTarget /\ call[o] = "none" /\ nops[o] = 0 /\ toT[o] = <<>>
    BY <1>2
  <2>2. Settled(o, NewTarget, "none", tgt, conf.delay)
    BY NewTargetFacts DEF Settled
  <2>3. Follows(NewTarget, "none", prog[o])
    BY <1>1, <1>2, NewTargetFacts DEF Follows, Epochs
  <2>4. /\ tgt.toO[o] = <<>> /\ tgt.sendq[o] = <<>> /\ tgt.recv[o].what = "none" /\ tgt.holds[o] = "NONE"
        /\ tgt.dup[o] = 0 /\ Len(tgt.applied[o]) = 0 /\ NoEntry(o, tgt)
    BY <1>3 DEF NoData, NoEntry
  <2>5. Ids(NewTarget, 0, 0)
    BY NewTargetFacts DEF Ids
  <2>6. Idle(o, NewTarget, "none", 0, <<>>, tgt, conf.delay)
    BY <2>4, <2>5, NewTargetFacts DEF Idle
  <2> QED BY <2>1, <2>2, <2>3, <2>6 DEF Origin, Phase
<1> QED BY <1>5, <1>6, <1>7, <1>8 DEF Inv

LEMMA NextInv == Inv /\ [Next]_vars => Inv'
<1> SUFFICES ASSUME Inv, [Next]_vars PROVE Inv'
  OBVIOUS
<1>1. ASSUME NEW o \in Origins, Step(o) PROVE Inv'
  <2>1. CASE Win_lock(o)
    BY <2>1, WinLockInv
  <2>2. CASE PutOrGet(o)
    BY <2>2, PutOrGetInv
  <2>3. CASE Win_flush(o)
    BY <2>3, WinFlushInv
  <2>4. CASE Win_unlock(o)
    BY <2>4, WinUnlockInv
  <2>5. CASE Return(o)
    BY <2>5, ReturnInv
  <2>6. CASE Make_progress_global(o)
    BY <2>6, MakeProgressGlobalInv
  <2>7. CASE OriginReceive(o)
    BY <2>7, OriginReceiveInv
  <2>8. CASE TargetReceive(o)
    BY <2>8, TargetReceiveInv
  <2>9. CASE DataArrives(o)
    BY <2>9, DataArrivesInv
  <2>10. CASE SendqProgress(o)
    BY <2>10, SendqProgressInv
  <2> QED BY <1>1, <2>1, <2>2, <2>3, <2>4, <2>5, <2>6, <2>7, <2>8, <2>9, <2>10 DEF Step
<1>2. CASE UNCHANGED vars
  BY <1>2 DEF vars, Inv, Shape
<1> QED BY <1>1, <1>2 DEF Next, Over

\* The inductive invariant: at every moment each origin is in one of seven
\* phases of the lock protocol, which tells what is on the way between it and
\* the target, and the target's account of the locks is exact until it forgets
\* one.
THEOREM Invariant == Spec => []Inv
BY InitInv, NextInv, PTL DEF Spec

-----------------------------------------------------------------------------
(* What follows from the invariant.                                        *)

\* Every variable keeps its type, the lock queue stays within its pool and
\* Release_lock leaves entered_count zero.
THEOREM TypeCorrect == Spec => []TypeOK
<1>1. Inv => TypeOK
  <2> SUFFICES ASSUME Inv PROVE TypeOK
    OBVIOUS
  <2>1. Shape /\ TargetInv(tgt) /\ Len(tgt.queue) <= conf.pool
    BY DEF Inv
  <2>2. ASSUME NEW o \in Origins
        PROVE  /\ target[o].access \in {"NONE", "CALLED", "ISSUED", "GRANTED"}
               /\ target[o].type \in Locks \cup {"NONE"}
               /\ target[o].sync \in {"NONE", "FLUSH", "UNLOCK"}
               /\ target[o].acks \in Nat /\ target[o].unflushed \in Nat
               /\ Len(target[o].user) <= 1
               /\ call[o] \in {"none", "flush", "unlock"}
               /\ prog[o] \in Seq(Calls)
    <3>1. target[o] \in Targets /\ call[o] \in {"none", "flush", "unlock"} /\ prog[o] \in Seq(Calls)
      BY <2>1 DEF Shape
    <3>2. Len(target[o].user) <= 1
      BY DEF Inv, Origin, Settled
    <3> QED BY <3>1, <3>2 DEF Targets, Types
  <2>3. tgt.lock \in Locks \cup {"NONE"} /\ tgt.ref \in Nat /\ tgt.entered = 0 /\ conf \in Confs
    BY <2>1 DEF Shape, Process, Types, TargetInv
  <2> QED BY <2>1, <2>2, <2>3 DEF TypeOK
<1> QED BY <1>1, Invariant, PTL

\* The target's current_lock_type and shared_lock_ref_cnt tell what is held, and
\* an exclusive lock is held alone, until Release_lock forgets a lock; that
\* happens only in jobs that delay operations to piggyback on them.
THEOREM LocksExclusive == Spec => []MutualExclusion
<1>1. Inv => MutualExclusion
  <2> SUFFICES ASSUME Inv PROVE MutualExclusion
    OBVIOUS
  <2>1. (tgt.lost => conf.delay) /\ (tgt.lost \/ Exact(tgt))
    BY DEF Inv, TargetInv
  <2>2. \A type : Holders(type) = HoldersIn(tgt, type)
    BY DEF Holders, HoldersIn
  <2> QED BY <2>1, <2>2 DEF MutualExclusion, Exact, Alone, ExclusiveLock
<1> QED BY <1>1, Invariant, PTL

\* What is sent without a request for the lock finds the lock held.
LEMMA OpsFindLock ==
  ASSUME NEW o, NEW t, NEW c, NEW n, NEW ch \in Seq(ToT), NEW s, NEW dl,
         Phase(o, t, c, n, ch, s, dl), NEW i \in DOMAIN ch, ch[i].type \in OpKinds, ch[i].lock = "NONE"
  PROVE  s.holds[o] # "NONE"
<1>1. ch # <<>> /\ OldUnlock.type \notin OpKinds
  BY DEF OldUnlock, OpKinds
<1>2. CASE Idle(o, t, c, n, ch, s, dl)
  BY <1>1, <1>2 DEF Idle
<1>3. CASE Requested(o, t, c, n, ch, s, dl)
  <2>1. PICK l \in Nat : l = Len(ch) /\ DOMAIN ch = 1 .. l
    OBVIOUS
  <2>2. Request(t, c, ch[l], dl)
    BY <1>3, <2>1 DEF Requested
  <2>3. i # l
    BY <2>2, PktTypes DEF Request, LockOp
  <2>4. l = 1 \/ (l = 2 /\ ch[1] = OldUnlock)
    BY <1>3, <2>1 DEF Requested
  <2>5. l = 2 /\ i = 1
    BY <2>1, <2>3, <2>4
  <2> QED BY <1>1, <2>4, <2>5
<1>4. CASE Granted(o, t, c, n, ch, s, dl)
  BY <1>1, <1>4 DEF Granted, ReleasesOnce
<1> QED BY <1>1, <1>2, <1>3, <1>4 DEF Phase, Queued, Refused, Receiving, Answered

\* An operation is performed once and in the order of the calls, however often
\* it is sent, and never without the lock; when MPI_Win_flush or MPI_Win_unlock
\* may return, all operations are performed and all gets answered.
THEOREM CompletionIsRemote == Spec => []RemoteCompletion
<1>1. Inv => RemoteCompletion
  <2> SUFFICES ASSUME Inv, NEW o \in Origins
               PROVE  /\ tgt.applied[o] = [i \in 1 .. Len(tgt.applied[o]) |-> i]
                      /\ \A op \in Range(toT[o]) :
                           op.type \in OpKinds /\ op.lock = "NONE" => tgt.holds[o] # "NONE"
                      /\ call[o] # "none" /\ ops_completion(target[o])
                           => /\ Len(tgt.applied[o]) = nops[o]
                              /\ \A i \in DOMAIN tgt.toO[o] : tgt.toO[o][i].type # "get_resp"
    BY DEF RemoteCompletion
  <2>1. Shape /\ TargetInv(tgt) /\ Settled(o, target[o], call[o], tgt, conf.delay)
    BY DEF Inv, Origin
  <2>2. /\ target[o] \in Targets /\ nops[o] \in Nat /\ toT[o] \in Seq(ToT) /\ conf.delay \in BOOLEAN
        /\ tgt \in Process
    BY <2>1, ShapeOf DEF Shape
  <2>3. PhaseOf(o, tgt) \/ Failed(o, target[o], call[o], nops[o], toT[o], tgt, conf.delay)
    BY DEF Inv, PhaseOf
  <2>4. tgt.applied[o] = [i \in 1 .. Len(tgt.applied[o]) |-> i]
    <3>1. PICK a \in Seq(Nat) : a = tgt.applied[o]
      BY <2>2 DEF Process
    <3>2. DOMAIN a = 1 .. Len(a) /\ \A i \in DOMAIN a : a[i] = i
      BY <2>1, <3>1 DEF TargetInv
    <3>3. a = [i \in 1 .. Len(a) |-> i]
      <4>1. a = [i \in DOMAIN a |-> a[i]]
        BY <3>1
      <4> QED BY ONLY <3>2, <4>1
    <3> QED BY <3>1, <3>3
  <2>5. ASSUME NEW op \in Range(toT[o]), op.type \in OpKinds, op.lock = "NONE"
        PROVE  tgt.holds[o] # "NONE"
    <3>1. PICK i \in DOMAIN toT[o] : op = toT[o][i]
      BY DEF Range
    <3>2. PhaseOf(o, tgt)
      BY <2>3, <2>5, <3>1 DEF Failed
    <3>3. Phase(o, target[o], call[o], nops[o], toT[o], tgt, conf.delay)
      BY <3>2 DEF PhaseOf
    <3>4. toT[o][i].type \in OpKinds /\ toT[o][i].lock = "NONE"
      BY <2>5, <3>1
    <3> QED BY <2>2, <3>3, <3>4, OpsFindLock
  <2>6. ASSUME call[o] # "none", ops_completion(target[o])
        PROVE  /\ Len(tgt.applied[o]) = nops[o]
               /\ \A i \in DOMAIN tgt.toO[o] : tgt.toO[o][i].type # "get_resp"
    <3>1. target[o].access \notin {"NONE", "CALLED", "ISSUED"}
      BY <2>1, <2>6 DEF Settled, ops_completion
    <3>2. Granted(o, target[o], call[o], nops[o], toT[o], tgt, conf.delay)
      BY <2>3, <3>1 DEF PhaseOf, Phase, Idle, Requested, Queued, Refused, Receiving, Answered, Failed
    <3>3. tgt.toO[o] = <<>> /\ nops[o] = Len(tgt.applied[o])
      BY <2>2, <2>6, <3>2, Completed
    <3> QED BY <3>3
  <2> QED BY <2>4, <2>5, <2>6
<1> QED BY <1>1, Invariant, PTL

-----------------------------------------------------------------------------
(* The packets that are counted.                                           *)

LEMMA SetCount ==
  ASSUME NEW S, NEW x
  PROVE  (S = {} => Count(S) = 0) /\ (S = {x} => Count(S) = 1)
BY FS_EmptySet, FS_Singleton DEF Count

LEMMA AcksFew ==
  /\ Acks(<<>>) = 0
  /\ \A a : Acks(<<a>>) = Bit(a.ack)
  /\ \A a, w : ~w.ack => Acks(<<w, a>>) = Bit(a.ack)
<1>1. Acks(<<>>) = 0
  <2>1. {i \in DOMAIN (<<>>) : (<<>>)[i].ack} = {}
    OBVIOUS
  <2> QED BY <2>1, SetCount DEF Acks
<1>2. ASSUME NEW a PROVE Acks(<<a>>) = Bit(a.ack)
  <2>1. CASE a.ack
    <3>1. {i \in DOMAIN (<<a>>) : (<<a>>)[i].ack} = {1}
      BY <2>1
    <3> QED BY <2>1, <3>1, SetCount DEF Acks, Bit
  <2>2. CASE ~a.ack
    <3>1. {i \in DOMAIN (<<a>>) : (<<a>>)[i].ack} = {}
      BY <2>2
    <3> QED BY <2>2, <3>1, SetCount DEF Acks, Bit
  <2> QED BY <2>1, <2>2
<1>3. ASSUME NEW a, NEW w, ~w.ack PROVE Acks(<<w, a>>) = Bit(a.ack)
  <2>1. CASE a.ack
    <3>1. {i \in DOMAIN (<<w, a>>) : (<<w, a>>)[i].ack} = {2}
      BY <1>3, <2>1
    <3> QED BY <2>1, <3>1, SetCount DEF Acks, Bit
  <2>2. CASE ~a.ack
    <3>1. {i \in DOMAIN (<<w, a>>) : (<<w, a>>)[i].ack} = {}
      BY <1>3, <2>2
    <3> QED BY <2>2, <3>1, SetCount DEF Acks, Bit
  <2> QED BY <2>1, <2>2
<1> QED BY <1>1, <1>2, <1>3

LEMMA AcksPlain ==
  ASSUME NEW q \in Seq(ToO), Plain(q)
  PROVE  Acks(q) = Len(q)
<1>1. PICK l \in Nat : l = Len(q) /\ DOMAIN q = 1 .. l
  OBVIOUS
<1>2. {i \in DOMAIN q : q[i].ack} = 1 .. l
  BY <1>1 DEF Plain
<1>3. Cardinality(1 .. l) = l
  BY FS_Interval
<1> QED BY <1>1, <1>2, <1>3 DEF Acks, Count

\* The packets that carry a lock request, and those that answer one.
Asking(ch) == Count({i \in DOMAIN ch : ch[i].type \in OpKinds \cup {"lock"} /\ ch[i].lock # "NONE"})
Deciding(p) == p.flag \in {"GRANTED", "DISCARDED"}
Decisions(pkts) == Count({i \in DOMAIN pkts : pkts[i].flag \in {"GRANTED", "DISCARDED"}})

LEMMA DecisionsFew ==
  /\ Decisions(<<>>) = 0
  /\ \A a : Decisions(<<a>>) = Bit(Deciding(a))
  /\ \A a, w : ~Deciding(w) => Decisions(<<w, a>>) = Bit(Deciding(a))
<1>1. Decisions(<<>>) = 0
  <2>1. {i \in DOMAIN (<<>>) : (<<>>)[i].flag \in {"GRANTED", "DISCARDED"}} = {}
    OBVIOUS
  <2> QED BY <2>1, SetCount DEF Decisions
<1>2. ASSUME NEW a PROVE Decisions(<<a>>) = Bit(Deciding(a))
  <2>1. CASE Deciding(a)
    <3>1. {i \in DOMAIN (<<a>>) : (<<a>>)[i].flag \in {"GRANTED", "DISCARDED"}} = {1}
      BY <2>1 DEF Deciding
    <3> QED BY <2>1, <3>1, SetCount DEF Decisions, Bit
  <2>2. CASE ~Deciding(a)
    <3>1. {i \in DOMAIN (<<a>>) : (<<a>>)[i].flag \in {"GRANTED", "DISCARDED"}} = {}
      BY <2>2 DEF Deciding
    <3> QED BY <2>2, <3>1, SetCount DEF Decisions, Bit
  <2> QED BY <2>1, <2>2
<1>3. ASSUME NEW a, NEW w, ~Deciding(w) PROVE Decisions(<<w, a>>) = Bit(Deciding(a))
  <2>1. CASE Deciding(a)
    <3>1. {i \in DOMAIN (<<w, a>>) : (<<w, a>>)[i].flag \in {"GRANTED", "DISCARDED"}} = {2}
      BY <1>3, <2>1 DEF Deciding
    <3> QED BY <2>1, <3>1, SetCount DEF Decisions, Bit
  <2>2. CASE ~Deciding(a)
    <3>1. {i \in DOMAIN (<<w, a>>) : (<<w, a>>)[i].flag \in {"GRANTED", "DISCARDED"}} = {}
      BY <1>3, <2>2 DEF Deciding
    <3> QED BY <2>2, <3>1, SetCount DEF Decisions, Bit
  <2> QED BY <2>1, <2>2
<1> QED BY <1>1, <1>2, <1>3

LEMMA DecisionsPlain ==
  ASSUME NEW q, Plain(q)
  PROVE  Decisions(q) = 0
<1>1. {i \in DOMAIN q : q[i].flag \in {"GRANTED", "DISCARDED"}} = {}
  BY DEF Plain
<1> QED BY <1>1, SetCount DEF Decisions

\* The entries of o in the queue, and those whose operation is acknowledged.
EntriesOf(o, s) == Count({i \in DOMAIN s.queue : s.queue[i].o = o})
AwaitedOf(o, s) == Count({i \in DOMAIN s.queue : s.queue[i].o = o /\ s.queue[i].op.type # "lock"
                                                 /\ WantsAck(s.queue[i].op)})

LEMMA QueueCounts ==
  ASSUME NEW o, NEW s, OneEntry(s)
  PROVE  /\ NoEntry(o, s) => EntriesOf(o, s) = 0 /\ AwaitedOf(o, s) = 0
         /\ \A i \in DOMAIN s.queue : s.queue[i].o = o =>
              /\ EntriesOf(o, s) = 1
              /\ AwaitedOf(o, s) = Bit(s.queue[i].op.type # "lock" /\ WantsAck(s.queue[i].op))
<1> DEFINE E == {i \in DOMAIN s.queue : s.queue[i].o = o}
           A == {i \in DOMAIN s.queue : s.queue[i].o = o /\ s.queue[i].op.type # "lock"
                                        /\ WantsAck(s.queue[i].op)}
<1>1. ASSUME NoEntry(o, s) PROVE EntriesOf(o, s) = 0 /\ AwaitedOf(o, s) = 0
  <2>1. E = {} /\ A = {}
    BY <1>1 DEF NoEntry
  <2> QED BY <2>1, SetCount DEF EntriesOf, AwaitedOf
<1>2. ASSUME NEW i \in DOMAIN s.queue, s.queue[i].o = o
      PROVE  /\ EntriesOf(o, s) = 1
             /\ AwaitedOf(o, s) = Bit(s.queue[i].op.type # "lock" /\ WantsAck(s.queue[i].op))
  <2>1. \A j \in DOMAIN s.queue : s.queue[j].o = o => j = i
    BY <1>2 DEF OneEntry
  <2>2. E = {i}
    BY <1>2, <2>1
  <2>3. CASE s.queue[i].op.type # "lock" /\ WantsAck(s.queue[i].op)
    <3>1. A = {i}
      BY <1>2, <2>1, <2>3
    <3> QED BY <2>2, <2>3, <3>1, SetCount DEF EntriesOf, AwaitedOf, Bit
  <2>4. CASE ~(s.queue[i].op.type # "lock" /\ WantsAck(s.queue[i].op))
    <3>1. A = {}
      BY <2>1, <2>4
    <3> QED BY <2>2, <2>4, <3>1, SetCount DEF EntriesOf, AwaitedOf, Bit
  <2> QED BY <2>3, <2>4
<1> QED BY <1>1, <1>2

\* The acknowledgements and the lock requests of an origin are all counted.
Tally(o, ch, s, d, a, b, w, e, r) ==
  /\ d = s.dup[o] /\ a = Acks(s.toO[o]) /\ b = Acks(s.sendq[o]) /\ w = CountWants(ch)
  /\ e = AwaitedOf(o, s) /\ r = Bit(RecvOp(o, s) /\ WantsAck(s.recv[o].op))

Accounted(o, t, ch, s) ==
  \E d, a, b, w, e, r \in Nat :
    Tally(o, ch, s, d, a, b, w, e, r) /\ t.acks = d + a + b + w + e + r

LockTally(o, ch, s, k, e, r, a, b) ==
  /\ k = Asking(ch) /\ e = EntriesOf(o, s) /\ r = Bit(RecvOp(o, s) /\ s.recv[o].op.lock # "NONE")
  /\ a = Decisions(s.toO[o]) /\ b = Decisions(s.sendq[o])

LockCounted(o, t, ch, s) ==
  \E k, e, r, a, b \in Nat :
    LockTally(o, ch, s, k, e, r, a, b) /\ k + e + r + (a + b) = (IF t.access = "ISSUED" THEN 1 ELSE 0)

LEMMA PacketFacts ==
  /\ \A f : ~LockAck(f).ack /\ LockAck(f).flag = f
  /\ \A f : ~LockOpAck(f, FALSE).ack /\ LockOpAck(f, FALSE).flag = f
  /\ \A q \in OpPkt : q.lock # "NONE" => /\ Answer(q).flag = "GRANTED" /\ Bit(Answer(q).ack) = Bit(WantsAck(q))
                                         /\ Answer(q) \in ToO
<1>1. ASSUME NEW q \in OpPkt, q.lock # "NONE"
      PROVE  /\ Answer(q).flag = "GRANTED" /\ Bit(Answer(q).ack) = Bit(WantsAck(q))
             /\ Answer(q) \in ToO
  <2>1. PICK w \in BOOLEAN : w = WantsAck(q)
    BY DEF WantsAck, OpPkt
  <2>2. CASE IsRead(q)
    <3>1. Answer(q) = [type |-> "get_resp", flag |-> "GRANTED", ack |-> w, unlock |-> q.unlock]
      BY <1>1, <2>1, <2>2 DEF Answer, GetResp
    <3> QED BY <2>1, <3>1 DEF ToO, RespPkt, OpPkt, Flags
  <2>3. CASE ~IsRead(q)
    <3>1. Answer(q) = [type |-> "lock_op_ack", flag |-> "GRANTED", ack |-> w]
      BY <2>1, <2>3 DEF Answer, LockOpAck
    <3> QED BY <2>1, <3>1 DEF ToO, AckPkt, Flags
  <2> QED BY <2>2, <2>3
<1> QED BY <1>1 DEF LockAck, LockOpAck

LEMMA AskingFacts ==
  /\ Asking(<<>>) = 0 /\ Asking(<<OldUnlock>>) = 0
  /\ \A t, c, dl, p : Request(t, c, p, dl) /\ p \in ToT => Asking(<<p>>) = 1 /\ Asking(<<OldUnlock, p>>) = 1
<1>1. OldUnlock.type \notin OpKinds \cup {"lock"}
  BY DEF OldUnlock, OpKinds
<1>2. Asking(<<>>) = 0
  <2>1. {i \in DOMAIN (<<>>) : (<<>>)[i].type \in OpKinds \cup {"lock"} /\ (<<>>)[i].lock # "NONE"} = {}
    OBVIOUS
  <2> QED BY <2>1, SetCount DEF Asking
<1>3. Asking(<<OldUnlock>>) = 0
  <2>1. PICK u : u = OldUnlock
    OBVIOUS
  <2>2. {i \in DOMAIN (<<u>>) : (<<u>>)[i].type \in OpKinds \cup {"lock"} /\ (<<u>>)[i].lock # "NONE"} = {}
    BY <1>1, <2>1
  <2> QED BY <2>1, <2>2, SetCount DEF Asking
<1>4. ASSUME NEW t, NEW c, NEW dl, NEW p, Request(t, c, p, dl)
      PROVE  Asking(<<p>>) = 1 /\ Asking(<<OldUnlock, p>>) = 1
  <2>1. p.type \in OpKinds \cup {"lock"} /\ p.lock # "NONE"
    BY <1>4, PktTypes DEF Request, LockOp, LockReq, Locks
  <2>2. {i \in DOMAIN (<<p>>) : (<<p>>)[i].type \in OpKinds \cup {"lock"} /\ (<<p>>)[i].lock # "NONE"} = {1}
    BY <2>1
  <2>3. PICK u : u = OldUnlock
    OBVIOUS
  <2>4. {i \in DOMAIN (<<u, p>>) : (<<u, p>>)[i].type \in OpKinds \cup {"lock"} /\ (<<u, p>>)[i].lock # "NONE"} = {2}
    BY <1>1, <2>1, <2>3
  <2> QED BY <2>2, <2>3, <2>4, SetCount DEF Asking
<1> QED BY <1>2, <1>3, <1>4

LEMMA CountTwo ==
  ASSUME NEW p, OldUnlock \in ToT, p \in ToT
  PROVE  CountWants(<<p>>) = Bit(Wants(p)) /\ CountWants(<<OldUnlock, p>>) = Bit(Wants(p))
<1>1. CountWants(<<p>>) = Bit(Wants(p))
  BY CountOne
<1>2. PICK u, ch : u = OldUnlock /\ ch = <<u, p>>
  OBVIOUS
<1>3. Head(ch) = u /\ Tail(ch) = <<p>> /\ ch \in Seq(ToT) /\ ch # <<>>
  BY <1>2, TwoElements
<1>4. CountWants(ch) = Bit(Wants(Head(ch))) + CountWants(Tail(ch))
  BY <1>3, CountTail
<1>5. Bit(Wants(u)) = 0 /\ Bit(Wants(p)) \in Nat
  BY <1>2, BitWants DEF Bit
<1> QED BY <1>1, <1>2, <1>3, <1>4, <1>5

\* The phases in which the target has a request of o, or has refused it.
LEMMA RequestCounts ==
  ASSUME NEW o \in Origins, NEW t, NEW c, NEW n, NEW ch \in Seq(ToT), NEW s \in Process, NEW dl,
         OneEntry(s), Requested(o, t, c, n, ch, s, dl)
  PROVE  Accounted(o, t, ch, s) /\ LockCounted(o, t, ch, s)
<1>1. PICK d \in Nat : d = s.dup[o]
  BY DEF Process
<1>2. PICK l \in Nat : l = Len(ch) /\ DOMAIN ch = 1 .. l
  OBVIOUS
<1>3. PICK p : p = ch[l]
  OBVIOUS
<1>4. OldUnlock \in ToT
  BY DEF OldUnlock, ToT, UnlockPkt
<1>5. ch = <<p>> \/ ch = <<OldUnlock, p>>
  <2>1. CASE l = 1
    BY <1>2, <1>3, <2>1
  <2>2. CASE l = 2
    <3>1. ch[1] = OldUnlock
      BY <1>2, <2>2 DEF Requested
    <3> QED BY <1>2, <1>3, <2>2, <3>1
  <2> QED BY <1>2, <2>1, <2>2 DEF Requested
<1>6. p \in ToT /\ Request(t, c, p, dl)
  <2>1. l \in DOMAIN ch
    BY <1>2 DEF Requested
  <2> QED BY <1>2, <1>3, <2>1 DEF Requested
<1>7. PICK w \in Nat : w = Bit(Wants(p))
  BY DEF Bit
<1>8. CountWants(ch) = w /\ Asking(ch) = 1
  BY <1>4, <1>5, <1>6, <1>7, CountTwo, AskingFacts
<1>9. /\ s.toO[o] = <<>> /\ s.sendq[o] = <<>> /\ NoEntry(o, s) /\ ~RecvOp(o, s)
      /\ t.access = "ISSUED" /\ t.acks = d + w
  BY <1>1, <1>2, <1>3, <1>7 DEF Requested, RecvOp
<1>10. Tally(o, ch, s, d, 0, 0, w, 0, 0)
  BY <1>1, <1>8, <1>9, AcksFew, QueueCounts DEF Tally, Bit
<1>11. LockTally(o, ch, s, 1, 0, 0, 0, 0)
  BY <1>8, <1>9, DecisionsFew, QueueCounts DEF LockTally, Bit
<1>12. Accounted(o, t, ch, s)
  <2>1. t.acks = d + 0 + 0 + w + 0 + 0
    BY <1>9
  <2> QED BY <1>10, <2>1 DEF Accounted
<1>13. LockCounted(o, t, ch, s)
  <2>1. 1 + 0 + 0 + (0 + 0) = IF t.access = "ISSUED" THEN 1 ELSE 0
    BY <1>9
  <2> QED BY <1>11, <2>1 DEF LockCounted
<1> QED BY <1>12, <1>13

\* The answers that decide nothing.
LEMMA NoteFacts ==
  \A p \in {LockAck("QUEUED"), LockOpAck("QUEUED", FALSE), LockOpAck("DATA_DISCARDED", FALSE)} :
    /\ ~p.ack /\ ~Deciding(p)
    /\ Acks(<<p>>) = 0 /\ Decisions(<<p>>) = 0
<1> SUFFICES ASSUME NEW p, p \in {LockAck("QUEUED"), LockOpAck("QUEUED", FALSE), LockOpAck("DATA_DISCARDED", FALSE)}
             PROVE  /\ ~p.ack /\ ~Deciding(p)
                    /\ Acks(<<p>>) = 0 /\ Decisions(<<p>>) = 0
  OBVIOUS
<1>1. ~p.ack /\ p.flag \in {"QUEUED", "DATA_DISCARDED"}
  BY DEF LockAck, LockOpAck
<1>2. ~Deciding(p)
  BY <1>1 DEF Deciding
<1>3. Bit(p.ack) = 0 /\ Bit(Deciding(p)) = 0
  BY <1>1, <1>2 DEF Bit
<1> QED BY <1>1, <1>2, <1>3, AcksFew, DecisionsFew

LEMMA IdleCounts ==
  ASSUME NEW o \in Origins, NEW t, NEW c, NEW n, NEW ch \in Seq(ToT), NEW s \in Process, NEW dl,
         OneEntry(s), Idle(o, t, c, n, ch, s, dl)
  PROVE  Accounted(o, t, ch, s) /\ LockCounted(o, t, ch, s)
<1>1. PICK d \in Nat : d = s.dup[o]
  BY DEF Process
<1>2. CountWants(<<OldUnlock>>) = 0
  BY CountOne, BitWants
<1>3. CountWants(ch) = 0 /\ Asking(ch) = 0
  BY <1>2, CountEmpty, AskingFacts DEF Idle
<1>4. /\ s.toO[o] = <<>> /\ s.sendq[o] = <<>> /\ NoEntry(o, s) /\ ~RecvOp(o, s)
      /\ t.access # "ISSUED" /\ t.acks = d
  BY <1>1 DEF Idle, RecvOp
<1>5. Tally(o, ch, s, d, 0, 0, 0, 0, 0)
  BY <1>1, <1>3, <1>4, AcksFew, QueueCounts DEF Tally, Bit
<1>6. LockTally(o, ch, s, 0, 0, 0, 0, 0)
  BY <1>3, <1>4, DecisionsFew, QueueCounts DEF LockTally, Bit
<1>7. Accounted(o, t, ch, s)
  <2>1. t.acks = d + 0 + 0 + 0 + 0 + 0
    BY <1>4
  <2> QED BY <1>5, <2>1 DEF Accounted
<1>8. LockCounted(o, t, ch, s)
  <2>1. 0 + 0 + 0 + (0 + 0) = IF t.access = "ISSUED" THEN 1 ELSE 0
    BY <1>4
  <2> QED BY <1>6, <2>1 DEF LockCounted
<1> QED BY <1>7, <1>8

LEMMA QueuedCounts ==
  ASSUME NEW o \in Origins, NEW t, NEW c, NEW n, NEW ch \in Seq(ToT), NEW s \in Process, NEW dl,
         OneEntry(s), Queued(o, t, c, n, ch, s, dl)
  PROVE  Accounted(o, t, ch, s) /\ LockCounted(o, t, ch, s)
<1>1. PICK d \in Nat : d = s.dup[o]
  BY DEF Process
<1>2. PICK i \in DOMAIN s.queue : s.queue[i].o = o /\ QueuedEntry(o, t, c, s, s.queue[i], dl)
  BY DEF Queued
<1>3. PICK x : x = s.queue[i]
  OBVIOUS
<1>4. PICK e \in Nat : e = Bit(x.op.type # "lock" /\ WantsAck(x.op))
  BY DEF Bit
<1>5. EntriesOf(o, s) = 1 /\ AwaitedOf(o, s) = e
  BY <1>2, <1>3, <1>4, QueueCounts
<1>6. t.acks = d + e /\ ~RecvOp(o, s)
  <2>1. CASE QueuedLock(o, t, s, x)
    <3>1. x.op.type = "lock"
      BY <2>1, PktTypes DEF QueuedLock
    <3>2. e = 0
      BY <1>4, <3>1 DEF Bit
    <3> QED BY <1>1, <2>1, <3>2 DEF QueuedLock, RecvOp
  <2>2. CASE QueuedOp(o, t, c, s, x, dl)
    <3>1. x.op.type # "lock"
      BY <2>2, PktTypes DEF QueuedOp, LockOp, OpKinds
    <3>2. e = Bit(WantsAck(x.op))
      BY <1>4, <3>1 DEF Bit
    <3> QED BY <1>1, <2>2, <3>2 DEF QueuedOp, RecvOp
  <2>3. CASE QueuedAlone(o, t, s, x)
    <3>1. x.op.type = "lock"
      BY <2>3 DEF QueuedAlone, LockOnly
    <3>2. e = 0
      BY <1>4, <3>1 DEF Bit
    <3> QED BY <1>1, <2>3, <3>2 DEF QueuedAlone, RecvOp
  <2> QED BY <1>2, <1>3, <2>1, <2>2, <2>3 DEF QueuedEntry
<1>7. Acks(s.toO[o]) = 0 /\ Decisions(s.toO[o]) = 0
  <2>1. PICK a, b, c1 : /\ a = LockAck("QUEUED") /\ b = LockOpAck("QUEUED", FALSE)
                        /\ c1 = LockOpAck("DATA_DISCARDED", FALSE)
    OBVIOUS
  <2>2. s.toO[o] \in {<<>>, <<a>>, <<b>>, <<c1>>}
    BY <1>2, <1>3, <2>1 DEF QueuedEntry, QueuedLock, QueuedOp, QueuedAlone
  <2>3. /\ Acks(<<a>>) = 0 /\ Acks(<<b>>) = 0 /\ Acks(<<c1>>) = 0
        /\ Decisions(<<a>>) = 0 /\ Decisions(<<b>>) = 0 /\ Decisions(<<c1>>) = 0
    BY <2>1, NoteFacts
  <2> QED BY <2>2, <2>3, AcksFew, DecisionsFew
<1>8. ch = <<>> /\ s.sendq[o] = <<>> /\ t.access = "ISSUED"
  BY DEF Queued
<1>9. Tally(o, ch, s, d, 0, 0, 0, e, 0)
  BY <1>1, <1>5, <1>6, <1>7, <1>8, AcksFew, CountEmpty DEF Tally, Bit
<1>10. LockTally(o, ch, s, 0, 1, 0, 0, 0)
  BY <1>5, <1>6, <1>7, <1>8, DecisionsFew, AskingFacts DEF LockTally, Bit
<1>11. Accounted(o, t, ch, s)
  <2>1. t.acks = d + 0 + 0 + 0 + e + 0
    BY <1>6
  <2> QED BY <1>9, <2>1 DEF Accounted
<1>12. LockCounted(o, t, ch, s)
  <2>1. 0 + 1 + 0 + (0 + 0) = IF t.access = "ISSUED" THEN 1 ELSE 0
    BY <1>8
  <2> QED BY <1>10, <2>1 DEF LockCounted
<1> QED BY <1>11, <1>12

\* The phases in which the answer is on its way, or will be once the data of
\* the operation have come.
LEMMA DecidedCounts ==
  ASSUME NEW o \in Origins, NEW t, NEW c, NEW n, NEW ch \in Seq(ToT), NEW s \in Process, NEW dl, OneEntry(s),
         \/ Refused(o, t, c, n, ch, s, dl)
         \/ Receiving(o, t, c, n, ch, s, dl)
         \/ Answered(o, t, c, n, ch, s, dl)
  PROVE  Accounted(o, t, ch, s) /\ LockCounted(o, t, ch, s)
<1>1. PICK d \in Nat : d = s.dup[o]
  BY DEF Process
<1>2. ch = <<>> /\ t.access = "ISSUED" /\ NoEntry(o, s)
  BY DEF Refused, Receiving, Answered
<1>3. EntriesOf(o, s) = 0 /\ AwaitedOf(o, s) = 0 /\ CountWants(ch) = 0 /\ Asking(ch) = 0
  BY <1>2, QueueCounts, CountEmpty, AskingFacts
<1>4. ASSUME NEW a \in Nat, NEW b \in Nat, NEW r \in Nat, NEW x \in Nat, NEW y \in Nat, NEW z \in Nat,
              a = Acks(s.toO[o]), b = Acks(s.sendq[o]), r = Bit(RecvOp(o, s) /\ WantsAck(s.recv[o].op)),
              z = Bit(RecvOp(o, s) /\ s.recv[o].op.lock # "NONE"),
              x = Decisions(s.toO[o]), y = Decisions(s.sendq[o]),
              t.acks = d + a + b + r, x + y + z = 1
      PROVE  Accounted(o, t, ch, s) /\ LockCounted(o, t, ch, s)
  <2>1. Tally(o, ch, s, d, a, b, 0, 0, r)
    BY <1>1, <1>3, <1>4 DEF Tally
  <2>2. LockTally(o, ch, s, 0, 0, z, x, y)
    BY <1>3, <1>4 DEF LockTally
  <2>3. t.acks = d + a + b + 0 + 0 + r /\ 0 + 0 + z + (x + y) = IF t.access = "ISSUED" THEN 1 ELSE 0
    BY <1>2, <1>4
  <2> QED BY <2>1, <2>2, <2>3 DEF Accounted, LockCounted
<1>5. Acks(<<>>) = 0 /\ Decisions(<<>>) = 0
  BY AcksFew, DecisionsFew
<1>6. CASE Refused(o, t, c, n, ch, s, dl)
  <2>1. PICK p : s.toO[o] = <<p>> /\ p \in {LockAck("DISCARDED"), LockOpAck("DISCARDED", FALSE)}
    BY <1>6 DEF Refused
  <2>2. ~p.ack /\ Deciding(p)
    BY <2>1, PacketFacts DEF Deciding
  <2>3. Acks(<<p>>) = 0 /\ Decisions(<<p>>) = 1
    BY <2>2, AcksFew, DecisionsFew DEF Bit
  <2>4. s.sendq[o] = <<>> /\ ~RecvOp(o, s) /\ t.acks = d
    BY <1>1, <1>6 DEF Refused, RecvOp
  <2>5. Bit(RecvOp(o, s) /\ WantsAck(s.recv[o].op)) = 0 /\ Bit(RecvOp(o, s) /\ s.recv[o].op.lock # "NONE") = 0
    BY <2>4 DEF Bit
  <2>6. t.acks = d + 0 + 0 + 0
    BY <2>4
  <2> QED BY <1>4, <1>5, <2>1, <2>3, <2>4, <2>5, <2>6
<1>7. CASE Receiving(o, t, c, n, ch, s, dl)
  <2>1. PICK q : q = s.recv[o].op /\ LockOp(t, c, q, dl)
    BY <1>7 DEF Receiving
  <2>2. PICK w \in Nat : w = Bit(WantsAck(q))
    BY DEF Bit
  <2>3. RecvOp(o, s) /\ q.lock # "NONE" /\ s.toO[o] = <<>> /\ s.sendq[o] = <<>> /\ t.acks = d + w
    BY <1>1, <1>7, <2>1, <2>2 DEF Receiving, RecvOp, LockOp
  <2>4. Bit(RecvOp(o, s) /\ WantsAck(s.recv[o].op)) = w /\ Bit(RecvOp(o, s) /\ s.recv[o].op.lock # "NONE") = 1
    BY <2>1, <2>2, <2>3 DEF Bit
  <2>5. t.acks = d + 0 + 0 + w /\ 0 + 0 + 1 = 1
    BY <2>3
  <2> QED BY <1>4, <1>5, <2>3, <2>4, <2>5
<1>8. CASE Answered(o, t, c, n, ch, s, dl) /\ AnsweredLock(o, t, n, s)
  <2>1. s.sendq[o] = <<>> /\ ~RecvOp(o, s) /\ t.acks = d
    BY <1>1, <1>8 DEF AnsweredLock, RecvOp
  <2>2. Bit(RecvOp(o, s) /\ WantsAck(s.recv[o].op)) = 0 /\ Bit(RecvOp(o, s) /\ s.recv[o].op.lock # "NONE") = 0
    BY <2>1 DEF Bit
  <2>3. PICK p, w : /\ p = LockAck("GRANTED") /\ w \in {LockAck("QUEUED"), LockOpAck("DATA_DISCARDED", FALSE)}
                    /\ s.toO[o] \in {<<p>>, <<w, p>>}
    BY <1>8 DEF AnsweredLock
  <2>4. ~w.ack /\ ~Deciding(w)
    BY <2>3, NoteFacts
  <2>5. Bit(p.ack) = 0 /\ Bit(Deciding(p)) = 1
    <3>1. ~p.ack /\ p.flag = "GRANTED"
      BY <2>3 DEF LockAck
    <3> QED BY <3>1 DEF Bit, Deciding
  <2>6. Acks(s.toO[o]) = 0 /\ Decisions(s.toO[o]) = 1
    BY <2>3, <2>4, <2>5, AcksFew, DecisionsFew
  <2>7. t.acks = d + 0 + 0 + 0 /\ 1 + 0 + 0 = 1
    BY <2>1
  <2>8. Acks(s.sendq[o]) = 0 /\ Decisions(s.sendq[o]) = 0
    BY <1>5, <2>1
  <2> QED BY <1>4, <2>2, <2>6, <2>7, <2>8
<1>9. CASE Answered(o, t, c, n, ch, s, dl) /\ AnsweredOp(o, t, c, n, s, dl)
  <2>1. PICK q, p, w : q = Head(t.net) /\ p = Answer(q) /\ w = LockOpAck("QUEUED", FALSE)
    OBVIOUS
  <2>2. /\ LockOp(t, c, q, dl)
        /\ \/ s.sendq[o] = <<>> /\ s.toO[o] \in {<<p>>, <<w, p>>}
           \/ s.sendq[o] = <<p>> /\ s.toO[o] \in {<<>>, <<w>>}
        /\ ~RecvOp(o, s) /\ t.acks = d + Bit(WantsAck(q))
    BY <1>1, <1>9, <2>1 DEF AnsweredOp, RecvOp
  <2>3. PICK v \in Nat : v = Bit(WantsAck(q))
    BY DEF Bit
  <2>4. Bit(p.ack) = v /\ Deciding(p) /\ ~w.ack /\ ~Deciding(w)
    BY <2>1, <2>2, <2>3, PacketFacts DEF Deciding, LockOp
  <2>5. Bit(Deciding(p)) = 1 /\ Bit(w.ack) = 0 /\ Bit(Deciding(w)) = 0
    BY <2>4 DEF Bit
  <2>6. Bit(RecvOp(o, s) /\ WantsAck(s.recv[o].op)) = 0 /\ Bit(RecvOp(o, s) /\ s.recv[o].op.lock # "NONE") = 0
    BY <2>2 DEF Bit
  <2>7. /\ Acks(<<p>>) = v /\ Acks(<<w, p>>) = v /\ Acks(<<w>>) = 0
        /\ Decisions(<<p>>) = 1 /\ Decisions(<<w, p>>) = 1 /\ Decisions(<<w>>) = 0
    BY <2>4, <2>5, AcksFew, DecisionsFew
  <2>8. CASE s.sendq[o] = <<>> /\ s.toO[o] \in {<<p>>, <<w, p>>}
    <3>1. t.acks = d + v + 0 + 0 /\ 1 + 0 + 0 = 1
      BY <2>2, <2>3
    <3>2. Acks(s.toO[o]) = v /\ Acks(s.sendq[o]) = 0 /\ Decisions(s.toO[o]) = 1 /\ Decisions(s.sendq[o]) = 0
      BY <1>5, <2>7, <2>8
    <3> QED BY <1>4, <2>6, <3>1, <3>2
  <2>9. CASE s.sendq[o] = <<p>> /\ s.toO[o] \in {<<>>, <<w>>}
    <3>1. t.acks = d + 0 + v + 0 /\ 0 + 1 + 0 = 1
      BY <2>2, <2>3
    <3>2. Acks(s.toO[o]) = 0 /\ Acks(s.sendq[o]) = v /\ Decisions(s.toO[o]) = 0 /\ Decisions(s.sendq[o]) = 1
      BY <1>5, <2>7, <2>9
    <3> QED BY <1>4, <2>6, <3>1, <3>2
  <2> QED BY <2>2, <2>8, <2>9
<1> QED BY <1>6, <1>7, <1>8, <1>9 DEF Answered

LEMMA GrantedCounts ==
  ASSUME NEW o \in Origins, NEW t, NEW c, NEW n, NEW ch \in Seq(ToT), NEW s \in Process, NEW dl,
         OneEntry(s), Granted(o, t, c, n, ch, s, dl)
  PROVE  Accounted(o, t, ch, s) /\ LockCounted(o, t, ch, s)
<1>1. PICK d \in Nat, x \in Nat, y \in Nat : d = s.dup[o] /\ x = Len(s.toO[o]) /\ y = Len(s.sendq[o])
  BY DEF Process
<1>2. /\ NoEntry(o, s) /\ Plain(s.toO[o]) /\ Plain(s.sendq[o]) /\ Pipeline(o, t, c, n, ch, s)
      /\ t.access # "ISSUED"
      /\ s.toO[o] \in Seq(ToO) /\ s.sendq[o] \in Seq(ToO)
  BY DEF Granted, Process
<1>3. /\ Acks(s.toO[o]) = x /\ Acks(s.sendq[o]) = y
      /\ Decisions(s.toO[o]) = 0 /\ Decisions(s.sendq[o]) = 0
  BY <1>1, <1>2, AcksPlain, DecisionsPlain
<1>4. PICK w \in Nat, r \in Nat : w = CountWants(ch) /\ r = Bit(RecvOp(o, s) /\ WantsAck(s.recv[o].op))
  BY CountNat DEF Bit
<1>5. EntriesOf(o, s) = 0 /\ AwaitedOf(o, s) = 0
  BY <1>2, QueueCounts
<1>6. Asking(ch) = 0
  <2>1. PICK l \in Nat, k \in Nat : /\ l = Len(ch) /\ DOMAIN ch = 1 .. l /\ k = NumOps(ch)
                                    /\ k <= l /\ l <= k + 1
    BY NumOpsNat
  <2>2. ASSUME NEW i \in DOMAIN ch PROVE ~(ch[i].type \in OpKinds \cup {"lock"} /\ ch[i].lock # "NONE")
    <3>1. CASE i \in 1 .. k
      BY <1>2, <2>1, <3>1 DEF Pipeline, PlainOp
    <3>2. CASE i \notin 1 .. k
      <4>1. i = l /\ k < l
        BY <2>1, <3>2
      <4>2. ch[i] \in FlushPkt \/ ch[i] \in UnlockPkt
        BY <1>2, <2>1, <4>1 DEF Pipeline
      <4> QED BY <4>2 DEF FlushPkt, UnlockPkt, OpKinds
    <3> QED BY <3>1, <3>2
  <2>3. {i \in DOMAIN ch : ch[i].type \in OpKinds \cup {"lock"} /\ ch[i].lock # "NONE"} = {}
    BY <2>2
  <2> QED BY <2>3, SetCount DEF Asking
<1>7. Bit(RecvOp(o, s) /\ s.recv[o].op.lock # "NONE") = 0
  BY <1>2 DEF Pipeline, PlainOp, Bit
<1>8. Tally(o, ch, s, d, x, y, w, 0, r)
  BY <1>1, <1>3, <1>4, <1>5 DEF Tally
<1>9. LockTally(o, ch, s, 0, 0, 0, 0, 0)
  BY <1>3, <1>5, <1>6, <1>7 DEF LockTally
<1>10. t.acks = d + x + y + w + 0 + r
  <2>1. t.acks = d + x + y + w + r
    BY <1>1, <1>4 DEF Granted
  <2>2. d + x + y + w + r = d + x + y + w + 0 + r
    OBVIOUS
  <2> QED BY <2>1, <2>2
<1>11. 0 + 0 + 0 + (0 + 0) = IF t.access = "ISSUED" THEN 1 ELSE 0
  BY <1>2
<1> QED BY <1>8, <1>9, <1>10, <1>11 DEF Accounted, LockCounted

LEMMA PhaseCounts ==
  ASSUME NEW o \in Origins, NEW t, NEW c, NEW n, NEW ch \in Seq(ToT), NEW s \in Process, NEW dl,
         OneEntry(s), Phase(o, t, c, n, ch, s, dl)
  PROVE  Accounted(o, t, ch, s) /\ LockCounted(o, t, ch, s)
<1>1. CASE Idle(o, t, c, n, ch, s, dl)
  BY <1>1, IdleCounts
<1>2. CASE Requested(o, t, c, n, ch, s, dl)
  BY <1>2, RequestCounts
<1>3. CASE Queued(o, t, c, n, ch, s, dl)
  BY <1>3, QueuedCounts
<1>4. CASE \/ Refused(o, t, c, n, ch, s, dl)
           \/ Receiving(o, t, c, n, ch, s, dl)
           \/ Answered(o, t, c, n, ch, s, dl)
  BY <1>4, DecidedCounts
<1>5. CASE Granted(o, t, c, n, ch, s, dl)
  BY <1>5, GrantedCounts
<1> QED BY <1>1, <1>2, <1>3, <1>4, <1>5 DEF Phase

\* While no assertion has failed every origin's packets are counted.
LEMMA EveryPhaseCounts ==
  ASSUME Inv, ~aborted, NEW o \in Origins
  PROVE  Accounted(o, target[o], toT[o], tgt) /\ LockCounted(o, target[o], toT[o], tgt)
<1>1. toT[o] \in Seq(ToT) /\ tgt \in Process /\ OneEntry(tgt)
  BY DEF Inv, Shape, TargetInv
<1>2. Phase(o, target[o], call[o], nops[o], toT[o], tgt, conf.delay)
  BY DEF Inv
<1>3. PICK t, c, n, ch, s, dl : /\ t = target[o] /\ c = call[o] /\ n = nops[o] /\ ch = toT[o]
                                /\ s = tgt /\ dl = conf.delay
  OBVIOUS
<1>4. ch \in Seq(ToT) /\ s \in Process /\ OneEntry(s) /\ Phase(o, t, c, n, ch, s, dl)
  BY <1>1, <1>2, <1>3
<1>5. Accounted(o, t, ch, s) /\ LockCounted(o, t, ch, s)
  BY ONLY <1>4, o \in Origins, PhaseCounts
<1> QED BY <1>3, <1>5

\* An origin waits for exactly the acknowledgements that are on their way or
\* will be sent, and for one more for each time that the target threw away an
\* operation of its own; a failed assertion has a discarded lock request behind
\* it.
THEOREM AcksAccounted == Spec => []AckAccounting
<1>1. Inv => AckAccounting
  <2> SUFFICES ASSUME Inv PROVE AckAccounting
    OBVIOUS
  <2>1. ASSUME NEW o \in Origins, ~aborted
        PROVE  target[o].acks = Expected(o) + tgt.dup[o]
    <3>1. PICK d, a, b, w, e, r \in Nat :
            /\ Tally(o, toT[o], tgt, d, a, b, w, e, r)
            /\ target[o].acks = d + a + b + w + e + r
      BY <2>1, EveryPhaseCounts DEF Accounted
    <3>2. w = Count({i \in DOMAIN toT[o] :
                       \/ toT[o][i].type \in OpKinds /\ WantsAck(toT[o][i])
                       \/ toT[o][i].type = "flush"
                       \/ toT[o][i].type = "unlock" /\ ~toT[o][i].noack})
      BY ONLY <3>1 DEF Tally, CountWants, Wants
    <3>3. e = Count({i \in DOMAIN tgt.queue : tgt.queue[i].o = o /\ tgt.queue[i].op.type # "lock"
                                                /\ WantsAck(tgt.queue[i].op)})
      BY ONLY <3>1 DEF Tally, AwaitedOf
    <3>4. r = IF tgt.recv[o].what = "op" /\ WantsAck(tgt.recv[o].op) THEN 1 ELSE 0
      BY ONLY <3>1 DEF Tally, RecvOp, Bit
    <3>5. a = Acks(tgt.toO[o]) /\ b = Acks(tgt.sendq[o]) /\ d = tgt.dup[o]
      BY ONLY <3>1 DEF Tally
    <3>6. Expected(o) = a + b + w + e + r
      BY ONLY <3>2, <3>3, <3>4, <3>5 DEF Expected
    <3>7. d + a + b + w + e + r = (a + b + w + e + r) + d
      OBVIOUS
    <3> QED BY ONLY <3>1, <3>5, <3>6, <3>7
  <2>2. aborted => tgt.discarded # {}
    BY DEF Inv
  <2> QED BY <2>1, <2>2 DEF AckAccounting
<1> QED BY <1>1, Invariant, PTL

\* An entry whose data have come waits for a lock that somebody else has.
LEMMA EntryWaits ==
  ASSUME Inv, ~aborted, ~tgt.lost, NEW i \in DOMAIN tgt.queue, tgt.queue[i].data
  PROVE  \E p \in Origins \ {tgt.queue[i].o} :
           "EXCLUSIVE" \in {tgt.holds[p], tgt.queue[i].op.lock} /\ tgt.holds[p] # "NONE"
<1>1. tgt \in Process /\ target \in [Origins -> Targets] /\ Exact(tgt) /\ ~CanAcquire(tgt, tgt.queue[i].op.lock)
  BY DEF Inv, Shape, TargetInv, Blocked
<1>2. PICK e \in Entries : e = tgt.queue[i]
  BY <1>1 DEF Process
<1>3. PICK o \in Origins : o = e.o
  BY DEF Entries
<1>4. ~NoEntry(o, tgt)
  BY <1>2, <1>3 DEF NoEntry
<1>5. Queued(o, target[o], call[o], nops[o], toT[o], tgt, conf.delay)
  <2>1. Phase(o, target[o], call[o], nops[o], toT[o], tgt, conf.delay)
    BY DEF Inv
  <2> QED BY <1>4, <2>1 DEF Phase, Idle, Requested, Refused, Receiving, Answered, Granted
<1>6. tgt.holds[o] = "NONE"
  BY <1>5 DEF Queued
<1>7. e.op.lock \in Locks
  <2>1. PICK j \in DOMAIN tgt.queue : /\ tgt.queue[j].o = o /\ tgt.queue[j].op.lock = target[o].type
    BY <1>5 DEF Queued
  <2>2. j = i
    BY <1>2, <1>3, <2>1 DEF Inv, TargetInv, OneEntry
  <2>3. target[o].access # "NONE" /\ target[o].type \in Types
    BY <1>1, <1>5 DEF Queued, Targets
  <2>4. target[o].type # "NONE"
    BY <2>3 DEF Inv, Origin, Settled
  <2> QED BY <1>2, <2>1, <2>2, <2>3, <2>4 DEF Types, Locks
<1>8. tgt.lock # "NONE" /\ (tgt.lock = "SHARED" => e.op.lock = "EXCLUSIVE")
  BY <1>1, <1>2, <1>7 DEF CanAcquire, Locks
<1>9. CASE HoldersIn(tgt, "EXCLUSIVE") # {}
  <2>1. PICK p \in Origins : tgt.holds[p] = "EXCLUSIVE"
    BY <1>9 DEF HoldersIn
  <2>2. p # e.o
    BY <1>3, <1>6, <2>1
  <2> QED BY <1>2, <2>1, <2>2
<1>10. CASE HoldersIn(tgt, "EXCLUSIVE") = {}
  <2>1. HoldersIn(tgt, "SHARED") # {} /\ tgt.lock = "SHARED"
    BY <1>1, <1>8, <1>10 DEF Exact
  <2>2. PICK p \in Origins : tgt.holds[p] = "SHARED"
    BY <2>1 DEF HoldersIn
  <2>3. p # e.o
    BY <1>3, <1>6, <2>2
  <2> QED BY <1>2, <1>8, <2>1, <2>2, <2>3
<1> QED BY <1>9, <1>10

\* An origin that has asked for the lock has exactly one request on its way, in
\* the queue or answered, so no request is forgotten or made twice; and a
\* request waits only for its data or for a lock that another origin has.
THEOREM RequestsKept == Spec => []LockRequestKept
<1>1. Inv => LockRequestKept
  <2> SUFFICES ASSUME Inv, ~aborted
               PROVE  /\ \A o \in Origins : LockPkts(o) = IF target[o].access = "ISSUED" THEN 1 ELSE 0
                      /\ \A i \in DOMAIN tgt.queue :
                           LET e == tgt.queue[i]
                           IN \/ ~e.data \/ tgt.lost
                              \/ \E p \in Origins \ {e.o} :
                                   "EXCLUSIVE" \in {tgt.holds[p], e.op.lock} /\ tgt.holds[p] # "NONE"
    BY DEF LockRequestKept
  <2>1. ASSUME NEW o \in Origins
        PROVE  LockPkts(o) = IF target[o].access = "ISSUED" THEN 1 ELSE 0
    <3>1. PICK k, e, r, a, b \in Nat :
            /\ LockTally(o, toT[o], tgt, k, e, r, a, b)
            /\ k + e + r + (a + b) = IF target[o].access = "ISSUED" THEN 1 ELSE 0
      BY EveryPhaseCounts DEF LockCounted
    <3>2. k = Count({i \in DOMAIN toT[o] : toT[o][i].type \in OpKinds \cup {"lock"} /\ toT[o][i].lock # "NONE"})
      BY ONLY <3>1 DEF LockTally, Asking
    <3>3. e = Count({i \in DOMAIN tgt.queue : tgt.queue[i].o = o})
      BY ONLY <3>1 DEF LockTally, EntriesOf
    <3>4. r = IF tgt.recv[o].what = "op" /\ tgt.recv[o].op.lock # "NONE" THEN 1 ELSE 0
      BY ONLY <3>1 DEF LockTally, RecvOp, Bit
    <3>5. /\ a = Count({i \in DOMAIN tgt.toO[o] : tgt.toO[o][i].flag \in {"GRANTED", "DISCARDED"}})
          /\ b = Count({i \in DOMAIN tgt.sendq[o] : tgt.sendq[o][i].flag \in {"GRANTED", "DISCARDED"}})
      BY ONLY <3>1 DEF LockTally, Decisions
    <3>6. LockPkts(o) = k + e + r + (a + b)
      BY ONLY <3>2, <3>3, <3>4, <3>5 DEF LockPkts
    <3> QED BY ONLY <3>1, <3>6
  <2>2. ASSUME NEW i \in DOMAIN tgt.queue, tgt.queue[i].data, ~tgt.lost
        PROVE  \E p \in Origins \ {tgt.queue[i].o} :
                 "EXCLUSIVE" \in {tgt.holds[p], tgt.queue[i].op.lock} /\ tgt.holds[p] # "NONE"
    BY <2>2, EntryWaits
  <2> QED BY <2>1, <2>2
<1> QED BY <1>1, Invariant, PTL

=============================================================================
