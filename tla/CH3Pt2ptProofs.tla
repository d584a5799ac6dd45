--------------------------- MODULE CH3Pt2ptProofs ---------------------------
(***************************************************************************)
(* Proofs about point-to-point communication for any number of messages,   *)
(* receives, tags and handles: request handles are never dangling, a       *)
(* synchronous send completes only when its message is matched, what       *)
(* cancellation answers is true, and a complete receive has its data.      *)
(***************************************************************************)
EXTENDS CH3Pt2pt, TLAPS

(***************************************************************************)
(* The inductive invariant follows every message by its id: it is in the   *)
(* channel, in the unexpected queue, matched or removed, and its sender's  *)
(* request counts what is still to come.                                   *)
(***************************************************************************)
B(b) == IF b THEN 1 ELSE 0

Elems(s) == {s[i] : i \in 1 .. Len(s)}

PktsR == Elems(toR)
PktsS == Elems(toS)

UnexpectedIds == {rreq[r].id : r \in Queue("unexpected")}
ProbedIds == {rreq[r].id : r \in Queue("probed")}
Decided == Ids(matched) \cup removed

\* Messages whose sender is about to get an EagerSyncAck or RndvClrToSend.
AnswerIds == {p.id : p \in {x \in PktsS : x.type \in {"EagerSyncAck", "RndvClrToSend"}}}

\* Messages with a cancellation under way, and those it has removed.
CancelIds == {p.id : p \in {x \in PktsR : x.type = "CancelSendReq"}
                           \cup {x \in PktsS : x.type = "CancelSendResp"}}
GoneIds == {p.id : p \in {x \in PktsS : x.type = "CancelSendResp" /\ x.ack}}

\* Messages whose sender has not heard whether they are received.
Owed == ((1 .. nmsg) \ Decided) \cup ProbedIds \cup AnswerIds \cup GoneIds

\* A request of the sender: sending says whether the channel writes its data,
\* owed whether the receiver has to answer, cancel whether it is being
\* cancelled.
SendOK(q, writes, owed, cancel) ==
  /\ q.ref = B(q.user) + B(q.cc > 0) /\ q.ref > 0
  /\ q.cc >= B(writes) + B(owed /\ q.proto # "eager") + B(cancel)
  /\ q.proto = "rndv" /\ writes => ~owed

\* A request of the receiver: active says whether the channel fills it.
QueuedOK(q, active) ==
  /\ q.buf = "none" /\ q.ref = 1 + q.cc
  /\ \/ q.proto = "rndv" /\ ~active /\ q.cc = 1 /\ q.pending = 1 /\ q.tmpbuf = "none"
     \/ q.proto # "rndv" /\ active /\ q.cc = 1 /\ q.pending = 2 /\ q.tmpbuf = "part"
     \/ q.proto # "rndv" /\ ~active /\ q.cc = 0 /\ q.pending = 1 /\ q.tmpbuf = "all"

MatchedOK(q, active) ==
  /\ q.ref = B(q.user) + q.cc /\ q.ref > 0
  /\ \/ q.cc = 1 /\ q.buf = "none" /\ active
          /\ (q.tmpbuf = "none" \/ (q.tmpbuf = "part" /\ q.pending = 1))
     \/ q.cc = 1 /\ q.buf = "none" /\ ~active /\ q.proto = "rndv" /\ q.tmpbuf = "none"
     \/ q.cc = 0 /\ q.buf = "good" /\ ~active

ErrorOK(q, active) ==
  /\ q.buf = "none" /\ q.ref = 1 /\ q.cc \in {0, -1}
  /\ active => ~q.user /\ q.cc = 0 /\ q.tmpbuf = "part" /\ q.pending = 2

RecvOK(q, active, rev) ==
  /\ q.where = "posted" => /\ ~active /\ ~rev /\ q.buf = "none" /\ q.cc = 1 /\ q.pending = 1
                           /\ q.tmpbuf = "none" /\ q.ref = B(q.user) + 1
  /\ q.where = "unexpected" => ~q.user /\ ~rev /\ QueuedOK(q, active)
  /\ q.where = "probed" => q.user /\ QueuedOK(q, active)
  /\ q.where = "matched" => MatchedOK(q, active)
  /\ q.where = "cancelled" => ~active /\ q.buf = "none" /\ q.cc = 0 /\ q.ref = 1
  /\ q.where = "error" => rev /\ ErrorOK(q, active)

\* What the packet or the unexpected message m knows about its sender's
\* request agrees with it, if the request is still there.
Known(m) ==
  /\ m.id \in 1 .. nmsg
  /\ m.proto # "eager" => IsRequestOf(m.sreq, m.id)
  /\ m.sreq \in DOMAIN sreq =>
       /\ m.id <= sreq[m.sreq].id
       /\ m.id = sreq[m.sreq].id => m.tag = sreq[m.sreq].tag /\ m.proto = sreq[m.sreq].proto
  /\ \A h \in DOMAIN sreq : sreq[h].id = m.id => h = m.sreq

\* The packet x carries the handle of a receive that waits for its data.
Awaited(x) ==
  /\ x.rreq \in DOMAIN rreq /\ recv_active # x.rreq
  /\ rreq[x.rreq].id = x.id /\ rreq[x.rreq].where = "matched"
  /\ rreq[x.rreq].proto = "rndv" /\ rreq[x.rreq].cc = 1

\* The order of packets in a channel.
Before(x, y) == /\ y.type = "Send" => x.id < y.id
                /\ x.type = y.type => x.id # y.id
Ordered(s) == \A i, j \in 1 .. Len(s) : i < j => Before(s[i], s[j])

\* The sender's requests.
Requests ==
  /\ \A h \in DOMAIN sreq : /\ sreq[h].id \in 1 .. nmsg
                            /\ sreq[h].cancelled => sreq[h].id \in removed
                            /\ sreq[h].id \in removed => sreq[h].cancel_pending
  /\ \A h, k \in DOMAIN sreq : sreq[h].id = sreq[k].id => h = k
  /\ sending \subseteq DOMAIN sreq
  /\ \A h \in DOMAIN sreq :
       SendOK(sreq[h], h \in sending, sreq[h].id \in Owed, sreq[h].id \in CancelIds)

\* Packets to the receiver.
PktR(p) ==
  /\ p.id \in 1 .. nmsg
  /\ p.type = "Send" => Known(p) /\ \A i \in Decided \cup UnexpectedIds : i < p.id
  /\ p.type = "CancelSendReq" =>
       /\ IsRequestOf(p.sreq, p.id)
       /\ sreq[p.sreq].tag = p.tag /\ sreq[p.sreq].cancel_pending
       /\ p.id \notin removed
  /\ p.type = "RndvSend" => Awaited(p) /\ p.id \in Ids(matched) \ ProbedIds

ToReceiver == Ordered(toR) /\ \A p \in PktsR : PktR(p)

\* Packets to the sender.
PktS(p) ==
  /\ IsRequestOf(p.sreq, p.id)
  /\ p.type = "EagerSyncAck" =>
       p.id \in Ids(matched) \ ProbedIds /\ sreq[p.sreq].proto = "sync"
  /\ p.type = "RndvClrToSend" =>
       /\ p.id \in Ids(matched) \ ProbedIds /\ sreq[p.sreq].proto = "rndv"
       /\ Awaited(p)
       /\ \A x \in PktsR : x.type = "RndvSend" => x.id # p.id
  /\ p.type = "CancelSendResp" =>
       /\ sreq[p.sreq].cancel_pending
       /\ IF p.ack THEN p.id \in removed ELSE revoked \/ p.id \in Ids(matched)
       /\ \A x \in PktsR : x.type = "CancelSendReq" => x.id # p.id

ToSender == Ordered(toS) /\ \A p \in PktsS : PktS(p)

\* The receiver's requests.
Receives ==
  /\ \A r \in DOMAIN rreq : RecvOK(rreq[r], recv_active = r, revoked)
  /\ recv_active \in DOMAIN rreq \cup {NULL, GARBLED}

Unexpected ==
  /\ \A r \in Queue("unexpected") :
       Known(rreq[r]) /\ rreq[r].id \notin Decided /\ rreq[r].seq <= narr
  /\ \A r, s \in Queue("unexpected") :
       /\ rreq[r].id = rreq[s].id => r = s
       /\ rreq[r].seq < rreq[s].seq => rreq[r].id < rreq[s].id
       /\ rreq[r].seq = rreq[s].seq => r = s

Probed ==
  /\ \A r \in Queue("probed") :
       /\ rreq[r].id \in Ids(matched)
       /\ rreq[r].proto # "eager" => /\ IsRequestOf(rreq[r].sreq, rreq[r].id)
                                     /\ sreq[rreq[r].sreq].proto = rreq[r].proto
  /\ \A r, s \in Queue("probed") : rreq[r].id = rreq[s].id => r = s

\* Messages with the same tag are matched in the order in which they were
\* sent, and a receive is not posted while there is a message for it.
InOrder ==
  /\ \A u \in Queue("unexpected"), x \in matched :
       x.msg.tag = rreq[u].tag => x.msg.id < rreq[u].id
  /\ \A u \in Queue("unexpected"), r \in Queue("posted") :
       rreq[r].tag \notin {rreq[u].tag, ANY_TAG}
  /\ \A x \in matched, h \in DOMAIN sreq : x.msg.id = sreq[h].id => x.msg.tag = sreq[h].tag

History ==
  /\ Ids(matched) \subseteq 1 .. nmsg /\ removed \subseteq 1 .. nmsg
  /\ removed \cap Ids(matched) = {}
  /\ revoked \/ \A id \in 1 .. nmsg :
       \/ id \in Decided \cup UnexpectedIds
       \/ \E p \in PktsR : p.type = "Send" /\ p.id = id

IInv == /\ TypeOK /\ Requests /\ ToReceiver /\ ToSender /\ Receives /\ Unexpected /\ Probed
        /\ InOrder /\ History

-----------------------------------------------------------------------------
(* Sequences of packets.                                                   *)

LEMMA AppendPkt ==
  ASSUME NEW T, NEW s \in Seq(T), NEW x \in T
  PROVE  /\ Append(s, x) \in Seq(T)
         /\ Elems(Append(s, x)) = Elems(s) \cup {x}
         /\ Ordered(s) /\ (\A y \in Elems(s) : Before(y, x)) => Ordered(Append(s, x))
<1>1. /\ Append(s, x) \in Seq(T) /\ Len(s) \in Nat /\ Len(Append(s, x)) = Len(s) + 1
      /\ \A i \in 1 .. Len(s) : Append(s, x)[i] = s[i]
      /\ Append(s, x)[Len(s) + 1] = x
  OBVIOUS
<1> DEFINE t == Append(s, x)
<1> HIDE DEF t
<1>2. /\ Len(s) \in Nat /\ Len(t) = Len(s) + 1
      /\ \A i \in 1 .. Len(s) : t[i] = s[i]
      /\ t[Len(s) + 1] = x
  BY <1>1 DEF t
<1>3. Elems(t) = Elems(s) \cup {x}
  <2>1. Elems(t) \subseteq Elems(s) \cup {x}
    BY <1>2 DEF Elems
  <2>2. Elems(s) \cup {x} \subseteq Elems(t)
    BY <1>2 DEF Elems
  <2> QED
    BY <2>1, <2>2
<1>4. ASSUME Ordered(s), \A y \in Elems(s) : Before(y, x),
             NEW i \in 1 .. Len(t), NEW j \in 1 .. Len(t), i < j
      PROVE  Before(t[i], t[j])
  <2>1. i \in 1 .. Len(s) /\ t[i] = s[i] /\ s[i] \in Elems(s)
    BY <1>2, <1>4 DEF Elems
  <2>2. CASE j \in 1 .. Len(s)
    BY <1>2, <1>4, <2>1, <2>2 DEF Ordered
  <2>3. CASE j = Len(s) + 1
    BY <1>2, <1>4, <2>1, <2>3
  <2> QED
    BY <1>2, <2>2, <2>3
<1> QED
  BY <1>1, <1>3, <1>4 DEF t, Ordered

LEMMA TailPkt ==
  ASSUME NEW T, NEW s \in Seq(T), s # << >>
  PROVE  /\ Tail(s) \in Seq(T) /\ Head(s) \in T
         /\ Head(s) \in Elems(s)
         /\ Elems(s) = Elems(Tail(s)) \cup {Head(s)}
         /\ Ordered(s) => Ordered(Tail(s)) /\ \A y \in Elems(Tail(s)) : Before(Head(s), y)
<1>1. /\ Tail(s) \in Seq(T) /\ Head(s) = s[1] /\ Len(s) \in Nat /\ Len(s) > 0
      /\ Len(Tail(s)) = Len(s) - 1
      /\ \A i \in 1 .. Len(s) - 1 : Tail(s)[i] = s[i + 1]
      /\ \A i \in 1 .. Len(s) : s[i] \in T
  OBVIOUS
<1> DEFINE t == Tail(s)
<1> DEFINE x == Head(s)
<1> HIDE DEF t, x
<1>2. /\ x = s[1] /\ Len(s) \in Nat /\ Len(s) > 0 /\ Len(t) = Len(s) - 1
      /\ \A i \in 1 .. Len(t) : t[i] = s[i + 1] /\ i + 1 \in 1 .. Len(s)
      /\ \A i \in 1 .. Len(s) : s[i] \in T
      /\ \A i \in 1 .. Len(s) : i # 1 => i - 1 \in 1 .. Len(t) /\ (i - 1) + 1 = i
      /\ 1 \in 1 .. Len(s)
  BY <1>1 DEF t, x
<1>3. Elems(s) = Elems(t) \cup {x}
  <2>1. Elems(t) \cup {x} \subseteq Elems(s)
    BY <1>2 DEF Elems
  <2>2. ASSUME NEW i \in 1 .. Len(s)
        PROVE  s[i] \in Elems(t) \cup {x}
    <3>1. CASE i = 1
      BY <1>2, <3>1
    <3>2. CASE i # 1
      <4>1. i - 1 \in 1 .. Len(t) /\ t[i - 1] = s[i]
        BY <1>2, <3>2
      <4> QED
        BY <4>1 DEF Elems
    <3> QED
      BY <3>1, <3>2
  <2> QED
    BY <2>1, <2>2 DEF Elems
<1>4. ASSUME Ordered(s), NEW i \in 1 .. Len(t), NEW j \in 1 .. Len(t), i < j
      PROVE  Before(t[i], t[j])
  BY <1>2, <1>4 DEF Ordered
<1>5. ASSUME Ordered(s), NEW y \in Elems(t)
      PROVE  Before(x, y)
  BY <1>2, <1>5 DEF Ordered, Elems
<1> QED
  BY <1>1, <1>2, <1>3, <1>4, <1>5 DEF t, x, Ordered

LEMMA DropPkts ==
  ASSUME NEW T, NEW s \in Seq(T), NEW n \in 1 .. Len(s)
  PROVE  /\ SubSeq(s, n + 1, Len(s)) \in Seq(T)
         /\ Elems(SubSeq(s, n + 1, Len(s))) \subseteq Elems(s)
         /\ Ordered(s) => /\ Ordered(SubSeq(s, n + 1, Len(s)))
                          /\ \A y \in Elems(SubSeq(s, n + 1, Len(s))) : Before(s[1], y)
<1> DEFINE t == SubSeq(s, n + 1, Len(s))
<1>1. /\ t \in Seq(T) /\ Len(s) \in Nat /\ Len(t) = Len(s) - n
      /\ \A i \in 1 .. Len(t) : t[i] = s[n + i] /\ n + i \in 1 .. Len(s)
      /\ 1 \in 1 .. Len(s)
  OBVIOUS
<1> HIDE DEF t
<1>2. Elems(t) \subseteq Elems(s)
  BY <1>1 DEF Elems
<1>3. ASSUME Ordered(s), NEW i \in 1 .. Len(t), NEW j \in 1 .. Len(t), i < j
      PROVE  Before(t[i], t[j])
  <2>1. n + i < n + j /\ n + i \in 1 .. Len(s) /\ n + j \in 1 .. Len(s)
    BY <1>1, <1>3
  <2> QED
    BY <1>1, <1>3, <2>1 DEF Ordered
<1>4. ASSUME Ordered(s), NEW y \in Elems(t)
      PROVE  Before(s[1], y)
  <2>1. PICK i \in 1 .. Len(t) : y = t[i]
    BY DEF Elems
  <2>2. 1 < n + i /\ n + i \in 1 .. Len(s) /\ y = s[n + i]
    BY <1>1, <2>1
  <2> QED
    BY <1>1, <1>4, <2>2 DEF Ordered
<1> QED
  BY <1>1, <1>2, <1>3, <1>4 DEF t, Ordered

-----------------------------------------------------------------------------
(* Requests.                                                               *)

LEMMA StoreKeeps ==
  ASSUME NEW f, NEW h, NEW q, q.ref # 0
  PROVE  /\ DOMAIN Store(f, h, q) = DOMAIN f \cup {h}
         /\ \A k \in DOMAIN f \cup {h} : Store(f, h, q)[k] = IF k = h THEN q ELSE f[k]
BY DEF Store

LEMMA StoreFrees ==
  ASSUME NEW f, NEW h, NEW q, q.ref = 0
  PROVE  /\ DOMAIN Store(f, h, q) = DOMAIN f \ {h}
         /\ \A k \in DOMAIN f \ {h} : Store(f, h, q)[k] = f[k]
BY DEF Store

LEMMA SendFields ==
  ASSUME NEW q \in SReqs
  PROVE  /\ q.id \in Nat /\ q.proto \in Protocols /\ q.tag \in MsgTags
         /\ q.cc \in Int /\ q.ref \in Int /\ q.user \in BOOLEAN
         /\ q.cancel_pending \in BOOLEAN /\ q.cancelled \in BOOLEAN
BY DEF SReqs

LEMMA RecvFields ==
  ASSUME NEW q \in RReqs
  PROVE  /\ q.where \in {"posted", "unexpected", "probed", "matched", "cancelled", "error"}
         /\ q.seq \in Nat /\ q.tag \in MsgTags \cup {ANY_TAG} /\ q.proto \in Protocols
         /\ q.sreq \in SHandles \cup {NULL} /\ q.id \in Nat /\ q.cc \in Int /\ q.ref \in Int
         /\ q.user \in BOOLEAN /\ q.pending \in Int
         /\ q.tmpbuf \in {"none", "part", "all"} /\ q.buf \in {"none", "good", "bad"}
BY DEF RReqs

LEMMA CompleteSend ==
  ASSUME NEW q \in SReqs
  PROVE  /\ Complete(q) \in SReqs
         /\ Complete(q).cc = q.cc - 1
         /\ Complete(q).ref = IF q.cc = 1 THEN q.ref - 1 ELSE q.ref
         /\ Complete(q).id = q.id /\ Complete(q).tag = q.tag /\ Complete(q).proto = q.proto
         /\ Complete(q).user = q.user
         /\ Complete(q).cancel_pending = q.cancel_pending
         /\ Complete(q).cancelled = q.cancelled
<1> DEFINE c == q.cc - 1
<1> DEFINE r == IF q.cc = 1 THEN q.ref - 1 ELSE q.ref
<1>1. Complete(q) = [q EXCEPT !.cc = c, !.ref = r]
  BY DEF Complete, SReqs
<1>2. c \in Int /\ r \in Int
  BY DEF SReqs
<1> HIDE DEF c, r
<1>3. [q EXCEPT !.cc = c, !.ref = r] \in SReqs
  BY <1>2 DEF SReqs
<1>4. /\ Complete(q).cc = c /\ Complete(q).ref = r
      /\ Complete(q).id = q.id /\ Complete(q).tag = q.tag /\ Complete(q).proto = q.proto
      /\ Complete(q).user = q.user
      /\ Complete(q).cancel_pending = q.cancel_pending
      /\ Complete(q).cancelled = q.cancelled
  BY <1>1 DEF SReqs
<1> QED
  BY <1>1, <1>3, <1>4 DEF c, r

LEMMA CompleteRecv ==
  ASSUME NEW q \in RReqs
  PROVE  /\ Complete(q) \in RReqs
         /\ Complete(q).cc = q.cc - 1
         /\ Complete(q).ref = IF q.cc = 1 THEN q.ref - 1 ELSE q.ref
         /\ Complete(q).where = q.where /\ Complete(q).seq = q.seq /\ Complete(q).tag = q.tag
         /\ Complete(q).proto = q.proto /\ Complete(q).sreq = q.sreq /\ Complete(q).id = q.id
         /\ Complete(q).user = q.user /\ Complete(q).pending = q.pending
         /\ Complete(q).tmpbuf = q.tmpbuf /\ Complete(q).buf = q.buf
<1> DEFINE c == q.cc - 1
<1> DEFINE r == IF q.cc = 1 THEN q.ref - 1 ELSE q.ref
<1>1. Complete(q) = [q EXCEPT !.cc = c, !.ref = r]
  BY DEF Complete, RReqs
<1>2. c \in Int /\ r \in Int
  BY DEF RReqs
<1> HIDE DEF c, r
<1>3. [q EXCEPT !.cc = c, !.ref = r] \in RReqs
  BY <1>2 DEF RReqs
<1>4. /\ Complete(q).cc = c /\ Complete(q).ref = r
      /\ Complete(q).where = q.where /\ Complete(q).seq = q.seq /\ Complete(q).tag = q.tag
      /\ Complete(q).proto = q.proto /\ Complete(q).sreq = q.sreq /\ Complete(q).id = q.id
      /\ Complete(q).user = q.user /\ Complete(q).pending = q.pending
      /\ Complete(q).tmpbuf = q.tmpbuf /\ Complete(q).buf = q.buf
  BY <1>1 DEF RReqs
<1> QED
  BY <1>1, <1>3, <1>4 DEF c, r

-----------------------------------------------------------------------------
(* Steps of the sender.                                                    *)

\* A step of the sender that sends no message leaves the receiver alone, and
\* does not free a request that somebody still needs.
SenderStep ==
  /\ UNCHANGED <<receiver, nmsg>>
  /\ DOMAIN sreq' \subseteq DOMAIN sreq
  /\ \A k \in DOMAIN sreq' :
       /\ sreq'[k].id = sreq[k].id /\ sreq'[k].tag = sreq[k].tag
       /\ sreq'[k].proto = sreq[k].proto
       /\ sreq[k].cancel_pending => sreq'[k].cancel_pending
  /\ \A k \in DOMAIN sreq :
       \/ sreq[k].id \in CancelIds'
       \/ sreq[k].id \in Owed' /\ sreq[k].proto # "eager"
       => k \in DOMAIN sreq'

LEMMA SenderUnchanged ==
  ASSUME SenderStep
  PROVE  /\ UNCHANGED <<rreq, recv_active, revoked, narr, nrecv, matched, removed, dropped, nmsg>>
         /\ Decided' = Decided /\ UnexpectedIds' = UnexpectedIds /\ ProbedIds' = ProbedIds
         /\ Owed' = ((1 .. nmsg) \ Decided) \cup ProbedIds \cup AnswerIds' \cup GoneIds'
<1>1. UNCHANGED <<rreq, recv_active, revoked, narr, nrecv, matched, removed, dropped, nmsg>>
  BY DEF SenderStep, receiver
<1>2. Decided' = Decided /\ UnexpectedIds' = UnexpectedIds /\ ProbedIds' = ProbedIds
  BY <1>1 DEF Decided, UnexpectedIds, ProbedIds, Queue
<1> QED
  BY <1>1, <1>2 DEF Owed

LEMMA SenderKnown ==
  ASSUME SenderStep, NEW m, Known(m), m.id \notin Decided
  PROVE  Known(m)'
<1>1. m.id \in Owed'
  BY SenderUnchanged DEF Known
<1>2. nmsg' = nmsg
  BY DEF SenderStep
<1>3. ASSUME m.proto # "eager"
      PROVE  m.sreq \in DOMAIN sreq' /\ sreq'[m.sreq].id = m.id
  <2>1. m.sreq \in DOMAIN sreq /\ sreq[m.sreq].id = m.id /\ sreq[m.sreq].proto = m.proto
    BY <1>3 DEF Known, IsRequestOf
  <2>2. m.sreq \in DOMAIN sreq'
    BY <1>1, <1>3, <2>1 DEF SenderStep
  <2> QED
    BY <2>1, <2>2 DEF SenderStep
<1>4. /\ m.sreq \in DOMAIN sreq' =>
           /\ m.id <= sreq'[m.sreq].id
           /\ m.id = sreq'[m.sreq].id => m.tag = sreq'[m.sreq].tag /\ m.proto = sreq'[m.sreq].proto
      /\ \A h \in DOMAIN sreq' : sreq'[h].id = m.id => h = m.sreq
  BY DEF SenderStep, Known
<1> QED
  BY <1>2, <1>3, <1>4 DEF Known, IsRequestOf

\* What such a step leaves true of the receiver.
LEMMA SenderFrame ==
  ASSUME IInv, SenderStep
  PROVE  Receives' /\ Unexpected' /\ Probed' /\ InOrder'
<1>1. UNCHANGED <<rreq, recv_active, revoked, narr, matched, removed, nmsg>>
      /\ Decided' = Decided /\ ProbedIds' = ProbedIds
  BY SenderUnchanged
<1>2. \A w : Queue(w)' = Queue(w)
  BY <1>1 DEF Queue
<1>3. Receives'
  BY <1>1 DEF IInv, Receives
<1>4. Unexpected'
  <2>1. ASSUME NEW r \in Queue("unexpected")
        PROVE  Known(rreq[r])'
    <3>1. Known(rreq[r]) /\ rreq[r].id \notin Decided
      BY DEF IInv, Unexpected
    <3> DEFINE m == rreq[r]
    <3>2. m' = m
      BY <1>1
    <3> HIDE DEF m
    <3>3. Known(m) /\ m.id \notin Decided
      BY <3>1 DEF m
    <3>4. ASSUME NEW n, n = m PROVE Known(n)'
      BY <3>3, <3>4, SenderKnown
    <3>5. Known(m)'
      BY <3>2, <3>4 DEF Known
    <3> QED
      BY <3>5 DEF m
  <2>2. Queue("unexpected")' = Queue("unexpected")
    BY <1>1 DEF Queue
  <2> QED
    BY <1>1, <2>1, <2>2 DEF IInv, Unexpected
<1>5. Probed'
  <2>1. ASSUME NEW r \in Queue("probed"), rreq[r].proto # "eager"
        PROVE  /\ rreq[r].sreq \in DOMAIN sreq' /\ sreq'[rreq[r].sreq].id = rreq[r].id
               /\ sreq'[rreq[r].sreq].proto = rreq[r].proto
    <3>1. /\ rreq[r].sreq \in DOMAIN sreq /\ sreq[rreq[r].sreq].id = rreq[r].id
          /\ sreq[rreq[r].sreq].proto = rreq[r].proto
      BY <2>1 DEF IInv, Probed, IsRequestOf
    <3>2. rreq[r].id \in Owed'
      BY SenderUnchanged DEF ProbedIds
    <3> QED
      BY <2>1, <3>1, <3>2 DEF SenderStep
  <2>2. Queue("probed")' = Queue("probed")
    BY <1>1 DEF Queue
  <2> QED
    BY <1>1, <2>1, <2>2 DEF IInv, Probed, IsRequestOf
<1>6. InOrder'
  <2>1. Queue("unexpected")' = Queue("unexpected") /\ Queue("posted")' = Queue("posted")
    BY <1>1 DEF Queue
  <2>2. \A x \in matched, h \in DOMAIN sreq' : x.msg.id = sreq'[h].id => x.msg.tag = sreq'[h].tag
    BY DEF IInv, InOrder, SenderStep
  <2> QED
    BY <1>1, <2>1, <2>2 DEF IInv, InOrder
<1> QED
  BY <1>3, <1>4, <1>5, <1>6

\* The request at handle h becomes q, and is freed if nobody refers to it.
Becomes(h, q) ==
  /\ DOMAIN sreq' = IF q.ref = 0 THEN DOMAIN sreq \ {h} ELSE DOMAIN sreq
  /\ \A k \in DOMAIN sreq' : sreq'[k] = IF k = h THEN q ELSE sreq[k]

LEMMA StoreBecomes ==
  ASSUME NEW h \in DOMAIN sreq, NEW q, sreq' = Store(sreq, h, q)
  PROVE  Becomes(h, q)
BY DEF Becomes, Store

LEMMA RequestBecomes ==
  ASSUME IInv, NEW h \in DOMAIN sreq, NEW q \in SReqs, Becomes(h, q),
         UNCHANGED <<receiver, nmsg>>,
         q.id = sreq[h].id, q.tag = sreq[h].tag, q.proto = sreq[h].proto,
         q.cancelled => q.id \in removed,
         q.id \in removed => q.cancel_pending,
         sreq[h].cancel_pending => q.cancel_pending,
         q.ref = B(q.user) + B(q.cc > 0),
         q.cc >= B(h \in sending') + B(q.id \in Owed' /\ q.proto # "eager")
                 + B(q.id \in CancelIds'),
         q.proto = "rndv" /\ h \in sending' => q.id \notin Owed',
         \A k : k # h => (k \in sending' <=> k \in sending),
         Owed' \subseteq Owed \cup {q.id}, CancelIds' \subseteq CancelIds \cup {q.id}
  PROVE  SenderStep /\ Requests' /\ sending' \subseteq SHandles
         /\ DOMAIN sreq' \subseteq SHandles /\ \A k \in DOMAIN sreq' : sreq'[k] \in SReqs
<1>1. /\ DOMAIN sreq \subseteq SHandles /\ \A k \in DOMAIN sreq : sreq[k] \in SReqs
      /\ sending \subseteq DOMAIN sreq
  BY DEF IInv, TypeOK, Requests
<1>2. /\ q.cc \in Int /\ q.ref \in Int
  BY SendFields
<1>3. /\ DOMAIN sreq' \subseteq DOMAIN sreq
      /\ \A k \in DOMAIN sreq : k # h => k \in DOMAIN sreq'
      /\ h \in DOMAIN sreq' <=> q.ref # 0
      /\ \A k \in DOMAIN sreq' : sreq'[k] = IF k = h THEN q ELSE sreq[k]
  BY DEF Becomes
<1>4. h \notin DOMAIN sreq' => /\ h \notin sending' /\ q.id \notin CancelIds'
                              /\ ~(q.id \in Owed' /\ q.proto # "eager")
  BY <1>2, <1>3 DEF B
<1>5. SenderStep
  BY <1>3, <1>4 DEF SenderStep
<1>6. removed' = removed /\ nmsg' = nmsg
  BY DEF receiver
<1>7. \A k \in DOMAIN sreq' : sreq'[k].id = sreq[k].id
  BY <1>3
<1>8. \A k \in DOMAIN sreq' : /\ sreq'[k].id \in 1 .. nmsg'
                              /\ sreq'[k].cancelled => sreq'[k].id \in removed'
                              /\ sreq'[k].id \in removed' => sreq'[k].cancel_pending
  BY <1>3, <1>6 DEF IInv, Requests
<1>9. \A j, k \in DOMAIN sreq' : sreq'[j].id = sreq'[k].id => j = k
  BY <1>3, <1>7 DEF IInv, Requests
<1>10. sending' \subseteq DOMAIN sreq'
  BY <1>1, <1>3, <1>4
<1>11. ASSUME NEW k \in DOMAIN sreq'
       PROVE  SendOK(sreq'[k], k \in sending', sreq'[k].id \in Owed', sreq'[k].id \in CancelIds')
  <2>1. CASE k = h
    <3>1. q.ref > 0
      BY <1>2, <1>3, <2>1 DEF B
    <3> QED
      BY <1>3, <2>1, <3>1 DEF SendOK
  <2>2. CASE k # h
    <3>1. k \in DOMAIN sreq /\ sreq'[k] = sreq[k] /\ (k \in sending' <=> k \in sending)
      BY <1>3, <2>2
    <3>2. sreq[k].id # q.id
      BY <2>2, <3>1 DEF IInv, Requests
    <3>3. (sreq[k].id \in Owed' => sreq[k].id \in Owed)
          /\ (sreq[k].id \in CancelIds' => sreq[k].id \in CancelIds)
      BY <3>2
    <3>4. SendOK(sreq[k], k \in sending, sreq[k].id \in Owed, sreq[k].id \in CancelIds)
      BY <3>1 DEF IInv, Requests
    <3>5. sreq[k].cc \in Int
      BY <1>1, <3>1, SendFields
    <3> QED
      BY <3>1, <3>3, <3>4, <3>5 DEF SendOK, B
  <2> QED
    BY <2>1, <2>2
<1>12. Requests'
  BY <1>8, <1>9, <1>10, <1>11 DEF Requests
<1> QED
  BY <1>1, <1>3, <1>5, <1>10, <1>12

\* The packets that stay in the channels.
LEMMA SenderPktR ==
  ASSUME IInv, SenderStep, NEW p \in PktsR, p \in PktsR'
  PROVE  PktR(p)'
<1>1. /\ UNCHANGED <<rreq, recv_active, matched, removed, nmsg>>
      /\ Decided' = Decided /\ UnexpectedIds' = UnexpectedIds /\ ProbedIds' = ProbedIds
  BY SenderUnchanged
<1>2. PktR(p)
  BY DEF IInv, ToReceiver
<1>3. ASSUME p.type = "Send"
      PROVE  Known(p)'
  <2>1. p.id \notin Decided /\ Known(p)
    BY <1>2, <1>3 DEF PktR
  <2> QED
    BY <2>1, SenderKnown
<1>4. ASSUME p.type = "CancelSendReq"
      PROVE  /\ p.sreq \in DOMAIN sreq' /\ sreq'[p.sreq].id = p.id
             /\ sreq'[p.sreq].tag = p.tag /\ sreq'[p.sreq].cancel_pending
  <2>1. /\ p.sreq \in DOMAIN sreq /\ sreq[p.sreq].id = p.id
        /\ sreq[p.sreq].tag = p.tag /\ sreq[p.sreq].cancel_pending
    BY <1>2, <1>4 DEF PktR, IsRequestOf
  <2>2. p.id \in CancelIds'
    BY <1>4 DEF CancelIds
  <2> QED
    BY <2>1, <2>2 DEF SenderStep
<1>5. Awaited(p)' <=> Awaited(p)
  BY <1>1 DEF Awaited
<1> QED
  BY <1>1, <1>2, <1>3, <1>4, <1>5 DEF PktR, IsRequestOf

LEMMA SenderPktS ==
  ASSUME IInv, SenderStep, NEW p \in PktsS, p \in PktsS',
         \A x \in PktsR' : x.type = "RndvSend" /\ p.type = "RndvClrToSend" /\ x.id = p.id
                             => x \in PktsR,
         \A x \in PktsR' : x.type = "CancelSendReq" /\ p.type = "CancelSendResp" /\ x.id = p.id
                             => x \in PktsR
  PROVE  PktS(p)'
<1>1. /\ UNCHANGED <<rreq, recv_active, revoked, matched, removed, nmsg>>
      /\ Decided' = Decided /\ UnexpectedIds' = UnexpectedIds /\ ProbedIds' = ProbedIds
  BY SenderUnchanged
<1>2. PktS(p)
  BY DEF IInv, ToSender
<1>3. /\ p.sreq \in DOMAIN sreq /\ sreq[p.sreq].id = p.id
  BY <1>2 DEF PktS, IsRequestOf
<1>4. p.type \in {"EagerSyncAck", "RndvClrToSend", "CancelSendResp"}
  <2>1. toS \in Seq(AckPkts \cup CTSPkts \cup RespPkts)
    BY DEF IInv, TypeOK
  <2> QED
    BY <2>1 DEF PktsS, Elems, AckPkts, CTSPkts, RespPkts
<1>5. /\ p.type = "CancelSendResp" => p.id \in CancelIds'
      /\ p.type \in {"EagerSyncAck", "RndvClrToSend"} => p.id \in AnswerIds'
  BY DEF CancelIds, AnswerIds
<1>6. p.sreq \in DOMAIN sreq'
  <2>1. CASE p.type = "CancelSendResp"
    BY <1>3, <1>5, <2>1 DEF SenderStep
  <2>2. CASE p.type \in {"EagerSyncAck", "RndvClrToSend"}
    <3>1. sreq[p.sreq].proto # "eager" /\ p.id \in Owed'
      BY <1>2, <1>5, <2>2 DEF PktS, Owed
    <3> QED
      BY <1>3, <3>1 DEF SenderStep
  <2> QED
    BY <1>4, <2>1, <2>2
<1>7. /\ sreq'[p.sreq].id = p.id /\ sreq'[p.sreq].proto = sreq[p.sreq].proto
      /\ sreq[p.sreq].cancel_pending => sreq'[p.sreq].cancel_pending
  BY <1>3, <1>6 DEF SenderStep
<1>8. Awaited(p)' <=> Awaited(p)
  BY <1>1 DEF Awaited
<1> QED
  BY <1>1, <1>2, <1>6, <1>7, <1>8 DEF PktS, IsRequestOf

LEMMA PktTypes ==
  ASSUME TypeOK
  PROVE  /\ \A p \in PktsR : p \in MsgPkts \cup CancelPkts \cup DataPkts
         /\ \A p \in PktsS : p \in AckPkts \cup CTSPkts \cup RespPkts
         /\ toR # << >> => Head(toR) \in PktsR
         /\ toS # << >> => Head(toS) \in PktsS
BY TailPkt DEF TypeOK, PktsR, PktsS, Elems

LEMMA SenderTypes ==
  ASSUME IInv, SenderStep, sending' \subseteq SHandles, DOMAIN sreq' \subseteq SHandles,
         \A k \in DOMAIN sreq' : sreq'[k] \in SReqs,
         toR' \in Seq(MsgPkts \cup CancelPkts \cup DataPkts),
         toS' \in Seq(AckPkts \cup CTSPkts \cup RespPkts)
  PROVE  TypeOK'
BY SenderUnchanged DEF IInv, TypeOK

LEMMA SenderHistory ==
  ASSUME IInv, SenderStep, \A x \in PktsR : x \in PktsR'
  PROVE  History'
BY SenderUnchanged DEF IInv, History

\* Steps that change a request of the sender and no channel.
LEMMA SenderQuiet ==
  ASSUME IInv, SenderStep, Requests', toR' = toR, toS' = toS, sending' \subseteq SHandles,
         DOMAIN sreq' \subseteq SHandles, \A k \in DOMAIN sreq' : sreq'[k] \in SReqs
  PROVE  IInv'
<1>1. PktsR' = PktsR /\ PktsS' = PktsS
  BY DEF PktsR, PktsS
<1>2. TypeOK'
  BY SenderTypes DEF IInv, TypeOK
<1>3. ToReceiver'
  <2>1. Ordered(toR')
    BY DEF IInv, ToReceiver
  <2>2. ASSUME NEW p \in PktsR' PROVE PktR(p)'
    BY <1>1, SenderPktR
  <2> QED
    BY <2>1, <2>2 DEF ToReceiver
<1>4. ToSender'
  <2>1. Ordered(toS')
    BY DEF IInv, ToSender
  <2>2. ASSUME NEW p \in PktsS' PROVE PktS(p)'
    BY <1>1, SenderPktS
  <2> QED
    BY <2>1, <2>2 DEF ToSender
<1>5. History'
  BY <1>1, SenderHistory
<1> QED
  BY <1>2, <1>3, <1>4, <1>5, SenderFrame DEF IInv

LEMMA ChannelsKept ==
  ASSUME UNCHANGED <<receiver, nmsg>>, toR' = toR, toS' = toS
  PROVE  Owed' = Owed /\ CancelIds' = CancelIds
BY DEF receiver, Owed, CancelIds, Decided, ProbedIds, Queue, AnswerIds, GoneIds, PktsR, PktsS

LEMMA SendRequest ==
  ASSUME IInv, NEW h \in DOMAIN sreq
  PROVE  /\ sreq[h] \in SReqs /\ sreq[h].cc \in Int /\ sreq[h].ref \in Int
         /\ sreq[h].user \in BOOLEAN
         /\ sreq[h].ref = B(sreq[h].user) + B(sreq[h].cc > 0) /\ sreq[h].ref > 0
         /\ sreq[h].cc >= B(h \in sending) + B(sreq[h].id \in Owed /\ sreq[h].proto # "eager")
                          + B(sreq[h].id \in CancelIds)
         /\ sreq[h].cc >= 0
         /\ sreq[h].proto = "rndv" /\ h \in sending => sreq[h].id \notin Owed
         /\ sreq[h].cancelled => sreq[h].id \in removed
         /\ sreq[h].id \in removed => sreq[h].cancel_pending
         /\ h \in SHandles
<1>1. sreq[h] \in SReqs /\ h \in SHandles
  BY DEF IInv, TypeOK
<1>2. SendOK(sreq[h], h \in sending, sreq[h].id \in Owed, sreq[h].id \in CancelIds)
  BY DEF IInv, Requests
<1>3. /\ sreq[h].cancelled => sreq[h].id \in removed
      /\ sreq[h].id \in removed => sreq[h].cancel_pending
  BY DEF IInv, Requests
<1>4. sreq[h].cc \in Int /\ sreq[h].ref \in Int /\ sreq[h].user \in BOOLEAN
  BY <1>1, SendFields
<1>5. sreq[h].cc >= 0
  BY <1>2, <1>4 DEF SendOK, B
<1> QED
  BY <1>1, <1>2, <1>3, <1>4, <1>5 DEF SendOK

LEMMA SendCompleteStep ==
  ASSUME IInv, NEW h \in sending, Send_complete(h)
  PROVE  IInv'
<1> DEFINE q == Complete(sreq[h])
<1>1. /\ sending' = sending \ {h} /\ sreq' = Store(sreq, h, q)
      /\ UNCHANGED <<receiver, toR, toS, nmsg>>
  BY DEF Send_complete
<1>2. h \in DOMAIN sreq
  BY DEF IInv, Requests
<1>3. /\ q \in SReqs /\ q.cc = sreq[h].cc - 1
      /\ q.ref = IF sreq[h].cc = 1 THEN sreq[h].ref - 1 ELSE sreq[h].ref
      /\ q.id = sreq[h].id /\ q.tag = sreq[h].tag /\ q.proto = sreq[h].proto
      /\ q.user = sreq[h].user /\ q.cancel_pending = sreq[h].cancel_pending
      /\ q.cancelled = sreq[h].cancelled
  BY <1>2, SendRequest, CompleteSend
<1>4. Becomes(h, q)
  BY <1>1, <1>2, StoreBecomes
<1> HIDE DEF q
<1>5. Owed' = Owed /\ CancelIds' = CancelIds
  BY <1>1, ChannelsKept
<1>6. q.ref = B(q.user) + B(q.cc > 0)
  BY <1>2, <1>3, SendRequest DEF B
<1>7. q.cc >= B(h \in sending') + B(q.id \in Owed' /\ q.proto # "eager") + B(q.id \in CancelIds')
  BY <1>1, <1>2, <1>3, <1>5, SendRequest DEF B
<1>8. SenderStep /\ Requests' /\ sending' \subseteq SHandles
         /\ DOMAIN sreq' \subseteq SHandles /\ \A k \in DOMAIN sreq' : sreq'[k] \in SReqs
  BY <1>1, <1>2, <1>3, <1>4, <1>5, <1>6, <1>7, SendRequest, RequestBecomes
<1> QED
  BY <1>1, <1>8, SenderQuiet

LEMMA ReleaseSendStep ==
  ASSUME IInv, NEW h \in DOMAIN sreq, ReleaseSend(h)
  PROVE  IInv'
<1> DEFINE q == Release(sreq[h])
<1>1. /\ sreq' = Store(sreq, h, q) /\ sreq[h].user /\ sending' = sending
      /\ UNCHANGED <<receiver, toR, toS, nmsg>>
  BY DEF ReleaseSend
<1>2. /\ q = [sreq[h] EXCEPT !.user = FALSE, !.ref = sreq[h].ref - 1]
      /\ sreq[h].ref - 1 \in Int /\ sreq[h] \in SReqs
  BY SendRequest DEF Release, SReqs
<1>3. /\ q \in SReqs /\ q.cc = sreq[h].cc /\ q.ref = sreq[h].ref - 1
      /\ q.id = sreq[h].id /\ q.tag = sreq[h].tag /\ q.proto = sreq[h].proto
      /\ q.user = FALSE /\ q.cancel_pending = sreq[h].cancel_pending
      /\ q.cancelled = sreq[h].cancelled
  BY <1>2 DEF SReqs
<1>4. Becomes(h, q)
  BY <1>1, StoreBecomes
<1> HIDE DEF q
<1>5. Owed' = Owed /\ CancelIds' = CancelIds
  BY <1>1, ChannelsKept
<1>6. q.ref = B(q.user) + B(q.cc > 0)
  BY <1>1, <1>3, SendRequest DEF B
<1>8. SenderStep /\ Requests' /\ sending' \subseteq SHandles
         /\ DOMAIN sreq' \subseteq SHandles /\ \A k \in DOMAIN sreq' : sreq'[k] \in SReqs
  BY <1>1, <1>3, <1>4, <1>5, <1>6, SendRequest, RequestBecomes
<1> QED
  BY <1>1, <1>8, SenderQuiet

LEMMA CancelSendStep ==
  ASSUME IInv, NEW h \in DOMAIN sreq, Cancel_send(h)
  PROVE  IInv'
<1> DEFINE c == sreq[h].cc + 1
<1> DEFINE f == IF sreq[h].cc = 0 THEN sreq[h].ref + 1 ELSE sreq[h].ref
<1> DEFINE q == [sreq[h] EXCEPT !.cancel_pending = TRUE, !.cc = c, !.ref = f]
<1>0. PICK x : x = [type |-> "CancelSendReq", tag |-> sreq[h].tag, sreq |-> h, id |-> sreq[h].id]
  OBVIOUS
<1>1. /\ sreq' = [sreq EXCEPT ![h] = q]
      /\ ~sreq[h].cancel_pending /\ sending' = sending
      /\ toR' = Append(toR, x)
      /\ UNCHANGED <<receiver, toS, nmsg>>
  BY <1>0, SendRequest DEF Cancel_send, SReqs
<1>2. c \in Int /\ f \in Int /\ sreq[h] \in SReqs /\ f > 0
  BY SendRequest
<1>3. /\ q \in SReqs /\ q.cc = c /\ q.ref = f
      /\ q.id = sreq[h].id /\ q.tag = sreq[h].tag /\ q.proto = sreq[h].proto
      /\ q.user = sreq[h].user /\ q.cancel_pending = TRUE
      /\ q.cancelled = sreq[h].cancelled
  <2> HIDE DEF c, f
  <2> QED
    BY <1>2 DEF SReqs
<1>4. q.ref = B(q.user) + B(q.cc > 0) /\ q.ref # 0
  BY <1>2, <1>3, SendRequest DEF B
<1>5. Becomes(h, q)
  BY <1>1, <1>4 DEF Becomes
<1>6. /\ x \in CancelPkts /\ x.type = "CancelSendReq" /\ x.tag = sreq[h].tag /\ x.sreq = h
      /\ x.id = sreq[h].id
  BY <1>0, SendRequest, SendFields DEF CancelPkts
<1> HIDE DEF q
<1>7. /\ toR \in Seq(MsgPkts \cup CancelPkts \cup DataPkts)
      /\ toS \in Seq(AckPkts \cup CTSPkts \cup RespPkts)
  BY DEF IInv, TypeOK
<1>8. /\ PktsR' = PktsR \cup {x} /\ PktsS' = PktsS
      /\ toR' \in Seq(MsgPkts \cup CancelPkts \cup DataPkts)
      /\ (\A y \in PktsR : Before(y, x)) => Ordered(toR')
  BY <1>1, <1>6, <1>7, AppendPkt DEF PktsR, PktsS, IInv, ToReceiver
<1>9. /\ Owed' = Owed /\ CancelIds' = CancelIds \cup {q.id}
  BY <1>1, <1>3, <1>6, <1>8
     DEF receiver, Owed, CancelIds, Decided, ProbedIds, Queue, AnswerIds, GoneIds
<1>10. sreq[h].id \notin CancelIds
  <2>1. ASSUME NEW y \in PktsR, y.type = "CancelSendReq"
        PROVE  y.id # sreq[h].id
    <3>1. y.sreq \in DOMAIN sreq /\ sreq[y.sreq].id = y.id /\ sreq[y.sreq].cancel_pending
      BY <2>1 DEF IInv, ToReceiver, PktR, IsRequestOf
    <3> QED
      BY <1>1, <3>1 DEF IInv, Requests
  <2>2. ASSUME NEW y \in PktsS, y.type = "CancelSendResp"
        PROVE  y.id # sreq[h].id
    <3>1. y.sreq \in DOMAIN sreq /\ sreq[y.sreq].id = y.id /\ sreq[y.sreq].cancel_pending
      BY <2>2 DEF IInv, ToSender, PktS, IsRequestOf
    <3> QED
      BY <1>1, <3>1 DEF IInv, Requests
  <2> QED
    BY <2>1, <2>2 DEF CancelIds
<1>11. q.cc >= B(h \in sending') + B(q.id \in Owed' /\ q.proto # "eager") + B(q.id \in CancelIds')
  BY <1>1, <1>3, <1>9, <1>10, SendRequest DEF B
<1>12. SenderStep /\ Requests' /\ sending' \subseteq SHandles
         /\ DOMAIN sreq' \subseteq SHandles /\ \A k \in DOMAIN sreq' : sreq'[k] \in SReqs
  BY <1>1, <1>3, <1>4, <1>5, <1>9, <1>11, SendRequest, RequestBecomes
<1>13. TypeOK'
  BY <1>1, <1>7, <1>8, <1>12, SenderTypes
<1>14. ToReceiver'
  <2>1. ASSUME NEW y \in PktsR PROVE Before(y, x)
    <3>1. y.type = x.type => y.id # x.id
      BY <1>6, <1>10 DEF CancelIds
    <3> QED
      BY <1>6, <3>1 DEF Before
  <2>2. PktR(x)'
    <3>1. /\ sreq[h].id \in 1 .. nmsg /\ sreq[h].id \notin removed
          /\ nmsg' = nmsg /\ removed' = removed
      BY <1>1, SendRequest DEF IInv, Requests, receiver
    <3>2. h \in DOMAIN sreq' /\ sreq'[h] = q
      BY <1>4, <1>5 DEF Becomes
    <3> QED
      BY <1>3, <1>6, <3>1, <3>2 DEF PktR, IsRequestOf
  <2>3. ASSUME NEW y \in PktsR' PROVE PktR(y)'
    BY <1>8, <1>12, <2>2, SenderPktR
  <2> QED
    BY <1>8, <2>1, <2>3 DEF ToReceiver
<1>15. ToSender'
  <2>1. ASSUME NEW y \in PktsS' PROVE PktS(y)'
    <3>1. y.type = "CancelSendResp" => y.id # x.id
      BY <1>6, <1>8, <1>10 DEF CancelIds
    <3> QED
      BY <1>6, <1>8, <1>12, <3>1, SenderPktS
  <2> QED
    BY <1>1, <2>1 DEF IInv, ToSender
<1>16. History'
  BY <1>8, <1>12, SenderHistory
<1> QED
  BY <1>12, <1>13, <1>14, <1>15, <1>16, SenderFrame DEF IInv

\* The first packet to the sender, which is handled once.
LEMMA HeadToSender ==
  ASSUME IInv, toS # << >>, toS' = Tail(toS)
  PROVE  /\ Head(toS) \in PktsS /\ PktsS = PktsS' \cup {Head(toS)}
         /\ toS' \in Seq(AckPkts \cup CTSPkts \cup RespPkts) /\ Ordered(toS')
         /\ \A y \in PktsS' : y.type = Head(toS).type => y.id # Head(toS).id
         /\ PktS(Head(toS))
<1>1. toS \in Seq(AckPkts \cup CTSPkts \cup RespPkts) /\ Ordered(toS)
  BY DEF IInv, TypeOK, ToSender
<1>2. /\ Head(toS) \in PktsS /\ PktsS = PktsS' \cup {Head(toS)}
      /\ toS' \in Seq(AckPkts \cup CTSPkts \cup RespPkts) /\ Ordered(toS')
      /\ \A y \in PktsS' : Before(Head(toS), y)
  BY <1>1, TailPkt DEF PktsS
<1>3. \A y \in PktsS' : y.type = Head(toS).type => y.id # Head(toS).id
  BY <1>2 DEF Before
<1> QED
  BY <1>2, <1>3 DEF IInv, ToSender

\* Once it has its answer, a sender is owed nothing more for a message.
LEMMA AnswerHandled ==
  ASSUME IInv, toS # << >>, toS' = Tail(toS), UNCHANGED <<receiver, nmsg>>,
         Head(toS).type \in {"EagerSyncAck", "RndvClrToSend"},
         {x \in PktsR' : x.type = "CancelSendReq"} = {x \in PktsR : x.type = "CancelSendReq"}
  PROVE  /\ Head(toS).id \notin Owed' /\ Owed' \subseteq Owed /\ CancelIds' \subseteq CancelIds
         /\ Head(toS).id \in Owed
<1> DEFINE p == Head(toS)
<1>1. /\ p \in PktsS /\ PktsS = PktsS' \cup {p} /\ PktS(p)
      /\ \A y \in PktsS' : y.type = p.type => y.id # p.id
  BY HeadToSender
<1> HIDE DEF p
<1>2. /\ Decided' = Decided /\ ProbedIds' = ProbedIds /\ nmsg' = nmsg
  BY DEF receiver, Decided, ProbedIds, Queue
<1>3. /\ p.type \in {"EagerSyncAck", "RndvClrToSend"}
      /\ {x \in PktsR' : x.type = "CancelSendReq"} = {x \in PktsR : x.type = "CancelSendReq"}
  BY DEF p
<1>4. AnswerIds' \subseteq AnswerIds /\ GoneIds' \subseteq GoneIds /\ CancelIds' \subseteq CancelIds
  <2>1. AnswerIds' \subseteq AnswerIds /\ GoneIds' \subseteq GoneIds
    BY <1>1 DEF AnswerIds, GoneIds
  <2>2. CancelIds' \subseteq CancelIds
    BY <1>1, <1>3 DEF CancelIds
  <2> QED
    BY <2>1, <2>2
<1>5. p.id \in Ids(matched) \ ProbedIds /\ p.sreq \in DOMAIN sreq /\ sreq[p.sreq].id = p.id
      /\ (p.type = "EagerSyncAck" => sreq[p.sreq].proto = "sync")
      /\ (p.type = "RndvClrToSend" => sreq[p.sreq].proto = "rndv")
  BY <1>1, <1>3 DEF PktS, IsRequestOf
<1>6. p.id \notin AnswerIds'
  <2>1. ASSUME NEW y \in PktsS', y.type \in {"EagerSyncAck", "RndvClrToSend"}, y.id = p.id
        PROVE  FALSE
    <3>1. PktS(y) /\ y.type # p.type
      BY <1>1, <2>1 DEF IInv, ToSender
    <3>2. y.sreq \in DOMAIN sreq /\ sreq[y.sreq].id = y.id
          /\ (y.type = "EagerSyncAck" => sreq[y.sreq].proto = "sync")
          /\ (y.type = "RndvClrToSend" => sreq[y.sreq].proto = "rndv")
      BY <3>1 DEF PktS, IsRequestOf
    <3>3. y.sreq = p.sreq
      BY <1>5, <2>1, <3>2 DEF IInv, Requests
    <3> QED
      BY <1>3, <1>5, <2>1, <3>1, <3>2, <3>3
  <2> QED
    BY <2>1 DEF AnswerIds
<1>7. p.id \notin GoneIds'
  <2>1. \A y \in PktsS : y.type = "CancelSendResp" /\ y.ack => y.id \in removed
    BY DEF IInv, ToSender, PktS
  <2> QED
    BY <1>1, <1>5, <2>1 DEF GoneIds, IInv, History
<1>8. p.id \in AnswerIds
  BY <1>1, <1>3 DEF AnswerIds
<1>9. p.id \notin Owed'
  BY <1>2, <1>5, <1>6, <1>7 DEF Owed, Decided
<1>10. Owed' \subseteq Owed /\ p.id \in Owed
  BY <1>2, <1>4, <1>8 DEF Owed
<1> QED
  BY <1>4, <1>9, <1>10 DEF p

\* The packets that are left when the sender has handled one.
LEMMA SenderReceived ==
  ASSUME IInv, SenderStep, Requests', toS # << >>, toS' = Tail(toS), toR' = toR,
         sending' \subseteq SHandles,
         DOMAIN sreq' \subseteq SHandles, \A k \in DOMAIN sreq' : sreq'[k] \in SReqs
  PROVE  IInv'
<1>1. /\ PktsR' = PktsR /\ PktsS' \subseteq PktsS /\ Ordered(toS')
      /\ toS' \in Seq(AckPkts \cup CTSPkts \cup RespPkts)
  BY HeadToSender DEF PktsR
<1>2. TypeOK'
  BY <1>1, SenderTypes DEF IInv, TypeOK
<1>3. ToReceiver'
  <2>1. ASSUME NEW x \in PktsR' PROVE PktR(x)'
    BY <1>1, SenderPktR
  <2> QED
    BY <2>1 DEF ToReceiver, IInv
<1>4. ToSender'
  <2>1. ASSUME NEW x \in PktsS' PROVE PktS(x)'
    BY <1>1, SenderPktS
  <2> QED
    BY <1>1, <2>1 DEF ToSender
<1>5. History'
  BY <1>1, SenderHistory
<1> QED
  BY <1>2, <1>3, <1>4, <1>5, SenderFrame DEF IInv

LEMMA EagerSyncAckStep ==
  ASSUME IInv, toS # << >>, toS' = Tail(toS), PktHandler_EagerSyncAck(Head(toS)),
         UNCHANGED <<receiver, nmsg>>
  PROVE  IInv'
<1>0. PICK p : p = Head(toS)
  OBVIOUS
<1>1. PICK h : h = p.sreq
  OBVIOUS
<1> DEFINE q == Complete(sreq[h])
<1>2. /\ p.type = "EagerSyncAck" /\ sreq' = Store(sreq, h, q)
      /\ sending' = sending /\ toR' = toR
  BY <1>0, <1>1 DEF PktHandler_EagerSyncAck
<1>3. PktS(p)
  BY <1>0, HeadToSender
<1>4. h \in DOMAIN sreq /\ sreq[h].id = p.id /\ sreq[h].proto = "sync"
  BY <1>1, <1>2, <1>3 DEF PktS, IsRequestOf
<1>5. /\ q \in SReqs /\ q.cc = sreq[h].cc - 1
      /\ q.ref = IF sreq[h].cc = 1 THEN sreq[h].ref - 1 ELSE sreq[h].ref
      /\ q.id = sreq[h].id /\ q.tag = sreq[h].tag /\ q.proto = sreq[h].proto
      /\ q.user = sreq[h].user /\ q.cancel_pending = sreq[h].cancel_pending
      /\ q.cancelled = sreq[h].cancelled
  BY <1>4, SendRequest, CompleteSend
<1>6. Becomes(h, q)
  BY <1>2, <1>4, StoreBecomes
<1> HIDE DEF q
<1>7. PktsR' = PktsR
  BY <1>2 DEF PktsR
<1>8. p.id \notin Owed' /\ Owed' \subseteq Owed /\ CancelIds' \subseteq CancelIds /\ p.id \in Owed
  BY <1>0, <1>2, <1>7, AnswerHandled
<1>9. q.ref = B(q.user) + B(q.cc > 0)
  BY <1>4, <1>5, <1>8, SendRequest DEF B
<1>10. q.cc >= B(h \in sending') + B(q.id \in Owed' /\ q.proto # "eager") + B(q.id \in CancelIds')
  BY <1>2, <1>4, <1>5, <1>8, SendRequest DEF B
<1>11. SenderStep /\ Requests' /\ sending' \subseteq SHandles
         /\ DOMAIN sreq' \subseteq SHandles /\ \A k \in DOMAIN sreq' : sreq'[k] \in SReqs
  BY <1>2, <1>4, <1>5, <1>6, <1>8, <1>9, <1>10, SendRequest, RequestBecomes
<1> QED
  BY <1>2, <1>11, SenderReceived

LEMMA CancelSendRespStep ==
  ASSUME IInv, toS # << >>, toS' = Tail(toS), PktHandler_CancelSendResp(Head(toS)),
         UNCHANGED <<receiver, nmsg>>
  PROVE  IInv'
<1>0. PICK p : p = Head(toS)
  OBVIOUS
<1>1. PICK h : h = p.sreq
  OBVIOUS
<1>2. PICK n : n = NeverAnswered(p)
  OBVIOUS
<1> DEFINE c == sreq[h].cc - n
<1> DEFINE r == [sreq[h] EXCEPT !.cancelled = p.ack, !.cc = c]
<1> DEFINE q == Complete(r)
<1>3. PktS(p) /\ p \in PktsS /\ PktsS = PktsS' \cup {p}
      /\ \A y \in PktsS' : y.type = p.type => y.id # p.id
  BY <1>0, HeadToSender
<1>4. h \in DOMAIN sreq /\ sreq[h].id = p.id /\ p.type = "CancelSendResp"
  BY <1>0, <1>1, <1>3 DEF PktS, IsRequestOf, PktHandler_CancelSendResp
<1>5. sreq[h].cc \in Int /\ sreq[h] \in SReqs
  BY <1>4, SendRequest
<1>6. /\ sreq' = Store(sreq, h, q) /\ sending' = sending /\ toR' = toR
  <2>1. [sreq[h] EXCEPT !.cancelled = p.ack, !.cc = @ - n] = r
    BY <1>5 DEF SReqs
  <2> QED
    BY <1>0, <1>1, <1>2, <2>1 DEF PktHandler_CancelSendResp
<1>7. n = (IF p.ack /\ sreq[h].proto # "eager" THEN 1 ELSE 0) /\ p.ack \in BOOLEAN
  <2>1. p \in AckPkts \cup CTSPkts \cup RespPkts
    BY <1>3, PktTypes DEF IInv
  <2>2. p.ack \in BOOLEAN
    BY <1>4, <2>1 DEF AckPkts, CTSPkts, RespPkts
  <2>3. sreq[h].proto \in Protocols
    BY <1>5, SendFields
  <2> QED
    BY <1>1, <1>2, <2>2, <2>3 DEF NeverAnswered, Protocols
<1>8. c \in Int
  BY <1>5, <1>7
<1>9. /\ r \in SReqs /\ r.cc = c /\ r.ref = sreq[h].ref
      /\ r.id = sreq[h].id /\ r.tag = sreq[h].tag /\ r.proto = sreq[h].proto
      /\ r.user = sreq[h].user /\ r.cancel_pending = sreq[h].cancel_pending
      /\ r.cancelled = p.ack
  <2> HIDE DEF c
  <2> QED
    BY <1>5, <1>7, <1>8 DEF SReqs
<1> HIDE DEF r
<1>10. /\ q \in SReqs /\ q.cc = c - 1
       /\ q.ref = IF c = 1 THEN sreq[h].ref - 1 ELSE sreq[h].ref
       /\ q.id = sreq[h].id /\ q.tag = sreq[h].tag /\ q.proto = sreq[h].proto
       /\ q.user = sreq[h].user /\ q.cancel_pending = sreq[h].cancel_pending
       /\ q.cancelled = p.ack
  BY <1>9, CompleteSend
<1>11. Becomes(h, q)
  BY <1>4, <1>6, StoreBecomes
<1> HIDE DEF q
<1>12. /\ Decided' = Decided /\ ProbedIds' = ProbedIds /\ PktsR' = PktsR /\ nmsg' = nmsg
       /\ removed' = removed
  BY <1>6 DEF receiver, Decided, ProbedIds, Queue, PktsR
<1>13. AnswerIds' \subseteq AnswerIds /\ GoneIds' \subseteq GoneIds
  BY <1>3 DEF AnswerIds, GoneIds
<1>14. Owed' \subseteq Owed
  BY <1>12, <1>13 DEF Owed
<1>15. CancelIds' \subseteq CancelIds /\ p.id \in CancelIds
  BY <1>3, <1>4, <1>12 DEF CancelIds
<1>16. p.id \notin CancelIds'
  <2>1. \A x \in PktsR' : x.type = "CancelSendReq" => x.id # p.id
    BY <1>3, <1>4, <1>12 DEF PktS
  <2> QED
    BY <1>3, <1>4, <2>1 DEF CancelIds
<1>17. ASSUME p.ack
       PROVE  p.id \notin Owed' /\ p.id \in Owed /\ p.id \in removed
  <2>1. p.id \in removed /\ p.id \notin Ids(matched)
    BY <1>3, <1>4, <1>17 DEF PktS, IInv, History
  <2>2. p.id \notin ProbedIds
    BY <2>1 DEF IInv, Probed, ProbedIds
  <2>3. p.id \notin AnswerIds
    <3>1. \A y \in PktsS : y.type \in {"EagerSyncAck", "RndvClrToSend"} => y.id \in Ids(matched)
      BY DEF IInv, ToSender, PktS
    <3> QED
      BY <2>1, <3>1 DEF AnswerIds
  <2>4. p.id \notin GoneIds' /\ p.id \in GoneIds
    BY <1>3, <1>4, <1>17 DEF GoneIds
  <2> QED
    BY <1>12, <1>13, <2>1, <2>2, <2>3, <2>4 DEF Owed, Decided
<1>18. c >= 1
  BY <1>4, <1>5, <1>7, <1>15, <1>17, SendRequest DEF B
<1>19. q.ref = B(q.user) + B(q.cc > 0)
  BY <1>4, <1>5, <1>7, <1>8, <1>10, <1>18, SendRequest DEF B
<1>20. q.cc >= B(h \in sending') + B(q.id \in Owed' /\ q.proto # "eager") + B(q.id \in CancelIds')
  <2>1. CASE p.ack /\ q.proto # "eager"
    BY <1>4, <1>5, <1>6, <1>7, <1>10, <1>15, <1>16, <1>17, <2>1, SendRequest DEF B
  <2>2. CASE ~(p.ack /\ q.proto # "eager")
    BY <1>4, <1>5, <1>6, <1>7, <1>10, <1>14, <1>15, <1>16, <2>2, SendRequest DEF B
  <2> QED
    BY <2>1, <2>2
<1>21. SenderStep /\ Requests' /\ sending' \subseteq SHandles
         /\ DOMAIN sreq' \subseteq SHandles /\ \A k \in DOMAIN sreq' : sreq'[k] \in SReqs
  <2>1. q.proto = "rndv" /\ h \in sending' => q.id \notin Owed'
    BY <1>4, <1>6, <1>10, <1>14, SendRequest
  <2>2. q.cancelled => q.id \in removed
    BY <1>4, <1>10, <1>17
  <2>3. q.id \in removed => q.cancel_pending
    BY <1>4, <1>10, SendRequest
  <2> QED
    BY <1>4, <1>6, <1>10, <1>11, <1>14, <1>15, <1>19, <1>20, <2>1, <2>2, <2>3, RequestBecomes
<1> QED
  BY <1>6, <1>21, SenderReceived

LEMMA RndvClrToSendStep ==
  ASSUME IInv, toS # << >>, toS' = Tail(toS), PktHandler_RndvClrToSend(Head(toS)),
         UNCHANGED <<receiver, nmsg>>
  PROVE  IInv'
<1>0. PICK p : p = Head(toS)
  OBVIOUS
<1>1. PICK h : h = p.sreq
  OBVIOUS
<1>2. PICK x : x = [type |-> "RndvSend", rreq |-> p.rreq, id |-> p.id]
  OBVIOUS
<1>3. PICK q : q = sreq[h]
  OBVIOUS
<1>4. /\ p.type = "RndvClrToSend" /\ sending' = sending \cup {h} /\ sreq' = sreq
      /\ toR' = Append(toR, x)
  BY <1>0, <1>1, <1>2 DEF PktHandler_RndvClrToSend
<1>5. /\ PktS(p) /\ p \in PktsS /\ PktsS = PktsS' \cup {p} /\ Ordered(toS')
      /\ \A y \in PktsS' : y.type = p.type => y.id # p.id
      /\ toS' \in Seq(AckPkts \cup CTSPkts \cup RespPkts)
  BY <1>0, HeadToSender
<1>6. /\ h \in DOMAIN sreq /\ sreq[h].id = p.id /\ sreq[h].proto = "rndv"
      /\ p.id \in Ids(matched) \ ProbedIds /\ Awaited(p)
      /\ \A y \in PktsR : y.type = "RndvSend" => y.id # p.id
  BY <1>1, <1>4, <1>5 DEF PktS, IsRequestOf
<1>7. /\ x \in DataPkts /\ x.type = "RndvSend" /\ x.rreq = p.rreq /\ x.id = p.id
  <2>1. p \in AckPkts \cup CTSPkts \cup RespPkts
    BY <1>5, PktTypes DEF IInv
  <2> QED
    BY <1>2, <1>4, <2>1 DEF DataPkts, AckPkts, CTSPkts, RespPkts
<1>8. toR \in Seq(MsgPkts \cup CancelPkts \cup DataPkts)
  BY DEF IInv, TypeOK
<1>9. /\ PktsR' = PktsR \cup {x}
      /\ toR' \in Seq(MsgPkts \cup CancelPkts \cup DataPkts)
      /\ (\A y \in PktsR : Before(y, x)) => Ordered(toR')
  BY <1>4, <1>7, <1>8, AppendPkt DEF PktsR, IInv, ToReceiver
<1>10. {y \in PktsR' : y.type = "CancelSendReq"} = {y \in PktsR : y.type = "CancelSendReq"}
  BY <1>7, <1>9
<1>11. p.id \notin Owed' /\ Owed' \subseteq Owed /\ CancelIds' \subseteq CancelIds /\ p.id \in Owed
  BY <1>0, <1>4, <1>10, AnswerHandled
<1>12. /\ q \in SReqs /\ q.ref # 0 /\ Becomes(h, q)
  BY <1>3, <1>4, <1>6, SendRequest DEF Becomes
<1>13. q.cc >= B(h \in sending') + B(q.id \in Owed' /\ q.proto # "eager") + B(q.id \in CancelIds')
  BY <1>3, <1>6, <1>11, SendRequest DEF B
<1>14. SenderStep /\ Requests' /\ sending' \subseteq SHandles
         /\ DOMAIN sreq' \subseteq SHandles /\ \A k \in DOMAIN sreq' : sreq'[k] \in SReqs
  BY <1>3, <1>4, <1>6, <1>11, <1>12, <1>13, SendRequest, RequestBecomes
<1>15. TypeOK'
  BY <1>5, <1>9, <1>14, SenderTypes
<1>16. ToReceiver'
  <2>1. ASSUME NEW y \in PktsR PROVE Before(y, x)
    BY <1>6, <1>7 DEF Before
  <2>2. PktR(x)'
    <3>1. /\ Awaited(x) /\ UNCHANGED <<rreq, recv_active, matched, nmsg>>
          /\ ProbedIds' = ProbedIds
      BY <1>6, <1>7, <1>14, SenderUnchanged DEF Awaited
    <3>2. Awaited(x)'
      BY <3>1 DEF Awaited
    <3>3. x.id \in 1 .. nmsg
      BY <1>6, <1>7 DEF IInv, History
    <3> QED
      BY <1>6, <1>7, <3>1, <3>2, <3>3 DEF PktR
  <2>3. ASSUME NEW y \in PktsR' PROVE PktR(y)'
    BY <1>9, <1>14, <2>2, SenderPktR
  <2> QED
    BY <1>9, <2>1, <2>3 DEF ToReceiver
<1>17. ToSender'
  <2>1. ASSUME NEW y \in PktsS' PROVE PktS(y)'
    BY <1>4, <1>5, <1>7, <1>9, <1>14, SenderPktS
  <2> QED
    BY <1>5, <2>1 DEF ToSender
<1>18. History'
  BY <1>9, <1>14, SenderHistory
<1> QED
  BY <1>14, <1>15, <1>16, <1>17, <1>18, SenderFrame DEF IInv

\* A request that is there stays.
LEMMA IsendKnown ==
  ASSUME IInv, NEW m, Known(m), NEW h, h \notin DOMAIN sreq, NEW q, q.id = nmsg + 1,
         DOMAIN sreq' = DOMAIN sreq \cup {h},
         \A k \in DOMAIN sreq' : sreq'[k] = IF k = h THEN q ELSE sreq[k],
         nmsg' = nmsg + 1
  PROVE  Known(m)'
<1>1. nmsg \in Nat
  BY DEF IInv, TypeOK
<1>2. m.id \in 1 .. nmsg /\ m.id \in 1 .. nmsg' /\ m.id # q.id /\ m.id <= q.id
  BY <1>1 DEF Known
<1>3. m.proto # "eager" => m.sreq \in DOMAIN sreq' /\ sreq'[m.sreq].id = m.id
  BY DEF Known, IsRequestOf
<1>4. m.sreq \in DOMAIN sreq' =>
       /\ m.id <= sreq'[m.sreq].id
       /\ m.id = sreq'[m.sreq].id => m.tag = sreq'[m.sreq].tag /\ m.proto = sreq'[m.sreq].proto
  BY <1>2 DEF Known
<1>5. \A k \in DOMAIN sreq' : sreq'[k].id = m.id => k = m.sreq
  BY <1>2 DEF Known
<1> QED
  BY <1>2, <1>3, <1>4, <1>5 DEF Known, IsRequestOf

LEMMA IsendStep ==
  ASSUME IInv, NEW h \in SHandles, NEW proto \in Protocols, NEW tag \in MsgTags,
         Isend(h, proto, tag)
  PROVE  IInv'
<1>0. PICK n : n = nmsg + 1
  OBVIOUS
<1>1. PICK q : q = [id |-> n, proto |-> proto, tag |-> tag,
                    cc |-> IF proto = "sync" THEN 2 ELSE 1, ref |-> 2,
                    user |-> TRUE, cancel_pending |-> FALSE, cancelled |-> FALSE]
  OBVIOUS
<1>2. PICK x : x = [type |-> "Send", proto |-> proto, tag |-> tag, sreq |-> h, id |-> n]
  OBVIOUS
<1>3. /\ h \notin DOMAIN sreq /\ sreq' = Store(sreq, h, q)
      /\ sending' = IF proto = "rndv" THEN sending ELSE sending \cup {h}
      /\ toR' = Append(toR, x) /\ nmsg' = n /\ toS' = toS
      /\ UNCHANGED <<rreq, recv_active, revoked, narr, nrecv, matched, removed, dropped>>
  BY <1>0, <1>1, <1>2 DEF Isend, receiver
<1>4. nmsg \in Nat /\ n \in Nat /\ n = nmsg + 1 /\ n \notin 1 .. nmsg
  BY <1>0 DEF IInv, TypeOK
<1>5. /\ q \in SReqs /\ q.id = n /\ q.proto = proto /\ q.tag = tag /\ q.ref = 2 /\ q.user = TRUE
      /\ q.cc = (IF proto = "sync" THEN 2 ELSE 1) /\ q.cancel_pending = FALSE
      /\ q.cancelled = FALSE
  BY <1>1, <1>4 DEF SReqs
<1>6. /\ x \in MsgPkts /\ x.type = "Send" /\ x.proto = proto /\ x.tag = tag /\ x.sreq = h
      /\ x.id = n
  BY <1>2, <1>4 DEF MsgPkts
<1>7. /\ DOMAIN sreq' = DOMAIN sreq \cup {h}
      /\ \A k \in DOMAIN sreq' : sreq'[k] = IF k = h THEN q ELSE sreq[k]
  <2>1. q.ref # 0
    BY <1>5
  <2>2. DOMAIN sreq' = DOMAIN sreq \cup {h}
    BY <1>3, <2>1, StoreKeeps
  <2>3. sreq' = Store(sreq, h, q)
    BY <1>3
  <2>4. \A k \in DOMAIN sreq \cup {h} : sreq'[k] = IF k = h THEN q ELSE sreq[k]
    BY <2>1, <2>3 DEF Store
  <2> QED
    BY <2>2, <2>4, Zenon
<1>8. /\ toR \in Seq(MsgPkts \cup CancelPkts \cup DataPkts) /\ Ordered(toR)
  BY DEF IInv, TypeOK, ToReceiver
<1>9. /\ PktsR' = PktsR \cup {x} /\ PktsS' = PktsS
      /\ toR' \in Seq(MsgPkts \cup CancelPkts \cup DataPkts)
      /\ (\A y \in PktsR : Before(y, x)) => Ordered(toR')
  BY <1>3, <1>6, <1>8, AppendPkt DEF PktsR, PktsS
<1>10. /\ Decided' = Decided /\ ProbedIds' = ProbedIds /\ UnexpectedIds' = UnexpectedIds
       /\ Queue("unexpected")' = Queue("unexpected") /\ Queue("probed")' = Queue("probed")
       /\ Queue("posted")' = Queue("posted")
       /\ AnswerIds' = AnswerIds /\ GoneIds' = GoneIds
  BY <1>3, <1>9 DEF Decided, ProbedIds, UnexpectedIds, Queue, AnswerIds, GoneIds
<1>11. CancelIds' = CancelIds
  BY <1>6, <1>9 DEF CancelIds
<1>12. \A i \in 1 .. nmsg : i \in Owed' <=> i \in Owed
  BY <1>3, <1>4, <1>10 DEF Owed
<1>13. \A y \in PktsR : y.id \in 1 .. nmsg
  BY DEF IInv, ToReceiver, PktR
<1>14. \A y \in PktsS : IsRequestOf(y.sreq, y.id)
  BY DEF IInv, ToSender, PktS
<1>15. \A k \in DOMAIN sreq : sreq[k].id \in 1 .. nmsg /\ k \in SHandles /\ sreq[k] \in SReqs
  BY DEF IInv, Requests, TypeOK
<1>16. n \notin CancelIds
  BY <1>4, <1>13, <1>14, <1>15 DEF CancelIds, IsRequestOf
<1>17. Ids(matched) \subseteq 1 .. nmsg /\ removed \subseteq 1 .. nmsg
  BY DEF IInv, History
<1>18. TypeOK'
  BY <1>3, <1>4, <1>5, <1>7, <1>9 DEF IInv, TypeOK
<1>19. Requests'
  <2>1. \A k \in DOMAIN sreq' : /\ sreq'[k].id \in 1 .. nmsg'
                                /\ sreq'[k].cancelled => sreq'[k].id \in removed'
                                /\ sreq'[k].id \in removed' => sreq'[k].cancel_pending
    BY <1>3, <1>4, <1>5, <1>7, <1>15, <1>17 DEF IInv, Requests
  <2>2. \A j, k \in DOMAIN sreq' : sreq'[j].id = sreq'[k].id => j = k
    BY <1>4, <1>5, <1>7, <1>15 DEF IInv, Requests
  <2>3. sending \subseteq DOMAIN sreq
    BY DEF IInv, Requests
  <2>4. sending' \subseteq DOMAIN sreq'
    BY <1>3, <1>7, <2>3
  <2>5. ASSUME NEW k \in DOMAIN sreq'
        PROVE  SendOK(sreq'[k], k \in sending', sreq'[k].id \in Owed', sreq'[k].id \in CancelIds')
    <3>1. CASE k = h
      <4>1. sreq'[k] = q /\ q.id \notin CancelIds' /\ (k \in sending' => proto # "rndv")
        BY <1>3, <1>5, <1>7, <1>11, <1>16, <2>3, <3>1
      <4> QED
        BY <1>5, <4>1 DEF SendOK, B, Protocols
    <3>2. CASE k # h
      <4>1. /\ k \in DOMAIN sreq /\ sreq'[k] = sreq[k] /\ (k \in sending' <=> k \in sending)
            /\ (sreq[k].id \in Owed' <=> sreq[k].id \in Owed)
        BY <1>3, <1>7, <1>12, <1>15, <3>2
      <4>2. SendOK(sreq[k], k \in sending, sreq[k].id \in Owed, sreq[k].id \in CancelIds)
        BY <4>1 DEF IInv, Requests
      <4> QED
        BY <1>11, <4>1, <4>2
    <3> QED
      BY <3>1, <3>2
  <2> QED
    BY <2>1, <2>2, <2>4, <2>5 DEF Requests
<1>20. ASSUME NEW m, Known(m)
       PROVE  Known(m)'
  BY <1>3, <1>4, <1>5, <1>7, <1>20, IsendKnown
<1>21. \A k, i : IsRequestOf(k, i) => k \in DOMAIN sreq' /\ sreq'[k] = sreq[k] /\ sreq[k].id = i
  BY <1>3, <1>7 DEF IsRequestOf
<1>22. ToReceiver'
  <2>1. ASSUME NEW y \in PktsR PROVE Before(y, x)
    BY <1>4, <1>6, <1>8, <1>13, PktTypes DEF Before
  <2>2. ASSUME NEW y \in PktsR PROVE PktR(y)'
    <3>1. PktR(y)
      BY DEF IInv, ToReceiver
    <3>2. Awaited(y)' <=> Awaited(y)
      BY <1>3 DEF Awaited
    <3>3. y.id \in 1 .. nmsg'
      BY <1>3, <1>4, <1>13
    <3>4. y.type = "Send" => Known(y)' /\ \A i \in (Decided \cup UnexpectedIds)' : i < y.id
      BY <1>10, <1>20, <3>1 DEF PktR
    <3>5. y.type = "CancelSendReq" =>
            /\ IsRequestOf(y.sreq, y.id)'
            /\ sreq'[y.sreq].tag = y.tag /\ sreq'[y.sreq].cancel_pending
            /\ y.id \notin removed'
      BY <1>3, <1>21, <3>1 DEF PktR, IsRequestOf
    <3>6. y.type = "RndvSend" => Awaited(y)' /\ y.id \in Ids(matched') \ ProbedIds'
      BY <1>3, <1>10, <3>1, <3>2 DEF PktR
    <3> QED
      BY <3>3, <3>4, <3>5, <3>6 DEF PktR
  <2>3. PktR(x)'
    <3>1. Known(x)'
      <4>1. h \in DOMAIN sreq' /\ sreq'[h] = q
        BY <1>7
      <4>2. \A k \in DOMAIN sreq' : sreq'[k].id = n => k = h
        BY <1>4, <1>7, <1>15
      <4> QED
        BY <1>3, <1>4, <1>5, <1>6, <4>1, <4>2 DEF Known, IsRequestOf
    <3>2. \A i \in Decided \cup UnexpectedIds : i \in 1 .. nmsg
      BY <1>17 DEF Decided, UnexpectedIds, IInv, Unexpected, Known
    <3> QED
      BY <1>3, <1>4, <1>6, <1>10, <3>1, <3>2 DEF PktR
  <2>4. ASSUME NEW y \in PktsR' PROVE PktR(y)'
    BY <1>9, <2>2, <2>3
  <2> QED
    BY <1>9, <2>1, <2>4 DEF ToReceiver
<1>23. ToSender'
  <2>1. ASSUME NEW y \in PktsS PROVE PktS(y)'
    <3>1. PktS(y)
      BY DEF IInv, ToSender
    <3>2. Awaited(y)' <=> Awaited(y)
      BY <1>3 DEF Awaited
    <3>3. y.sreq \in DOMAIN sreq' /\ sreq'[y.sreq] = sreq[y.sreq] /\ sreq'[y.sreq].id = y.id
      BY <1>14, <1>21
    <3> QED
      BY <1>3, <1>6, <1>9, <1>10, <3>1, <3>2, <3>3 DEF PktS, IsRequestOf
  <2>2. ASSUME NEW y \in PktsS' PROVE PktS(y)'
    BY <1>9, <2>1
  <2> QED
    BY <1>3, <2>2 DEF IInv, ToSender
<1>24. Receives'
  BY <1>3 DEF IInv, Receives
<1>25. Unexpected'
  <2>1. ASSUME NEW r \in Queue("unexpected")
        PROVE  Known(rreq[r])'
    <3>1. PICK m : m = rreq[r]
      OBVIOUS
    <3>2. Known(m)'
      BY <1>20, <3>1 DEF IInv, Unexpected
    <3> QED
      BY <1>3, <3>1, <3>2 DEF Known
  <2> QED
    BY <1>3, <1>10, <2>1 DEF IInv, Unexpected
<1>26. Probed'
  BY <1>3, <1>10, <1>21 DEF IInv, Probed, IsRequestOf
<1>27. InOrder'
  <2>1. \A y \in matched, k \in DOMAIN sreq' : y.msg.id = sreq'[k].id => y.msg.tag = sreq'[k].tag
    <3>1. \A y \in matched : y.msg.id # n
      BY <1>4, <1>17 DEF Ids
    <3> QED
      BY <1>5, <1>7, <3>1 DEF IInv, InOrder
  <2> QED
    BY <1>3, <1>10, <2>1 DEF IInv, InOrder
<1>28. History'
  <2>1. \A i \in 1 .. nmsg' : i \in 1 .. nmsg \/ i = n
    BY <1>3, <1>4
  <2>2. Ids(matched') \subseteq 1 .. nmsg' /\ removed' \subseteq 1 .. nmsg'
    BY <1>3, <1>4, <1>17
  <2>3. revoked \/ \A i \in 1 .. nmsg' : \/ i \in Decided \cup UnexpectedIds
                                        \/ \E y \in PktsR' : y.type = "Send" /\ y.id = i
    BY <1>6, <1>9, <2>1 DEF IInv, History
  <2> QED
    BY <1>3, <1>10, <2>2, <2>3 DEF IInv, History
<1> QED
  BY <1>18, <1>19, <1>22, <1>23, <1>24, <1>25, <1>26, <1>27, <1>28 DEF IInv

LEMMA SenderProgressStep ==
  ASSUME IInv, SenderProgress
  PROVE  IInv'
<1>1. toS # << >> /\ toS' = Tail(toS) /\ UNCHANGED <<receiver, nmsg>>
  BY DEF SenderProgress
<1> QED
  BY <1>1, EagerSyncAckStep, RndvClrToSendStep, CancelSendRespStep DEF SenderProgress

-----------------------------------------------------------------------------
(* Steps of the receiver.                                                  *)

\* A step of the receiver leaves the sender alone and forgets nothing.
ReceiverStep ==
  /\ UNCHANGED <<sreq, sending, nmsg>>
  /\ matched \subseteq matched' /\ removed \subseteq removed' /\ (revoked => revoked')
  /\ PktsR' \subseteq PktsR

LEMMA ReceiverIds ==
  ASSUME ReceiverStep
  PROVE  Ids(matched) \subseteq Ids(matched') /\ Decided \subseteq Decided'
BY DEF ReceiverStep, Ids, Decided

LEMMA ReceiverRequests ==
  ASSUME IInv, ReceiverStep, Owed' \subseteq Owed, CancelIds' \subseteq CancelIds,
         \A h \in DOMAIN sreq : sreq[h].id \in removed' => sreq[h].cancel_pending
  PROVE  Requests'
<1>1. ASSUME NEW h \in DOMAIN sreq
      PROVE  SendOK(sreq[h], h \in sending, sreq[h].id \in Owed', sreq[h].id \in CancelIds')
  <2>1. SendOK(sreq[h], h \in sending, sreq[h].id \in Owed, sreq[h].id \in CancelIds)
    BY DEF IInv, Requests
  <2>2. sreq[h].cc \in Int
    BY SendRequest
  <2> QED
    BY <2>1, <2>2 DEF SendOK, B
<1>2. UNCHANGED <<sreq, sending, nmsg>> /\ removed \subseteq removed'
  BY DEF ReceiverStep
<1> QED
  BY <1>1, <1>2 DEF IInv, Requests

LEMMA ReceiverKnown ==
  ASSUME ReceiverStep, NEW m
  PROVE  Known(m)' <=> Known(m)
BY DEF ReceiverStep, Known, IsRequestOf

LEMMA ReceiverPktR ==
  ASSUME IInv, ReceiverStep, NEW p \in PktsR,
         p.type = "Send" => \A i \in Decided' \cup UnexpectedIds' : i < p.id,
         p.type = "CancelSendReq" => p.id \notin removed',
         p.type = "RndvSend" => Awaited(p)' /\ p.id \notin ProbedIds'
  PROVE  PktR(p)'
<1>1. PktR(p)
  BY DEF IInv, ToReceiver
<1>2. Known(p)' <=> Known(p)
  BY ReceiverKnown
<1>3. UNCHANGED <<sreq, sending, nmsg>> /\ Ids(matched) \subseteq Ids(matched')
  BY ReceiverIds DEF ReceiverStep
<1> QED
  BY <1>1, <1>2, <1>3 DEF PktR, IsRequestOf

LEMMA ReceiverPktS ==
  ASSUME IInv, ReceiverStep, NEW p \in PktsS,
         p.type \in {"EagerSyncAck", "RndvClrToSend"} => p.id \notin ProbedIds',
         p.type = "RndvClrToSend" => Awaited(p)'
  PROVE  PktS(p)'
<1>1. PktS(p)
  BY DEF IInv, ToSender
<1>2. UNCHANGED <<sreq, sending, nmsg>> /\ Ids(matched) \subseteq Ids(matched')
      /\ removed \subseteq removed' /\ (revoked => revoked') /\ PktsR' \subseteq PktsR
  BY ReceiverIds DEF ReceiverStep
<1> QED
  BY <1>1, <1>2 DEF PktS, IsRequestOf

\* The requests in queue w are the ones that were there, with the same message.
Kept(w) == \A k \in Queue(w)' : /\ k \in Queue(w)
                                /\ rreq'[k].id = rreq[k].id /\ rreq'[k].seq = rreq[k].seq
                                /\ rreq'[k].tag = rreq[k].tag /\ rreq'[k].proto = rreq[k].proto
                                /\ rreq'[k].sreq = rreq[k].sreq

LEMMA UnexpectedKept ==
  ASSUME IInv, ReceiverStep, Kept("unexpected"), narr' \in Nat, narr' >= narr,
         \A k \in Queue("unexpected")' : rreq[k].id \notin Decided'
  PROVE  Unexpected'
<1>1. ASSUME NEW k \in Queue("unexpected")'
      PROVE  Known(rreq[k])'
  <2>1. PICK m : m = rreq[k]
    OBVIOUS
  <2>2. PICK n : n = rreq'[k]
    OBVIOUS
  <2>3. /\ Known(m) /\ n.id = m.id /\ n.tag = m.tag /\ n.proto = m.proto /\ n.sreq = m.sreq
    BY <2>1, <2>2 DEF IInv, Unexpected, Kept
  <2>4. Known(m)'
    BY <2>3, ReceiverKnown
  <2>5. Known(n)'
    BY <2>3, <2>4 DEF Known
  <2> QED
    BY <2>2, <2>5 DEF Known
<1>2. ASSUME NEW k \in Queue("unexpected")'
      PROVE  rreq'[k].id \notin Decided' /\ rreq'[k].seq <= narr'
  <2>1. /\ rreq[k].seq <= narr /\ rreq'[k].seq = rreq[k].seq /\ rreq'[k].id = rreq[k].id
        /\ rreq[k].seq \in Nat /\ narr \in Nat
    BY RecvFields DEF IInv, TypeOK, Unexpected, Kept, Queue
  <2> QED
    BY <2>1
<1>3. \A r, s \in Queue("unexpected")' :
       /\ rreq'[r].id = rreq'[s].id => r = s
       /\ rreq'[r].seq < rreq'[s].seq => rreq'[r].id < rreq'[s].id
       /\ rreq'[r].seq = rreq'[s].seq => r = s
  BY DEF IInv, Unexpected, Kept
<1> QED
  BY <1>1, <1>2, <1>3 DEF Unexpected

LEMMA ProbedKept ==
  ASSUME IInv, ReceiverStep, Kept("probed")
  PROVE  Probed' /\ ProbedIds' \subseteq ProbedIds
<1>1. UNCHANGED <<sreq, sending, nmsg>> /\ Ids(matched) \subseteq Ids(matched')
  BY ReceiverIds DEF ReceiverStep
<1>2. ProbedIds' \subseteq ProbedIds
  BY DEF ProbedIds, Kept
<1>3. \A r \in Queue("probed")' :
       /\ rreq'[r].id \in Ids(matched')
       /\ rreq'[r].proto # "eager" =>
            /\ rreq'[r].sreq \in DOMAIN sreq /\ sreq[rreq'[r].sreq].id = rreq'[r].id
            /\ sreq[rreq'[r].sreq].proto = rreq'[r].proto
  BY <1>1 DEF IInv, Probed, Kept, IsRequestOf
<1>4. \A r, s \in Queue("probed")' : rreq'[r].id = rreq'[s].id => r = s
  BY DEF IInv, Probed, Kept
<1> QED
  BY <1>1, <1>2, <1>3, <1>4 DEF Probed, IsRequestOf

LEMMA InOrderKept ==
  ASSUME IInv, ReceiverStep, Kept("unexpected"), Kept("posted"),
         \A u \in Queue("unexpected")', x \in matched' \ matched :
           x.msg.tag = rreq[u].tag => x.msg.id < rreq[u].id,
         \A x \in matched' \ matched, h \in DOMAIN sreq :
           x.msg.id = sreq[h].id => x.msg.tag = sreq[h].tag
  PROVE  InOrder'
<1>1. sreq' = sreq
  BY DEF ReceiverStep
<1>2. \A u \in Queue("unexpected")', x \in matched' :
        x.msg.tag = rreq'[u].tag => x.msg.id < rreq'[u].id
  BY DEF IInv, InOrder, Kept
<1>3. \A u \in Queue("unexpected")', r \in Queue("posted")' :
        rreq'[r].tag \notin {rreq'[u].tag, ANY_TAG}
  BY DEF IInv, InOrder, Kept
<1>4. \A x \in matched', h \in DOMAIN sreq : x.msg.id = sreq[h].id => x.msg.tag = sreq[h].tag
  BY DEF IInv, InOrder
<1> QED
  BY <1>1, <1>2, <1>3, <1>4 DEF InOrder

\* The request at handle r becomes q, and is freed if nobody refers to it.
RBecomes(r, q) ==
  /\ DOMAIN rreq' = IF q.ref = 0 THEN DOMAIN rreq \ {r} ELSE DOMAIN rreq \cup {r}
  /\ \A k \in DOMAIN rreq' : rreq'[k] = IF k = r THEN q ELSE rreq[k]

LEMMA StoreRBecomes ==
  ASSUME NEW r, NEW q, rreq' = Store(rreq, r, q)
  PROVE  RBecomes(r, q)
BY DEF RBecomes, Store

\* The channel fills no other request than it did, except r.
OnlyActive(r) == \A k \in RHandles : k # r => (recv_active' = k <=> recv_active = k)

LEMMA ReceiveBecomes ==
  ASSUME IInv, NEW r \in RHandles, NEW q \in RReqs, RBecomes(r, q), OnlyActive(r),
         revoked' = revoked, recv_active' \in RHandles \cup {NULL, GARBLED},
         q.ref = 0 => recv_active' # r,
         q.ref # 0 => RecvOK(q, recv_active' = r, revoked)
  PROVE  /\ Receives'
         /\ DOMAIN rreq' \subseteq RHandles /\ \A k \in DOMAIN rreq' : rreq'[k] \in RReqs
<1>1. /\ DOMAIN rreq \subseteq RHandles /\ \A k \in DOMAIN rreq : rreq[k] \in RReqs
      /\ \A k \in DOMAIN rreq : RecvOK(rreq[k], recv_active = k, revoked)
      /\ recv_active \in DOMAIN rreq \cup {NULL, GARBLED}
  BY DEF IInv, TypeOK, Receives
<1>2. /\ \A k \in DOMAIN rreq' : k = r \/ k \in DOMAIN rreq
      /\ \A k \in DOMAIN rreq : k # r => k \in DOMAIN rreq'
      /\ r \in DOMAIN rreq' <=> q.ref # 0
      /\ \A k \in DOMAIN rreq' : rreq'[k] = IF k = r THEN q ELSE rreq[k]
  BY DEF RBecomes
<1>3. DOMAIN rreq' \subseteq RHandles /\ \A k \in DOMAIN rreq' : rreq'[k] \in RReqs
  BY <1>1, <1>2
<1>4. ASSUME NEW k \in DOMAIN rreq'
      PROVE  RecvOK(rreq'[k], recv_active' = k, revoked')
  <2>1. CASE k = r
    BY <1>2, <2>1
  <2>2. CASE k # r
    <3>1. k \in DOMAIN rreq /\ rreq'[k] = rreq[k] /\ (recv_active' = k <=> recv_active = k)
      BY <1>1, <1>2, <2>2 DEF OnlyActive
    <3>2. RecvOK(rreq[k], recv_active = k, revoked)
      BY <1>1, <3>1
    <3> QED
      BY <3>1, <3>2
  <2> QED
    BY <2>1, <2>2
<1>5. recv_active' \in DOMAIN rreq' \cup {NULL, GARBLED}
  BY <1>1, <1>2, HandlesAssumption DEF OnlyActive
<1> QED
  BY <1>3, <1>4, <1>5 DEF Receives

LEMMA AwaitedKept ==
  ASSUME IInv, NEW r, NEW q, RBecomes(r, q), OnlyActive(r), NEW y, Awaited(y),
         y.rreq = r => /\ q.ref # 0 /\ recv_active' # r /\ q.id = rreq[r].id
                       /\ q.where = "matched" /\ q.proto = "rndv" /\ q.cc = 1
  PROVE  Awaited(y)'
<1>1. y.rreq \in DOMAIN rreq /\ y.rreq \in RHandles
  BY DEF IInv, TypeOK, Awaited
<1>2. CASE y.rreq = r
  <2>1. r \in DOMAIN rreq' /\ rreq'[r] = q
    BY <1>2 DEF RBecomes
  <2> QED
    BY <1>2, <2>1 DEF Awaited
<1>3. CASE y.rreq # r
  <2>1. y.rreq \in DOMAIN rreq' /\ rreq'[y.rreq] = rreq[y.rreq]
        /\ (recv_active' = y.rreq <=> recv_active = y.rreq)
    BY <1>1, <1>3 DEF RBecomes, OnlyActive
  <2> QED
    BY <2>1 DEF Awaited
<1> QED
  BY <1>2, <1>3

\* What becomes of queue w.
LEMMA QueueBecomes ==
  ASSUME NEW r, NEW q, RBecomes(r, q), NEW w
  PROVE  /\ \A k \in Queue(w)' : k # r => k \in Queue(w) /\ rreq'[k] = rreq[k]
         /\ \A k \in Queue(w) : k # r => k \in Queue(w)' /\ rreq'[k] = rreq[k]
         /\ r \in Queue(w)' => q.where = w /\ rreq'[r] = q /\ q.ref # 0
         /\ q.where = w /\ q.ref # 0 => r \in Queue(w)' /\ rreq'[r] = q
BY DEF RBecomes, Queue

LEMMA KeptBecomes ==
  ASSUME NEW r, NEW q, RBecomes(r, q), NEW w,
         q.where = w /\ q.ref # 0 =>
           /\ r \in Queue(w) /\ q.id = rreq[r].id /\ q.seq = rreq[r].seq
           /\ q.tag = rreq[r].tag /\ q.proto = rreq[r].proto /\ q.sreq = rreq[r].sreq
  PROVE  Kept(w)
BY QueueBecomes DEF Kept

LEMMA ReceiverToR ==
  ASSUME IInv, ReceiverStep, Ordered(toR'),
         \A p \in PktsR' : /\ p.type = "Send" => \A i \in Decided' \cup UnexpectedIds' : i < p.id
                           /\ p.type = "CancelSendReq" => p.id \notin removed'
                           /\ p.type = "RndvSend" => p.id \notin ProbedIds',
         \A p \in PktsR' : p.type = "RndvSend" => Awaited(p)'
  PROVE  ToReceiver'
<1>1. ASSUME NEW p \in PktsR' PROVE PktR(p)'
  <2>1. p \in PktsR
    BY DEF ReceiverStep
  <2> QED
    BY <2>1, ReceiverPktR
<1> QED
  BY <1>1 DEF ToReceiver

LEMMA ReceiverToS ==
  ASSUME IInv, ReceiverStep, Ordered(toS'),
         \A p \in PktsS : p.type \in {"EagerSyncAck", "RndvClrToSend"} => p.id \notin ProbedIds',
         \A p \in PktsS : p.type = "RndvClrToSend" => Awaited(p)',
         \A p \in PktsS' : p \notin PktsS => PktS(p)'
  PROVE  ToSender'
<1>1. ASSUME NEW p \in PktsS' PROVE PktS(p)'
  BY ReceiverPktS
<1> QED
  BY <1>1 DEF ToSender

LEMMA ReceiverOwed ==
  ASSUME ReceiverStep, ProbedIds' \cup AnswerIds' \cup GoneIds' \subseteq Owed
  PROVE  Owed' \subseteq Owed
<1>1. Decided \subseteq Decided' /\ nmsg' = nmsg
  BY ReceiverIds DEF ReceiverStep
<1> QED
  BY <1>1 DEF Owed

LEMMA ReceiverHistory ==
  ASSUME IInv, ReceiverStep, Ids(matched') \subseteq 1 .. nmsg, removed' \subseteq 1 .. nmsg,
         removed' \cap Ids(matched') = {},
         ~revoked' => /\ UnexpectedIds \subseteq UnexpectedIds' \cup Decided'
                      /\ \A x \in PktsR : x.type = "Send" =>
                           x \in PktsR' \/ x.id \in Decided' \cup UnexpectedIds'
  PROVE  History'
<1>1. /\ Decided \subseteq Decided' /\ nmsg' = nmsg /\ (revoked => revoked')
  BY ReceiverIds DEF ReceiverStep
<1>2. ~revoked' => \A id \in 1 .. nmsg :
         \/ id \in Decided' \cup UnexpectedIds'
         \/ \E p \in PktsR' : p.type = "Send" /\ p.id = id
  BY <1>1 DEF IInv, History
<1> QED
  BY <1>1, <1>2 DEF History

-----------------------------------------------------------------------------
(* Changes of a receive request.                                           *)

SameMsg(m, q) == /\ m.id = q.id /\ m.seq = q.seq /\ m.tag = q.tag
                 /\ m.proto = q.proto /\ m.sreq = q.sreq

LEMMA FilledRecv ==
  ASSUME NEW q \in RReqs
  PROVE  /\ Filled(q) \in RReqs /\ SameMsg(Filled(q), q)
         /\ Filled(q).cc = q.cc - 1
         /\ Filled(q).ref = IF q.cc = 1 THEN q.ref - 1 ELSE q.ref
         /\ Filled(q).where = q.where /\ Filled(q).user = q.user
         /\ Filled(q).pending = q.pending /\ Filled(q).tmpbuf = q.tmpbuf
         /\ Filled(q).buf = "good"
<1>1. PICK m : m = [q EXCEPT !.buf = "good"]
  OBVIOUS
<1>2. /\ m \in RReqs /\ SameMsg(m, q) /\ m.cc = q.cc /\ m.ref = q.ref /\ m.where = q.where
      /\ m.user = q.user /\ m.pending = q.pending /\ m.tmpbuf = q.tmpbuf /\ m.buf = "good"
  BY <1>1 DEF RReqs, SameMsg
<1>3. Filled(q) = Complete(m)
  BY <1>1 DEF Filled
<1> QED
  BY <1>2, <1>3, CompleteRecv DEF SameMsg

LEMMA UnpackRecv ==
  ASSUME NEW q \in RReqs
  PROVE  /\ UnpackUEBufComplete(q) \in RReqs /\ SameMsg(UnpackUEBufComplete(q), q)
         /\ UnpackUEBufComplete(q).cc = q.cc - 1
         /\ UnpackUEBufComplete(q).ref = IF q.cc = 1 THEN q.ref - 1 ELSE q.ref
         /\ UnpackUEBufComplete(q).where = q.where /\ UnpackUEBufComplete(q).user = q.user
         /\ UnpackUEBufComplete(q).pending = q.pending - 1
         /\ UnpackUEBufComplete(q).tmpbuf = IF q.pending = 1 THEN "none" ELSE "all"
         /\ UnpackUEBufComplete(q).buf = IF q.pending = 1 THEN "good" ELSE q.buf
<1>1. PICK n : n = q.pending - 1
  OBVIOUS
<1>2. PICK t : t = IF q.pending = 1 THEN "none" ELSE "all"
  OBVIOUS
<1>3. PICK b : b = IF q.pending = 1 THEN "good" ELSE q.buf
  OBVIOUS
<1>4. PICK m : m = [q EXCEPT !.pending = n, !.tmpbuf = t, !.buf = b]
  OBVIOUS
<1>5. n \in Int /\ t \in {"none", "part", "all"} /\ b \in {"none", "good", "bad"}
  BY <1>1, <1>2, <1>3, RecvFields
<1>6. /\ m \in RReqs /\ SameMsg(m, q) /\ m.cc = q.cc /\ m.ref = q.ref /\ m.where = q.where
      /\ m.user = q.user /\ m.pending = n /\ m.tmpbuf = t /\ m.buf = b
  BY <1>4, <1>5 DEF RReqs, SameMsg
<1>7. UnpackUEBufComplete(q) = Complete(m)
  <2>1. [q EXCEPT !.pending = @ - 1,
                  !.tmpbuf = IF q.pending = 1 THEN "none" ELSE "all",
                  !.buf = IF q.pending = 1 THEN "good" ELSE @] = m
    BY <1>1, <1>2, <1>3, <1>4 DEF RReqs
  <2> QED
    BY <2>1 DEF UnpackUEBufComplete
<1> QED
  BY <1>1, <1>2, <1>3, <1>6, <1>7, CompleteRecv DEF SameMsg

LEMMA ReleasedRecv ==
  ASSUME NEW q \in RReqs
  PROVE  /\ Release(q) \in RReqs /\ SameMsg(Release(q), q)
         /\ Release(q).cc = q.cc /\ Release(q).ref = q.ref - 1
         /\ Release(q).where = q.where /\ Release(q).user = FALSE
         /\ Release(q).pending = q.pending /\ Release(q).tmpbuf = q.tmpbuf
         /\ Release(q).buf = q.buf
<1>1. PICK n : n = q.ref - 1
  OBVIOUS
<1>2. Release(q) = [q EXCEPT !.user = FALSE, !.ref = n] /\ n \in Int
  BY <1>1 DEF Release, RReqs
<1> QED
  BY <1>1, <1>2 DEF RReqs, SameMsg

\* The request is completed and goes to state w.
Ended(q, w) == Complete([q EXCEPT !.where = w])

LEMMA EndedRecv ==
  ASSUME NEW q \in RReqs, NEW w \in {"cancelled", "error"}, NEW m, m = Ended(q, w)
  PROVE  /\ m \in RReqs /\ SameMsg(m, q) /\ m.cc = q.cc - 1
         /\ m.ref = IF q.cc = 1 THEN q.ref - 1 ELSE q.ref
         /\ m.where = w /\ m.user = q.user /\ m.pending = q.pending
         /\ m.tmpbuf = q.tmpbuf /\ m.buf = q.buf
<1>1. PICK n : n = [q EXCEPT !.where = w]
  OBVIOUS
<1>2. /\ n \in RReqs /\ SameMsg(n, q) /\ n.cc = q.cc /\ n.ref = q.ref /\ n.where = w
      /\ n.user = q.user /\ n.pending = q.pending /\ n.tmpbuf = q.tmpbuf /\ n.buf = q.buf
  BY <1>1 DEF RReqs, SameMsg
<1>3. m = Complete(n)
  BY <1>1 DEF Ended
<1> QED
  BY <1>2, <1>3, CompleteRecv DEF SameMsg

LEMMA RecvRequest ==
  ASSUME IInv, NEW r \in DOMAIN rreq
  PROVE  /\ rreq[r] \in RReqs /\ r \in RHandles /\ r \notin {NULL, GARBLED}
         /\ RecvOK(rreq[r], recv_active = r, revoked)
BY HandlesAssumption DEF IInv, TypeOK, Receives

\* Steps that change a request of the receiver, and answer nothing.
LEMMA RequestChanges ==
  ASSUME IInv, NEW r \in DOMAIN rreq, NEW q \in RReqs, RBecomes(r, q), OnlyActive(r),
         UNCHANGED <<sreq, sending, nmsg, toS, revoked, narr, nrecv, matched, removed>>,
         recv_active' \in RHandles \cup {NULL, GARBLED},
         toR' \in Seq(MsgPkts \cup CancelPkts \cup DataPkts), Ordered(toR'),
         PktsR' \subseteq PktsR, \A x \in PktsR : x.type = "Send" => x \in PktsR',
         q.ref = 0 => recv_active' # r /\ rreq[r].where \notin {"unexpected", "probed"},
         q.ref # 0 => RecvOK(q, recv_active' = r, revoked),
         SameMsg(q, rreq[r]),
         q.where = rreq[r].where \/ (q.where = "cancelled" /\ rreq[r].where = "posted"),
         \A y \in PktsR' \cup PktsS :
           y.type \in {"RndvSend", "RndvClrToSend"} /\ Awaited(y) /\ y.rreq = r =>
           q.ref # 0 /\ recv_active' # r /\ q.where = "matched" /\ q.cc = 1 /\ q.proto = "rndv"
  PROVE  IInv'
<1>1. ReceiverStep
  BY DEF ReceiverStep
<1>2. PktsS' = PktsS /\ r \in RHandles
  BY RecvRequest DEF PktsS
<1>3. Receives' /\ DOMAIN rreq' \subseteq RHandles /\ \A k \in DOMAIN rreq' : rreq'[k] \in RReqs
  BY <1>2, ReceiveBecomes
<1>4. TypeOK'
  BY <1>3 DEF IInv, TypeOK
<1>5. Kept("unexpected") /\ Kept("probed") /\ Kept("posted")
  BY KeptBecomes DEF SameMsg, Queue
<1>6. Decided' = Decided
  BY DEF Decided
<1>7. Unexpected'
  <2>1. narr' \in Nat /\ narr' >= narr
    BY DEF IInv, TypeOK
  <2>2. \A k \in Queue("unexpected")' : rreq[k].id \notin Decided'
    BY <1>5, <1>6 DEF IInv, Unexpected, Kept
  <2> QED
    BY <1>1, <1>5, <2>1, <2>2, UnexpectedKept
<1>8. Probed' /\ ProbedIds' \subseteq ProbedIds
  BY <1>1, <1>5, ProbedKept
<1>9. InOrder'
  BY <1>1, <1>5, InOrderKept
<1>10. UnexpectedIds' \subseteq UnexpectedIds /\ UnexpectedIds \subseteq UnexpectedIds'
  <2>1. UnexpectedIds' \subseteq UnexpectedIds
    BY <1>5 DEF UnexpectedIds, Kept
  <2>2. ASSUME NEW k \in Queue("unexpected")
        PROVE  k \in Queue("unexpected")' /\ rreq'[k].id = rreq[k].id
    <3>1. CASE k = r
      <4>1. q.where = "unexpected" /\ q.ref # 0
        BY <3>1 DEF Queue
      <4> QED
        BY <3>1, <4>1, QueueBecomes DEF SameMsg
    <3>2. CASE k # r
      BY <3>2, QueueBecomes
    <3> QED
      BY <3>1, <3>2
  <2> QED
    BY <2>1, <2>2 DEF UnexpectedIds
<1>11. History'
  BY <1>1, <1>10, ReceiverHistory DEF IInv, History
<1>12. ASSUME NEW y \in PktsR' \cup PktsS, y.type \in {"RndvSend", "RndvClrToSend"}, Awaited(y)
       PROVE  Awaited(y)'
  BY <1>12, AwaitedKept DEF SameMsg
<1>13. ToReceiver'
  <2>1. ASSUME NEW p \in PktsR'
        PROVE  /\ p.type = "Send" => \A i \in Decided' \cup UnexpectedIds' : i < p.id
               /\ p.type = "CancelSendReq" => p.id \notin removed'
               /\ p.type = "RndvSend" => p.id \notin ProbedIds' /\ Awaited(p)'
    <3>1. PktR(p)
      BY DEF IInv, ToReceiver
    <3> QED
      BY <1>6, <1>8, <1>10, <1>12, <3>1 DEF PktR
  <2> QED
    BY <1>1, <2>1, ReceiverToR
<1>14. ToSender'
  <2>1. ASSUME NEW p \in PktsS
        PROVE  /\ p.type \in {"EagerSyncAck", "RndvClrToSend"} => p.id \notin ProbedIds'
               /\ p.type = "RndvClrToSend" => Awaited(p)'
    <3>1. PktS(p)
      BY DEF IInv, ToSender
    <3> QED
      BY <1>8, <1>12, <3>1 DEF PktS
  <2>2. Ordered(toS')
    BY DEF IInv, ToSender
  <2> QED
    BY <1>1, <1>2, <2>1, <2>2, ReceiverToS
<1>15. AnswerIds' = AnswerIds /\ GoneIds' = GoneIds /\ CancelIds' \subseteq CancelIds
  BY <1>2 DEF AnswerIds, GoneIds, CancelIds
<1>16. Requests'
  <2>1. Owed' \subseteq Owed
    <3>1. ProbedIds' \cup AnswerIds' \cup GoneIds' \subseteq Owed
      BY <1>8, <1>15 DEF Owed
    <3> QED
      BY <1>1, <3>1, ReceiverOwed
  <2>2. \A h \in DOMAIN sreq : sreq[h].id \in removed' => sreq[h].cancel_pending
    BY DEF IInv, Requests
  <2> QED
    BY <1>1, <1>15, <2>1, <2>2, ReceiverRequests
<1> QED
  BY <1>3, <1>4, <1>7, <1>8, <1>9, <1>11, <1>13, <1>14, <1>16 DEF IInv

\* The first packet to the receiver.
LEMMA HeadToReceiver ==
  ASSUME IInv, toR # << >>
  PROVE  /\ Head(toR) \in PktsR /\ PktR(Head(toR))
         /\ Head(toR) \in MsgPkts \cup CancelPkts \cup DataPkts
         /\ toR' = Tail(toR) =>
              /\ PktsR = PktsR' \cup {Head(toR)} /\ Ordered(toR')
              /\ toR' \in Seq(MsgPkts \cup CancelPkts \cup DataPkts)
              /\ \A y \in PktsR' : Before(Head(toR), y)
<1>1. toR \in Seq(MsgPkts \cup CancelPkts \cup DataPkts) /\ Ordered(toR)
  BY DEF IInv, TypeOK, ToReceiver
<1>2. Head(toR) \in PktsR /\ Head(toR) \in MsgPkts \cup CancelPkts \cup DataPkts
  BY <1>1, TailPkt DEF PktsR
<1>3. ASSUME toR' = Tail(toR)
      PROVE  /\ PktsR = PktsR' \cup {Head(toR)} /\ Ordered(toR')
             /\ toR' \in Seq(MsgPkts \cup CancelPkts \cup DataPkts)
             /\ \A y \in PktsR' : Before(Head(toR), y)
  BY <1>1, <1>3, TailPkt DEF PktsR
<1> QED
  BY <1>2, <1>3 DEF IInv, ToReceiver

LEMMA RndvSendStep ==
  ASSUME IInv, toR # << >>, recv_active = NULL, PktHandler_RndvSend(Head(toR)),
         UNCHANGED <<sender, revoked, nrecv>>
  PROVE  IInv'
<1>0. PICK p : p = Head(toR)
  OBVIOUS
<1>1. PICK r : r = p.rreq
  OBVIOUS
<1>2. /\ p.type = "RndvSend" /\ ReceiveData(r, rreq[r], Filled(rreq[r]), p.id)
      /\ toR' = Tail(toR) /\ UNCHANGED <<toS, narr, matched, removed, dropped>>
  BY <1>0, <1>1 DEF PktHandler_RndvSend
<1>3. /\ p \in PktsR /\ PktR(p) /\ PktsR = PktsR' \cup {p} /\ Ordered(toR')
      /\ toR' \in Seq(MsgPkts \cup CancelPkts \cup DataPkts)
      /\ \A y \in PktsR' : Before(p, y)
  BY <1>0, <1>2, HeadToReceiver
<1>4. /\ r \in DOMAIN rreq /\ rreq[r].id = p.id /\ rreq[r].where = "matched"
      /\ rreq[r].proto = "rndv" /\ rreq[r].cc = 1
  BY <1>1, <1>2, <1>3 DEF PktR, Awaited
<1>5. /\ rreq[r] \in RReqs /\ r \in RHandles /\ r # NULL /\ recv_active # r
      /\ RecvOK(rreq[r], FALSE, revoked)
  BY <1>4, RecvRequest
<1>6. /\ rreq[r].buf = "none" /\ rreq[r].tmpbuf = "none" /\ rreq[r].ref = B(rreq[r].user) + 1
  BY <1>4, <1>5 DEF RecvOK, MatchedOK
<1>7. \A y \in PktsR' \cup PktsS : 
         ~(y.type \in {"RndvSend", "RndvClrToSend"} /\ Awaited(y) /\ y.rreq = r)
  <2>1. ASSUME NEW y \in PktsR', Awaited(y), y.rreq = r, y.type \in {"RndvSend", "RndvClrToSend"}
        PROVE  FALSE
    <3>1. y \in MsgPkts \cup CancelPkts \cup DataPkts
      BY <1>3, PktTypes DEF IInv
    <3>2. y.type = "RndvSend"
      BY <2>1, <3>1 DEF MsgPkts, CancelPkts, DataPkts
    <3>3. y.id # p.id
      BY <1>2, <1>3, <3>2 DEF Before
    <3> QED
      BY <1>4, <2>1, <3>3 DEF Awaited
  <2>2. ASSUME NEW y \in PktsS, Awaited(y), y.rreq = r, y.type \in {"RndvSend", "RndvClrToSend"}
        PROVE  FALSE
    <3>1. y \in AckPkts \cup CTSPkts \cup RespPkts /\ PktS(y)
      BY PktTypes DEF IInv, ToSender
    <3>2. y.type = "RndvClrToSend"
      BY <2>2, <3>1 DEF AckPkts, CTSPkts, RespPkts
    <3>3. y.id # p.id
      BY <1>2, <1>3, <3>1, <3>2 DEF PktS
    <3> QED
      BY <1>4, <2>2, <3>3 DEF Awaited
  <2> QED
    BY <2>1, <2>2
<1>8. /\ UNCHANGED <<sreq, sending, nmsg, toS, revoked, narr, nrecv, matched, removed>>
      /\ PktsR' \subseteq PktsR /\ \A x \in PktsR : x.type = "Send" => x \in PktsR'
  BY <1>2, <1>3 DEF sender
<1>9. CASE rreq' = Store(rreq, r, Filled(rreq[r])) /\ recv_active' = recv_active
  <2>1. PICK q : q = Filled(rreq[r])
    OBVIOUS
  <2>2. /\ q \in RReqs /\ SameMsg(q, rreq[r]) /\ q.cc = 0 /\ q.ref = B(q.user)
        /\ q.where = "matched" /\ q.buf = "good"
    BY <1>4, <1>5, <1>6, <2>1, FilledRecv, RecvFields DEF B
  <2>3. RBecomes(r, q) /\ OnlyActive(r) /\ recv_active' = NULL
    BY <1>9, <2>1, StoreRBecomes DEF OnlyActive
  <2>4. q.ref # 0 => RecvOK(q, recv_active' = r, revoked)
    BY <1>5, <2>2, <2>3 DEF RecvOK, MatchedOK, B
  <2> QED
    BY <1>3, <1>4, <1>5, <1>7, <1>8, <2>2, <2>3, <2>4, RequestChanges
<1>10. CASE rreq' = Store(rreq, r, rreq[r]) /\ recv_active' = r
  <2>1. PICK q : q = rreq[r]
    OBVIOUS
  <2>2. RBecomes(r, q)
    BY <1>10, <2>1, StoreRBecomes
  <2>3. OnlyActive(r)
    BY <1>10, HandlesAssumption DEF OnlyActive
  <2>4. q \in RReqs /\ q.ref # 0 /\ SameMsg(q, rreq[r]) /\ q.where = "matched"
    BY <1>4, <1>5, <1>6, <2>1 DEF SameMsg, B
  <2>5. RecvOK(q, recv_active' = r, revoked)
    BY <1>4, <1>5, <1>6, <1>10, <2>1, <2>4 DEF RecvOK, MatchedOK, B
  <2> QED
    BY <1>3, <1>4, <1>5, <1>7, <1>8, <1>10, <2>2, <2>3, <2>4, <2>5, RequestChanges
<1> QED
  BY <1>2, <1>9, <1>10 DEF ReceiveData

LEMMA DataArrivesStep ==
  ASSUME IInv, DataArrives
  PROVE  IInv'
<1>1. PICK r : r = recv_active
  OBVIOUS
<1>2. PICK q : q = IF rreq[r].tmpbuf = "part" THEN UnpackUEBufComplete(rreq[r])
                                              ELSE Filled(rreq[r])
  OBVIOUS
<1>3. /\ r \in RHandles /\ rreq' = Store(rreq, r, q) /\ recv_active' = NULL
      /\ UNCHANGED <<sreq, sending, nmsg, toR, toS, revoked, narr, nrecv, matched, removed>>
  BY <1>1, <1>2 DEF DataArrives, sender
<1>4. r \in DOMAIN rreq
  BY <1>1, <1>3, HandlesAssumption DEF IInv, Receives
<1>5. /\ rreq[r] \in RReqs /\ r # NULL /\ RecvOK(rreq[r], TRUE, revoked)
  BY <1>1, <1>4, RecvRequest
<1>6. /\ q \in RReqs /\ SameMsg(q, rreq[r]) /\ q.cc = rreq[r].cc - 1
      /\ q.ref = (IF rreq[r].cc = 1 THEN rreq[r].ref - 1 ELSE rreq[r].ref)
      /\ q.where = rreq[r].where /\ q.user = rreq[r].user
  BY <1>2, <1>5, FilledRecv, UnpackRecv
<1>7. /\ rreq[r].tmpbuf = "part" =>
           /\ q.pending = rreq[r].pending - 1
           /\ q.tmpbuf = IF rreq[r].pending = 1 THEN "none" ELSE "all"
           /\ q.buf = IF rreq[r].pending = 1 THEN "good" ELSE rreq[r].buf
      /\ rreq[r].tmpbuf # "part" =>
           q.pending = rreq[r].pending /\ q.tmpbuf = rreq[r].tmpbuf /\ q.buf = "good"
  BY <1>2, <1>5, FilledRecv, UnpackRecv
<1>8. /\ q.ref # 0 => RecvOK(q, FALSE, revoked)
      /\ q.ref = 0 => q.where \notin {"unexpected", "probed"}
  <2>1. CASE q.where = "matched"
    <3>1. MatchedOK(rreq[r], TRUE)
      BY <1>5, <1>6, <2>1 DEF RecvOK
    <3>2. q.ref # 0 => MatchedOK(q, FALSE)
      BY <1>5, <1>6, <1>7, <3>1, RecvFields DEF MatchedOK, B
    <3> QED
      BY <2>1, <3>2 DEF RecvOK
  <2>2. CASE q.where \in {"unexpected", "probed"}
    <3>1. QueuedOK(rreq[r], TRUE)
      BY <1>5, <1>6, <2>2 DEF RecvOK
    <3>2. /\ rreq[r].buf = "none" /\ rreq[r].cc = 1 /\ rreq[r].ref = 2
          /\ rreq[r].proto # "rndv" /\ rreq[r].pending = 2 /\ rreq[r].tmpbuf = "part"
      BY <3>1 DEF QueuedOK
    <3>3. QueuedOK(q, FALSE) /\ q.ref # 0
      BY <1>6, <1>7, <3>2 DEF QueuedOK, SameMsg
    <3> QED
      BY <1>5, <1>6, <2>2, <3>3 DEF RecvOK
  <2>3. CASE q.where = "error"
    <3>1. ErrorOK(rreq[r], TRUE) /\ revoked
      BY <1>5, <1>6, <2>3 DEF RecvOK
    <3>2. ErrorOK(q, FALSE)
      BY <1>5, <1>6, <1>7, <3>1, RecvFields DEF ErrorOK
    <3> QED
      BY <2>3, <3>1, <3>2 DEF RecvOK
  <2>4. CASE q.where \in {"posted", "cancelled"}
    BY <1>5, <1>6, <2>4 DEF RecvOK
  <2> QED
    BY <1>6, <2>1, <2>2, <2>3, <2>4, RecvFields
<1>9. RBecomes(r, q)
  BY <1>3, StoreRBecomes
<1>10. OnlyActive(r)
  BY <1>1, <1>3, HandlesAssumption DEF OnlyActive
<1>11. \A y : Awaited(y) => y.rreq # r
  BY <1>1 DEF Awaited
<1>12. /\ toR' \in Seq(MsgPkts \cup CancelPkts \cup DataPkts) /\ Ordered(toR') /\ PktsR' = PktsR
  BY <1>3 DEF IInv, TypeOK, ToReceiver, PktsR
<1>13. q.ref # 0 => RecvOK(q, recv_active' = r, revoked)
  BY <1>3, <1>5, <1>8
<1> QED
  BY <1>3, <1>4, <1>5, <1>6, <1>8, <1>9, <1>10, <1>11, <1>12, <1>13, RequestChanges

LEMMA CancelRecvStep ==
  ASSUME IInv, NEW r \in DOMAIN rreq, Cancel_recv(r)
  PROVE  IInv'
<1>1. PICK q : q = Ended(rreq[r], "cancelled")
  OBVIOUS
<1>2. /\ rreq[r].where = "posted" /\ rreq[r].user /\ rreq' = Store(rreq, r, q)
      /\ UNCHANGED <<sreq, sending, nmsg, toR, toS, recv_active, revoked, narr, nrecv, matched,
                     removed>>
  BY <1>1 DEF Cancel_recv, Queue, sender, Ended
<1>3. /\ rreq[r] \in RReqs /\ RecvOK(rreq[r], recv_active = r, revoked)
  BY RecvRequest
<1>4. /\ q \in RReqs /\ SameMsg(q, rreq[r]) /\ q.cc = rreq[r].cc - 1
      /\ q.ref = (IF rreq[r].cc = 1 THEN rreq[r].ref - 1 ELSE rreq[r].ref)
      /\ q.where = "cancelled" /\ q.buf = rreq[r].buf
  BY <1>1, <1>3, EndedRecv
<1>5. recv_active # r /\ q.cc = 0 /\ q.ref = 1 /\ q.buf = "none"
  BY <1>2, <1>3, <1>4 DEF RecvOK, B
<1>6. RecvOK(q, recv_active' = r, revoked)
  BY <1>2, <1>4, <1>5 DEF RecvOK
<1>7. RBecomes(r, q) /\ OnlyActive(r)
  BY <1>2, StoreRBecomes DEF OnlyActive
<1>8. \A y : Awaited(y) => y.rreq # r
  BY <1>2 DEF Awaited
<1>9. /\ toR' \in Seq(MsgPkts \cup CancelPkts \cup DataPkts) /\ Ordered(toR') /\ PktsR' = PktsR
      /\ recv_active' \in RHandles \cup {NULL, GARBLED}
  BY <1>2 DEF IInv, TypeOK, ToReceiver, PktsR
<1> QED
  BY <1>2, <1>4, <1>5, <1>6, <1>7, <1>8, <1>9, RequestChanges

LEMMA ReleaseRecvStep ==
  ASSUME IInv, NEW r \in DOMAIN rreq, ReleaseRecv(r)
  PROVE  IInv'
<1>1. PICK q : q = Release(rreq[r])
  OBVIOUS
<1>2. /\ rreq[r].user /\ rreq[r].where # "probed" /\ rreq' = Store(rreq, r, q)
      /\ UNCHANGED <<sreq, sending, nmsg, toR, toS, recv_active, revoked, narr, nrecv, matched,
                     removed>>
  BY <1>1 DEF ReleaseRecv, Queue, sender
<1>3. /\ rreq[r] \in RReqs /\ RecvOK(rreq[r], recv_active = r, revoked)
  BY RecvRequest
<1>4. /\ q \in RReqs /\ SameMsg(q, rreq[r]) /\ q.cc = rreq[r].cc /\ q.ref = rreq[r].ref - 1
      /\ q.where = rreq[r].where /\ q.user = FALSE
      /\ q.pending = rreq[r].pending /\ q.tmpbuf = rreq[r].tmpbuf /\ q.buf = rreq[r].buf
  BY <1>1, <1>3, ReleasedRecv
<1>5. /\ q.ref = 0 => recv_active # r /\ q.where \notin {"unexpected", "probed"}
      /\ q.ref # 0 => RecvOK(q, recv_active = r, revoked)
      /\ q.where = "matched" /\ q.cc = 1 => q.ref # 0
  <2>1. CASE q.where = "matched"
    <3>1. MatchedOK(rreq[r], recv_active = r)
      BY <1>3, <1>4, <2>1 DEF RecvOK
    <3>2. /\ q.ref # 0 => MatchedOK(q, recv_active = r)
          /\ q.ref = 0 => recv_active # r /\ q.cc = 0
      BY <1>2, <1>3, <1>4, <3>1, RecvFields DEF MatchedOK, B, SameMsg
    <3> QED
      BY <2>1, <3>2 DEF RecvOK
  <2>2. CASE q.where = "posted"
    BY <1>2, <1>3, <1>4, <2>2, RecvFields DEF RecvOK, B
  <2>3. CASE q.where = "error"
    BY <1>2, <1>3, <1>4, <2>3, RecvFields DEF RecvOK, ErrorOK
  <2>4. CASE q.where = "cancelled"
    BY <1>2, <1>3, <1>4, <2>4, RecvFields DEF RecvOK
  <2>5. q.where # "unexpected"
    BY <1>2, <1>3, <1>4 DEF RecvOK
  <2> QED
    BY <1>2, <1>4, <2>1, <2>2, <2>3, <2>4, <2>5, RecvFields
<1>7. RBecomes(r, q) /\ OnlyActive(r)
  BY <1>2, StoreRBecomes DEF OnlyActive
<1>8. \A y : Awaited(y) /\ y.rreq = r =>
         recv_active # r /\ q.where = "matched" /\ q.cc = 1 /\ q.proto = "rndv"
  BY <1>4 DEF Awaited, SameMsg
<1>9. /\ toR' \in Seq(MsgPkts \cup CancelPkts \cup DataPkts) /\ Ordered(toR') /\ PktsR' = PktsR
      /\ recv_active' \in RHandles \cup {NULL, GARBLED}
  BY <1>2 DEF IInv, TypeOK, ToReceiver, PktsR
<1> QED
  BY <1>2, <1>4, <1>5, <1>7, <1>8, <1>9, RequestChanges

-----------------------------------------------------------------------------
(* Messages and receives that meet.                                        *)

\* The receiver answers the sender of the message in request q, at handle r.
Answer(r, q) ==
  \/ q.proto = "eager" /\ toS' = toS
  \/ q.proto = "sync" /\ toS' = SendAck(q)
  \/ q.proto = "rndv" /\ toS' = SendCTS(r, q) /\ q.ref # 0 /\ q.cc = 1 /\ recv_active' # r

\* The message was not answered before.
LEMMA AnswerIsNew ==
  ASSUME IInv, NEW i \in ((1 .. nmsg) \ Decided) \cup ProbedIds
  PROVE  /\ i \notin AnswerIds /\ \A x \in PktsR : x.type = "RndvSend" => x.id # i
         /\ i \in 1 .. nmsg /\ i \notin removed /\ i \in Owed
<1>1. ProbedIds \subseteq Ids(matched)
  BY DEF ProbedIds, IInv, Probed
<1>2. \A y \in PktsS : y.type \in {"EagerSyncAck", "RndvClrToSend"} =>
        y.id \in Ids(matched) \ ProbedIds
  BY DEF IInv, ToSender, PktS
<1>3. \A y \in PktsR : y.type = "RndvSend" => y.id \in Ids(matched) \ ProbedIds
  BY DEF IInv, ToReceiver, PktR
<1>4. i \notin Ids(matched) \ ProbedIds
  BY DEF Decided
<1>5. i \notin AnswerIds
  BY <1>2, <1>4 DEF AnswerIds
<1>6. i \in 1 .. nmsg /\ i \notin removed
  BY <1>1 DEF IInv, History, Decided
<1> QED
  BY <1>3, <1>4, <1>5, <1>6 DEF Owed

LEMMA AnswerStep ==
  ASSUME IInv, ReceiverStep, NEW r \in RHandles, NEW q \in RReqs, RBecomes(r, q), Answer(r, q),
         removed' = removed, q.where = "matched",
         q.id \in ((1 .. nmsg) \ Decided) \cup ProbedIds,
         q.proto # "eager" => IsRequestOf(q.sreq, q.id) /\ sreq[q.sreq].proto = q.proto,
         q.id \in Ids(matched'), q.id \notin ProbedIds', ProbedIds' \subseteq ProbedIds,
         \A y \in PktsS : y.type = "RndvClrToSend" => Awaited(y)'
  PROVE  /\ ToSender' /\ Owed' \subseteq Owed /\ CancelIds' \subseteq CancelIds
         /\ toS' \in Seq(AckPkts \cup CTSPkts \cup RespPkts)
<1>1. /\ q.id \notin AnswerIds /\ \A x \in PktsR : x.type = "RndvSend" => x.id # q.id
      /\ q.id \in Owed /\ q.id \in Nat
  BY AnswerIsNew, RecvFields
<1>2. /\ toS \in Seq(AckPkts \cup CTSPkts \cup RespPkts) /\ Ordered(toS)
      /\ DOMAIN sreq \subseteq SHandles
  BY DEF IInv, TypeOK, ToSender
<1>3. UNCHANGED <<sreq, sending, nmsg>> /\ PktsR' \subseteq PktsR
  BY DEF ReceiverStep
<1>4. \A p \in PktsS : p.type \in {"EagerSyncAck", "RndvClrToSend"} => p.id \notin ProbedIds'
  BY DEF IInv, ToSender, PktS
<1>5. CASE toS' = toS
  <2>1. PktsS' = PktsS
    BY <1>5 DEF PktsS
  <2>2. ToSender'
    BY <1>2, <1>4, <1>5, <2>1, ReceiverToS
  <2>3. AnswerIds' = AnswerIds /\ GoneIds' = GoneIds /\ CancelIds' \subseteq CancelIds
    BY <1>3, <2>1 DEF AnswerIds, GoneIds, CancelIds
  <2>4. Owed' \subseteq Owed
    BY <2>3, ReceiverOwed DEF Owed
  <2> QED
    BY <1>2, <1>5, <2>2, <2>3, <2>4
<1>6. ASSUME NEW x \in AckPkts \cup CTSPkts, toS' = Append(toS, x), x.id = q.id,
             x.type \in {"EagerSyncAck", "RndvClrToSend"}, PktS(x)'
      PROVE  /\ ToSender' /\ Owed' \subseteq Owed /\ CancelIds' \subseteq CancelIds
             /\ toS' \in Seq(AckPkts \cup CTSPkts \cup RespPkts)
  <2>1. x \in AckPkts \cup CTSPkts \cup RespPkts
    OBVIOUS
  <2>2. ASSUME NEW y \in PktsS PROVE Before(y, x)
    BY <1>1, <1>6 DEF AnswerIds, Before
  <2>3. /\ toS' \in Seq(AckPkts \cup CTSPkts \cup RespPkts) /\ PktsS' = PktsS \cup {x}
        /\ Ordered(toS')
    BY <1>2, <1>6, <2>1, <2>2, AppendPkt DEF PktsS
  <2>4. ToSender'
    BY <1>4, <1>6, <2>3, ReceiverToS
  <2>5. AnswerIds' = AnswerIds \cup {q.id} /\ GoneIds' = GoneIds /\ CancelIds' \subseteq CancelIds
    <3>1. AnswerIds' = AnswerIds \cup {q.id} /\ GoneIds' = GoneIds
      BY <1>6, <2>3 DEF AnswerIds, GoneIds
    <3>2. CancelIds' \subseteq CancelIds
      BY <1>3, <1>6, <2>3 DEF CancelIds
    <3> QED
      BY <3>1, <3>2
  <2>6. Owed' \subseteq Owed
    <3>1. ProbedIds' \cup AnswerIds' \cup GoneIds' \subseteq Owed
      BY <1>1, <2>5 DEF Owed
    <3> QED
      BY <3>1, ReceiverOwed
  <2> QED
    BY <2>3, <2>4, <2>5, <2>6
<1>7. CASE q.proto = "sync" /\ toS' = SendAck(q)
  <2>1. PICK x : x = [type |-> "EagerSyncAck", sreq |-> q.sreq, id |-> q.id]
    OBVIOUS
  <2>2. /\ x \in AckPkts /\ x.type = "EagerSyncAck" /\ x.sreq = q.sreq /\ x.id = q.id
    BY <1>1, <1>2, <1>7, <2>1 DEF AckPkts, IsRequestOf
  <2>3. toS' = Append(toS, x)
    BY <1>7, <2>1 DEF SendAck
  <2>4. PktS(x)'
    BY <1>3, <1>7, <2>2 DEF PktS, IsRequestOf
  <2> QED
    BY <1>6, <2>2, <2>3, <2>4
<1>8. CASE q.proto = "rndv" /\ toS' = SendCTS(r, q) /\ q.ref # 0 /\ q.cc = 1 /\ recv_active' # r
  <2>1. PICK x : x = [type |-> "RndvClrToSend", sreq |-> q.sreq, rreq |-> r, id |-> q.id]
    OBVIOUS
  <2>2. /\ x \in CTSPkts /\ x.type = "RndvClrToSend" /\ x.sreq = q.sreq /\ x.id = q.id
        /\ x.rreq = r
    BY <1>1, <1>2, <1>8, <2>1 DEF CTSPkts, IsRequestOf
  <2>3. toS' = Append(toS, x)
    BY <1>8, <2>1 DEF SendCTS
  <2>4. Awaited(x)'
    <3>1. r \in DOMAIN rreq' /\ rreq'[r] = q
      BY <1>8 DEF RBecomes
    <3> QED
      BY <1>8, <2>2, <3>1 DEF Awaited
  <2>5. PktS(x)'
    BY <1>1, <1>3, <1>8, <2>2, <2>4 DEF PktS, IsRequestOf
  <2> QED
    BY <1>6, <2>2, <2>3, <2>5
<1> QED
  BY <1>5, <1>7, <1>8 DEF Answer

LEMMA MatchStep ==
  ASSUME IInv, NEW r \in RHandles, NEW q \in RReqs, RBecomes(r, q), OnlyActive(r), Answer(r, q),
         UNCHANGED <<sreq, sending, nmsg, revoked, removed>>,
         narr' \in Nat, narr' >= narr, nrecv' \in Nat,
         recv_active' \in RHandles \cup {NULL, GARBLED},
         q.ref = 0 => recv_active' # r,
         q.ref # 0 => RecvOK(q, recv_active' = r, revoked),
         q.where = "matched", r \in DOMAIN rreq => rreq[r].where # "matched",
         q.id \in ((1 .. nmsg) \ Decided) \cup ProbedIds,
         q.proto # "eager" => IsRequestOf(q.sreq, q.id) /\ sreq[q.sreq].proto = q.proto,
         matched \subseteq matched', Ids(matched') = Ids(matched) \cup {q.id},
         PktsR' \subseteq PktsR, Ordered(toR'),
         toR' \in Seq(MsgPkts \cup CancelPkts \cup DataPkts),
         \A x \in PktsR : x.type = "Send" => x \in PktsR' \/ x.id = q.id,
         \A x \in PktsR' : x.type = "Send" => q.id < x.id,
         \A k \in Queue("unexpected") \cup Queue("probed") : k # r => rreq[k].id # q.id,
         r \in Queue("unexpected") => rreq[r].id = q.id,
         \A u \in Queue("unexpected"), x \in matched' \ matched :
           u # r /\ x.msg.tag = rreq[u].tag => x.msg.id < rreq[u].id,
         \A x \in matched' \ matched, h \in DOMAIN sreq :
           x.msg.id = sreq[h].id => x.msg.tag = sreq[h].tag
  PROVE  IInv'
<1>1. ReceiverStep
  BY DEF ReceiverStep
<1>2. Receives' /\ DOMAIN rreq' \subseteq RHandles /\ \A k \in DOMAIN rreq' : rreq'[k] \in RReqs
  BY ReceiveBecomes
<1>3. Kept("unexpected") /\ Kept("probed") /\ Kept("posted")
  BY KeptBecomes
<1>4. \A w \in {"unexpected", "probed"} : r \notin Queue(w)'
  BY QueueBecomes
<1>5. Decided' = Decided \cup {q.id}
  BY DEF Decided
<1>6. /\ q.id \in 1 .. nmsg /\ q.id \notin removed
  BY AnswerIsNew
<1>7. Unexpected'
  <2>1. \A k \in Queue("unexpected")' : rreq[k].id \notin Decided'
    BY <1>3, <1>4, <1>5 DEF IInv, Unexpected, Kept
  <2> QED
    BY <1>1, <1>3, <2>1, UnexpectedKept
<1>8. Probed' /\ ProbedIds' \subseteq ProbedIds /\ q.id \notin ProbedIds'
  <2>1. Probed' /\ ProbedIds' \subseteq ProbedIds
    BY <1>1, <1>3, ProbedKept
  <2>2. q.id \notin ProbedIds'
    BY <1>3, <1>4 DEF ProbedIds, Kept
  <2> QED
    BY <2>1, <2>2
<1>9. InOrder'
  <2>1. \A u \in Queue("unexpected")', x \in matched' \ matched :
           x.msg.tag = rreq[u].tag => x.msg.id < rreq[u].id
    BY <1>3, <1>4 DEF Kept
  <2> QED
    BY <1>1, <1>3, <2>1, InOrderKept
<1>10. UnexpectedIds' \subseteq UnexpectedIds /\ UnexpectedIds \subseteq UnexpectedIds' \cup Decided'
  <2>1. UnexpectedIds' \subseteq UnexpectedIds
    BY <1>3 DEF UnexpectedIds, Kept
  <2>2. ASSUME NEW k \in Queue("unexpected")
        PROVE  rreq[k].id \in UnexpectedIds' \cup Decided'
    <3>1. CASE k = r
      BY <1>5, <3>1
    <3>2. CASE k # r
      BY <3>2, QueueBecomes DEF UnexpectedIds
    <3> QED
      BY <3>1, <3>2
  <2> QED
    BY <2>1, <2>2 DEF UnexpectedIds
<1>11. History'
  <2>1. /\ Ids(matched') \subseteq 1 .. nmsg /\ removed' \subseteq 1 .. nmsg
        /\ removed' \cap Ids(matched') = {}
    BY <1>6 DEF IInv, History
  <2> QED
    BY <1>1, <1>5, <1>10, <2>1, ReceiverHistory
<1>12. ASSUME NEW y, Awaited(y)
       PROVE  Awaited(y)'
  <2>1. y.rreq # r
    BY <1>12 DEF Awaited
  <2> QED
    BY <1>12, <2>1, AwaitedKept
<1>13. ToReceiver'
  <2>1. ASSUME NEW p \in PktsR'
        PROVE  /\ p.type = "Send" => \A i \in Decided' \cup UnexpectedIds' : i < p.id
               /\ p.type = "CancelSendReq" => p.id \notin removed'
               /\ p.type = "RndvSend" => p.id \notin ProbedIds' /\ Awaited(p)'
    <3>1. PktR(p)
      BY DEF IInv, ToReceiver
    <3> QED
      BY <1>5, <1>8, <1>10, <1>12, <3>1 DEF PktR
  <2> QED
    BY <1>1, <2>1, ReceiverToR
<1>14. /\ ToSender' /\ Owed' \subseteq Owed /\ CancelIds' \subseteq CancelIds
       /\ toS' \in Seq(AckPkts \cup CTSPkts \cup RespPkts)
  <2>1. \A y \in PktsS : y.type = "RndvClrToSend" => Awaited(y)'
    BY <1>12 DEF IInv, ToSender, PktS
  <2> QED
    BY <1>1, <1>8, <2>1, AnswerStep
<1>15. TypeOK'
  BY <1>2, <1>14 DEF IInv, TypeOK
<1>16. Requests'
  <2>1. \A h \in DOMAIN sreq : sreq[h].id \in removed' => sreq[h].cancel_pending
    BY DEF IInv, Requests
  <2> QED
    BY <1>1, <1>14, <2>1, ReceiverRequests
<1> QED
  BY <1>2, <1>7, <1>8, <1>9, <1>11, <1>13, <1>14, <1>15, <1>16 DEF IInv

\* The request of a message that a receive is matched with.
LEMMA ReceiveEffect ==
  ASSUME IInv, NEW u \in DOMAIN rreq, rreq[u].where \in {"unexpected", "probed"},
         Receive(u, rreq[u]), recv_active' = recv_active
  PROVE  \E m \in RReqs : /\ RBecomes(u, m) /\ SameMsg(m, rreq[u]) /\ m.where = "matched"
                          /\ m.ref # 0 /\ RecvOK(m, recv_active = u, revoked)
                          /\ Answer(u, m)
<1>1. PICK q : q = rreq[u]
  OBVIOUS
<1>2. q \in RReqs /\ QueuedOK(q, recv_active = u) /\ q.proto \in Protocols
  BY <1>1, RecvRequest, RecvFields DEF RecvOK
<1>3. CASE q.proto \in {"eager", "sync"}
  <2>1. PICK n : n = q.pending - 1
    OBVIOUS
  <2>2. PICK b : b = CASE q.cc # 0 -> q.buf
                       [] q.cc = 0 /\ q.tmpbuf = "all" -> "good"
                       [] OTHER -> "bad"
    OBVIOUS
  <2>3. PICK t : t = IF q.cc = 0 THEN "none" ELSE q.tmpbuf
    OBVIOUS
  <2>4. PICK m : m = [q EXCEPT !.where = "matched", !.user = TRUE, !.pending = n, !.buf = b,
                               !.tmpbuf = t]
    OBVIOUS
  <2>5. /\ q.buf = "none" /\ q.ref = 1 + q.cc
        /\ \/ recv_active = u /\ q.cc = 1 /\ n = 1 /\ b = "none" /\ t = "part"
           \/ recv_active # u /\ q.cc = 0 /\ n = 0 /\ b = "good" /\ t = "none"
    BY <1>2, <1>3, <2>1, <2>2, <2>3 DEF QueuedOK
  <2>6. /\ m \in RReqs /\ SameMsg(m, q) /\ m.where = "matched" /\ m.user = TRUE /\ m.cc = q.cc
        /\ m.ref = q.ref /\ m.pending = n /\ m.buf = b /\ m.tmpbuf = t
    BY <1>2, <2>4, <2>5 DEF RReqs, SameMsg
  <2>7. [[q EXCEPT !.where = "matched", !.user = TRUE] EXCEPT
                       !.pending = @ - 1,
                       !.buf = CASE q.cc # 0 -> @
                                 [] q.cc = 0 /\ q.tmpbuf = "all" -> "good"
                                 [] OTHER -> "bad",
                       !.tmpbuf = IF q.cc = 0 THEN "none" ELSE @] = m
    BY <1>2, <2>1, <2>2, <2>3, <2>4 DEF RReqs
  <2>8. rreq' = Store(rreq, u, m) /\ toS' = IF q.proto = "sync" THEN SendAck(q) ELSE toS
    BY <1>1, <1>3, <2>7 DEF Receive
  <2>9. Answer(u, m)
    BY <1>3, <2>6, <2>8 DEF Answer, SendAck, SameMsg
  <2>10. RBecomes(u, m)
    BY <2>8, StoreRBecomes
  <2>11. m.ref # 0 /\ RecvOK(m, recv_active = u, revoked)
    BY <2>5, <2>6 DEF RecvOK, MatchedOK, B
  <2> QED
    BY <1>1, <2>6, <2>9, <2>10, <2>11
<1>4. CASE q.proto = "rndv"
  <2>1. PICK m : m = [q EXCEPT !.where = "matched", !.user = TRUE]
    OBVIOUS
  <2>2. /\ m \in RReqs /\ SameMsg(m, q) /\ m.where = "matched" /\ m.user = TRUE /\ m.cc = q.cc
        /\ m.ref = q.ref /\ m.buf = q.buf /\ m.tmpbuf = q.tmpbuf
    BY <1>2, <2>1 DEF RReqs, SameMsg
  <2>3. rreq' = Store(rreq, u, m) /\ toS' = SendCTS(u, q)
    BY <1>1, <1>4, <2>1 DEF Receive
  <2>4. /\ q.buf = "none" /\ q.ref = 2 /\ recv_active # u /\ q.cc = 1 /\ q.tmpbuf = "none"
    BY <1>2, <1>4 DEF QueuedOK
  <2>5. m.ref # 0 /\ RecvOK(m, recv_active = u, revoked)
    BY <1>4, <2>2, <2>4 DEF RecvOK, MatchedOK, B, SameMsg
  <2>6. Answer(u, m)
    BY <1>4, <2>2, <2>3, <2>4 DEF Answer, SendCTS, SameMsg
  <2>7. RBecomes(u, m)
    BY <2>3, StoreRBecomes
  <2> QED
    BY <1>1, <2>2, <2>5, <2>6, <2>7
<1> QED
  BY <1>2, <1>3, <1>4 DEF Protocols

LEMMA ImrecvStep ==
  ASSUME IInv, NEW u \in DOMAIN rreq, Imrecv(u)
  PROVE  IInv'
<1>1. /\ u \in Queue("probed") /\ Receive(u, rreq[u])
      /\ UNCHANGED <<sreq, sending, nmsg, toR, recv_active, revoked, narr, nrecv, matched, removed>>
  BY DEF Imrecv, sender
<1>2. rreq[u].where = "probed" /\ u \in RHandles
  BY <1>1, RecvRequest DEF Queue
<1>3. PICK m \in RReqs : /\ RBecomes(u, m) /\ SameMsg(m, rreq[u]) /\ m.where = "matched"
                         /\ m.ref # 0 /\ RecvOK(m, recv_active = u, revoked)
                         /\ Answer(u, m)
  BY <1>1, <1>2, ReceiveEffect
<1>4. /\ m.id \in ProbedIds /\ m.id \in Ids(matched)
      /\ m.proto # "eager" => IsRequestOf(m.sreq, m.id) /\ sreq[m.sreq].proto = m.proto
  BY <1>1, <1>3 DEF ProbedIds, SameMsg, IInv, Probed
<1>5. /\ \A k \in Queue("unexpected") : rreq[k].id # m.id
      /\ \A k \in Queue("probed") : k # u => rreq[k].id # m.id
  BY <1>1, <1>3, <1>4 DEF IInv, Unexpected, Probed, Decided, SameMsg
<1>6. /\ PktsR' = PktsR /\ Ordered(toR') /\ toR' \in Seq(MsgPkts \cup CancelPkts \cup DataPkts)
      /\ \A x \in PktsR : x.type = "Send" => m.id < x.id
  BY <1>1, <1>4 DEF PktsR, IInv, TypeOK, ToReceiver, PktR, Decided
<1>7. /\ narr' \in Nat /\ narr' >= narr /\ nrecv' \in Nat
      /\ recv_active' \in RHandles \cup {NULL, GARBLED} /\ OnlyActive(u)
  BY <1>1 DEF IInv, TypeOK, OnlyActive
<1>8. u \notin Queue("unexpected") /\ Ids(matched') = Ids(matched) \cup {m.id}
  BY <1>1, <1>2, <1>4 DEF Queue
<1> QED
  BY <1>1, <1>2, <1>3, <1>4, <1>5, <1>6, <1>7, <1>8, MatchStep

\* The first of the messages for a receive was sent before the others.
LEMMA FirstMsg ==
  ASSUME IInv, NEW tag, NEW u, IsFirst(u, MatchingMsgs(tag))
  PROVE  /\ u \in Queue("unexpected") /\ tag \in {rreq[u].tag, ANY_TAG}
         /\ \A k \in Queue("unexpected") :
              k # u /\ rreq[k].tag = rreq[u].tag => rreq[u].id < rreq[k].id
<1>1. /\ u \in Queue("unexpected") /\ tag \in {rreq[u].tag, ANY_TAG}
      /\ \A k \in MatchingMsgs(tag) : rreq[u].seq <= rreq[k].seq
  BY DEF IsFirst, MatchingMsgs
<1>2. ASSUME NEW k \in Queue("unexpected"), k # u, rreq[k].tag = rreq[u].tag
      PROVE  rreq[u].id < rreq[k].id
  <2>1. k \in MatchingMsgs(tag)
    BY <1>1, <1>2 DEF MatchingMsgs
  <2>2. rreq[u].seq \in Nat /\ rreq[k].seq \in Nat
    BY <1>1, RecvRequest, RecvFields DEF Queue
  <2>3. rreq[u].seq <= rreq[k].seq /\ rreq[u].seq # rreq[k].seq
    BY <1>1, <1>2, <2>1 DEF IInv, Unexpected
  <2>4. rreq[u].seq < rreq[k].seq
    BY <2>2, <2>3
  <2> QED
    BY <1>1, <2>4 DEF IInv, Unexpected
<1> QED
  BY <1>1, <1>2

LEMMA NewPair ==
  ASSUME NEW seq, NEW tag, NEW n, NEW m, matched' = matched \cup {Pair(seq, tag, Msg(n, m))}
  PROVE  /\ Ids(matched') = Ids(matched) \cup {m.id}
         /\ \A x \in matched' \ matched : x.msg.id = m.id /\ x.msg.tag = m.tag
<1>1. Pair(seq, tag, Msg(n, m)).msg.id = m.id /\ Pair(seq, tag, Msg(n, m)).msg.tag = m.tag
  BY DEF Pair, Msg
<1> DEFINE y == Pair(seq, tag, Msg(n, m))
<1>2. matched' = matched \cup {y} /\ y.msg.id = m.id /\ y.msg.tag = m.tag
  BY <1>1
<1> HIDE DEF y
<1> QED
  BY <1>2 DEF Ids

\* MPID_Irecv finds a message.
LEMMA IrecvFoundStep ==
  ASSUME IInv, NEW tag, NEW u \in DOMAIN rreq, IsFirst(u, MatchingMsgs(tag)), Receive(u, rreq[u]),
         matched' = matched \cup {Pair(nrecv + 1, tag, Msg(rreq[u].seq, rreq[u]))},
         nrecv' = nrecv + 1,
         UNCHANGED <<sender, toR, recv_active, revoked, narr, removed, dropped>>
  PROVE  IInv'
<1>1. UNCHANGED <<sreq, sending, nmsg, toR, recv_active, revoked, narr, removed>>
  BY DEF sender
<1>2. /\ u \in Queue("unexpected") /\ rreq[u].where = "unexpected" /\ u \in RHandles
      /\ \A k \in Queue("unexpected") :
              k # u /\ rreq[k].tag = rreq[u].tag => rreq[u].id < rreq[k].id
  BY FirstMsg, RecvRequest DEF Queue
<1>3. PICK m \in RReqs : /\ RBecomes(u, m) /\ SameMsg(m, rreq[u]) /\ m.where = "matched"
                         /\ m.ref # 0 /\ RecvOK(m, recv_active = u, revoked)
                         /\ Answer(u, m)
  BY <1>1, <1>2, ReceiveEffect
<1>4. Known(rreq[u]) /\ rreq[u].id \notin Decided /\ rreq[u].id = m.id /\ rreq[u].tag = m.tag
      /\ rreq[u].proto = m.proto /\ rreq[u].sreq = m.sreq
  BY <1>2, <1>3 DEF SameMsg, IInv, Unexpected
<1>5. /\ m.id \in (1 .. nmsg) \ Decided
      /\ m.proto # "eager" => IsRequestOf(m.sreq, m.id) /\ sreq[m.sreq].proto = m.proto
      /\ \A h \in DOMAIN sreq : sreq[h].id = m.id => m.tag = sreq[h].tag
  BY <1>4 DEF Known, IsRequestOf
<1>6. /\ \A k \in Queue("unexpected") : k # u => rreq[k].id # m.id
      /\ \A k \in Queue("probed") : rreq[k].id # m.id
  BY <1>2, <1>4 DEF IInv, Unexpected, Probed, Decided
<1>7. /\ PktsR' = PktsR /\ Ordered(toR') /\ toR' \in Seq(MsgPkts \cup CancelPkts \cup DataPkts)
      /\ \A x \in PktsR : x.type = "Send" => m.id < x.id
  BY <1>1, <1>2, <1>4 DEF PktsR, IInv, TypeOK, ToReceiver, PktR, UnexpectedIds
<1>8. /\ narr' \in Nat /\ narr' >= narr /\ nrecv' \in Nat
      /\ recv_active' \in RHandles \cup {NULL, GARBLED} /\ OnlyActive(u)
  BY <1>1 DEF IInv, TypeOK, OnlyActive
<1>9. /\ matched \subseteq matched' /\ Ids(matched') = Ids(matched) \cup {m.id}
      /\ \A x \in matched' \ matched : x.msg.id = m.id /\ x.msg.tag = m.tag
  BY <1>4, NewPair
<1> QED
  BY <1>1, <1>2, <1>3, <1>4, <1>5, <1>6, <1>7, <1>8, <1>9, MatchStep

LEMMA FoundPostedStep ==
  ASSUME IInv, toR # << >>, recv_active = NULL, Head(toR).type = "Send", FoundPosted(Head(toR)),
         narr' = narr + 1, UNCHANGED <<sender, revoked, nrecv, removed>>
  PROVE  IInv'
<1>0. PICK p : p = Head(toR)
  OBVIOUS
<1>1. PICK r \in DOMAIN rreq :
        LET q == [rreq[r] EXCEPT !.where = "matched", !.proto = p.proto,
                                 !.sreq = p.sreq, !.id = p.id]
        IN  /\ IsFirst(r, MatchingRecvs(p.tag))
            /\ matched' = matched \cup {Pair(rreq[r].seq, rreq[r].tag, Msg(narr + 1, p))}
            /\ \/ /\ p.proto \in {"eager", "sync"}
                  /\ ReceiveData(r, q, Filled(q), p.id)
                  /\ toS' = IF p.proto = "sync" THEN SendAck(p) ELSE toS
               \/ /\ p.proto = "rndv"
                  /\ rreq' = Store(rreq, r, q)
                  /\ toS' = SendCTS(r, p)
                  /\ UNCHANGED recv_active
            /\ toR' = Tail(toR)
  BY <1>0 DEF FoundPosted
<1>2. PICK q : q = [rreq[r] EXCEPT !.where = "matched", !.proto = p.proto,
                                   !.sreq = p.sreq, !.id = p.id]
  OBVIOUS
<1>3. /\ matched' = matched \cup {Pair(rreq[r].seq, rreq[r].tag, Msg(narr + 1, p))}
      /\ \/ /\ p.proto \in {"eager", "sync"}
            /\ ReceiveData(r, q, Filled(q), p.id)
            /\ toS' = IF p.proto = "sync" THEN SendAck(p) ELSE toS
         \/ /\ p.proto = "rndv"
            /\ rreq' = Store(rreq, r, q)
            /\ toS' = SendCTS(r, p)
            /\ UNCHANGED recv_active
      /\ toR' = Tail(toR)
      /\ UNCHANGED <<sreq, sending, nmsg, revoked, nrecv, removed>>
  BY <1>1, <1>2 DEF sender
<1>4. r \in Queue("posted") /\ rreq[r].where = "posted" /\ rreq[r].tag \in {p.tag, ANY_TAG}
  BY <1>1 DEF IsFirst, MatchingRecvs, Queue
<1>5. /\ p \in PktsR /\ PktR(p) /\ PktsR = PktsR' \cup {p} /\ Ordered(toR') /\ p.type = "Send"
      /\ toR' \in Seq(MsgPkts \cup CancelPkts \cup DataPkts)
      /\ \A y \in PktsR' : Before(p, y)
      /\ p \in MsgPkts \cup CancelPkts \cup DataPkts
  BY <1>0, <1>3, HeadToReceiver
<1>6. p.proto \in Protocols /\ p.sreq \in SHandles /\ p.id \in Nat
  BY <1>5 DEF MsgPkts, CancelPkts, DataPkts
<1>7. /\ rreq[r] \in RReqs /\ r \in RHandles /\ r # NULL /\ RecvOK(rreq[r], FALSE, revoked)
  BY RecvRequest
<1>8. /\ q \in RReqs /\ q.where = "matched" /\ q.proto = p.proto /\ q.sreq = p.sreq /\ q.id = p.id
      /\ q.cc = rreq[r].cc /\ q.ref = rreq[r].ref /\ q.user = rreq[r].user
      /\ q.buf = rreq[r].buf /\ q.tmpbuf = rreq[r].tmpbuf
  BY <1>2, <1>6, <1>7 DEF RReqs
<1>9. /\ q.cc = 1 /\ q.buf = "none" /\ q.tmpbuf = "none" /\ q.ref = B(q.user) + 1 /\ q.ref # 0
  BY <1>4, <1>7, <1>8 DEF RecvOK, B
<1>10. Known(p) /\ \A i \in Decided \cup UnexpectedIds : i < p.id
  BY <1>5 DEF PktR
<1>11. /\ p.id \in (1 .. nmsg) \ Decided
       /\ p.proto # "eager" => IsRequestOf(p.sreq, p.id) /\ sreq[p.sreq].proto = p.proto
       /\ \A h \in DOMAIN sreq : sreq[h].id = p.id => p.tag = sreq[h].tag
  BY <1>6, <1>10 DEF Known, IsRequestOf
<1>12. /\ \A k \in Queue("unexpected") : rreq[k].id # p.id
       /\ \A k \in Queue("probed") : rreq[k].id # p.id
  <2>1. \A i \in Decided \cup UnexpectedIds : i # p.id
    BY <1>6, <1>10
  <2> QED
    BY <2>1 DEF UnexpectedIds, IInv, Probed, Decided
<1>13. \A k \in Queue("unexpected") : rreq[k].tag # p.tag
  BY <1>4 DEF IInv, InOrder
<1>14. /\ PktsR' \subseteq PktsR
       /\ \A x \in PktsR : x.type = "Send" => x \in PktsR' \/ x.id = p.id
       /\ \A x \in PktsR' : x.type = "Send" => p.id < x.id
  BY <1>5 DEF Before
<1>15. /\ narr' \in Nat /\ narr' >= narr /\ nrecv' \in Nat
  BY <1>3 DEF IInv, TypeOK
<1>16. /\ matched \subseteq matched' /\ Ids(matched') = Ids(matched) \cup {p.id}
       /\ \A x \in matched' \ matched : x.msg.id = p.id /\ x.msg.tag = p.tag
  <2>1. PICK y : y = Pair(rreq[r].seq, rreq[r].tag, Msg(narr + 1, p))
    OBVIOUS
  <2>2. y.msg.id = p.id /\ y.msg.tag = p.tag
    BY <2>1 DEF Pair, Msg
  <2>3. matched' = matched \cup {y}
    BY <1>3, <2>1
  <2> QED
    BY <2>2, <2>3 DEF Ids
<1>17. r \notin Queue("unexpected")
  BY <1>4 DEF Queue
<1>18. ASSUME NEW m \in RReqs, RBecomes(r, m), OnlyActive(r), Answer(r, m),
              recv_active' \in RHandles \cup {NULL, GARBLED},
              m.ref = 0 => recv_active' # r,
              m.ref # 0 => RecvOK(m, recv_active' = r, revoked),
              m.where = "matched", m.id = p.id, m.proto = p.proto, m.sreq = p.sreq
       PROVE  IInv'
  <2>1. /\ m.id \in ((1 .. nmsg) \ Decided) \cup ProbedIds
        /\ m.proto # "eager" => IsRequestOf(m.sreq, m.id) /\ sreq[m.sreq].proto = m.proto
        /\ Ids(matched') = Ids(matched) \cup {m.id}
        /\ \A x \in PktsR : x.type = "Send" => x \in PktsR' \/ x.id = m.id
        /\ \A x \in PktsR' : x.type = "Send" => m.id < x.id
    BY <1>11, <1>14, <1>16, <1>18
  <2>2. /\ \A k \in Queue("unexpected") \cup Queue("probed") : k # r => rreq[k].id # m.id
        /\ \A u \in Queue("unexpected"), x \in matched' \ matched :
             u # r /\ x.msg.tag = rreq[u].tag => x.msg.id < rreq[u].id
        /\ \A x \in matched' \ matched, h \in DOMAIN sreq :
             x.msg.id = sreq[h].id => x.msg.tag = sreq[h].tag
    BY <1>11, <1>12, <1>13, <1>16, <1>18
  <2>3. UNCHANGED <<sreq, sending, nmsg, revoked, removed>> /\ rreq[r].where # "matched"
    BY <1>3, <1>4
  <2> QED
    BY <1>5, <1>7, <1>14, <1>15, <1>16, <1>17, <1>18, <2>1, <2>2, <2>3, MatchStep
<1>19. CASE /\ p.proto \in {"eager", "sync"} /\ rreq' = Store(rreq, r, Filled(q))
            /\ recv_active' = recv_active
            /\ toS' = IF p.proto = "sync" THEN SendAck(p) ELSE toS
  <2>1. PICK m : m = Filled(q)
    OBVIOUS
  <2>2. /\ m \in RReqs /\ m.cc = 0 /\ m.ref = B(m.user) /\ m.where = "matched" /\ m.buf = "good"
        /\ m.id = p.id /\ m.proto = p.proto /\ m.sreq = p.sreq
    BY <1>8, <1>9, <2>1, FilledRecv, RecvFields DEF B, SameMsg
  <2>3. RBecomes(r, m) /\ OnlyActive(r) /\ recv_active' # r
    BY <1>7, <1>19, <2>1, StoreRBecomes DEF OnlyActive
  <2>4. m.ref # 0 => RecvOK(m, recv_active' = r, revoked)
    BY <2>2, <2>3 DEF RecvOK, MatchedOK, B
  <2>5. Answer(r, m)
    BY <1>19, <2>2 DEF Answer, SendAck
  <2> QED
    BY <1>18, <1>19, <2>2, <2>3, <2>4, <2>5
<1>20. CASE /\ p.proto \in {"eager", "sync"} /\ rreq' = Store(rreq, r, q) /\ recv_active' = r
            /\ toS' = IF p.proto = "sync" THEN SendAck(p) ELSE toS
  <2>1. RBecomes(r, q)
    BY <1>20, StoreRBecomes
  <2>2. OnlyActive(r)
    BY <1>20, HandlesAssumption DEF OnlyActive
  <2>3. RecvOK(q, recv_active' = r, revoked)
    BY <1>8, <1>9, <1>20 DEF RecvOK, MatchedOK, B
  <2>4. Answer(r, q)
    BY <1>8, <1>20 DEF Answer, SendAck
  <2> QED
    BY <1>7, <1>8, <1>9, <1>18, <1>20, <2>1, <2>2, <2>3, <2>4
<1>21. CASE /\ p.proto = "rndv" /\ rreq' = Store(rreq, r, q) /\ toS' = SendCTS(r, p)
            /\ recv_active' = recv_active
  <2>1. RBecomes(r, q)
    BY <1>21, StoreRBecomes
  <2>2. OnlyActive(r) /\ recv_active' # r
    BY <1>7, <1>21 DEF OnlyActive
  <2>3. RecvOK(q, recv_active' = r, revoked)
    BY <1>8, <1>9, <1>21, <2>2 DEF RecvOK, MatchedOK, B
  <2>4. Answer(r, q)
    BY <1>8, <1>9, <1>21, <2>2 DEF Answer, SendCTS
  <2> QED
    BY <1>7, <1>8, <1>9, <1>18, <1>21, <2>1, <2>2, <2>3, <2>4
<1> QED
  BY <1>3, <1>19, <1>20, <1>21 DEF ReceiveData

\* Steps after which the same packets are under way, and the same messages
\* are decided, as before.
LEMMA ReceiverFrame ==
  ASSUME IInv, ReceiverStep, UNCHANGED <<removed, toS>>, Ordered(toR'),
         ProbedIds' \subseteq Owed, \A i \in ProbedIds' : i \in ProbedIds \/ i \notin Decided,
         \A x \in PktsR' : x.type = "Send" => \A i \in Decided' \cup UnexpectedIds' : i < x.id,
         \A y : Awaited(y) => Awaited(y)'
  PROVE  ToReceiver' /\ ToSender' /\ Requests'
<1>1. PktsS' = PktsS
  BY DEF PktsS
<1>2. ASSUME NEW i \in ProbedIds'
      PROVE  i \notin Ids(matched) \ ProbedIds
  BY DEF Decided
<1>3. \A y \in PktsS : /\ y.type \in {"EagerSyncAck", "RndvClrToSend"} => y.id \notin ProbedIds'
                       /\ y.type = "RndvClrToSend" => Awaited(y)'
  BY <1>2 DEF IInv, ToSender, PktS
<1>4. \A y \in PktsR : /\ y.type = "RndvSend" => y.id \notin ProbedIds' /\ Awaited(y)'
                       /\ y.type = "CancelSendReq" => y.id \notin removed'
  BY <1>2 DEF IInv, ToReceiver, PktR
<1>5. PktsR' \subseteq PktsR
  BY DEF ReceiverStep
<1>6. ToReceiver'
  BY <1>4, <1>5, ReceiverToR
<1>7. ToSender'
  BY <1>1, <1>3, ReceiverToS DEF IInv, ToSender
<1>8. AnswerIds' = AnswerIds /\ GoneIds' = GoneIds /\ CancelIds' \subseteq CancelIds
  BY <1>1, <1>5 DEF AnswerIds, GoneIds, CancelIds
<1>9. Owed' \subseteq Owed
  BY <1>8, ReceiverOwed DEF Owed
<1>10. \A h \in DOMAIN sreq : sreq[h].id \in removed' => sreq[h].cancel_pending
  BY DEF IInv, Requests
<1> QED
  BY <1>6, <1>7, <1>8, <1>9, <1>10, ReceiverRequests

LEMMA ImprobeStep ==
  ASSUME IInv, NEW tag, Improbe(tag)
  PROVE  IInv'
<1>1. PICK u \in DOMAIN rreq :
        /\ IsFirst(u, MatchingMsgs(tag))
        /\ rreq' = [rreq EXCEPT ![u].where = "probed", ![u].user = TRUE]
        /\ matched' = matched \cup {Pair(nrecv + 1, tag, Msg(rreq[u].seq, rreq[u]))}
  BY DEF Improbe
<1>2. PICK m : m = [rreq[u] EXCEPT !.where = "probed", !.user = TRUE]
  OBVIOUS
<1>3. /\ nrecv' = nrecv + 1
      /\ UNCHANGED <<sreq, sending, nmsg, toR, toS, recv_active, revoked, narr, removed>>
  BY DEF Improbe, sender
<1>4. /\ rreq[u] \in RReqs /\ u \in RHandles /\ RecvOK(rreq[u], recv_active = u, revoked)
  BY RecvRequest
<1>5. /\ u \in Queue("unexpected") /\ rreq[u].where = "unexpected"
      /\ \A k \in Queue("unexpected") :
              k # u /\ rreq[k].tag = rreq[u].tag => rreq[u].id < rreq[k].id
  BY <1>1, FirstMsg DEF Queue
<1>6. /\ m \in RReqs /\ SameMsg(m, rreq[u]) /\ m.where = "probed" /\ m.user = TRUE
      /\ m.cc = rreq[u].cc /\ m.ref = rreq[u].ref /\ m.pending = rreq[u].pending
      /\ m.tmpbuf = rreq[u].tmpbuf /\ m.buf = rreq[u].buf
  BY <1>2, <1>4 DEF RReqs, SameMsg
<1>7. RecvOK(m, recv_active = u, revoked) /\ m.ref # 0
  <2>1. QueuedOK(rreq[u], recv_active = u)
    BY <1>4, <1>5 DEF RecvOK
  <2>2. QueuedOK(m, recv_active = u) /\ m.ref # 0
    BY <1>6, <2>1 DEF QueuedOK, SameMsg
  <2> QED
    BY <1>6, <2>2 DEF RecvOK
<1>8. RBecomes(u, m) /\ OnlyActive(u)
  <2>1. rreq' = [rreq EXCEPT ![u] = m]
    BY <1>1, <1>2
  <2> QED
    BY <1>3, <1>7, <2>1 DEF RBecomes, OnlyActive
<1>9. /\ Receives' /\ DOMAIN rreq' \subseteq RHandles /\ \A k \in DOMAIN rreq' : rreq'[k] \in RReqs
  <2>1. recv_active' \in RHandles \cup {NULL, GARBLED}
    BY <1>3 DEF IInv, TypeOK
  <2> QED
    BY <1>3, <1>4, <1>6, <1>7, <1>8, <2>1, ReceiveBecomes
<1>10. TypeOK'
  BY <1>3, <1>9 DEF IInv, TypeOK
<1>11. /\ Known(rreq[u]) /\ rreq[u].id \notin Decided /\ rreq[u].id = m.id /\ rreq[u].tag = m.tag
       /\ rreq[u].proto = m.proto /\ rreq[u].sreq = m.sreq
  BY <1>5, <1>6 DEF SameMsg, IInv, Unexpected
<1>12. /\ m.id \in (1 .. nmsg) \ Decided
       /\ m.proto # "eager" => IsRequestOf(m.sreq, m.id) /\ sreq[m.sreq].proto = m.proto
       /\ \A h \in DOMAIN sreq : sreq[h].id = m.id => m.tag = sreq[h].tag
  BY <1>11 DEF Known, IsRequestOf
<1>13. /\ matched \subseteq matched' /\ Ids(matched') = Ids(matched) \cup {m.id}
       /\ \A x \in matched' \ matched : x.msg.id = m.id /\ x.msg.tag = m.tag
  <2>1. PICK y : y = Pair(nrecv + 1, tag, Msg(rreq[u].seq, rreq[u]))
    OBVIOUS
  <2>2. y.msg.id = m.id /\ y.msg.tag = m.tag
    BY <1>11, <2>1 DEF Pair, Msg
  <2>3. matched' = matched \cup {y}
    BY <1>1, <2>1
  <2> QED
    BY <2>2, <2>3 DEF Ids
<1>14. PktsR' = PktsR /\ ReceiverStep
  BY <1>3, <1>13 DEF PktsR, ReceiverStep
<1>15. Kept("unexpected") /\ Kept("posted") /\ u \notin Queue("unexpected")'
  BY <1>6, <1>8, KeptBecomes, QueueBecomes
<1>16. Decided' = Decided \cup {m.id}
  BY <1>3, <1>13 DEF Decided
<1>17. Unexpected'
  <2>1. \A k \in Queue("unexpected")' : rreq[k].id \notin Decided'
    BY <1>5, <1>11, <1>15, <1>16 DEF IInv, Unexpected, Kept
  <2>2. narr' \in Nat /\ narr' >= narr
    BY <1>3 DEF IInv, TypeOK
  <2> QED
    BY <1>14, <1>15, <2>1, <2>2, UnexpectedKept
<1>18. \A k \in Queue("probed")' : \/ k = u /\ rreq'[k] = m
                                   \/ k \in Queue("probed") /\ rreq'[k] = rreq[k]
  BY <1>8, QueueBecomes
<1>19. \A k \in Queue("probed") : rreq[k].id # m.id
  BY <1>12 DEF IInv, Probed, Decided
<1>20. Probed'
  <2>1. ASSUME NEW k \in Queue("probed")'
        PROVE  /\ rreq'[k].id \in Ids(matched')
               /\ rreq'[k].proto # "eager" =>
                    /\ rreq'[k].sreq \in DOMAIN sreq /\ sreq[rreq'[k].sreq].id = rreq'[k].id
                    /\ sreq[rreq'[k].sreq].proto = rreq'[k].proto
    <3>1. CASE rreq'[k] = m
      BY <1>12, <1>13, <3>1 DEF IsRequestOf
    <3>2. CASE k \in Queue("probed") /\ rreq'[k] = rreq[k]
      BY <1>13, <3>2 DEF IInv, Probed, IsRequestOf
    <3> QED
      BY <1>18, <3>1, <3>2
  <2>2. ASSUME NEW k \in Queue("probed")', NEW l \in Queue("probed")', rreq'[k].id = rreq'[l].id
        PROVE  k = l
    BY <1>18, <1>19, <2>2 DEF IInv, Probed
  <2> QED
    BY <1>3, <2>1, <2>2 DEF Probed, IsRequestOf
<1>21. InOrder'
  <2>1. \A k \in Queue("unexpected")', x \in matched' \ matched :
           x.msg.tag = rreq[k].tag => x.msg.id < rreq[k].id
    BY <1>5, <1>11, <1>13, <1>15 DEF Kept
  <2>2. \A x \in matched' \ matched, h \in DOMAIN sreq :
           x.msg.id = sreq[h].id => x.msg.tag = sreq[h].tag
    BY <1>12, <1>13
  <2> QED
    BY <1>14, <1>15, <2>1, <2>2, InOrderKept
<1>22. UnexpectedIds' \subseteq UnexpectedIds /\ UnexpectedIds \subseteq UnexpectedIds' \cup Decided'
  <2>1. UnexpectedIds' \subseteq UnexpectedIds
    BY <1>15 DEF UnexpectedIds, Kept
  <2>2. ASSUME NEW k \in Queue("unexpected")
        PROVE  rreq[k].id \in UnexpectedIds' \cup Decided'
    <3>1. CASE k = u
      BY <1>11, <1>16, <3>1
    <3>2. CASE k # u
      BY <1>8, <3>2, QueueBecomes DEF UnexpectedIds
    <3> QED
      BY <3>1, <3>2
  <2> QED
    BY <2>1, <2>2 DEF UnexpectedIds
<1>23. History'
  <2>1. /\ Ids(matched') \subseteq 1 .. nmsg /\ removed' \subseteq 1 .. nmsg
        /\ removed' \cap Ids(matched') = {}
    BY <1>3, <1>12, <1>13 DEF IInv, History, Decided
  <2> QED
    BY <1>14, <1>22, <2>1, ReceiverHistory
<1>24. ToReceiver' /\ ToSender' /\ Requests'
  <2>1. \A i \in ProbedIds' : i \in ProbedIds \/ i = m.id
    BY <1>18 DEF ProbedIds
  <2>2. ProbedIds' \subseteq Owed /\ \A i \in ProbedIds' : i \in ProbedIds \/ i \notin Decided
    BY <1>12, <2>1 DEF Owed
  <2>3. ASSUME NEW y, Awaited(y)
        PROVE  Awaited(y)'
    <3>1. y.rreq # u
      BY <1>5, <2>3 DEF Awaited
    <3> QED
      BY <1>8, <2>3, <3>1, AwaitedKept
  <2>4. ASSUME NEW x \in PktsR', x.type = "Send"
        PROVE  \A i \in Decided' \cup UnexpectedIds' : i < x.id
    <3>1. \A i \in Decided \cup UnexpectedIds : i < x.id
      BY <1>14, <2>4 DEF IInv, ToReceiver, PktR
    <3>2. m.id \in UnexpectedIds
      BY <1>5, <1>11 DEF UnexpectedIds
    <3> QED
      BY <1>16, <1>22, <3>1, <3>2
  <2>5. Ordered(toR') /\ UNCHANGED <<removed, toS>>
    BY <1>3 DEF IInv, ToReceiver
  <2> QED
    BY <1>14, <2>2, <2>3, <2>4, <2>5, ReceiverFrame
<1> QED
  BY <1>9, <1>10, <1>17, <1>20, <1>21, <1>23, <1>24 DEF IInv

\* MPID_Irecv finds no message.
LEMMA IrecvPostedStep ==
  ASSUME IInv, NEW tag, MatchingMsgs(tag) = {}, ~revoked,
         NEW r \in RHandles \ DOMAIN rreq, NEW q \in RReqs, RBecomes(r, q),
         q.where = "posted", q.tag = tag, q.cc = 1, q.ref = 2, q.user = TRUE, q.pending = 1,
         q.tmpbuf = "none", q.buf = "none",
         nrecv' \in Nat, UNCHANGED <<toS, matched>>,
         UNCHANGED <<sender, toR, recv_active, revoked, narr, removed, dropped>>
  PROVE  IInv'
<1>2. UNCHANGED <<sreq, sending, nmsg, toR, toS, recv_active, revoked, narr, matched, removed>>
  BY DEF sender
<1>3. q.where = "posted" /\ q.tag = tag /\ q.ref # 0
  OBVIOUS
<1>4. recv_active # r /\ OnlyActive(r)
  BY <1>2, HandlesAssumption DEF IInv, Receives, OnlyActive
<1>5. RBecomes(r, q)
  OBVIOUS
<1>6. RecvOK(q, recv_active' = r, revoked)
  BY <1>2, <1>3, <1>4 DEF RecvOK, B
<1>7. /\ Receives' /\ DOMAIN rreq' \subseteq RHandles /\ \A k \in DOMAIN rreq' : rreq'[k] \in RReqs
  <2>1. recv_active' \in RHandles \cup {NULL, GARBLED}
    BY <1>2 DEF IInv, TypeOK
  <2> QED
    BY <1>2, <1>3, <1>4, <1>5, <1>6, <2>1, ReceiveBecomes
<1>8. TypeOK'
  BY <1>2, <1>7 DEF IInv, TypeOK
<1>9. Kept("unexpected") /\ Kept("probed")
  BY <1>3, <1>5, KeptBecomes
<1>10. PktsR' = PktsR /\ ReceiverStep /\ Decided' = Decided
  BY <1>2 DEF PktsR, ReceiverStep, Decided
<1>11. Unexpected'
  <2>1. \A k \in Queue("unexpected")' : rreq[k].id \notin Decided'
    BY <1>9, <1>10 DEF IInv, Unexpected, Kept
  <2>2. narr' \in Nat /\ narr' >= narr
    BY <1>2 DEF IInv, TypeOK
  <2> QED
    BY <1>9, <1>10, <2>1, <2>2, UnexpectedKept
<1>12. Probed' /\ ProbedIds' \subseteq ProbedIds
  BY <1>9, <1>10, ProbedKept
<1>13. InOrder'
  <2>1. \A u \in Queue("unexpected")', x \in matched' :
          x.msg.tag = rreq'[u].tag => x.msg.id < rreq'[u].id
    BY <1>2, <1>9 DEF IInv, InOrder, Kept
  <2>2. ASSUME NEW u \in Queue("unexpected")', NEW k \in Queue("posted")'
        PROVE  rreq'[k].tag \notin {rreq'[u].tag, ANY_TAG}
    <3>1. u \in Queue("unexpected") /\ rreq'[u].tag = rreq[u].tag
      BY <1>9 DEF Kept
    <3>2. CASE k = r
      <4>1. rreq'[k].tag = tag
        BY <1>3, <1>5, <3>2, QueueBecomes
      <4> QED
        BY <3>1, <4>1 DEF MatchingMsgs
    <3>3. CASE k # r
      <4>1. k \in Queue("posted") /\ rreq'[k] = rreq[k]
        BY <1>5, <3>3, QueueBecomes
      <4> QED
        BY <3>1, <4>1 DEF IInv, InOrder
    <3> QED
      BY <3>2, <3>3
  <2> QED
    BY <1>2, <2>1, <2>2 DEF IInv, InOrder
<1>14. UnexpectedIds' \subseteq UnexpectedIds /\ UnexpectedIds \subseteq UnexpectedIds'
  <2>1. UnexpectedIds' \subseteq UnexpectedIds
    BY <1>9 DEF UnexpectedIds, Kept
  <2>2. \A k \in Queue("unexpected") : k # r
    BY DEF Queue
  <2>3. UnexpectedIds \subseteq UnexpectedIds'
    BY <1>5, <2>2, QueueBecomes DEF UnexpectedIds
  <2> QED
    BY <2>1, <2>3
<1>15. History'
  BY <1>2, <1>10, <1>14, ReceiverHistory DEF IInv, History
<1>16. ToReceiver' /\ ToSender' /\ Requests'
  <2>1. ProbedIds' \subseteq Owed /\ \A i \in ProbedIds' : i \in ProbedIds \/ i \notin Decided
    BY <1>12 DEF Owed
  <2>2. ASSUME NEW y, Awaited(y)
        PROVE  Awaited(y)'
    <3>1. y.rreq # r
      BY <2>2 DEF Awaited
    <3> QED
      BY <1>4, <1>5, <2>2, <3>1, AwaitedKept
  <2>3. \A x \in PktsR' : x.type = "Send" => \A i \in Decided' \cup UnexpectedIds' : i < x.id
    BY <1>10, <1>14 DEF IInv, ToReceiver, PktR
  <2>4. Ordered(toR')
    BY <1>2 DEF IInv, ToReceiver
  <2> QED
    BY <1>2, <1>10, <2>1, <2>2, <2>3, <2>4, ReceiverFrame
<1> QED
  BY <1>7, <1>8, <1>11, <1>12, <1>13, <1>15, <1>16 DEF IInv

LEMMA IrecvStep ==
  ASSUME IInv, NEW tag \in MsgTags \cup {ANY_TAG}, Irecv(tag)
  PROVE  IInv'
<1>1. /\ ~revoked /\ nrecv' = nrecv + 1
      /\ UNCHANGED <<sender, toR, recv_active, revoked, narr, removed, dropped>>
  BY DEF Irecv
<1>2. CASE \E u \in DOMAIN rreq :
             /\ IsFirst(u, MatchingMsgs(tag))
             /\ Receive(u, rreq[u])
             /\ matched' = matched \cup {Pair(nrecv + 1, tag, Msg(rreq[u].seq, rreq[u]))}
  BY <1>1, <1>2, IrecvFoundStep
<1>3. CASE /\ MatchingMsgs(tag) = {}
           /\ \E r \in RHandles \ DOMAIN rreq :
                rreq' = Store(rreq, r, [where |-> "posted", seq |-> nrecv + 1, tag |-> tag,
                         proto |-> "eager", sreq |-> NULL, id |-> 0, cc |-> 1, ref |-> 2,
                         user |-> TRUE, pending |-> 1, tmpbuf |-> "none",
                         buf |-> "none"])
           /\ UNCHANGED <<toS, matched>>
  <2>1. PICK n \in Nat : n = nrecv + 1
    BY DEF IInv, TypeOK
  <2>2. PICK q : q = [where |-> "posted", seq |-> n, tag |-> tag,
                      proto |-> "eager", sreq |-> NULL, id |-> 0, cc |-> 1, ref |-> 2,
                      user |-> TRUE, pending |-> 1, tmpbuf |-> "none", buf |-> "none"]
    OBVIOUS
  <2>3. PICK r \in RHandles \ DOMAIN rreq : rreq' = Store(rreq, r, q)
    BY <1>3, <2>1, <2>2
  <2>4. /\ q \in RReqs /\ q.where = "posted" /\ q.tag = tag /\ q.cc = 1 /\ q.ref = 2
        /\ q.user = TRUE /\ q.pending = 1 /\ q.tmpbuf = "none" /\ q.buf = "none"
    BY <2>2 DEF RReqs, Protocols
  <2>5. RBecomes(r, q)
    BY <2>3, StoreRBecomes
  <2> QED
    BY <1>1, <1>3, <2>1, <2>4, <2>5, IrecvPostedStep
<1> QED
  BY <1>2, <1>3 DEF Irecv

LEMMA ThrowAwayStep ==
  ASSUME IInv, toR # << >>, recv_active = NULL, ThrowAway(Head(toR)), narr' = narr + 1,
         UNCHANGED <<sender, revoked, nrecv, removed>>
  PROVE  IInv'
<1>1. /\ revoked /\ UNCHANGED <<sreq, sending, nmsg, rreq, toS, revoked, nrecv, matched, removed>>
      /\ recv_active' \in {NULL, GARBLED}
  BY DEF ThrowAway, sender
<1>2. PICK n \in 1 .. Len(toR) : toR' = SubSeq(toR, n + 1, Len(toR))
  BY DEF ThrowAway
<1>3. toR \in Seq(MsgPkts \cup CancelPkts \cup DataPkts) /\ Ordered(toR)
  BY DEF IInv, TypeOK, ToReceiver
<1>4. /\ toR' \in Seq(MsgPkts \cup CancelPkts \cup DataPkts) /\ PktsR' \subseteq PktsR
      /\ Ordered(toR')
  BY <1>2, <1>3, DropPkts DEF PktsR
<1>5. TypeOK'
  BY <1>1, <1>4 DEF IInv, TypeOK
<1>6. ReceiverStep /\ Decided' = Decided /\ UnexpectedIds' = UnexpectedIds /\ ProbedIds' = ProbedIds
      /\ \A w : Queue(w)' = Queue(w)
  BY <1>1, <1>4 DEF ReceiverStep, Decided, UnexpectedIds, ProbedIds, Queue
<1>7. Receives'
  <2>1. ASSUME NEW k \in DOMAIN rreq
        PROVE  RecvOK(rreq[k], recv_active' = k, revoked)
    <3>1. (recv_active' = k) = (recv_active = k) /\ RecvOK(rreq[k], recv_active = k, revoked)
      BY <1>1, RecvRequest
    <3> QED
      BY <3>1
  <2> QED
    BY <1>1, <2>1 DEF Receives
<1>8. Kept("unexpected") /\ Kept("posted") /\ Kept("probed")
  BY <1>1, <1>6 DEF Kept
<1>9. Unexpected'
  <2>1. \A k \in Queue("unexpected")' : rreq[k].id \notin Decided'
    BY <1>6 DEF IInv, Unexpected
  <2>2. narr' \in Nat /\ narr' >= narr
    BY DEF IInv, TypeOK
  <2> QED
    BY <1>6, <1>8, <2>1, <2>2, UnexpectedKept
<1>10. Probed' /\ InOrder'
  BY <1>1, <1>6, <1>8, ProbedKept, InOrderKept
<1>11. History'
  BY <1>1, <1>6, ReceiverHistory DEF IInv, History
<1>12. ToReceiver' /\ ToSender' /\ Requests'
  <2>1. ASSUME NEW y, Awaited(y)
        PROVE  Awaited(y)'
    <3>1. y.rreq \in RHandles /\ recv_active' # y.rreq
      BY <1>1, <2>1, HandlesAssumption DEF Awaited, IInv, TypeOK
    <3> QED
      BY <1>1, <2>1, <3>1 DEF Awaited
  <2>2. \A x \in PktsR' : x.type = "Send" => \A i \in Decided' \cup UnexpectedIds' : i < x.id
    BY <1>4, <1>6 DEF IInv, ToReceiver, PktR
  <2>3. ProbedIds' \subseteq Owed
    BY <1>6 DEF Owed
  <2> QED
    BY <1>1, <1>4, <1>6, <2>1, <2>2, <2>3, ReceiverFrame
<1> QED
  BY <1>5, <1>7, <1>9, <1>10, <1>11, <1>12 DEF IInv

LEMMA AppendUnexpectedStep ==
  ASSUME IInv, toR # << >>, recv_active = NULL, Head(toR).type = "Send",
         AppendUnexpected(Head(toR)), narr' = narr + 1,
         UNCHANGED <<sender, revoked, nrecv, removed>>
  PROVE  IInv'
<1>0. PICK p : p = Head(toR)
  OBVIOUS
<1>1. PICK r \in RHandles \ DOMAIN rreq :
        LET q == [where |-> "unexpected", seq |-> narr + 1, tag |-> p.tag,
                  proto |-> p.proto, sreq |-> p.sreq, id |-> p.id, cc |-> 1, ref |-> 2,
                  user |-> FALSE, pending |-> 1, tmpbuf |-> "none", buf |-> "none"]
        IN  /\ ~revoked
            /\ MatchingRecvs(p.tag) = {}
            /\ \/ /\ p.proto \in {"eager", "sync"}
                  /\ ReceiveData(r, UnexpectedPart(q),
                                 Complete([q EXCEPT !.tmpbuf = "all"]), p.id)
               \/ /\ p.proto = "rndv"
                  /\ rreq' = Store(rreq, r, q)
                  /\ UNCHANGED recv_active
            /\ toR' = Tail(toR)
            /\ UNCHANGED <<toS, matched, dropped>>
  BY <1>0 DEF AppendUnexpected
<1>2. PICK q : q = [where |-> "unexpected", seq |-> narr + 1, tag |-> p.tag,
                    proto |-> p.proto, sreq |-> p.sreq, id |-> p.id, cc |-> 1, ref |-> 2,
                    user |-> FALSE, pending |-> 1, tmpbuf |-> "none", buf |-> "none"]
  OBVIOUS
<1>3. PICK f : f = [q EXCEPT !.tmpbuf = "all"]
  OBVIOUS
<1>4. /\ ~revoked /\ MatchingRecvs(p.tag) = {}
      /\ \/ p.proto \in {"eager", "sync"} /\ ReceiveData(r, UnexpectedPart(q), Complete(f), p.id)
         \/ p.proto = "rndv" /\ rreq' = Store(rreq, r, q) /\ recv_active' = recv_active
      /\ toR' = Tail(toR)
      /\ UNCHANGED <<sreq, sending, nmsg, toS, revoked, nrecv, matched, removed>>
  BY <1>1, <1>2, <1>3 DEF sender
<1>5. /\ p \in PktsR /\ PktR(p) /\ PktsR = PktsR' \cup {p} /\ Ordered(toR') /\ p.type = "Send"
      /\ toR' \in Seq(MsgPkts \cup CancelPkts \cup DataPkts)
      /\ \A y \in PktsR' : Before(p, y)
      /\ p \in MsgPkts \cup CancelPkts \cup DataPkts
  BY <1>0, <1>4, HeadToReceiver
<1>6. /\ p.proto \in Protocols /\ p.sreq \in SHandles /\ p.id \in Nat /\ p.tag \in MsgTags
      /\ narr \in Nat
  BY <1>5 DEF MsgPkts, CancelPkts, DataPkts, IInv, TypeOK
<1>7. /\ q \in RReqs /\ q.where = "unexpected" /\ q.seq = narr + 1 /\ q.tag = p.tag
      /\ q.proto = p.proto /\ q.sreq = p.sreq /\ q.id = p.id
      /\ q.cc = 1 /\ q.ref = 2 /\ q.user = FALSE /\ q.pending = 1
      /\ q.tmpbuf = "none" /\ q.buf = "none"
  <2>1. PICK n \in Nat : n = narr + 1
    BY <1>6
  <2>2. /\ q = [where |-> "unexpected", seq |-> n, tag |-> p.tag,
                proto |-> p.proto, sreq |-> p.sreq, id |-> p.id, cc |-> 1, ref |-> 2,
                user |-> FALSE, pending |-> 1, tmpbuf |-> "none", buf |-> "none"]
    BY <1>2, <2>1
  <2> QED
    BY <1>6, <2>1, <2>2 DEF RReqs
<1>8. \E m \in RReqs : /\ RBecomes(r, m) /\ SameMsg(m, q) /\ m.where = "unexpected" /\ m.ref # 0
                       /\ RecvOK(m, recv_active' = r, revoked)
                       /\ recv_active' \in {NULL, r}
  <2>1. CASE /\ p.proto \in {"eager", "sync"} /\ rreq' = Store(rreq, r, Complete(f))
             /\ recv_active' = recv_active
    <3>1. /\ f \in RReqs /\ SameMsg(f, q) /\ f.where = "unexpected" /\ f.cc = 1 /\ f.ref = 2
          /\ f.user = FALSE /\ f.pending = 1 /\ f.tmpbuf = "all" /\ f.buf = "none"
      BY <1>3, <1>7 DEF RReqs, SameMsg
    <3>2. PICK m : m = Complete(f)
      OBVIOUS
    <3>3. /\ m \in RReqs /\ SameMsg(m, q) /\ m.where = "unexpected" /\ m.cc = 0 /\ m.ref = 1
          /\ m.user = FALSE /\ m.pending = 1 /\ m.tmpbuf = "all" /\ m.buf = "none"
      BY <3>1, <3>2, CompleteRecv DEF SameMsg
    <3>4. recv_active' # r
      BY <2>1, HandlesAssumption
    <3>5. RecvOK(m, recv_active' = r, revoked)
      BY <1>4, <1>7, <2>1, <3>3, <3>4 DEF RecvOK, QueuedOK, SameMsg
    <3>6. RBecomes(r, m)
      BY <2>1, <3>2, StoreRBecomes
    <3> QED
      BY <2>1, <3>3, <3>5, <3>6
  <2>2. CASE /\ p.proto \in {"eager", "sync"} /\ rreq' = Store(rreq, r, UnexpectedPart(q))
             /\ recv_active' = r
    <3>1. PICK m : m = UnexpectedPart(q)
      OBVIOUS
    <3>2. /\ m \in RReqs /\ SameMsg(m, q) /\ m.where = "unexpected" /\ m.cc = 1 /\ m.ref = 2
          /\ m.user = FALSE /\ m.pending = 2 /\ m.tmpbuf = "part" /\ m.buf = "none"
      BY <1>7, <3>1 DEF UnexpectedPart, RReqs, SameMsg
    <3>3. RecvOK(m, recv_active' = r, revoked)
      BY <1>4, <1>7, <2>2, <3>2 DEF RecvOK, QueuedOK, SameMsg
    <3>4. RBecomes(r, m)
      BY <2>2, <3>1, StoreRBecomes
    <3> QED
      BY <2>2, <3>2, <3>3, <3>4
  <2>3. CASE p.proto = "rndv" /\ rreq' = Store(rreq, r, q) /\ recv_active' = recv_active
    <3>1. recv_active' # r /\ SameMsg(q, q)
      BY <2>3, HandlesAssumption DEF SameMsg
    <3>2. RecvOK(q, recv_active' = r, revoked)
      BY <1>4, <1>7, <2>3, <3>1 DEF RecvOK, QueuedOK
    <3>3. RBecomes(r, q)
      BY <2>3, StoreRBecomes
    <3> QED
      BY <1>7, <2>3, <3>1, <3>2, <3>3
  <2> QED
    BY <1>4, <2>1, <2>2, <2>3 DEF ReceiveData
<1>9. PICK m \in RReqs : /\ RBecomes(r, m) /\ SameMsg(m, q) /\ m.where = "unexpected" /\ m.ref # 0
                         /\ RecvOK(m, recv_active' = r, revoked)
                         /\ recv_active' \in {NULL, r}
  BY <1>8
<1>10. /\ m.id = p.id /\ m.tag = p.tag /\ m.proto = p.proto /\ m.sreq = p.sreq /\ m.seq = narr + 1
  BY <1>7, <1>9 DEF SameMsg
<1>11. OnlyActive(r)
  BY <1>9, HandlesAssumption DEF OnlyActive
<1>12. /\ Receives' /\ DOMAIN rreq' \subseteq RHandles /\ \A k \in DOMAIN rreq' : rreq'[k] \in RReqs
  BY <1>4, <1>9, <1>11, ReceiveBecomes
<1>13. TypeOK'
  BY <1>4, <1>5, <1>9, <1>12 DEF IInv, TypeOK
<1>14. Kept("posted") /\ Kept("probed")
  BY <1>9, KeptBecomes
<1>15. ReceiverStep /\ Decided' = Decided
  BY <1>4, <1>5 DEF ReceiverStep, Decided
<1>16. Known(p) /\ p.id \notin Decided /\ \A i \in Decided \cup UnexpectedIds : i < p.id
  BY <1>5, <1>6 DEF PktR
<1>17. /\ \A k \in Queue("unexpected")' :
            \/ k = r /\ rreq'[k] = m
            \/ k # r /\ k \in Queue("unexpected") /\ rreq'[k] = rreq[k]
       /\ \A k \in Queue("unexpected") : k \in Queue("unexpected")' /\ rreq'[k] = rreq[k]
       /\ r \in Queue("unexpected")' /\ rreq'[r] = m
  <2>1. r \notin Queue("unexpected")
    BY DEF Queue
  <2>2. /\ \A k \in Queue("unexpected")' :
             k # r => k \in Queue("unexpected") /\ rreq'[k] = rreq[k]
        /\ \A k \in Queue("unexpected") :
             k # r => k \in Queue("unexpected")' /\ rreq'[k] = rreq[k]
        /\ r \in Queue("unexpected")' /\ rreq'[r] = m
    BY <1>9, QueueBecomes
  <2> QED
    BY <2>1, <2>2
<1>18. UnexpectedIds' = UnexpectedIds \cup {p.id}
  BY <1>10, <1>17 DEF UnexpectedIds
<1>19. \A k \in Queue("unexpected") : /\ rreq[k].id < p.id /\ rreq[k].id # p.id /\ rreq[k].seq <= narr
                                     /\ rreq[k].seq \in Nat /\ rreq[k].id \in Nat
  <2>1. \A k \in Queue("unexpected") : rreq[k] \in RReqs /\ rreq[k].seq <= narr
    BY RecvRequest DEF Queue, IInv, Unexpected
  <2>2. \A k \in Queue("unexpected") : rreq[k].id < p.id
    BY <1>16 DEF UnexpectedIds
  <2> QED
    BY <1>6, <2>1, <2>2, RecvFields
<1>20. Unexpected'
  <2>1. ASSUME NEW k \in Queue("unexpected")'
        PROVE  Known(rreq[k])' /\ rreq'[k].id \notin Decided' /\ rreq'[k].seq <= narr'
    <3>1. CASE k = r
      <4>1. Known(p)'
        BY <1>15, <1>16, ReceiverKnown
      <4>2. rreq'[k] = m
        BY <1>17, <3>1
      <4>3. Known(rreq[k])'
        BY <1>10, <4>1, <4>2 DEF Known
      <4> QED
        BY <1>6, <1>10, <1>15, <1>16, <4>2, <4>3
    <3>2. CASE k # r
      <4>1. PICK n : n = rreq[k]
        OBVIOUS
      <4>2. k \in Queue("unexpected") /\ rreq'[k] = n
        BY <1>17, <3>2, <4>1
      <4>3. Known(n) /\ n.id \notin Decided /\ n.seq <= narr /\ n.seq \in Nat
        BY <1>19, <4>1, <4>2 DEF IInv, Unexpected
      <4>4. Known(n)'
        BY <1>15, <4>3, ReceiverKnown
      <4>5. Known(rreq[k])'
        BY <4>2, <4>4 DEF Known
      <4> QED
        BY <1>6, <1>15, <4>2, <4>3, <4>5
    <3> QED
      BY <3>1, <3>2
  <2>2. ASSUME NEW k \in Queue("unexpected")', NEW l \in Queue("unexpected")'
        PROVE  /\ rreq'[k].id = rreq'[l].id => k = l
               /\ rreq'[k].seq < rreq'[l].seq => rreq'[k].id < rreq'[l].id
               /\ rreq'[k].seq = rreq'[l].seq => k = l
    <3>1. CASE k # r /\ l # r
      BY <1>17, <3>1 DEF IInv, Unexpected
    <3>2. CASE k = r /\ l # r
      BY <1>6, <1>10, <1>17, <1>19, <3>2
    <3>3. CASE k # r /\ l = r
      BY <1>6, <1>10, <1>17, <1>19, <3>3
    <3>4. CASE k = r /\ l = r
      BY <1>6, <1>10, <1>17, <3>4
    <3> QED
      BY <3>1, <3>2, <3>3, <3>4
  <2> QED
    BY <2>1, <2>2 DEF Unexpected
<1>21. Probed' /\ ProbedIds' \subseteq ProbedIds
  BY <1>14, <1>15, ProbedKept
<1>22. InOrder'
  <2>1. ASSUME NEW k \in Queue("unexpected")', NEW x \in matched, x.msg.tag = rreq'[k].tag
        PROVE  x.msg.id < rreq'[k].id
    <3>1. CASE k = r
      <4>1. x.msg.id \in Decided
        BY DEF Decided, Ids
      <4> QED
        BY <1>10, <1>16, <1>17, <3>1, <4>1
    <3>2. CASE k # r
      BY <1>17, <2>1, <3>2 DEF IInv, InOrder
    <3> QED
      BY <3>1, <3>2
  <2>2. ASSUME NEW k \in Queue("unexpected")', NEW l \in Queue("posted")'
        PROVE  rreq'[l].tag \notin {rreq'[k].tag, ANY_TAG}
    <3>1. l \in Queue("posted") /\ rreq'[l].tag = rreq[l].tag
      BY <1>14 DEF Kept
    <3>2. CASE k = r
      BY <1>4, <1>10, <1>17, <3>1, <3>2 DEF MatchingRecvs
    <3>3. CASE k # r
      BY <1>17, <3>1, <3>3 DEF IInv, InOrder
    <3> QED
      BY <3>2, <3>3
  <2> QED
    BY <1>4, <2>1, <2>2 DEF IInv, InOrder
<1>23. History'
  BY <1>4, <1>5, <1>15, <1>18, ReceiverHistory DEF IInv, History
<1>24. ToReceiver' /\ ToSender' /\ Requests'
  <2>1. ASSUME NEW y, Awaited(y)
        PROVE  Awaited(y)'
    <3>1. y.rreq # r
      BY <2>1 DEF Awaited
    <3> QED
      BY <1>9, <1>11, <2>1, <3>1, AwaitedKept
  <2>2. \A x \in PktsR' : x.type = "Send" => \A i \in Decided' \cup UnexpectedIds' : i < x.id
    BY <1>5, <1>15, <1>18 DEF IInv, ToReceiver, PktR, Before
  <2>3. ProbedIds' \subseteq Owed /\ \A i \in ProbedIds' : i \in ProbedIds \/ i \notin Decided
    BY <1>21 DEF Owed
  <2> QED
    BY <1>4, <1>5, <1>15, <2>1, <2>2, <2>3, ReceiverFrame
<1> QED
  BY <1>12, <1>13, <1>20, <1>21, <1>22, <1>23, <1>24 DEF IInv

-----------------------------------------------------------------------------
(* Cancellation at the receiver, and revocation.                           *)

\* The receiver decides about a message that is to be cancelled: it has been
\* matched, or it is the one with the sender's handle and tag.
LEMMA CancelKnown ==
  ASSUME IInv, NEW p \in PktsR, p.type = "CancelSendReq", ~revoked,
         \A y \in PktsR : y.type = "Send" => y.id # p.id
  PROVE  \/ p.id \in Ids(matched)
         \/ \E k \in Queue("unexpected") : /\ rreq[k].id = p.id /\ rreq[k].sreq = p.sreq
                                           /\ rreq[k].tag = p.tag
<1>1. /\ p.id \in 1 .. nmsg /\ p.sreq \in DOMAIN sreq /\ sreq[p.sreq].id = p.id
      /\ sreq[p.sreq].tag = p.tag /\ p.id \notin removed
  BY DEF IInv, ToReceiver, PktR, IsRequestOf
<1>2. p.id \in Decided \cup UnexpectedIds
  BY <1>1 DEF IInv, History
<1>3. ASSUME NEW k \in Queue("unexpected"), rreq[k].id = p.id
      PROVE  rreq[k].sreq = p.sreq /\ rreq[k].tag = p.tag
  <2>1. Known(rreq[k])
    BY DEF IInv, Unexpected
  <2> QED
    BY <1>1, <1>3, <2>1 DEF Known
<1> QED
  BY <1>1, <1>2, <1>3 DEF Decided, UnexpectedIds

\* The message that is cancelled is the one that the sender means.
LEMMA CancelIsExact ==
  ASSUME IInv, NEW p \in PktsR, p.type = "CancelSendReq",
         \A y \in PktsR : y.type = "Send" => y.id # p.id,
         NEW S, S = {u \in Queue("unexpected") : rreq[u].sreq = p.sreq /\ rreq[u].tag = p.tag},
         NEW u, IsLast(u, S)
  PROVE  rreq[u].id = p.id
<1>1. /\ p.sreq \in DOMAIN sreq /\ sreq[p.sreq].id = p.id /\ sreq[p.sreq].tag = p.tag
      /\ p.id \in Nat
  BY DEF IInv, ToReceiver, PktR, IsRequestOf
<1>2. /\ u \in Queue("unexpected") /\ rreq[u].sreq = p.sreq /\ rreq[u].tag = p.tag
      /\ \A k \in S : rreq[k].seq <= rreq[u].seq
  BY DEF IsLast
<1>3. \A k \in Queue("unexpected") :
        rreq[k].id \in Nat /\ rreq[k].seq \in Nat /\ rreq[k].where = "unexpected" /\ ~revoked
  BY RecvRequest, RecvFields DEF Queue, RecvOK
<1>4. rreq[u].id <= p.id
  BY <1>1, <1>2 DEF IInv, Unexpected, Known
<1>5. CASE p.id \in Ids(matched)
  <2>1. PICK x \in matched : x.msg.id = p.id
    BY <1>5 DEF Ids
  <2>2. x.msg.tag = p.tag
    BY <1>1, <2>1 DEF IInv, InOrder
  <2>3. p.id < rreq[u].id
    BY <1>2, <2>1, <2>2 DEF IInv, InOrder
  <2> QED
    BY <1>1, <1>2, <1>3, <1>4, <2>3
<1>6. CASE \E k \in Queue("unexpected") : /\ rreq[k].id = p.id /\ rreq[k].sreq = p.sreq
                                          /\ rreq[k].tag = p.tag
  <2>1. PICK k \in Queue("unexpected") : /\ rreq[k].id = p.id /\ rreq[k].sreq = p.sreq
                                         /\ rreq[k].tag = p.tag
    BY <1>6
  <2>2. rreq[k].seq <= rreq[u].seq
    BY <1>2, <2>1
  <2>3. CASE k = u
    BY <2>1, <2>3
  <2>4. CASE k # u
    <3>1. rreq[k].seq < rreq[u].seq
      BY <1>2, <1>3, <2>2, <2>4 DEF IInv, Unexpected
    <3>2. p.id < rreq[u].id
      BY <1>2, <2>1, <3>1 DEF IInv, Unexpected
    <3> QED
      BY <1>1, <1>2, <1>3, <1>4, <3>2
  <2> QED
    BY <2>3, <2>4
<1> QED
  BY <1>2, <1>3, <1>5, <1>6, CancelKnown

\* The answer to a cancellation.
LEMMA RespStep ==
  ASSUME IInv, ReceiverStep, NEW p \in PktsR, p.type = "CancelSendReq",
         NEW ack \in BOOLEAN,
         NEW x, x = [type |-> "CancelSendResp", sreq |-> p.sreq, ack |-> ack, id |-> p.id],
         toS' = Append(toS, x),
         ack => p.id \in removed' /\ p.id \in (1 .. nmsg) \ Decided,
         ~ack => revoked \/ p.id \in Ids(matched),
         \A y \in PktsR' : y.type = "CancelSendReq" => y.id # p.id,
         removed' \subseteq removed \cup {p.id}, ProbedIds' \subseteq ProbedIds,
         \A y \in PktsS : y.type = "RndvClrToSend" => Awaited(y)'
  PROVE  /\ ToSender' /\ Requests' /\ toS' \in Seq(AckPkts \cup CTSPkts \cup RespPkts)
<1>1. /\ p.sreq \in DOMAIN sreq /\ sreq[p.sreq].id = p.id /\ sreq[p.sreq].cancel_pending
      /\ p.id \in Nat
  BY DEF IInv, ToReceiver, PktR, IsRequestOf
<1>2. /\ toS \in Seq(AckPkts \cup CTSPkts \cup RespPkts) /\ Ordered(toS)
      /\ DOMAIN sreq \subseteq SHandles
  BY DEF IInv, TypeOK, ToSender
<1>3. /\ x \in RespPkts /\ x.type = "CancelSendResp" /\ x.sreq = p.sreq /\ x.ack = ack /\ x.id = p.id
  BY <1>1, <1>2 DEF RespPkts
<1>4. /\ UNCHANGED <<sreq, sending, nmsg>> /\ PktsR' \subseteq PktsR /\ (revoked => revoked')
      /\ Ids(matched) \subseteq Ids(matched')
  BY ReceiverIds DEF ReceiverStep
<1>5. ASSUME NEW y \in PktsS PROVE Before(y, x)
  <2>1. y.type = "CancelSendResp" => y.id # p.id
    BY DEF IInv, ToSender, PktS
  <2> QED
    BY <1>3, <2>1 DEF Before
<1>6. x \in AckPkts \cup CTSPkts \cup RespPkts
  BY <1>3
<1>7. /\ toS' \in Seq(AckPkts \cup CTSPkts \cup RespPkts) /\ PktsS' = PktsS \cup {x}
      /\ Ordered(toS')
  BY <1>2, <1>5, <1>6, AppendPkt DEF PktsS
<1>8. PktS(x)'
  BY <1>1, <1>3, <1>4 DEF PktS, IsRequestOf
<1>9. ToSender'
  <2>1. \A y \in PktsS : y.type \in {"EagerSyncAck", "RndvClrToSend"} => y.id \notin ProbedIds'
    BY DEF IInv, ToSender, PktS
  <2> QED
    BY <1>7, <1>8, <2>1, ReceiverToS
<1>10. AnswerIds' = AnswerIds /\ GoneIds' \subseteq GoneIds \cup (IF ack THEN {p.id} ELSE {})
  BY <1>3, <1>7 DEF AnswerIds, GoneIds
<1>11. CancelIds' \subseteq CancelIds
  BY <1>3, <1>4, <1>7 DEF CancelIds
<1>12. Owed' \subseteq Owed
  <2>1. ProbedIds' \cup AnswerIds' \cup GoneIds' \subseteq Owed
    BY <1>10 DEF Owed
  <2> QED
    BY <2>1, ReceiverOwed
<1>13. \A h \in DOMAIN sreq : sreq[h].id \in removed' => sreq[h].cancel_pending
  BY <1>1 DEF IInv, Requests
<1>14. Requests'
  BY <1>11, <1>12, <1>13, ReceiverRequests
<1> QED
  BY <1>7, <1>9, <1>14

LEMMA CancelSendReqStep ==
  ASSUME IInv, toR # << >>, recv_active = NULL, PktHandler_CancelSendReq(Head(toR)),
         UNCHANGED <<sender, revoked, nrecv>>
  PROVE  IInv'
<1>0. PICK p : p = Head(toR)
  OBVIOUS
<1>1. PICK S : S = {u \in Queue("unexpected") : rreq[u].sreq = p.sreq /\ rreq[u].tag = p.tag}
  OBVIOUS
<1>2. /\ p.type = "CancelSendReq" /\ toR' = Tail(toR)
      /\ UNCHANGED <<sreq, sending, nmsg, recv_active, revoked, narr, nrecv, matched>>
  BY <1>0 DEF PktHandler_CancelSendReq, sender
<1>3. /\ p \in PktsR /\ PktR(p) /\ PktsR = PktsR' \cup {p} /\ Ordered(toR')
      /\ toR' \in Seq(MsgPkts \cup CancelPkts \cup DataPkts)
      /\ \A y \in PktsR' : Before(p, y)
  BY <1>0, <1>2, HeadToReceiver
<1>4. p.id \in Nat /\ p.id \in 1 .. nmsg /\ p.id \notin removed
  BY <1>2, <1>3 DEF PktR
<1>5. /\ \A y \in PktsR : y.type = "Send" => y.id # p.id
      /\ \A y \in PktsR' : y.type = "CancelSendReq" => y.id # p.id
      /\ PktsR' \subseteq PktsR /\ \A y \in PktsR : y.type = "Send" => y \in PktsR'
  BY <1>2, <1>3, <1>4 DEF Before
<1>6. CASE \E u \in S :
             /\ IsLast(u, S)
             /\ rreq' = Store(rreq, u, [rreq[u] EXCEPT
                                  !.ref = @ - IF rreq[u].proto = "rndv" THEN 2 ELSE 1])
             /\ removed' = removed \cup {rreq[u].id}
             /\ toS' = Append(toS, [type |-> "CancelSendResp", sreq |-> p.sreq,
                                    ack |-> TRUE, id |-> p.id])
  <2>1. PICK u \in S :
             /\ IsLast(u, S)
             /\ rreq' = Store(rreq, u, [rreq[u] EXCEPT
                                  !.ref = @ - IF rreq[u].proto = "rndv" THEN 2 ELSE 1])
             /\ removed' = removed \cup {rreq[u].id}
             /\ toS' = Append(toS, [type |-> "CancelSendResp", sreq |-> p.sreq,
                                    ack |-> TRUE, id |-> p.id])
    BY <1>6
  <2>2. PICK q : q = [rreq[u] EXCEPT !.ref = @ - IF rreq[u].proto = "rndv" THEN 2 ELSE 1]
    OBVIOUS
  <2>3. PICK x : x = [type |-> "CancelSendResp", sreq |-> p.sreq, ack |-> TRUE, id |-> p.id]
    OBVIOUS
  <2>4. u \in Queue("unexpected") /\ u \in DOMAIN rreq /\ rreq[u].where = "unexpected"
    BY <1>1 DEF Queue
  <2>5. rreq[u].id = p.id
    BY <1>1, <1>2, <1>3, <1>5, <2>1, CancelIsExact
  <2>6. /\ rreq[u] \in RReqs /\ u \in RHandles /\ recv_active # u /\ ~revoked
        /\ QueuedOK(rreq[u], FALSE)
    BY <2>4, RecvRequest DEF RecvOK
  <2>7. PICK n \in Int : n = rreq[u].ref - IF rreq[u].proto = "rndv" THEN 2 ELSE 1
    BY <2>6, RecvFields
  <2>8. q = [rreq[u] EXCEPT !.ref = n]
    BY <2>2, <2>6, <2>7 DEF RReqs
  <2>9. n = 0
    BY <2>6, <2>7 DEF QueuedOK
  <2>10. q \in RReqs /\ q.ref = 0
    BY <2>6, <2>8, <2>9 DEF RReqs
  <2>11. RBecomes(u, q) /\ OnlyActive(u)
    <3>1. rreq' = Store(rreq, u, q)
      BY <2>1, <2>2
    <3> QED
      BY <1>2, <3>1, StoreRBecomes DEF OnlyActive
  <2>12. removed' = removed \cup {p.id} /\ toS' = Append(toS, x)
    BY <2>1, <2>3, <2>5
  <2>13. /\ Receives' /\ DOMAIN rreq' \subseteq RHandles
         /\ \A k \in DOMAIN rreq' : rreq'[k] \in RReqs
    <3>1. recv_active' \in RHandles \cup {NULL, GARBLED} /\ revoked' = revoked /\ recv_active' # u
      BY <1>2, <2>6 DEF IInv, TypeOK
    <3> QED
      BY <2>6, <2>10, <2>11, <3>1, ReceiveBecomes
  <2>14. Kept("unexpected") /\ Kept("posted") /\ Kept("probed")
    BY <2>10, <2>11, KeptBecomes
  <2>15. u \notin Queue("unexpected")'
    BY <2>10, <2>11, QueueBecomes
  <2>16. ReceiverStep
    BY <1>2, <1>5, <2>12 DEF ReceiverStep
  <2>17. Decided' = Decided \cup {p.id} /\ p.id \notin Decided
    BY <1>2, <2>4, <2>5, <2>12 DEF Decided, IInv, Unexpected
  <2>18. Unexpected'
    <3>1. \A k \in Queue("unexpected")' : rreq[k].id \notin Decided'
      BY <2>4, <2>5, <2>14, <2>15, <2>17 DEF IInv, Unexpected, Kept
    <3>2. narr' \in Nat /\ narr' >= narr
      BY <1>2 DEF IInv, TypeOK
    <3> QED
      BY <2>14, <2>16, <3>1, <3>2, UnexpectedKept
  <2>19. Probed' /\ ProbedIds' \subseteq ProbedIds
    BY <2>14, <2>16, ProbedKept
  <2>20. InOrder'
    BY <1>2, <2>14, <2>16, InOrderKept
  <2>21. UnexpectedIds' \subseteq UnexpectedIds /\ UnexpectedIds \subseteq UnexpectedIds' \cup Decided'
    <3>1. UnexpectedIds' \subseteq UnexpectedIds
      BY <2>14 DEF UnexpectedIds, Kept
    <3>2. ASSUME NEW k \in Queue("unexpected")
          PROVE  rreq[k].id \in UnexpectedIds' \cup Decided'
      <4>1. CASE k = u
        BY <2>5, <2>17, <4>1
      <4>2. CASE k # u
        BY <2>11, <4>2, QueueBecomes DEF UnexpectedIds
      <4> QED
        BY <4>1, <4>2
    <3> QED
      BY <3>1, <3>2 DEF UnexpectedIds
  <2>22. History'
    <3>1. /\ Ids(matched') \subseteq 1 .. nmsg /\ removed' \subseteq 1 .. nmsg
          /\ removed' \cap Ids(matched') = {}
      BY <1>2, <1>4, <2>12, <2>17 DEF IInv, History, Decided
    <3> QED
      BY <1>5, <2>16, <2>21, <3>1, ReceiverHistory
  <2>23. ASSUME NEW y, Awaited(y)
         PROVE  Awaited(y)'
    <3>1. y.rreq # u
      BY <2>4, <2>23 DEF Awaited
    <3> QED
      BY <2>11, <2>23, <3>1, AwaitedKept
  <2>24. ToReceiver'
    <3>1. ASSUME NEW y \in PktsR'
          PROVE  /\ y.type = "Send" => \A i \in Decided' \cup UnexpectedIds' : i < y.id
                 /\ y.type = "CancelSendReq" => y.id \notin removed'
                 /\ y.type = "RndvSend" => y.id \notin ProbedIds' /\ Awaited(y)'
      <4>1. PktR(y)
        BY <1>5 DEF IInv, ToReceiver
      <4>2. p.id \in UnexpectedIds
        BY <2>4, <2>5 DEF UnexpectedIds
      <4> QED
        BY <1>5, <2>12, <2>17, <2>19, <2>21, <2>23, <4>1, <4>2 DEF PktR
    <3> QED
      BY <1>3, <2>16, <3>1, ReceiverToR
  <2>25. ToSender' /\ Requests' /\ toS' \in Seq(AckPkts \cup CTSPkts \cup RespPkts)
    <3>1. \A y \in PktsS : y.type = "RndvClrToSend" => Awaited(y)'
      BY <2>23 DEF IInv, ToSender, PktS
    <3> QED
      BY <1>2, <1>3, <1>4, <1>5, <2>3, <2>12, <2>16, <2>17, <2>19, <3>1, RespStep
  <2>26. TypeOK'
    BY <1>2, <1>3, <2>13, <2>25 DEF IInv, TypeOK
  <2> QED
    BY <2>13, <2>18, <2>19, <2>20, <2>22, <2>24, <2>25, <2>26 DEF IInv
<1>7. CASE /\ S = {}
           /\ toS' = Append(toS, [type |-> "CancelSendResp", sreq |-> p.sreq,
                                  ack |-> FALSE, id |-> p.id])
           /\ UNCHANGED <<rreq, removed>>
  <2>1. PICK x : x = [type |-> "CancelSendResp", sreq |-> p.sreq, ack |-> FALSE, id |-> p.id]
    OBVIOUS
  <2>2. toS' = Append(toS, x) /\ UNCHANGED <<rreq, removed>>
    BY <1>7, <2>1
  <2>3. revoked \/ p.id \in Ids(matched)
    <3>1. \A k \in Queue("unexpected") : ~(rreq[k].sreq = p.sreq /\ rreq[k].tag = p.tag)
      BY <1>1, <1>7
    <3> QED
      BY <1>2, <1>3, <1>5, <3>1, CancelKnown
  <2>4. ReceiverStep /\ Decided' = Decided /\ UnexpectedIds' = UnexpectedIds
        /\ ProbedIds' = ProbedIds /\ \A w : Queue(w)' = Queue(w)
    BY <1>2, <1>5, <2>2 DEF ReceiverStep, Decided, UnexpectedIds, ProbedIds, Queue
  <2>5. Kept("unexpected") /\ Kept("posted") /\ Kept("probed")
    BY <2>2, <2>4 DEF Kept
  <2>6. Receives'
    BY <1>2, <2>2 DEF IInv, Receives
  <2>7. Unexpected'
    <3>1. \A k \in Queue("unexpected")' : rreq[k].id \notin Decided'
      BY <2>4 DEF IInv, Unexpected
    <3>2. narr' \in Nat /\ narr' >= narr
      BY <1>2 DEF IInv, TypeOK
    <3> QED
      BY <2>4, <2>5, <3>1, <3>2, UnexpectedKept
  <2>8. Probed' /\ InOrder'
    BY <1>2, <2>4, <2>5, ProbedKept, InOrderKept
  <2>9. History'
    BY <1>2, <1>5, <2>2, <2>4, ReceiverHistory DEF IInv, History
  <2>10. \A y : Awaited(y) => Awaited(y)'
    BY <1>2, <2>2 DEF Awaited
  <2>11. ToReceiver'
    <3>1. ASSUME NEW y \in PktsR'
          PROVE  /\ y.type = "Send" => \A i \in Decided' \cup UnexpectedIds' : i < y.id
                 /\ y.type = "CancelSendReq" => y.id \notin removed'
                 /\ y.type = "RndvSend" => y.id \notin ProbedIds' /\ Awaited(y)'
      <4>1. PktR(y)
        BY <1>5 DEF IInv, ToReceiver
      <4> QED
        BY <2>2, <2>4, <2>10, <4>1 DEF PktR
    <3> QED
      BY <1>3, <2>4, <3>1, ReceiverToR
  <2>12. ToSender' /\ Requests' /\ toS' \in Seq(AckPkts \cup CTSPkts \cup RespPkts)
    <3>1. \A y \in PktsS : y.type = "RndvClrToSend" => Awaited(y)'
      BY <2>10 DEF IInv, ToSender, PktS
    <3> QED
      BY <1>2, <1>3, <1>5, <2>1, <2>2, <2>3, <2>4, <3>1, RespStep
  <2>13. TypeOK'
    BY <1>2, <1>3, <2>2, <2>12 DEF IInv, TypeOK
  <2> QED
    BY <2>6, <2>7, <2>8, <2>9, <2>11, <2>12, <2>13 DEF IInv
<1> QED
  BY <1>0, <1>1, <1>6, <1>7 DEF PktHandler_CancelSendReq

LEMMA CommRevokeStep ==
  ASSUME IInv, Comm_revoke
  PROVE  IInv'
<1> DEFINE C == Queue("posted") \cup Queue("unexpected")
<1>1. /\ revoked' = TRUE
      /\ UNCHANGED <<sreq, sending, nmsg, toR, toS, recv_active, narr, nrecv, matched, removed>>
  BY DEF Comm_revoke, sender
<1>2. PICK clean : clean = [r \in DOMAIN rreq |-> IF r \in C THEN Ended(rreq[r], "error")
                                                             ELSE rreq[r]]
  OBVIOUS
<1>3. rreq' = [r \in {k \in DOMAIN rreq : clean[k].ref # 0} |-> clean[r]]
  BY <1>2 DEF Comm_revoke, Ended
<1>4. \A r \in DOMAIN rreq : clean[r] = IF r \in C THEN Ended(rreq[r], "error") ELSE rreq[r]
  BY <1>2
<1>5. /\ DOMAIN rreq' = {k \in DOMAIN rreq : clean[k].ref # 0}
      /\ \A k \in DOMAIN rreq' : rreq'[k] = clean[k]
  BY <1>3
<1> HIDE DEF C
<1>6. ASSUME NEW k \in DOMAIN rreq, k \in C
      PROVE  /\ clean[k] \in RReqs /\ clean[k].where = "error"
             /\ clean[k].ref # 0 => RecvOK(clean[k], recv_active = k, TRUE)
             /\ clean[k].ref = 0 => recv_active # k
  <2>1. PICK q : q = rreq[k]
    OBVIOUS
  <2>2. PICK m : m = Ended(q, "error")
    OBVIOUS
  <2>3. /\ q \in RReqs /\ RecvOK(q, recv_active = k, revoked) /\ q.where \in {"posted", "unexpected"}
    BY <1>6, <2>1, RecvRequest DEF C, Queue
  <2>4. /\ m \in RReqs /\ m.cc = q.cc - 1
        /\ m.ref = (IF q.cc = 1 THEN q.ref - 1 ELSE q.ref)
        /\ m.where = "error" /\ m.user = q.user /\ m.pending = q.pending
        /\ m.tmpbuf = q.tmpbuf /\ m.buf = q.buf
    BY <2>2, <2>3, EndedRecv
  <2>7. clean[k] = m
    BY <1>4, <1>6, <2>1, <2>2
  <2>5. CASE q.where = "posted"
    <3>1. m.cc = 0 /\ m.ref = B(q.user) /\ m.buf = "none" /\ recv_active # k
      BY <2>3, <2>4, <2>5 DEF RecvOK, B
    <3>2. m.ref # 0 => RecvOK(m, recv_active = k, TRUE)
      BY <2>4, <3>1 DEF RecvOK, ErrorOK, B
    <3> QED
      BY <2>4, <2>7, <3>1, <3>2
  <2>6. CASE q.where = "unexpected"
    <3>1. QueuedOK(q, recv_active = k) /\ ~q.user
      BY <2>3, <2>6 DEF RecvOK
    <3>2. /\ m.ref = 1 /\ m.cc \in {0, -1} /\ m.buf = "none"
          /\ recv_active = k => m.cc = 0 /\ m.tmpbuf = "part" /\ m.pending = 2
      BY <2>4, <3>1 DEF QueuedOK
    <3>3. RecvOK(m, recv_active = k, TRUE)
      BY <2>4, <3>1, <3>2 DEF RecvOK, ErrorOK
    <3>4. m \in RReqs /\ m.where = "error" /\ m.ref # 0
      BY <2>4, <3>2
    <3> QED
      BY <2>7, <3>3, <3>4
  <2> QED
    BY <2>3, <2>5, <2>6
<1>7. ASSUME NEW k \in DOMAIN rreq, k \notin C
      PROVE  /\ clean[k] = rreq[k] /\ clean[k] \in RReqs /\ clean[k].ref # 0
             /\ clean[k].where \notin {"posted", "unexpected"}
             /\ RecvOK(clean[k], recv_active = k, TRUE)
  <2>1. PICK q : q = rreq[k]
    OBVIOUS
  <2>2. clean[k] = q /\ q \in RReqs /\ RecvOK(q, recv_active = k, revoked)
        /\ q.where \notin {"posted", "unexpected"}
    BY <1>4, <1>7, <2>1, RecvRequest DEF C, Queue
  <2>3. q.ref # 0
    <3>1. CASE q.where \in {"probed", "matched"}
      BY <2>2, <3>1 DEF RecvOK, QueuedOK, MatchedOK
    <3>2. CASE q.where \in {"cancelled", "error"}
      BY <2>2, <3>2 DEF RecvOK, ErrorOK
    <3> QED
      BY <2>2, <3>1, <3>2, RecvFields
  <2>4. RecvOK(q, recv_active = k, TRUE)
    BY <2>2 DEF RecvOK
  <2> QED
    BY <2>1, <2>2, <2>3, <2>4
<1>8. DOMAIN rreq' \subseteq DOMAIN rreq /\ \A k \in DOMAIN rreq' : rreq'[k] \in RReqs
  BY <1>5, <1>6, <1>7
<1>9. TypeOK'
  BY <1>1, <1>8 DEF IInv, TypeOK
<1>10. Receives'
  <2>1. \A k \in DOMAIN rreq' : RecvOK(rreq'[k], recv_active = k, TRUE)
    BY <1>5, <1>6, <1>7
  <2>2. recv_active \in DOMAIN rreq => recv_active \in DOMAIN rreq'
    BY <1>5, <1>6, <1>7
  <2> QED
    BY <1>1, <2>1, <2>2 DEF IInv, Receives
<1>11. Queue("posted")' = {} /\ Queue("unexpected")' = {}
  <2>1. \A k \in DOMAIN rreq' : rreq'[k].where # "posted" /\ rreq'[k].where # "unexpected"
    BY <1>5, <1>6, <1>7
  <2> QED
    BY <2>1 DEF Queue
<1>12. \A k \in Queue("probed")' : k \in Queue("probed") /\ rreq'[k] = rreq[k]
  BY <1>5, <1>6, <1>7 DEF Queue
<1>13. Kept("posted") /\ Kept("unexpected") /\ Kept("probed")
  BY <1>11, <1>12 DEF Kept
<1>14. PktsR' = PktsR /\ ReceiverStep /\ Decided' = Decided
  BY <1>1 DEF PktsR, ReceiverStep, Decided
<1>15. Unexpected'
  BY <1>11 DEF Unexpected
<1>16. Probed' /\ InOrder' /\ ProbedIds' \subseteq ProbedIds
  BY <1>1, <1>11, <1>13, <1>14, ProbedKept, InOrderKept
<1>17. History'
  BY <1>1, <1>14, ReceiverHistory DEF IInv, History
<1>18. ToReceiver' /\ ToSender' /\ Requests'
  <2>1. ASSUME NEW y, Awaited(y)
        PROVE  Awaited(y)'
    <3>1. y.rreq \in DOMAIN rreq /\ rreq[y.rreq].where = "matched" /\ y.rreq \notin C
      BY <2>1 DEF Awaited, C, Queue
    <3>2. y.rreq \in DOMAIN rreq' /\ rreq'[y.rreq] = rreq[y.rreq]
      BY <1>5, <1>7, <3>1
    <3> QED
      BY <1>1, <2>1, <3>2 DEF Awaited
  <2>2. UnexpectedIds' = {}
    BY <1>11 DEF UnexpectedIds
  <2>3. \A x \in PktsR' : x.type = "Send" => \A i \in Decided' \cup UnexpectedIds' : i < x.id
    BY <1>14, <2>2 DEF IInv, ToReceiver, PktR
  <2>4. ProbedIds' \subseteq Owed /\ \A i \in ProbedIds' : i \in ProbedIds \/ i \notin Decided
    BY <1>16 DEF Owed
  <2>5. Ordered(toR')
    BY <1>1 DEF IInv, ToReceiver
  <2> QED
    BY <1>1, <1>14, <2>1, <2>3, <2>4, <2>5, ReceiverFrame
<1> QED
  BY <1>9, <1>10, <1>15, <1>16, <1>17, <1>18 DEF IInv

-----------------------------------------------------------------------------
(* The theorems.                                                           *)

LEMMA InitHolds == Init => IInv
<1> SUFFICES ASSUME Init PROVE IInv
  OBVIOUS
<1>1. /\ DOMAIN sreq = {} /\ DOMAIN rreq = {} /\ sending = {} /\ toR = << >> /\ toS = << >>
      /\ recv_active = NULL /\ revoked = FALSE /\ nmsg = 0 /\ narr = 0 /\ nrecv = 0
      /\ matched = {} /\ removed = {}
  BY DEF Init
<1>2. PktsR = {} /\ PktsS = {} /\ \A w : Queue(w) = {}
  BY <1>1 DEF PktsR, PktsS, Elems, Queue
<1>3. TypeOK
  <2>1. \A T : << >> \in Seq(T)
    OBVIOUS
  <2>2. /\ toR \in Seq(MsgPkts \cup CancelPkts \cup DataPkts)
        /\ toS \in Seq(AckPkts \cup CTSPkts \cup RespPkts)
    BY <1>1, <2>1
  <2> QED
    BY <1>1, <2>2 DEF TypeOK
<1>4. Ordered(toR) /\ Ordered(toS)
  BY <1>1 DEF Ordered
<1>5. ToReceiver /\ ToSender
  BY <1>2, <1>4 DEF ToReceiver, ToSender
<1>6. Requests /\ Receives
  BY <1>1 DEF Requests, Receives
<1>7. Unexpected /\ Probed /\ InOrder
  BY <1>1, <1>2 DEF Unexpected, Probed, InOrder
<1>8. Ids(matched) = {} /\ 1 .. nmsg = {}
  BY <1>1 DEF Ids
<1>9. History
  BY <1>1, <1>8 DEF History
<1> QED
  BY <1>3, <1>5, <1>6, <1>7, <1>9 DEF IInv

LEMMA ReceiverProgressStep ==
  ASSUME IInv, ReceiverProgress
  PROVE  IInv'
<1>1. toR # << >> /\ recv_active = NULL /\ UNCHANGED <<sender, revoked, nrecv>>
  BY DEF ReceiverProgress
<1>2. CASE PktHandler_Send(Head(toR))
  <2>1. /\ Head(toR).type = "Send" /\ narr' = narr + 1
        /\ UNCHANGED <<sender, revoked, nrecv, removed>>
        /\ FoundPosted(Head(toR)) \/ ThrowAway(Head(toR)) \/ AppendUnexpected(Head(toR))
    BY <1>1, <1>2 DEF PktHandler_Send
  <2> QED
    BY <1>1, <2>1, FoundPostedStep, ThrowAwayStep, AppendUnexpectedStep
<1>3. CASE PktHandler_RndvSend(Head(toR))
  BY <1>1, <1>3, RndvSendStep
<1>4. CASE PktHandler_CancelSendReq(Head(toR))
  BY <1>1, <1>4, CancelSendReqStep
<1> QED
  BY <1>2, <1>3, <1>4 DEF ReceiverProgress

LEMMA NextHolds == IInv /\ [Next]_vars => IInv'
<1> SUFFICES ASSUME IInv, [Next]_vars PROVE IInv'
  OBVIOUS
<1>1. ASSUME NEW h \in SHandles, NEW proto \in Protocols, NEW tag \in MsgTags,
             Isend(h, proto, tag)
      PROVE  IInv'
  BY <1>1, IsendStep
<1>2. ASSUME NEW h \in DOMAIN sreq, Cancel_send(h) \/ ReleaseSend(h)
      PROVE  IInv'
  BY <1>2, CancelSendStep, ReleaseSendStep
<1>3. ASSUME NEW h \in sending, Send_complete(h)
      PROVE  IInv'
  BY <1>3, SendCompleteStep
<1>4. CASE SenderProgress
  BY <1>4, SenderProgressStep
<1>5. CASE ReceiverProgress
  BY <1>5, ReceiverProgressStep
<1>6. CASE DataArrives
  BY <1>6, DataArrivesStep
<1>7. ASSUME NEW tag \in MsgTags \cup {ANY_TAG}, Irecv(tag) \/ Improbe(tag)
      PROVE  IInv'
  BY <1>7, IrecvStep, ImprobeStep
<1>8. ASSUME NEW r \in DOMAIN rreq, Imrecv(r) \/ Cancel_recv(r) \/ ReleaseRecv(r)
      PROVE  IInv'
  BY <1>8, ImrecvStep, CancelRecvStep, ReleaseRecvStep
<1>9. CASE Comm_revoke
  BY <1>9, CommRevokeStep
<1>10. CASE UNCHANGED vars
  <2>1. UNCHANGED <<sreq, sending, rreq, toR, toS, recv_active, revoked, nmsg, narr, nrecv,
                    matched, removed, dropped>>
    BY <1>10 DEF vars
  <2>2. /\ PktsR' = PktsR /\ PktsS' = PktsS /\ UNCHANGED <<receiver, nmsg>>
        /\ Decided' = Decided /\ UnexpectedIds' = UnexpectedIds /\ ProbedIds' = ProbedIds
        /\ \A w : Queue(w)' = Queue(w)
    BY <2>1 DEF PktsR, PktsS, receiver, Decided, UnexpectedIds, ProbedIds, Queue
  <2>3. Owed' = Owed /\ CancelIds' = CancelIds
    BY <2>1, <2>2, ChannelsKept
  <2>4. SenderStep /\ Requests'
    BY <2>1, <2>2, <2>3 DEF SenderStep, IInv, Requests
  <2> QED
    BY <2>1, <2>4, SenderQuiet DEF IInv, TypeOK
<1> QED
  BY <1>1, <1>2, <1>3, <1>4, <1>5, <1>6, <1>7, <1>8, <1>9, <1>10 DEF Next

\* The inductive invariant holds in every reachable state: every message is in
\* the channel, in the unexpected queue, matched or removed, and the counters
\* of its sender's request cover what is still to come.
THEOREM Invariance == Spec => []IInv
BY InitHolds, NextHolds, PTL DEF Spec

\* Requests, packets and the state of the channel have their types.
THEOREM TypeCorrect == Spec => []TypeOK
<1>1. IInv => TypeOK
  BY DEF IInv
<1> QED
  BY <1>1, Invariance, PTL

LEMMA Indices ==
  ASSUME IInv
  PROVE  /\ \A i \in DOMAIN toR : toR[i] \in PktsR
         /\ \A i \in DOMAIN toS : toS[i] \in PktsS
<1>1. DOMAIN toR = 1 .. Len(toR) /\ DOMAIN toS = 1 .. Len(toS)
  BY DEF IInv, TypeOK
<1> QED
  BY <1>1 DEF PktsR, PktsS, Elems

\* A handle in a packet, in a request of a message that must be answered or in
\* the channel's recv_active is that of the request it was made for, though
\* handles are used again as soon as their requests are freed.
THEOREM ValidHandles == Spec => []HandlesAreValid
<1>1. ASSUME IInv PROVE HandlesAreValid
  <2>1. \A h \in sending : h \in DOMAIN sreq
    BY <1>1 DEF IInv, Requests
  <2>2. \A i \in DOMAIN toS : IsRequestOf(toS[i].sreq, toS[i].id)
    BY <1>1, Indices DEF IInv, ToSender, PktS
  <2>3. ASSUME NEW i \in DOMAIN toR
        PROVE  /\ toR[i].type = "CancelSendReq" => IsRequestOf(toR[i].sreq, toR[i].id)
               /\ toR[i].type = "Send" /\ toR[i].proto # "eager"
                    => IsRequestOf(toR[i].sreq, toR[i].id)
               /\ toR[i].type = "RndvSend"
                    => toR[i].rreq \in DOMAIN rreq /\ rreq[toR[i].rreq].id = toR[i].id
    <3>1. PktR(toR[i])
      BY <1>1, Indices DEF IInv, ToReceiver
    <3> QED
      BY <3>1 DEF PktR, Known, Awaited
  <2>4. \A r \in Queue("unexpected") \cup Queue("probed") :
          rreq[r].proto # "eager" => IsRequestOf(rreq[r].sreq, rreq[r].id)
    BY <1>1 DEF IInv, Unexpected, Probed, Known
  <2>5. recv_active \in DOMAIN rreq \cup {NULL, GARBLED}
    BY <1>1 DEF IInv, Receives
  <2> QED
    BY <2>1, <2>2, <2>3, <2>4, <2>5 DEF HandlesAreValid
<1> QED
  BY <1>1, Invariance, PTL

\* The assertion of MPIR_cc_decr can fail only at the receiver, and there only
\* after the communicator has been revoked.
THEOREM CountersAreSafe == Spec => []AssertOnlyAfterRevoke
<1>1. ASSUME IInv PROVE AssertOnlyAfterRevoke
  <2>1. \A h \in DOMAIN sreq : sreq[h].cc >= 0
    BY <1>1, SendRequest
  <2>2. ASSUME NEW r \in DOMAIN rreq, rreq[r].cc < 0
        PROVE  revoked
    <3>1. /\ rreq[r] \in RReqs /\ RecvOK(rreq[r], recv_active = r, revoked)
      BY <1>1, RecvRequest
    <3>2. rreq[r].where = "error"
      <4>1. CASE rreq[r].where \in {"unexpected", "probed", "matched"}
        BY <2>2, <3>1, <4>1 DEF RecvOK, QueuedOK, MatchedOK
      <4>2. CASE rreq[r].where \in {"posted", "cancelled"}
        BY <2>2, <3>1, <4>2 DEF RecvOK
      <4> QED
        BY <3>1, <4>1, <4>2, RecvFields
    <3> QED
      BY <3>1, <3>2 DEF RecvOK
  <2> QED
    BY <2>1, <2>2 DEF AssertOnlyAfterRevoke, Aborted
<1> QED
  BY <1>1, Invariance, PTL

\* The answer to a cancellation says what happened to the very message that the
\* sender wanted to cancel, and a cancelled message is never received.
THEOREM HonestCancel == Spec => []CancelIsHonest
<1>1. ASSUME IInv PROVE CancelIsHonest
  <2>1. removed \cap Ids(matched) = {}
    BY <1>1 DEF IInv, History
  <2>2. ASSUME NEW i \in DOMAIN toS, toS[i].type = "CancelSendResp"
        PROVE  IF toS[i].ack THEN toS[i].id \in removed
                             ELSE revoked \/ toS[i].id \in Ids(matched)
    <3>1. PktS(toS[i])
      BY <1>1, Indices DEF IInv, ToSender
    <3> QED
      BY <2>2, <3>1 DEF PktS
  <2>3. \A h \in DOMAIN sreq : sreq[h].cancelled => sreq[h].id \in removed
    BY <1>1 DEF IInv, Requests
  <2> QED
    BY <2>1, <2>2, <2>3 DEF CancelIsHonest
<1> QED
  BY <1>1, Invariance, PTL

\* A synchronous or rendezvous send completes only when its message has been
\* matched by a receive, or cancelled.
THEOREM SyncIsMatched == Spec => []SyncMeansMatched
<1>1. ASSUME IInv PROVE SyncMeansMatched
  <2>1. ASSUME NEW h \in DOMAIN sreq, sreq[h].proto # "eager", sreq[h].cc = 0
        PROVE  sreq[h].id \in Ids(matched) \cup removed
    <3>1. sreq[h].id \notin Owed
      BY <1>1, <2>1, SendRequest DEF B
    <3>2. sreq[h].id \in 1 .. nmsg
      BY <1>1 DEF IInv, Requests
    <3> QED
      BY <3>1, <3>2 DEF Owed, Decided
  <2> QED
    BY <2>1 DEF SyncMeansMatched
<1> QED
  BY <1>1, Invariance, PTL

\* A receive that is complete has its message in the user's buffer, whichever
\* of the data and the receive came first.
THEOREM CompleteIsReceived == Spec => []CompleteMeansReceived
<1>1. ASSUME IInv PROVE CompleteMeansReceived
  <2>1. ASSUME NEW r \in DOMAIN rreq
        PROVE  /\ rreq[r].buf # "bad"
               /\ rreq[r].where = "matched" => (rreq[r].cc = 0 <=> rreq[r].buf = "good")
               /\ rreq[r].where \in {"unexpected", "probed"} /\ rreq[r].proto # "rndv"
                    => (rreq[r].cc = 0 <=> rreq[r].pending = 1)
    <3>1. /\ rreq[r] \in RReqs /\ RecvOK(rreq[r], recv_active = r, revoked)
      BY <1>1, RecvRequest
    <3>2. CASE rreq[r].where = "matched"
      <4>1. MatchedOK(rreq[r], recv_active = r)
        BY <3>1, <3>2 DEF RecvOK
      <4> QED
        BY <3>2, <4>1 DEF MatchedOK
    <3>3. CASE rreq[r].where \in {"unexpected", "probed"}
      <4>1. QueuedOK(rreq[r], recv_active = r)
        BY <3>1, <3>3 DEF RecvOK
      <4> QED
        BY <3>3, <4>1 DEF QueuedOK
    <3>4. CASE rreq[r].where \in {"posted", "cancelled", "error"}
      BY <3>1, <3>4 DEF RecvOK, ErrorOK
    <3> QED
      BY <3>1, <3>2, <3>3, <3>4, RecvFields
  <2> QED
    BY <2>1 DEF CompleteMeansReceived
<1> QED
  BY <1>1, Invariance, PTL
=============================================================================
