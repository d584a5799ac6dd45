------------------------- MODULE CH3Pt2ptRefinement -------------------------
(***************************************************************************)
(* Proof that point-to-point communication uses the receive queues as      *)
(* CH3Recvq says: every step of CH3Pt2pt is a step of CH3Recvq or leaves   *)
(* the queues alone.                                                       *)
(***************************************************************************)
EXTENDS CH3Pt2ptProofs

\* Receives and messages are numbered as the bounds of CH3Recvq say: messages
\* on the wire have not been counted yet, and no two receives in the posted
\* queue have the same number.
Numbers ==
  /\ nmsg <= MaxMsgs /\ narr <= nmsg
  /\ \A p \in PktsR : p.type = "Send" => narr < p.id
  /\ \A r \in Queue("posted") : rreq[r].seq <= nrecv
  /\ \A r, s \in Queue("posted") : rreq[r].seq = rreq[s].seq => r = s

-----------------------------------------------------------------------------
(* Tags.                                                                   *)

LEMMA CollTags ==
  ASSUME NEW t \in MsgTags \cup {ANY_TAG}, NEW m \in MsgTags
  PROVE  /\ Coll(t) \in {Coll(m), ANY_TAG} <=> t \in {m, ANY_TAG}
         /\ Coll(t) = Coll(m) <=> t = m
         /\ Coll(m) \in [base : MsgTags, coll : {FALSE}]
         /\ Coll(t) = ANY_TAG <=> t = ANY_TAG
<1>1. Coll(m) = [base |-> m, coll |-> FALSE] /\ m # ANY_TAG
  BY TagsAssumption DEF Coll
<1>0. [base |-> m, coll |-> FALSE] \in [base : MsgTags, coll : {FALSE}]
  OBVIOUS
<1>2. Coll(m) \in [base : MsgTags, coll : {FALSE}] /\ Coll(m) # ANY_TAG /\ Coll(m).base = m
  <2>1. Coll(m) \in [base : MsgTags, coll : {FALSE}]
    BY <1>0, <1>1, Zenon
  <2>2. Coll(m).base = m
    BY <1>1
  <2> QED
    BY <2>1, <2>2, TagsAssumption, Zenon
<1>3. CASE t = ANY_TAG
  BY <1>1, <1>2, <1>3 DEF Coll
<1>4. CASE t \in MsgTags
  <2>1. t # ANY_TAG /\ Coll(t) = [base |-> t, coll |-> FALSE]
    BY <1>4, TagsAssumption DEF Coll
  <2>2. Coll(t) \in [base : MsgTags, coll : {FALSE}] /\ Coll(t).base = t
    BY <1>4, <2>1
  <2> QED
    BY <1>1, <1>2, <2>1, <2>2, TagsAssumption
<1> QED
  BY <1>3, <1>4

-----------------------------------------------------------------------------
(* How a change of one request changes the queues.                         *)

LEMMA RecvqFields ==
  ASSUME NEW x
  PROVE  /\ RecvqRecv(x).seq = x.seq /\ RecvqRecv(x).tag = Coll(x.tag)
         /\ RecvqRecv(x).rank = 1 /\ RecvqRecv(x).ctx = Ctx /\ RecvqRecv(x).comm = 1
         /\ RecvqMsg(x).seq = x.seq /\ RecvqMsg(x).tag = Coll(x.tag)
         /\ RecvqMsg(x).rank = 1 /\ RecvqMsg(x).ctx = Ctx /\ RecvqMsg(x).errs = {}
         /\ RecvqMsg(x).sreq = x.sreq
BY DEF RecvqRecv, RecvqMsg

\* The request at r becomes q, and neither was nor is in queue w, or is there
\* with the same number, tag and sender.
Same(w, r, q) ==
  /\ r \in Queue(w) <=> q.where = w /\ q.ref # 0
  /\ r \in Queue(w) => /\ q.seq = rreq[r].seq /\ q.tag = rreq[r].tag
                       /\ q.sreq = rreq[r].sreq

LEMMA PostedSame ==
  ASSUME NEW r, NEW q, RBecomes(r, q), Same("posted", r, q)
  PROVE  RecvqPosted' = RecvqPosted
<1>1. \A k : (k \in Queue("posted")') <=> (k \in Queue("posted"))
  BY QueueBecomes DEF Same
<1>2. ASSUME NEW k \in Queue("posted")
      PROVE  RecvqRecv(rreq'[k]) = RecvqRecv(rreq[k])
  <2>1. rreq'[k].seq = rreq[k].seq /\ rreq'[k].tag = rreq[k].tag
    BY <1>1, <1>2, QueueBecomes DEF Same
  <2> QED
    BY <2>1 DEF RecvqRecv
<1> QED
  BY <1>1, <1>2 DEF RecvqPosted

LEMMA UnexpectedSame ==
  ASSUME NEW r, NEW q, RBecomes(r, q), Same("unexpected", r, q)
  PROVE  RecvqUnexpected' = RecvqUnexpected
<1>1. \A k : (k \in Queue("unexpected")') <=> (k \in Queue("unexpected"))
  BY QueueBecomes DEF Same
<1>2. ASSUME NEW k \in Queue("unexpected")
      PROVE  RecvqMsg(rreq'[k]) = RecvqMsg(rreq[k])
  <2>1. /\ rreq'[k].seq = rreq[k].seq /\ rreq'[k].tag = rreq[k].tag
        /\ rreq'[k].sreq = rreq[k].sreq
    BY <1>1, <1>2, QueueBecomes DEF Same
  <2> QED
    BY <2>1 DEF RecvqMsg
<1> QED
  BY <1>1, <1>2 DEF RecvqUnexpected

LEMMA PostedLeaves ==
  ASSUME Numbers, NEW r \in Queue("posted"), NEW q, RBecomes(r, q),
         q.where # "posted" \/ q.ref = 0
  PROVE  RecvqPosted' = RecvqPosted \ {RecvqRecv(rreq[r])}
<1>1. \A k : (k \in Queue("posted")') <=> (k \in Queue("posted") /\ k # r)
  BY QueueBecomes
<1>2. \A k \in Queue("posted")' : rreq'[k] = rreq[k]
  BY <1>1, QueueBecomes
<1>3. \A k \in Queue("posted") : RecvqRecv(rreq[k]) = RecvqRecv(rreq[r]) => k = r
  BY RecvqFields DEF Numbers
<1> QED
  BY <1>1, <1>2, <1>3 DEF RecvqPosted

LEMMA UnexpectedLeaves ==
  ASSUME IInv, NEW r \in Queue("unexpected"), NEW q, RBecomes(r, q),
         q.where # "unexpected" \/ q.ref = 0
  PROVE  RecvqUnexpected' = RecvqUnexpected \ {RecvqMsg(rreq[r])}
<1>1. \A k : (k \in Queue("unexpected")') <=> (k \in Queue("unexpected") /\ k # r)
  BY QueueBecomes
<1>2. \A k \in Queue("unexpected")' : rreq'[k] = rreq[k]
  BY <1>1, QueueBecomes
<1>3. \A k \in Queue("unexpected") : RecvqMsg(rreq[k]) = RecvqMsg(rreq[r]) => k = r
  BY RecvqFields DEF IInv, Unexpected
<1> QED
  BY <1>1, <1>2, <1>3 DEF RecvqUnexpected

LEMMA QueueEnters ==
  ASSUME NEW r, r \notin DOMAIN rreq, NEW q, RBecomes(r, q), q.ref # 0
  PROVE  /\ q.where = "posted" => RecvqPosted' = RecvqPosted \cup {RecvqRecv(q)}
         /\ q.where = "unexpected" => RecvqUnexpected' = RecvqUnexpected \cup {RecvqMsg(q)}
<1>1. ASSUME NEW w, q.where = w
      PROVE  /\ \A k : (k \in Queue(w)') <=> (k \in Queue(w) \/ k = r)
             /\ \A k \in Queue(w) : rreq'[k] = rreq[k]
             /\ rreq'[r] = q
  <2>1. r \notin Queue(w)
    BY DEF Queue
  <2> QED
    BY <1>1, <2>1, QueueBecomes
<1> QED
  BY <1>1 DEF RecvqPosted, RecvqUnexpected

-----------------------------------------------------------------------------
(* The searches of the two models find the same requests.                  *)

LEMMA PostedTags ==
  ASSUME IInv
  PROVE  /\ \A k \in Queue("posted") : rreq[k].tag \in MsgTags \cup {ANY_TAG} /\ rreq[k].seq \in Nat
         /\ \A k \in Queue("unexpected") : /\ rreq[k].tag \in MsgTags \cup {ANY_TAG}
                                           /\ rreq[k].seq \in Nat
BY RecvRequest, RecvFields DEF Queue

\* The tag of a message in the unexpected queue is not a wild card.
MsgTagsOK == \A k \in Queue("unexpected") : rreq[k].tag \in MsgTags /\ rreq[k].sreq \in SHandles

LEMMA SearchPosted ==
  ASSUME IInv, NEW x, x.tag \in MsgTags
  PROVE  /\ \A k \in Queue("posted") :
              RecvqRecv(rreq[k]) \in Recvq!MatchingRecvs(RecvqMsg(x)) <=> k \in MatchingRecvs(x.tag)
         /\ \A p \in Recvq!MatchingRecvs(RecvqMsg(x)) :
              \E k \in MatchingRecvs(x.tag) : p = RecvqRecv(rreq[k])
<1>1. PICK m : m = RecvqMsg(x)
  OBVIOUS
<1>2. /\ m.tag = Coll(x.tag) /\ m.rank = 1 /\ m.ctx = Ctx /\ m.errs = {}
      /\ [m EXCEPT !.errs = {}] = m
  BY <1>1, RecvqFields DEF RecvqMsg
<1>3. \A p : p \in Recvq!MatchingRecvs(m) <=>
        p \in RecvqPosted /\ p.ctx = Ctx /\ p.rank \in {1, 0} /\ p.tag \in {Coll(x.tag), ANY_TAG}
  BY <1>2 DEF Recvq!MatchingRecvs, Recvq!MATCH_WITH_LEFT_RIGHT_MASK, Recvq!MATCH_WITH_LEFT_MASK
<1>4. ASSUME NEW k \in Queue("posted")
      PROVE  RecvqRecv(rreq[k]) \in Recvq!MatchingRecvs(m) <=> k \in MatchingRecvs(x.tag)
  <2>1. RecvqRecv(rreq[k]) \in RecvqPosted
    BY DEF RecvqPosted
  <2>2. Coll(rreq[k].tag) \in {Coll(x.tag), ANY_TAG} <=> rreq[k].tag \in {x.tag, ANY_TAG}
    <3>1. rreq[k].tag \in MsgTags \cup {ANY_TAG}
      BY PostedTags
    <3> QED
      BY <3>1, CollTags, ZenonT(30)
  <2>3. k \in MatchingRecvs(x.tag) <=> rreq[k].tag \in {x.tag, ANY_TAG}
    BY DEF MatchingRecvs
  <2> QED
    BY <1>3, <2>1, <2>2, <2>3, RecvqFields
<1>5. ASSUME NEW p \in Recvq!MatchingRecvs(m)
      PROVE  \E k \in MatchingRecvs(x.tag) : p = RecvqRecv(rreq[k])
  <2>1. PICK k \in Queue("posted") : p = RecvqRecv(rreq[k])
    BY <1>3 DEF RecvqPosted
  <2> QED
    BY <1>4, <2>1
<1> QED
  BY <1>1, <1>4, <1>5

LEMMA SearchUnexpected ==
  ASSUME IInv, MsgTagsOK, NEW tag \in MsgTags \cup {ANY_TAG}, NEW p,
         p.tag = Coll(tag), p.ctx = Ctx, p.rank = 1
  PROVE  /\ \A k \in Queue("unexpected") :
              RecvqMsg(rreq[k]) \in Recvq!MatchingMsgs(p) <=> k \in MatchingMsgs(tag)
         /\ \A u \in Recvq!MatchingMsgs(p) :
              \E k \in MatchingMsgs(tag) : u = RecvqMsg(rreq[k])
<1>1. \A u : u \in Recvq!MatchingMsgs(p) <=>
        u \in RecvqUnexpected /\ u.ctx = Ctx /\ 1 \in {u.rank, 0} /\ Coll(tag) \in {u.tag, ANY_TAG}
  BY DEF Recvq!MatchingMsgs, Recvq!MATCH_WITH_LEFT_MASK
<1>2. ASSUME NEW k \in Queue("unexpected")
      PROVE  RecvqMsg(rreq[k]) \in Recvq!MatchingMsgs(p) <=> k \in MatchingMsgs(tag)
  <2>1. RecvqMsg(rreq[k]) \in RecvqUnexpected
    BY DEF RecvqUnexpected
  <2>2. Coll(tag) \in {Coll(rreq[k].tag), ANY_TAG} <=> tag \in {rreq[k].tag, ANY_TAG}
    BY CollTags DEF MsgTagsOK
  <2>3. k \in MatchingMsgs(tag) <=> tag \in {rreq[k].tag, ANY_TAG}
    BY DEF MatchingMsgs
  <2> QED
    BY <1>1, <2>1, <2>2, <2>3, RecvqFields
<1>3. ASSUME NEW u \in Recvq!MatchingMsgs(p)
      PROVE  \E k \in MatchingMsgs(tag) : u = RecvqMsg(rreq[k])
  <2>1. PICK k \in Queue("unexpected") : u = RecvqMsg(rreq[k])
    BY <1>1 DEF RecvqUnexpected
  <2> QED
    BY <1>2, <2>1
<1> QED
  BY <1>2, <1>3

LEMMA FirstPosted ==
  ASSUME IInv, NEW x, x.tag \in MsgTags, NEW r
  PROVE  /\ IsFirst(r, MatchingRecvs(x.tag)) =>
              /\ RecvqRecv(rreq[r]) \in RecvqPosted
              /\ Recvq!IsFirst(RecvqRecv(rreq[r]), RecvqPosted, Recvq!MatchingRecvs(RecvqMsg(x)))
         /\ MatchingRecvs(x.tag) = {} => Recvq!MatchingRecvs(RecvqMsg(x)) = {}
<1>1. ASSUME IsFirst(r, MatchingRecvs(x.tag))
      PROVE  /\ RecvqRecv(rreq[r]) \in RecvqPosted
             /\ Recvq!IsFirst(RecvqRecv(rreq[r]), RecvqPosted, Recvq!MatchingRecvs(RecvqMsg(x)))
  <2>1. /\ r \in Queue("posted") /\ r \in MatchingRecvs(x.tag)
        /\ \A s \in MatchingRecvs(x.tag) : rreq[r].seq <= rreq[s].seq
    BY <1>1 DEF IsFirst, MatchingRecvs
  <2>2. /\ RecvqRecv(rreq[r]) \in RecvqPosted
        /\ RecvqRecv(rreq[r]) \in Recvq!MatchingRecvs(RecvqMsg(x))
    BY <2>1, SearchPosted DEF RecvqPosted
  <2>3. \A s \in Recvq!MatchingRecvs(RecvqMsg(x)) : RecvqRecv(rreq[r]).seq <= s.seq
    BY <2>1, SearchPosted, RecvqFields
  <2> QED
    BY <2>2, <2>3 DEF Recvq!IsFirst
<1> QED
  BY <1>1, SearchPosted

LEMMA FirstUnexpected ==
  ASSUME IInv, MsgTagsOK, NEW tag \in MsgTags \cup {ANY_TAG}, NEW p,
         p.tag = Coll(tag), p.ctx = Ctx, p.rank = 1, NEW u
  PROVE  /\ IsFirst(u, MatchingMsgs(tag)) =>
              /\ u \in Queue("unexpected") /\ RecvqMsg(rreq[u]) \in RecvqUnexpected
              /\ Recvq!IsFirst(RecvqMsg(rreq[u]), RecvqUnexpected, Recvq!MatchingMsgs(p))
         /\ MatchingMsgs(tag) = {} => Recvq!MatchingMsgs(p) = {}
<1>1. ASSUME IsFirst(u, MatchingMsgs(tag))
      PROVE  /\ u \in Queue("unexpected") /\ RecvqMsg(rreq[u]) \in RecvqUnexpected
             /\ Recvq!IsFirst(RecvqMsg(rreq[u]), RecvqUnexpected, Recvq!MatchingMsgs(p))
  <2>1. /\ u \in Queue("unexpected") /\ u \in MatchingMsgs(tag)
        /\ \A s \in MatchingMsgs(tag) : rreq[u].seq <= rreq[s].seq
    BY <1>1 DEF IsFirst, MatchingMsgs
  <2>2. RecvqMsg(rreq[u]) \in RecvqUnexpected /\ RecvqMsg(rreq[u]) \in Recvq!MatchingMsgs(p)
    BY <2>1, SearchUnexpected DEF RecvqUnexpected
  <2>3. \A s \in Recvq!MatchingMsgs(p) : RecvqMsg(rreq[u]).seq <= s.seq
    BY <2>1, SearchUnexpected, RecvqFields
  <2> QED
    BY <2>1, <2>2, <2>3 DEF Recvq!IsFirst
<1> QED
  BY <1>1, SearchUnexpected

-----------------------------------------------------------------------------
(* Steps of CH3Recvq.                                                      *)

QInv == Numbers /\ MsgTagsOK

LEMMA QuietStep ==
  ASSUME RecvqPosted' = RecvqPosted, RecvqUnexpected' = RecvqUnexpected,
         UNCHANGED <<revoked, nrecv, narr, matched, dropped>>
  PROVE  UNCHANGED Recvq!vars
BY DEF Recvq!vars, RecvqRevoked, RecvqMatched, RecvqDropped

LEMMA NumbersKept ==
  ASSUME IInv, QInv, Kept("posted"), Kept("unexpected"), nmsg' = nmsg,
         nrecv' \in {nrecv, nrecv + 1}, narr' <= nmsg,
         \A p \in PktsR' : p.type = "Send" => narr' < p.id
  PROVE  QInv'
<1>1. nrecv \in Nat
  BY DEF IInv, TypeOK
<1>2. \A r \in Queue("posted")' : rreq'[r].seq <= nrecv'
  <2> SUFFICES ASSUME NEW r \in Queue("posted")'
               PROVE  rreq'[r].seq <= nrecv'
    OBVIOUS
  <2>1. rreq'[r].seq <= nrecv /\ rreq'[r].seq \in Nat
    BY PostedTags DEF Kept, QInv, Numbers
  <2> QED
    BY <1>1, <2>1
<1>3. \A r, s \in Queue("posted")' : rreq'[r].seq = rreq'[s].seq => r = s
  BY DEF QInv, Numbers, Kept
<1>4. MsgTagsOK'
  BY DEF QInv, MsgTagsOK, Kept
<1>5. nmsg' <= MaxMsgs
  BY DEF QInv, Numbers
<1> QED
  BY <1>2, <1>3, <1>4, <1>5 DEF QInv, Numbers

LEMMA IsArrive ==
  ASSUME NEW p, p.tag \in MsgTags, p.sreq \in SHandles, narr < MaxMsgs, narr' = narr + 1,
         UNCHANGED <<revoked, nrecv>>, Recvq!FDP_or_AEU(RecvqMsg(Msg(narr + 1, p)))
  PROVE  Recvq!Next
<1>1. RecvqMsg(Msg(narr + 1, p)) =
        [seq |-> narr + 1, rank |-> 1, tag |-> Coll(p.tag), errs |-> {},
         ctx |-> [id |-> <<1>>[1], kind |-> "pt2pt"], sreq |-> p.sreq]
  BY DEF RecvqMsg, Msg, Ctx
<1>2. Recvq!Arrive(1, "pt2pt", 1, Coll(p.tag), {}, p.sreq)
  BY <1>1 DEF Recvq!Arrive, RecvqRevoked
<1>3. Coll(p.tag) \in Recvq!Tags
  BY CollTags DEF Recvq!Tags
<1> QED
  BY <1>2, <1>3 DEF Recvq!Next

LEMMA RecvqMatchedAdds ==
  ASSUME NEW y, matched' = matched \cup {y}
  PROVE  RecvqMatched' = RecvqMatched \cup {[recv |-> RecvqRecv(y.recv), msg |-> RecvqMsg(y.msg)]}
BY DEF RecvqMatched

LEMMA MsgIs ==
  ASSUME NEW u
  PROVE  RecvqMsg(Msg(u.seq, u)) = RecvqMsg(u)
BY DEF Msg, RecvqMsg

\* What is true of a message that arrives.
LEMMA Arriving ==
  ASSUME IInv, QInv, toR # << >>, Head(toR).type = "Send", narr' = narr + 1, nmsg' = nmsg
  PROVE  /\ Head(toR).tag \in MsgTags /\ Head(toR).sreq \in SHandles
         /\ narr < MaxMsgs /\ narr' <= nmsg
         /\ \A y \in PktsR : Before(Head(toR), y) /\ y.type = "Send" => narr' < y.id
<1>1. /\ Head(toR) \in PktsR /\ PktR(Head(toR))
      /\ Head(toR) \in MsgPkts \cup CancelPkts \cup DataPkts
  BY HeadToReceiver
<1>2. Head(toR) \in MsgPkts
  BY <1>1 DEF MsgPkts, CancelPkts, DataPkts
<1>3. Head(toR).tag \in MsgTags /\ Head(toR).sreq \in SHandles /\ Head(toR).id \in Nat
  BY <1>2 DEF MsgPkts
<1>4. narr < Head(toR).id /\ Head(toR).id <= nmsg /\ nmsg <= MaxMsgs /\ narr \in Nat /\ nmsg \in Nat
  BY <1>1 DEF QInv, Numbers, PktR, IInv, TypeOK
<1>5. ASSUME NEW y \in PktsR, Before(Head(toR), y), y.type = "Send"
      PROVE  narr' < y.id
  <2>1. Head(toR).id < y.id /\ y.id \in 1 .. nmsg
    BY <1>5 DEF Before, IInv, ToReceiver, PktR
  <2> QED
    BY <1>3, <1>4, <2>1
<1> QED
  BY <1>3, <1>4, <1>5, LimitsAssumption

-----------------------------------------------------------------------------
(* A message arrives.                                                      *)

LEMMA FoundPostedQueue ==
  ASSUME IInv, QInv, toR # << >>, Head(toR).type = "Send", FoundPosted(Head(toR)),
         narr' = narr + 1, UNCHANGED <<sender, revoked, nrecv, removed>>
  PROVE  QInv' /\ Kept("unexpected") /\ Recvq!Next
<1>0. PICK p : p = Head(toR)
  OBVIOUS
<1>1. PICK r \in DOMAIN rreq :
        LET q == [rreq[r] EXCEPT !.where = "matched", !.proto = p.proto,
                                 !.sreq = p.sreq, !.id = p.id]
        IN  /\ IsFirst(r, MatchingRecvs(p.tag))
            /\ matched' = matched \cup {Pair(rreq[r].seq, rreq[r].tag, Msg(narr + 1, p))}
            /\ \/ /\ p.proto \in {"eager", "sync"}
                  /\ ReceiveData(r, q, Filled(q), p.id)
                  /\ toS' = IF p.proto = "sync" THEN SendAck(p) ELSE toS
               \/ /\ p.proto = "rndv"
                  /\ rreq' = Store(rreq, r, q)
                  /\ toS' = SendCTS(r, p)
                  /\ UNCHANGED recv_active
            /\ toR' = Tail(toR)
            /\ UNCHANGED dropped
  BY <1>0 DEF FoundPosted
<1>2. PICK q : q = [rreq[r] EXCEPT !.where = "matched", !.proto = p.proto,
                                   !.sreq = p.sreq, !.id = p.id]
  OBVIOUS
<1>3. /\ IsFirst(r, MatchingRecvs(p.tag))
      /\ matched' = matched \cup {Pair(rreq[r].seq, rreq[r].tag, Msg(narr + 1, p))}
      /\ rreq' = Store(rreq, r, q) \/ rreq' = Store(rreq, r, Filled(q))
      /\ toR' = Tail(toR) /\ dropped' = dropped
      /\ UNCHANGED <<nmsg, revoked, nrecv>>
  BY <1>1, <1>2 DEF sender, ReceiveData
<1>4. r \in Queue("posted") /\ rreq[r].where = "posted"
  BY <1>3 DEF IsFirst, MatchingRecvs, Queue
<1>5. /\ p \in PktsR /\ PktsR = PktsR' \cup {p} /\ \A y \in PktsR' : Before(p, y)
      /\ p \in MsgPkts \cup CancelPkts \cup DataPkts /\ p.type = "Send"
  BY <1>0, <1>3, HeadToReceiver
<1>6. p.proto \in Protocols /\ p.sreq \in SHandles /\ p.id \in Nat
  BY <1>5 DEF MsgPkts, CancelPkts, DataPkts
<1>7. q \in RReqs /\ q.where = "matched"
  <2>1. rreq[r] \in RReqs
    BY RecvRequest
  <2> QED
    BY <1>2, <1>6, <2>1 DEF RReqs
<1>8. \E m \in RReqs : RBecomes(r, m) /\ m.where = "matched"
  BY <1>3, <1>7, StoreRBecomes, FilledRecv
<1>9. PICK m \in RReqs : RBecomes(r, m) /\ m.where = "matched"
  BY <1>8
<1>10. RecvqPosted' = RecvqPosted \ {RecvqRecv(rreq[r])}
  BY <1>4, <1>9, PostedLeaves DEF QInv
<1>11. RecvqUnexpected' = RecvqUnexpected /\ Kept("unexpected") /\ Kept("posted")
  <2>1. r \notin Queue("unexpected")
    BY <1>4 DEF Queue
  <2>2. Same("unexpected", r, m)
    BY <1>9, <2>1 DEF Same
  <2> QED
    BY <1>9, <2>2, UnexpectedSame, KeptBecomes
<1>12. /\ p.tag \in MsgTags /\ p.sreq \in SHandles /\ narr < MaxMsgs /\ narr' <= nmsg
       /\ \A y \in PktsR : Before(p, y) /\ y.type = "Send" => narr' < y.id
  BY <1>0, <1>3, Arriving
<1>13. QInv'
  BY <1>3, <1>5, <1>11, <1>12, NumbersKept
<1>14. PICK x : x = Msg(narr + 1, p)
  OBVIOUS
<1>15. x.tag = p.tag
  BY <1>14 DEF Msg
<1>16. RecvqMatched' = RecvqMatched \cup {[recv |-> RecvqRecv(rreq[r]), msg |-> RecvqMsg(x)]}
  <2>1. PICK y : y = Pair(rreq[r].seq, rreq[r].tag, x)
    OBVIOUS
  <2>2. RecvqRecv(y.recv) = RecvqRecv(rreq[r]) /\ y.msg = x
    BY <2>1 DEF Pair, RecvqRecv
  <2>3. RecvqMatched' = RecvqMatched \cup {[recv |-> RecvqRecv(y.recv), msg |-> RecvqMsg(y.msg)]}
    BY <1>3, <1>14, <2>1, RecvqMatchedAdds
  <2> QED
    BY <2>2, <2>3
<1>17. /\ RecvqRecv(rreq[r]) \in RecvqPosted
       /\ Recvq!IsFirst(RecvqRecv(rreq[r]), RecvqPosted, Recvq!MatchingRecvs(RecvqMsg(x)))
  BY <1>3, <1>12, <1>15, FirstPosted
<1>18. RecvqDropped' = RecvqDropped
  BY <1>3 DEF RecvqDropped
<1>19. Recvq!FDP_or_AEU(RecvqMsg(x))
  BY <1>10, <1>11, <1>16, <1>17, <1>18 DEF Recvq!FDP_or_AEU
<1> QED
  BY <1>3, <1>11, <1>12, <1>13, <1>14, <1>19, IsArrive

LEMMA ThrowAwayQueue ==
  ASSUME IInv, QInv, toR # << >>, Head(toR).type = "Send", ThrowAway(Head(toR)),
         narr' = narr + 1, UNCHANGED <<sender, revoked, nrecv, removed>>
  PROVE  QInv' /\ Kept("unexpected") /\ Recvq!Next
<1>0. PICK p : p = Head(toR)
  OBVIOUS
<1>1. PICK n \in 1 .. Len(toR) : toR' = SubSeq(toR, n + 1, Len(toR))
  BY DEF ThrowAway
<1>2. /\ revoked /\ MatchingRecvs(p.tag) = {} /\ dropped' = dropped \cup {Msg(narr + 1, p)}
      /\ UNCHANGED <<rreq, matched, nmsg, revoked, nrecv>>
  BY <1>0 DEF ThrowAway, sender
<1>3. PktsR' \subseteq PktsR /\ \A y \in PktsR' : Before(p, y)
  <2>1. toR \in Seq(MsgPkts \cup CancelPkts \cup DataPkts) /\ Ordered(toR)
    BY DEF IInv, TypeOK, ToReceiver
  <2>2. p = toR[1]
    BY <1>0, <2>1
  <2> QED
    BY <1>1, <2>1, <2>2, DropPkts DEF PktsR
<1>4. /\ p.tag \in MsgTags /\ p.sreq \in SHandles /\ narr < MaxMsgs /\ narr' <= nmsg
      /\ \A y \in PktsR : Before(p, y) /\ y.type = "Send" => narr' < y.id
  BY <1>0, <1>2, Arriving
<1>5. /\ Kept("posted") /\ Kept("unexpected")
      /\ RecvqPosted' = RecvqPosted /\ RecvqUnexpected' = RecvqUnexpected
      /\ RecvqMatched' = RecvqMatched
  BY <1>2 DEF Kept, Queue, RecvqPosted, RecvqUnexpected, RecvqMatched
<1>6. QInv'
  BY <1>2, <1>3, <1>4, <1>5, NumbersKept
<1>7. PICK x : x = Msg(narr + 1, p)
  OBVIOUS
<1>8. x.tag = p.tag
  BY <1>7 DEF Msg
<1>9. Recvq!MatchingRecvs(RecvqMsg(x)) = {}
  BY <1>2, <1>4, <1>8, FirstPosted
<1>10. RecvqDropped' = RecvqDropped \cup {RecvqMsg(x)}
  BY <1>2, <1>7 DEF RecvqDropped
<1>11. Recvq!ThrowAway(RecvqMsg(x))
  <2>1. RecvqMsg(x).ctx.id = 1
    BY RecvqFields DEF Ctx
  <2>2. 1 \in Recvq!Comm_find(RecvqMsg(x).ctx)
    BY <2>1 DEF Recvq!Comm_find
  <2>3. 1 \in RecvqRevoked
    BY <1>2 DEF RecvqRevoked
  <2> QED
    BY <2>2, <2>3 DEF Recvq!ThrowAway, Recvq!PassesQueue
<1>12. Recvq!FDP_or_AEU(RecvqMsg(x))
  BY <1>5, <1>9, <1>10, <1>11 DEF Recvq!FDP_or_AEU
<1> QED
  BY <1>2, <1>4, <1>5, <1>6, <1>7, <1>12, IsArrive

LEMMA AppendUnexpectedQueue ==
  ASSUME IInv, QInv, toR # << >>, Head(toR).type = "Send", AppendUnexpected(Head(toR)),
         narr' = narr + 1, UNCHANGED <<sender, revoked, nrecv, removed>>
  PROVE  /\ QInv' /\ Recvq!Next
         /\ \A k \in Queue("unexpected")' :
              \/ k \in Queue("unexpected") /\ rreq'[k] = rreq[k]
              \/ Msg(rreq'[k].seq, rreq'[k]) = Msg(narr + 1, Head(toR))
<1>0. PICK p : p = Head(toR)
  OBVIOUS
<1>1. PICK r \in RHandles \ DOMAIN rreq :
        LET q == [where |-> "unexpected", seq |-> narr + 1, tag |-> p.tag,
                  proto |-> p.proto, sreq |-> p.sreq, id |-> p.id, cc |-> 1, ref |-> 2,
                  user |-> FALSE, pending |-> 1, tmpbuf |-> "none", buf |-> "none"]
        IN  /\ ~revoked
            /\ MatchingRecvs(p.tag) = {}
            /\ \/ /\ p.proto \in {"eager", "sync"}
                  /\ ReceiveData(r, UnexpectedPart(q),
                                 Complete([q EXCEPT !.tmpbuf = "all"]), p.id)
               \/ /\ p.proto = "rndv"
                  /\ rreq' = Store(rreq, r, q)
                  /\ UNCHANGED recv_active
            /\ toR' = Tail(toR)
            /\ UNCHANGED <<toS, matched, dropped>>
  BY <1>0 DEF AppendUnexpected
<1>2. PICK q : q = [where |-> "unexpected", seq |-> narr + 1, tag |-> p.tag,
                    proto |-> p.proto, sreq |-> p.sreq, id |-> p.id, cc |-> 1, ref |-> 2,
                    user |-> FALSE, pending |-> 1, tmpbuf |-> "none", buf |-> "none"]
  OBVIOUS
<1>3. PICK f : f = [q EXCEPT !.tmpbuf = "all"]
  OBVIOUS
<1>4. /\ ~revoked /\ MatchingRecvs(p.tag) = {}
      /\ \/ rreq' = Store(rreq, r, UnexpectedPart(q))
         \/ rreq' = Store(rreq, r, Complete(f))
         \/ rreq' = Store(rreq, r, q)
      /\ toR' = Tail(toR)
      /\ UNCHANGED <<nmsg, revoked, nrecv, matched, dropped>>
  BY <1>1, <1>2, <1>3 DEF sender, ReceiveData
<1>5. /\ p \in PktsR /\ PktsR = PktsR' \cup {p} /\ \A y \in PktsR' : Before(p, y)
      /\ p \in MsgPkts \cup CancelPkts \cup DataPkts /\ p.type = "Send"
  BY <1>0, <1>4, HeadToReceiver
<1>6. /\ p.proto \in Protocols /\ p.sreq \in SHandles /\ p.id \in Nat /\ p.tag \in MsgTags
      /\ narr \in Nat
  BY <1>5 DEF MsgPkts, CancelPkts, DataPkts, IInv, TypeOK
<1>7. /\ q \in RReqs /\ q.where = "unexpected" /\ q.seq = narr + 1 /\ q.tag = p.tag
      /\ q.sreq = p.sreq /\ q.id = p.id /\ q.cc = 1 /\ q.ref = 2
  <2>1. PICK n \in Nat : n = narr + 1
    BY <1>6
  <2>2. /\ q = [where |-> "unexpected", seq |-> n, tag |-> p.tag,
                proto |-> p.proto, sreq |-> p.sreq, id |-> p.id, cc |-> 1, ref |-> 2,
                user |-> FALSE, pending |-> 1, tmpbuf |-> "none", buf |-> "none"]
    BY <1>2, <2>1
  <2> QED
    BY <1>6, <2>1, <2>2 DEF RReqs
<1>8. \E m \in RReqs : /\ RBecomes(r, m) /\ m.where = "unexpected" /\ m.ref # 0
                       /\ m.seq = narr + 1 /\ m.tag = p.tag /\ m.sreq = p.sreq /\ m.id = p.id
  <2>1. /\ f \in RReqs /\ SameMsg(f, q) /\ f.where = "unexpected" /\ f.cc = 1 /\ f.ref = 2
    BY <1>3, <1>7 DEF RReqs, SameMsg
  <2>2. /\ Complete(f) \in RReqs /\ SameMsg(Complete(f), q) /\ Complete(f).where = "unexpected"
        /\ Complete(f).ref = 1
    BY <2>1, CompleteRecv DEF SameMsg
  <2>3. /\ UnexpectedPart(q) \in RReqs /\ SameMsg(UnexpectedPart(q), q)
        /\ UnexpectedPart(q).where = "unexpected" /\ UnexpectedPart(q).ref = 2
    BY <1>7 DEF UnexpectedPart, RReqs, SameMsg
  <2>4. CASE rreq' = Store(rreq, r, UnexpectedPart(q))
    BY <1>7, <2>3, <2>4, StoreRBecomes DEF SameMsg
  <2>5. CASE rreq' = Store(rreq, r, Complete(f))
    BY <1>7, <2>2, <2>5, StoreRBecomes DEF SameMsg
  <2>6. CASE rreq' = Store(rreq, r, q)
    BY <1>7, <2>6, StoreRBecomes
  <2> QED
    BY <1>4, <2>4, <2>5, <2>6
<1>9. PICK m \in RReqs : /\ RBecomes(r, m) /\ m.where = "unexpected" /\ m.ref # 0
                         /\ m.seq = narr + 1 /\ m.tag = p.tag /\ m.sreq = p.sreq /\ m.id = p.id
  BY <1>8
<1>10. PICK x : x = Msg(narr + 1, p)
  OBVIOUS
<1>11. x.tag = p.tag /\ RecvqMsg(m) = RecvqMsg(x) /\ Msg(m.seq, m) = x
  BY <1>9, <1>10 DEF Msg, RecvqMsg
<1>12. RecvqUnexpected' = RecvqUnexpected \cup {RecvqMsg(x)}
  BY <1>1, <1>9, <1>11, QueueEnters
<1>13. RecvqPosted' = RecvqPosted /\ Kept("posted")
  <2>1. r \notin Queue("posted") /\ Same("posted", r, m)
    BY <1>1, <1>9 DEF Queue, Same
  <2> QED
    BY <1>9, <2>1, PostedSame, KeptBecomes
<1>14. /\ narr < MaxMsgs /\ narr' <= nmsg
       /\ \A y \in PktsR : Before(p, y) /\ y.type = "Send" => narr' < y.id
  BY <1>0, <1>4, Arriving
<1>15. QInv'
  <2>1. \A k \in Queue("unexpected")' : rreq'[k].tag \in MsgTags /\ rreq'[k].sreq \in SHandles
    BY <1>6, <1>9, QueueBecomes DEF QInv, MsgTagsOK
  <2>2. /\ \A k \in Queue("posted")' : rreq'[k].seq <= nrecv'
        /\ \A k, s \in Queue("posted")' : rreq'[k].seq = rreq'[s].seq => k = s
    BY <1>4, <1>13 DEF QInv, Numbers, Kept
  <2> QED
    BY <1>4, <1>5, <1>14, <2>1, <2>2 DEF QInv, Numbers, MsgTagsOK
<1>16. Recvq!MatchingRecvs(RecvqMsg(x)) = {}
  BY <1>4, <1>6, <1>11, FirstPosted
<1>17. ~Recvq!ThrowAway(RecvqMsg(x))
  BY <1>4 DEF Recvq!ThrowAway, RecvqRevoked
<1>18. RecvqMatched' = RecvqMatched /\ RecvqDropped' = RecvqDropped
  BY <1>4 DEF RecvqMatched, RecvqDropped
<1>19. Recvq!FDP_or_AEU(RecvqMsg(x))
  BY <1>12, <1>13, <1>16, <1>17, <1>18 DEF Recvq!FDP_or_AEU
<1>20. \A k \in Queue("unexpected")' :
              \/ k \in Queue("unexpected") /\ rreq'[k] = rreq[k]
              \/ Msg(rreq'[k].seq, rreq'[k]) = Msg(narr + 1, Head(toR))
  BY <1>0, <1>9, <1>10, <1>11, QueueBecomes
<1> QED
  BY <1>4, <1>6, <1>10, <1>14, <1>15, <1>19, <1>20, IsArrive

-----------------------------------------------------------------------------
(* The other packets, and data.                                            *)

\* A request changes, and stays in its queue or out of the queues.
LEMMA ChangeQueue ==
  ASSUME IInv, QInv, NEW r \in DOMAIN rreq, NEW q, RBecomes(r, q), SameMsg(q, rreq[r]),
         q.where = rreq[r].where,
         rreq[r].where \in {"posted", "unexpected"} => q.ref # 0,
         UNCHANGED <<nmsg, revoked, narr, nrecv, matched, dropped>>, PktsR' \subseteq PktsR
  PROVE  QInv' /\ Kept("unexpected") /\ UNCHANGED Recvq!vars
<1>1. Same("posted", r, q) /\ Same("unexpected", r, q)
  BY DEF Same, Queue, SameMsg
<1>2. RecvqPosted' = RecvqPosted /\ RecvqUnexpected' = RecvqUnexpected
  BY <1>1, PostedSame, UnexpectedSame
<1>3. Kept("posted") /\ Kept("unexpected")
  BY KeptBecomes DEF Queue, SameMsg
<1>4. narr' <= nmsg /\ \A p \in PktsR' : p.type = "Send" => narr' < p.id
  BY DEF QInv, Numbers
<1>5. QInv'
  BY <1>3, <1>4, NumbersKept
<1> QED
  BY <1>2, <1>3, <1>5, QuietStep

LEMMA RndvSendQueue ==
  ASSUME IInv, QInv, toR # << >>, PktHandler_RndvSend(Head(toR)),
         UNCHANGED <<sender, revoked, nrecv>>
  PROVE  QInv' /\ Kept("unexpected") /\ UNCHANGED Recvq!vars
<1>0. PICK p : p = Head(toR)
  OBVIOUS
<1>1. PICK r : r = p.rreq
  OBVIOUS
<1>2. /\ p.type = "RndvSend"
      /\ rreq' = Store(rreq, r, rreq[r]) \/ rreq' = Store(rreq, r, Filled(rreq[r]))
      /\ toR' = Tail(toR) /\ UNCHANGED <<nmsg, revoked, narr, nrecv, matched, dropped>>
  BY <1>0, <1>1 DEF PktHandler_RndvSend, ReceiveData, sender
<1>3. p \in PktsR /\ PktR(p) /\ PktsR' \subseteq PktsR
  BY <1>0, <1>2, HeadToReceiver
<1>4. r \in DOMAIN rreq /\ rreq[r].where = "matched"
  BY <1>1, <1>2, <1>3 DEF PktR, Awaited
<1>5. rreq[r] \in RReqs
  BY <1>4, RecvRequest
<1>6. \E q \in RReqs : RBecomes(r, q) /\ SameMsg(q, rreq[r]) /\ q.where = rreq[r].where
  <2>1. CASE rreq' = Store(rreq, r, rreq[r])
    BY <1>5, <2>1, StoreRBecomes DEF SameMsg
  <2>2. CASE rreq' = Store(rreq, r, Filled(rreq[r]))
    BY <1>5, <2>2, StoreRBecomes, FilledRecv
  <2> QED
    BY <1>2, <2>1, <2>2
<1> QED
  BY <1>2, <1>3, <1>4, <1>6, ChangeQueue

LEMMA DataArrivesQueue ==
  ASSUME IInv, QInv, DataArrives
  PROVE  QInv' /\ Kept("unexpected") /\ UNCHANGED Recvq!vars
<1>1. PICK r : r = recv_active
  OBVIOUS
<1>2. PICK q : q = IF rreq[r].tmpbuf = "part" THEN UnpackUEBufComplete(rreq[r])
                                              ELSE Filled(rreq[r])
  OBVIOUS
<1>3. /\ r \in RHandles /\ rreq' = Store(rreq, r, q) /\ toR' = toR
      /\ UNCHANGED <<nmsg, revoked, narr, nrecv, matched, dropped>>
  BY <1>1, <1>2 DEF DataArrives, sender
<1>4. r \in DOMAIN rreq
  BY <1>1, <1>3, HandlesAssumption DEF IInv, Receives
<1>5. /\ rreq[r] \in RReqs /\ RecvOK(rreq[r], TRUE, revoked)
  BY <1>1, <1>4, RecvRequest
<1>6. /\ q \in RReqs /\ SameMsg(q, rreq[r]) /\ q.where = rreq[r].where
      /\ q.ref = (IF rreq[r].cc = 1 THEN rreq[r].ref - 1 ELSE rreq[r].ref)
  BY <1>2, <1>5, FilledRecv, UnpackRecv
<1>7. rreq[r].where \in {"posted", "unexpected"} => q.ref # 0
  <2>1. rreq[r].where # "posted"
    BY <1>5 DEF RecvOK
  <2>2. rreq[r].where = "unexpected" => rreq[r].ref = 2 /\ rreq[r].cc = 1
    BY <1>5 DEF RecvOK, QueuedOK
  <2> QED
    BY <1>6, <2>1, <2>2
<1>8. RBecomes(r, q) /\ PktsR' = PktsR
  BY <1>3, StoreRBecomes DEF PktsR
<1> QED
  BY <1>3, <1>4, <1>6, <1>7, <1>8, ChangeQueue

LEMMA ReleaseRecvQueue ==
  ASSUME IInv, QInv, NEW r \in DOMAIN rreq, ReleaseRecv(r)
  PROVE  QInv' /\ Kept("unexpected") /\ UNCHANGED Recvq!vars
<1>1. PICK q : q = Release(rreq[r])
  OBVIOUS
<1>2. /\ rreq[r].user /\ rreq' = Store(rreq, r, q) /\ toR' = toR
      /\ UNCHANGED <<nmsg, revoked, narr, nrecv, matched, dropped>>
  BY <1>1 DEF ReleaseRecv, sender
<1>3. rreq[r] \in RReqs /\ RecvOK(rreq[r], recv_active = r, revoked)
  BY RecvRequest
<1>4. /\ q \in RReqs /\ SameMsg(q, rreq[r]) /\ q.where = rreq[r].where
      /\ q.ref = rreq[r].ref - 1
  BY <1>1, <1>3, ReleasedRecv
<1>5. rreq[r].where \in {"posted", "unexpected"} => q.ref # 0
  BY <1>2, <1>3, <1>4 DEF RecvOK, B
<1>6. RBecomes(r, q) /\ PktsR' = PktsR
  BY <1>2, StoreRBecomes DEF PktsR
<1> QED
  BY <1>2, <1>4, <1>5, <1>6, ChangeQueue

LEMMA CancelRecvQueue ==
  ASSUME IInv, QInv, NEW r \in DOMAIN rreq, Cancel_recv(r)
  PROVE  QInv' /\ Kept("unexpected") /\ Recvq!Next
<1>1. PICK q : q = Ended(rreq[r], "cancelled")
  OBVIOUS
<1>2. /\ r \in Queue("posted") /\ rreq' = Store(rreq, r, q) /\ toR' = toR
      /\ UNCHANGED <<nmsg, revoked, narr, nrecv, matched, dropped>>
  BY <1>1 DEF Cancel_recv, sender, Ended
<1>3. q.where = "cancelled"
  BY <1>1, RecvRequest, EndedRecv
<1>4. RBecomes(r, q) /\ PktsR' = PktsR
  BY <1>2, StoreRBecomes DEF PktsR
<1>5. RecvqPosted' = RecvqPosted \ {RecvqRecv(rreq[r])}
  BY <1>2, <1>3, <1>4, PostedLeaves DEF QInv
<1>6. RecvqUnexpected' = RecvqUnexpected /\ Kept("posted") /\ Kept("unexpected")
  <2>1. Same("unexpected", r, q)
    BY <1>2, <1>3 DEF Same, Queue
  <2> QED
    BY <1>3, <1>4, <2>1, UnexpectedSame, KeptBecomes
<1>7. narr' <= nmsg /\ \A p \in PktsR' : p.type = "Send" => narr' < p.id
  BY <1>2, <1>4 DEF QInv, Numbers
<1>8. QInv'
  BY <1>2, <1>6, <1>7, NumbersKept
<1>9. RecvqRecv(rreq[r]) \in RecvqPosted
  BY <1>2 DEF RecvqPosted
<1>10. Recvq!Cancel_recv(RecvqRecv(rreq[r]))
  BY <1>2, <1>5, <1>6 DEF Recvq!Cancel_recv, RecvqRevoked, RecvqMatched, RecvqDropped
<1> QED
  BY <1>6, <1>8, <1>9, <1>10 DEF Recvq!Next

LEMMA CancelSendReqQueue ==
  ASSUME IInv, QInv, toR # << >>, recv_active = NULL, PktHandler_CancelSendReq(Head(toR)),
         UNCHANGED <<sender, revoked, nrecv>>
  PROVE  QInv' /\ Kept("unexpected") /\ [Recvq!Next]_(Recvq!vars)
<1>0. PICK p : p = Head(toR)
  OBVIOUS
<1>1. PICK S : S = {u \in Queue("unexpected") : rreq[u].sreq = p.sreq /\ rreq[u].tag = p.tag}
  OBVIOUS
<1>2. /\ p.type = "CancelSendReq" /\ toR' = Tail(toR)
      /\ UNCHANGED <<nmsg, revoked, narr, nrecv, matched, dropped>>
      /\ \/ \E u \in S :
              /\ IsLast(u, S)
              /\ rreq' = Store(rreq, u, [rreq[u] EXCEPT
                                  !.ref = @ - IF rreq[u].proto = "rndv" THEN 2 ELSE 1])
         \/ rreq' = rreq
  BY <1>0, <1>1 DEF PktHandler_CancelSendReq, sender
<1>3. p \in PktsR /\ PktsR' \subseteq PktsR /\ p \in MsgPkts \cup CancelPkts \cup DataPkts
  BY <1>0, <1>2, HeadToReceiver
<1>4. p.tag \in MsgTags /\ p.sreq \in SHandles
  BY <1>2, <1>3 DEF MsgPkts, CancelPkts, DataPkts
<1>5. narr' <= nmsg /\ \A y \in PktsR' : y.type = "Send" => narr' < y.id
  BY <1>2, <1>3 DEF QInv, Numbers
<1>6. CASE rreq' = rreq
  <2>1. /\ Kept("posted") /\ Kept("unexpected")
        /\ RecvqPosted' = RecvqPosted /\ RecvqUnexpected' = RecvqUnexpected
    BY <1>6 DEF Kept, Queue, RecvqPosted, RecvqUnexpected
  <2> QED
    BY <1>2, <1>5, <2>1, NumbersKept, QuietStep
<1>7. ASSUME NEW u \in S, IsLast(u, S),
             rreq' = Store(rreq, u, [rreq[u] EXCEPT
                               !.ref = @ - IF rreq[u].proto = "rndv" THEN 2 ELSE 1])
      PROVE  QInv' /\ Kept("unexpected") /\ Recvq!Next
  <2>1. u \in Queue("unexpected") /\ u \in DOMAIN rreq /\ rreq[u].where = "unexpected"
    BY <1>1 DEF Queue
  <2>2. rreq[u] \in RReqs /\ RecvOK(rreq[u], recv_active = u, revoked)
    BY <2>1, RecvRequest
  <2>3. PICK n : n = rreq[u].ref - IF rreq[u].proto = "rndv" THEN 2 ELSE 1
    OBVIOUS
  <2>4. PICK q : q = [rreq[u] EXCEPT !.ref = n]
    OBVIOUS
  <2>5. rreq' = Store(rreq, u, q)
    <3>1. q = [rreq[u] EXCEPT !.ref = @ - IF rreq[u].proto = "rndv" THEN 2 ELSE 1]
      BY <2>2, <2>3, <2>4 DEF RReqs
    <3> QED
      BY <1>7, <3>1
  <2>6. q.ref = n /\ SameMsg(q, rreq[u]) /\ q.where = "unexpected"
    BY <2>1, <2>2, <2>4 DEF RReqs, SameMsg
  <2>0. recv_active # u
    BY <2>1, RecvRequest, HandlesAssumption
  <2>7. QueuedOK(rreq[u], recv_active = u)
    BY <2>1, <2>2 DEF RecvOK
  <2>8. q.ref = 0
    <3>1. rreq[u].ref = 1 + rreq[u].cc
      BY <2>7 DEF QueuedOK
    <3>2. rreq[u].cc = IF rreq[u].proto = "rndv" THEN 1 ELSE 0
      BY <2>0, <2>7 DEF QueuedOK
    <3> QED
      BY <2>3, <2>6, <3>1, <3>2
  <2>10. RBecomes(u, q)
    BY <2>5, StoreRBecomes
  <2>11. RecvqUnexpected' = RecvqUnexpected \ {RecvqMsg(rreq[u])}
    BY <2>1, <2>8, <2>10, UnexpectedLeaves
  <2>12. RecvqPosted' = RecvqPosted /\ Kept("posted") /\ Kept("unexpected")
    <3>1. Same("posted", u, q)
      BY <2>1, <2>6 DEF Same, Queue
    <3> QED
      BY <2>8, <2>10, <3>1, PostedSame, KeptBecomes
  <2>13. QInv'
    BY <1>2, <1>5, <2>12, NumbersKept
  <2>14. PICK T : T = {x \in RecvqUnexpected :
                        /\ x.sreq = p.sreq /\ x.rank = 1 /\ x.tag = Coll(p.tag)
                        /\ x.ctx = [id |-> <<1>>[1], kind |-> "pt2pt"]}
    OBVIOUS
  <2>15. \A k \in Queue("unexpected") : RecvqMsg(rreq[k]) \in T <=> k \in S
    <3> SUFFICES ASSUME NEW k \in Queue("unexpected")
                 PROVE  RecvqMsg(rreq[k]) \in T <=> k \in S
      OBVIOUS
    <3>1. RecvqMsg(rreq[k]) \in RecvqUnexpected
      BY DEF RecvqUnexpected
    <3>2. rreq[k].tag \in MsgTags
      BY DEF QInv, MsgTagsOK
    <3>3. Coll(rreq[k].tag) = Coll(p.tag) <=> rreq[k].tag = p.tag
      BY <1>4, <3>2, CollTags
    <3>4. Ctx = [id |-> <<1>>[1], kind |-> "pt2pt"]
      BY DEF Ctx
    <3> QED
      BY <1>1, <2>14, <3>1, <3>3, <3>4, RecvqFields
  <2>16. Recvq!IsLast(RecvqMsg(rreq[u]), RecvqUnexpected, T)
    <3>1. RecvqMsg(rreq[u]) \in RecvqUnexpected \cap T
      BY <1>7, <2>1, <2>15 DEF RecvqUnexpected
    <3>2. ASSUME NEW x \in RecvqUnexpected \cap T
          PROVE  x.seq <= RecvqMsg(rreq[u]).seq
      <4>1. PICK k \in Queue("unexpected") : x = RecvqMsg(rreq[k])
        BY DEF RecvqUnexpected
      <4>2. k \in S
        BY <2>15, <3>2, <4>1
      <4>3. rreq[k].seq <= rreq[u].seq
        BY <1>7, <4>2 DEF IsLast
      <4> QED
        BY <4>1, <4>3, RecvqFields
    <3> QED
      BY <3>1, <3>2 DEF Recvq!IsLast
  <2>17. UNCHANGED <<RecvqPosted, RecvqRevoked, nrecv, narr, RecvqMatched, RecvqDropped>>
    BY <1>2, <2>12 DEF RecvqRevoked, RecvqMatched, RecvqDropped
  <2>18. Recvq!FDU(1, "pt2pt", 1, Coll(p.tag), p.sreq)
    <3>1. RecvqMsg(rreq[u]) \in RecvqUnexpected
      BY <2>1 DEF RecvqUnexpected
    <3> QED
      BY <2>11, <2>14, <2>16, <2>17, <3>1 DEF Recvq!FDU
  <2>19. Coll(p.tag) \in Recvq!Tags
    BY <1>4, CollTags DEF Recvq!Tags
  <2> QED
    BY <1>4, <2>12, <2>13, <2>18, <2>19 DEF Recvq!Next
<1> QED
  BY <1>2, <1>6, <1>7

-----------------------------------------------------------------------------
(* The user of the receiver.                                               *)

LEMMA ImrecvQueue ==
  ASSUME IInv, QInv, NEW u \in DOMAIN rreq, Imrecv(u)
  PROVE  QInv' /\ Kept("unexpected") /\ UNCHANGED Recvq!vars
<1>1. /\ u \in Queue("probed") /\ Receive(u, rreq[u]) /\ toR' = toR
      /\ UNCHANGED <<nmsg, recv_active, revoked, narr, nrecv, matched, dropped>>
  BY DEF Imrecv, sender
<1>2. rreq[u].where = "probed"
  BY <1>1 DEF Queue
<1>3. PICK m \in RReqs : RBecomes(u, m) /\ m.where = "matched"
  BY <1>1, <1>2, ReceiveEffect
<1>4. Same("posted", u, m) /\ Same("unexpected", u, m)
  BY <1>2, <1>3 DEF Same, Queue
<1>5. RecvqPosted' = RecvqPosted /\ RecvqUnexpected' = RecvqUnexpected
  BY <1>3, <1>4, PostedSame, UnexpectedSame
<1>6. Kept("posted") /\ Kept("unexpected")
  BY <1>3, KeptBecomes
<1>7. narr' <= nmsg /\ \A p \in PktsR' : p.type = "Send" => narr' < p.id
  BY <1>1 DEF QInv, Numbers, PktsR
<1>8. QInv'
  BY <1>1, <1>6, <1>7, NumbersKept
<1> QED
  BY <1>1, <1>5, <1>6, <1>8, QuietStep

\* The receive or probe with number n that the user posts now, as CH3Recvq has
\* it.
NewRecv(n, tag) == [seq |-> n, rank |-> 1, tag |-> Coll(tag), comm |-> 1,
                    ctx |-> [id |-> <<1>>[1], kind |-> "pt2pt"]]

LEMMA NewRecvIs ==
  ASSUME NEW n, NEW tag
  PROVE  /\ NewRecv(n, tag).tag = Coll(tag) /\ NewRecv(n, tag).ctx = Ctx
         /\ NewRecv(n, tag).rank = 1
         /\ \A x : x.seq = n /\ x.tag = tag => RecvqRecv(x) = NewRecv(n, tag)
<1>1. [id |-> <<1>>[1], kind |-> "pt2pt"] = Ctx
  BY DEF Ctx
<1> QED
  BY <1>1 DEF NewRecv, RecvqRecv

\* A receive or a probe takes the first message that matches.
LEMMA TakesFirst ==
  ASSUME IInv, QInv, NEW tag \in MsgTags \cup {ANY_TAG}, NEW u, IsFirst(u, MatchingMsgs(tag)),
         NEW m, RBecomes(u, m), m.where \notin {"posted", "unexpected"},
         matched' = matched \cup {Pair(nrecv + 1, tag, Msg(rreq[u].seq, rreq[u]))},
         nrecv' = nrecv + 1, UNCHANGED <<nmsg, toR, narr>>
  PROVE  /\ QInv' /\ Kept("unexpected")
         /\ \E x \in RecvqUnexpected :
              /\ Recvq!IsFirst(x, RecvqUnexpected, Recvq!MatchingMsgs(NewRecv(nrecv + 1, tag)))
              /\ Recvq!TakeUnexpected(NewRecv(nrecv + 1, tag), x)
<1>1. PICK p : p = NewRecv(nrecv + 1, tag)
  OBVIOUS
<1>2. p.tag = Coll(tag) /\ p.ctx = Ctx /\ p.rank = 1
  BY <1>1, NewRecvIs
<1>3. /\ u \in Queue("unexpected") /\ RecvqMsg(rreq[u]) \in RecvqUnexpected
      /\ Recvq!IsFirst(RecvqMsg(rreq[u]), RecvqUnexpected, Recvq!MatchingMsgs(p))
  BY <1>2, FirstUnexpected DEF QInv
<1>4. RecvqUnexpected' = RecvqUnexpected \ {RecvqMsg(rreq[u])}
  BY <1>3, UnexpectedLeaves
<1>5. RecvqPosted' = RecvqPosted /\ Kept("posted") /\ Kept("unexpected")
  <2>1. Same("posted", u, m)
    BY <1>3 DEF Same, Queue
  <2> QED
    BY <2>1, PostedSame, KeptBecomes
<1>6. narr' <= nmsg /\ \A y \in PktsR' : y.type = "Send" => narr' < y.id
  BY DEF QInv, Numbers, PktsR
<1>7. QInv'
  BY <1>5, <1>6, NumbersKept
<1>8. RecvqMatched' = RecvqMatched \cup {[recv |-> p, msg |-> RecvqMsg(rreq[u])]}
  <2>1. PICK x : x = Msg(rreq[u].seq, rreq[u])
    OBVIOUS
  <2>2. PICK y : y = Pair(nrecv + 1, tag, x)
    OBVIOUS
  <2>3. y.recv.seq = nrecv + 1 /\ y.recv.tag = tag /\ y.msg = x
    BY <2>2 DEF Pair
  <2>4. RecvqRecv(y.recv) = p /\ RecvqMsg(y.msg) = RecvqMsg(rreq[u])
    BY <1>1, <2>1, <2>3, NewRecvIs, MsgIs
  <2>5. RecvqMatched' = RecvqMatched \cup {[recv |-> RecvqRecv(y.recv), msg |-> RecvqMsg(y.msg)]}
    BY <2>1, <2>2, RecvqMatchedAdds
  <2> QED
    BY <2>4, <2>5
<1>9. Recvq!TakeUnexpected(p, RecvqMsg(rreq[u]))
  BY <1>4, <1>5, <1>8 DEF Recvq!TakeUnexpected
<1> QED
  BY <1>1, <1>3, <1>5, <1>7, <1>9

LEMMA CollIsTag ==
  ASSUME NEW tag \in MsgTags \cup {ANY_TAG}
  PROVE  Coll(tag) \in Recvq!Tags \cup {ANY_TAG}
BY CollTags DEF Recvq!Tags, Coll

LEMMA ImprobeQueue ==
  ASSUME IInv, QInv, NEW tag \in MsgTags \cup {ANY_TAG}, Improbe(tag)
  PROVE  QInv' /\ Kept("unexpected") /\ Recvq!Next
<1>1. PICK u \in DOMAIN rreq :
        /\ IsFirst(u, MatchingMsgs(tag))
        /\ rreq' = [rreq EXCEPT ![u].where = "probed", ![u].user = TRUE]
        /\ matched' = matched \cup {Pair(nrecv + 1, tag, Msg(rreq[u].seq, rreq[u]))}
  BY DEF Improbe
<1>2. PICK m : m = [rreq[u] EXCEPT !.where = "probed", !.user = TRUE]
  OBVIOUS
<1>3. /\ nrecv' = nrecv + 1 /\ nrecv < MaxRecvs /\ ~revoked
      /\ UNCHANGED <<nmsg, toR, revoked, narr, dropped>>
  BY DEF Improbe, sender
<1>4. rreq[u] \in RReqs /\ RecvOK(rreq[u], recv_active = u, revoked)
  BY RecvRequest
<1>5. rreq[u].where = "unexpected"
  BY <1>1, FirstMsg DEF Queue
<1>6. m.where = "probed" /\ m.ref = rreq[u].ref
  BY <1>2, <1>4 DEF RReqs
<1>7. m.ref # 0
  <2>1. QueuedOK(rreq[u], recv_active = u)
    BY <1>4, <1>5 DEF RecvOK
  <2> QED
    BY <1>6, <2>1 DEF QueuedOK
<1>8. RBecomes(u, m)
  <2>1. rreq' = [rreq EXCEPT ![u] = m]
    BY <1>1, <1>2
  <2> QED
    BY <1>7, <2>1 DEF RBecomes
<1>9. /\ QInv' /\ Kept("unexpected")
      /\ \E x \in RecvqUnexpected :
           /\ Recvq!IsFirst(x, RecvqUnexpected, Recvq!MatchingMsgs(NewRecv(nrecv + 1, tag)))
           /\ Recvq!TakeUnexpected(NewRecv(nrecv + 1, tag), x)
  BY <1>1, <1>3, <1>6, <1>8, TakesFirst
<1>10. 1 \notin RecvqRevoked /\ RecvqRevoked' = RecvqRevoked /\ RecvqDropped' = RecvqDropped
  BY <1>3 DEF RecvqRevoked, RecvqDropped
<1>11. Recvq!Improbe(1, "pt2pt", 1, Coll(tag))
  BY <1>3, <1>9, <1>10 DEF Recvq!Improbe, NewRecv
<1> QED
  BY <1>9, <1>11, CollIsTag DEF Recvq!Next

LEMMA IrecvQueue ==
  ASSUME IInv, QInv, NEW tag \in MsgTags \cup {ANY_TAG}, Irecv(tag)
  PROVE  QInv' /\ Kept("unexpected") /\ Recvq!Next
<1>1. /\ nrecv' = nrecv + 1 /\ nrecv < MaxRecvs /\ ~revoked /\ nrecv \in Nat
      /\ UNCHANGED <<nmsg, toR, recv_active, revoked, narr, dropped>>
  BY DEF Irecv, sender, IInv, TypeOK
<1>2. 1 \notin RecvqRevoked /\ RecvqRevoked' = RecvqRevoked /\ RecvqDropped' = RecvqDropped
  BY <1>1 DEF RecvqRevoked, RecvqDropped
<1>3. PICK p : p = NewRecv(nrecv + 1, tag)
  OBVIOUS
<1>4. Recvq!FDU_or_AEP(p) => Recvq!Next
  <2>1. ASSUME Recvq!FDU_or_AEP(p)
        PROVE  Recvq!Irecv(1, "pt2pt", 1, Coll(tag))
    BY <1>1, <1>2, <1>3, <2>1 DEF Recvq!Irecv, NewRecv
  <2> QED
    BY <2>1, CollIsTag DEF Recvq!Next
<1>5. CASE \E u \in DOMAIN rreq :
             /\ IsFirst(u, MatchingMsgs(tag))
             /\ Receive(u, rreq[u])
             /\ matched' = matched \cup {Pair(nrecv + 1, tag, Msg(rreq[u].seq, rreq[u]))}
  <2>1. PICK u \in DOMAIN rreq :
          /\ IsFirst(u, MatchingMsgs(tag))
          /\ Receive(u, rreq[u])
          /\ matched' = matched \cup {Pair(nrecv + 1, tag, Msg(rreq[u].seq, rreq[u]))}
    BY <1>5
  <2>2. rreq[u].where = "unexpected"
    BY <2>1, FirstMsg DEF Queue
  <2>3. PICK m \in RReqs : RBecomes(u, m) /\ m.where = "matched"
    BY <1>1, <2>1, <2>2, ReceiveEffect
  <2>4. /\ QInv' /\ Kept("unexpected")
        /\ \E x \in RecvqUnexpected :
             /\ Recvq!IsFirst(x, RecvqUnexpected, Recvq!MatchingMsgs(NewRecv(nrecv + 1, tag)))
             /\ Recvq!TakeUnexpected(NewRecv(nrecv + 1, tag), x)
    BY <1>1, <2>1, <2>3, TakesFirst
  <2>5. Recvq!FDU_or_AEP(p)
    BY <1>3, <2>4 DEF Recvq!FDU_or_AEP
  <2> QED
    BY <1>4, <2>4, <2>5
<1>6. CASE /\ MatchingMsgs(tag) = {}
           /\ \E r \in RHandles \ DOMAIN rreq :
                rreq' = Store(rreq, r, [where |-> "posted", seq |-> nrecv + 1, tag |-> tag,
                         proto |-> "eager", sreq |-> NULL, id |-> 0, cc |-> 1, ref |-> 2,
                         user |-> TRUE, pending |-> 1, tmpbuf |-> "none",
                         buf |-> "none"])
           /\ UNCHANGED <<toS, matched>>
  <2>1. PICK q : q = [where |-> "posted", seq |-> nrecv + 1, tag |-> tag,
                      proto |-> "eager", sreq |-> NULL, id |-> 0, cc |-> 1, ref |-> 2,
                      user |-> TRUE, pending |-> 1, tmpbuf |-> "none", buf |-> "none"]
    OBVIOUS
  <2>2. PICK r \in RHandles \ DOMAIN rreq : rreq' = Store(rreq, r, q)
    BY <1>6, <2>1
  <2>3. q.where = "posted" /\ q.ref # 0 /\ q.seq = nrecv + 1 /\ q.tag = tag
    BY <2>1
  <2>4. RBecomes(r, q)
    BY <2>2, StoreRBecomes
  <2>5. RecvqRecv(q) = p
    BY <1>3, <2>3, NewRecvIs
  <2>6. RecvqPosted' = RecvqPosted \cup {p}
    BY <2>2, <2>3, <2>4, <2>5, QueueEnters
  <2>7. RecvqUnexpected' = RecvqUnexpected /\ Kept("unexpected")
    <3>1. Same("unexpected", r, q)
      BY <2>2, <2>3 DEF Same, Queue
    <3> QED
      BY <2>3, <2>4, <3>1, UnexpectedSame, KeptBecomes
  <2>8. RecvqMatched' = RecvqMatched
    BY <1>6 DEF RecvqMatched
  <2>9. Recvq!MatchingMsgs(p) = {}
    <3>1. p.tag = Coll(tag) /\ p.ctx = Ctx /\ p.rank = 1
      BY <1>3, NewRecvIs
    <3> QED
      BY <1>6, <3>1, FirstUnexpected DEF QInv
  <2>10. Recvq!FDU_or_AEP(p)
    BY <2>6, <2>7, <2>8, <2>9 DEF Recvq!FDU_or_AEP, Recvq!AppendPosted
  <2>11. QInv'
    <3>1. \A k \in Queue("posted") : rreq[k].seq <= nrecv /\ rreq[k].seq \in Nat
      BY PostedTags DEF QInv, Numbers
    <3>2. ASSUME NEW k \in Queue("posted")'
          PROVE  rreq'[k].seq <= nrecv' /\ (k # r => rreq'[k].seq <= nrecv)
      <4>1. CASE k = r
        BY <1>1, <2>3, <2>4, <4>1, QueueBecomes
      <4>2. CASE k # r
        <5>1. k \in Queue("posted") /\ rreq'[k] = rreq[k]
          BY <2>4, <4>2, QueueBecomes
        <5> QED
          BY <1>1, <3>1, <5>1
      <4> QED
        BY <4>1, <4>2
    <3>3. ASSUME NEW k \in Queue("posted")', NEW s \in Queue("posted")',
                 rreq'[k].seq = rreq'[s].seq
          PROVE  k = s
      <4>1. \A j \in Queue("posted")' : j # r => j \in Queue("posted") /\ rreq'[j] = rreq[j]
        BY <2>4, QueueBecomes
      <4>2. r \in Queue("posted")' /\ rreq'[r].seq = nrecv + 1
        BY <2>3, <2>4, QueueBecomes
      <4>3. CASE k # r /\ s # r
        BY <3>3, <4>1, <4>3 DEF QInv, Numbers
      <4>4. CASE k = r /\ s # r
        BY <1>1, <3>1, <3>3, <4>1, <4>2, <4>4
      <4>5. CASE k # r /\ s = r
        BY <1>1, <3>1, <3>3, <4>1, <4>2, <4>5
      <4> QED
        BY <4>3, <4>4, <4>5
    <3>4. MsgTagsOK'
      BY <2>7 DEF QInv, MsgTagsOK, Kept
    <3> QED
      BY <1>1, <3>2, <3>3, <3>4 DEF QInv, Numbers, PktsR
  <2> QED
    BY <1>4, <2>7, <2>10, <2>11
<1> QED
  BY <1>5, <1>6 DEF Irecv

LEMMA CommRevokeQueue ==
  ASSUME IInv, QInv, Comm_revoke
  PROVE  QInv' /\ Kept("unexpected") /\ Recvq!Next
<1>1. /\ ~revoked /\ revoked' = TRUE
      /\ UNCHANGED <<nmsg, toR, narr, nrecv, matched, dropped>>
  BY DEF Comm_revoke, sender
<1>2. Queue("posted")' = {} /\ Queue("unexpected")' = {}
  BY <1>1, CommRevokeStep DEF IInv, Receives, RecvOK, Queue
<1>3. QInv'
  BY <1>1, <1>2 DEF QInv, Numbers, MsgTagsOK, PktsR
<1>4. RecvqPosted' = {} /\ RecvqUnexpected' = {}
  BY <1>2 DEF RecvqPosted, RecvqUnexpected
<1>5. /\ RecvqPosted = Recvq!Cleaned(1, RecvqPosted)
      /\ RecvqUnexpected = Recvq!Cleaned(1, RecvqUnexpected)
  <2>1. /\ \A x \in RecvqPosted : x.ctx.id = 1 /\ x.ctx.kind = "pt2pt"
        /\ \A x \in RecvqUnexpected : x.ctx.id = 1 /\ x.ctx.kind = "pt2pt"
    BY RecvqFields DEF RecvqPosted, RecvqUnexpected, Ctx
  <2> QED
    BY <2>1 DEF Recvq!Cleaned
<1>6. /\ RecvqRevoked = {} /\ RecvqRevoked' = {1}
      /\ RecvqMatched' = RecvqMatched /\ RecvqDropped' = RecvqDropped
  BY <1>1 DEF RecvqRevoked, RecvqMatched, RecvqDropped
<1>7. Recvq!Comm_revoke(1)
  BY <1>1, <1>4, <1>5, <1>6 DEF Recvq!Comm_revoke
<1> QED
  BY <1>2, <1>3, <1>7 DEF Recvq!Next, Kept

-----------------------------------------------------------------------------
(* The sender.                                                             *)

\* The receiver does nothing, and no new message is sent.
LEMMA ReceiverIdle ==
  ASSUME QInv, UNCHANGED <<receiver, nmsg>>,
         \A y \in PktsR' : y.type = "Send" => y \in PktsR
  PROVE  QInv' /\ Kept("unexpected") /\ UNCHANGED Recvq!vars
<1>1. UNCHANGED <<rreq, revoked, narr, nrecv, matched, dropped, nmsg>>
  BY DEF receiver
<1>2. RecvqPosted' = RecvqPosted /\ RecvqUnexpected' = RecvqUnexpected
  BY <1>1 DEF RecvqPosted, RecvqUnexpected, Queue
<1>3. QInv'
  BY <1>1 DEF QInv, Numbers, MsgTagsOK, Queue
<1> QED
  BY <1>1, <1>2, <1>3, QuietStep DEF Kept, Queue

LEMMA IsendQueue ==
  ASSUME IInv, QInv, NEW h \in SHandles, NEW proto \in Protocols, NEW tag \in MsgTags,
         Isend(h, proto, tag)
  PROVE  QInv' /\ Kept("unexpected") /\ UNCHANGED Recvq!vars
<1>1. PICK x : x = [type |-> "Send", proto |-> proto, tag |-> tag, sreq |-> h, id |-> nmsg + 1]
  OBVIOUS
<1>2. /\ nmsg < MaxMsgs /\ nmsg' = nmsg + 1 /\ toR' = Append(toR, x)
      /\ UNCHANGED <<rreq, revoked, narr, nrecv, matched, dropped>>
  BY <1>1 DEF Isend, receiver
<1>3. nmsg \in Nat /\ narr \in Nat /\ narr <= nmsg /\ MaxMsgs \in Nat
  BY LimitsAssumption DEF IInv, TypeOK, QInv, Numbers
<1>4. x \in MsgPkts /\ x.id = nmsg + 1
  <2>1. nmsg + 1 \in Nat
    BY <1>3
  <2> QED
    BY <1>1, <2>1 DEF MsgPkts
<1>5. PktsR' = PktsR \cup {x}
  <2>1. toR \in Seq(MsgPkts \cup CancelPkts \cup DataPkts)
    BY DEF IInv, TypeOK
  <2> QED
    BY <1>2, <1>4, <2>1, AppendPkt DEF PktsR
<1>6. RecvqPosted' = RecvqPosted /\ RecvqUnexpected' = RecvqUnexpected
  BY <1>2 DEF RecvqPosted, RecvqUnexpected, Queue
<1>7. Queue("posted")' = Queue("posted") /\ MsgTagsOK'
  BY <1>2 DEF QInv, MsgTagsOK, Queue
<1>8. nmsg' <= MaxMsgs /\ narr' <= nmsg' /\ narr' < x.id
  BY <1>2, <1>3, <1>4
<1>9. QInv'
  BY <1>2, <1>5, <1>7, <1>8 DEF QInv, Numbers
<1> QED
  BY <1>2, <1>6, <1>9, QuietStep DEF Kept, Queue

LEMMA SenderQueue ==
  ASSUME IInv, QInv,
         \/ \E h \in DOMAIN sreq : Cancel_send(h) \/ ReleaseSend(h)
         \/ \E h \in sending : Send_complete(h)
         \/ SenderProgress
  PROVE  QInv' /\ Kept("unexpected") /\ UNCHANGED Recvq!vars
<1>1. UNCHANGED <<receiver, nmsg>>
  BY DEF Cancel_send, ReleaseSend, Send_complete, SenderProgress
<1>2. toR \in Seq(MsgPkts \cup CancelPkts \cup DataPkts)
  BY DEF IInv, TypeOK
<1>3. CASE toR' = toR
  BY <1>1, <1>3, ReceiverIdle DEF PktsR
<1>4. ASSUME NEW h \in DOMAIN sreq, Cancel_send(h)
      PROVE  QInv' /\ Kept("unexpected") /\ UNCHANGED Recvq!vars
  <2>1. PICK x : x = [type |-> "CancelSendReq", tag |-> sreq[h].tag, sreq |-> h,
                      id |-> sreq[h].id]
    OBVIOUS
  <2>2. sreq[h] \in SReqs /\ h \in SHandles
    BY DEF IInv, TypeOK
  <2>3. x \in CancelPkts /\ x.type # "Send"
    BY <2>1, <2>2, SendFields DEF CancelPkts
  <2>4. toR' = Append(toR, x)
    BY <1>4, <2>1 DEF Cancel_send
  <2>5. PktsR' = PktsR \cup {x}
    BY <1>2, <2>3, <2>4, AppendPkt DEF PktsR
  <2> QED
    BY <1>1, <2>3, <2>5, ReceiverIdle
<1>5. ASSUME toS # << >>, PktHandler_RndvClrToSend(Head(toS))
      PROVE  QInv' /\ Kept("unexpected") /\ UNCHANGED Recvq!vars
  <2>1. PICK p : p = Head(toS)
    OBVIOUS
  <2>2. PICK x : x = [type |-> "RndvSend", rreq |-> p.rreq, id |-> p.id]
    OBVIOUS
  <2>3. p.type = "RndvClrToSend" /\ toR' = Append(toR, x)
    BY <1>5, <2>1, <2>2 DEF PktHandler_RndvClrToSend
  <2>4. p \in AckPkts \cup CTSPkts \cup RespPkts
    BY <1>5, <2>1 DEF IInv, TypeOK
  <2>5. p.rreq \in RHandles /\ p.id \in Nat
    BY <2>3, <2>4 DEF AckPkts, CTSPkts, RespPkts
  <2>6. x \in DataPkts /\ x.type # "Send"
    BY <2>2, <2>5 DEF DataPkts
  <2>7. PktsR' = PktsR \cup {x}
    BY <1>2, <2>3, <2>6, AppendPkt DEF PktsR
  <2> QED
    BY <1>1, <2>6, <2>7, ReceiverIdle
<1>6. CASE SenderProgress
  <2>1. toS # << >>
    BY <1>6 DEF SenderProgress
  <2>2. toR' = toR \/ PktHandler_RndvClrToSend(Head(toS))
    BY <1>6 DEF SenderProgress, PktHandler_EagerSyncAck, PktHandler_CancelSendResp
  <2> QED
    BY <1>3, <1>5, <2>1, <2>2
<1>7. ASSUME NEW h, ReleaseSend(h) \/ Send_complete(h)
      PROVE  toR' = toR
  BY <1>7 DEF ReleaseSend, Send_complete
<1> QED
  BY <1>3, <1>4, <1>6, <1>7

-----------------------------------------------------------------------------
(* The theorem.                                                            *)

LEMMA InitQueue == Init => QInv /\ Recvq!Init
<1> SUFFICES ASSUME Init PROVE QInv /\ Recvq!Init
  OBVIOUS
<1>1. /\ DOMAIN rreq = {} /\ toR = << >> /\ revoked = FALSE /\ nmsg = 0 /\ narr = 0 /\ nrecv = 0
      /\ matched = {} /\ dropped = {}
  BY DEF Init
<1>2. PktsR = {} /\ Queue("posted") = {} /\ Queue("unexpected") = {}
  BY <1>1 DEF PktsR, Elems, Queue
<1>3. QInv
  BY <1>1, <1>2, LimitsAssumption DEF QInv, Numbers, MsgTagsOK
<1>4. /\ RecvqPosted = {} /\ RecvqUnexpected = {} /\ RecvqRevoked = {}
      /\ RecvqMatched = {} /\ RecvqDropped = {}
  BY <1>1, <1>2 DEF RecvqPosted, RecvqUnexpected, RecvqRevoked, RecvqMatched, RecvqDropped
<1> QED
  BY <1>1, <1>3, <1>4 DEF Recvq!Init

LEMMA ReceiverProgressQueue ==
  ASSUME IInv, QInv, ReceiverProgress
  PROVE  QInv' /\ [Recvq!Next]_(Recvq!vars)
<1>1. toR # << >> /\ recv_active = NULL /\ UNCHANGED <<sender, revoked, nrecv>>
  BY DEF ReceiverProgress
<1>2. CASE PktHandler_Send(Head(toR))
  <2>1. /\ Head(toR).type = "Send" /\ narr' = narr + 1
        /\ UNCHANGED <<sender, revoked, nrecv, removed>>
        /\ FoundPosted(Head(toR)) \/ ThrowAway(Head(toR)) \/ AppendUnexpected(Head(toR))
    BY <1>1, <1>2 DEF PktHandler_Send
  <2> QED
    BY <1>1, <2>1, FoundPostedQueue, ThrowAwayQueue, AppendUnexpectedQueue
<1>3. CASE PktHandler_RndvSend(Head(toR))
  BY <1>1, <1>3, RndvSendQueue
<1>4. CASE PktHandler_CancelSendReq(Head(toR))
  BY <1>1, <1>4, CancelSendReqQueue
<1> QED
  BY <1>2, <1>3, <1>4 DEF ReceiverProgress

LEMMA NextQueue == IInv /\ QInv /\ [Next]_vars => QInv' /\ [Recvq!Next]_(Recvq!vars)
<1> SUFFICES ASSUME IInv, QInv, [Next]_vars PROVE QInv' /\ [Recvq!Next]_(Recvq!vars)
  OBVIOUS
<1>1. ASSUME NEW h \in SHandles, NEW proto \in Protocols, NEW tag \in MsgTags,
             Isend(h, proto, tag)
      PROVE  QInv' /\ [Recvq!Next]_(Recvq!vars)
  BY <1>1, IsendQueue
<1>2. CASE \/ \E h \in DOMAIN sreq : Cancel_send(h) \/ ReleaseSend(h)
           \/ \E h \in sending : Send_complete(h)
           \/ SenderProgress
  BY <1>2, SenderQueue
<1>3. CASE ReceiverProgress
  BY <1>3, ReceiverProgressQueue
<1>4. CASE DataArrives
  BY <1>4, DataArrivesQueue
<1>5. ASSUME NEW tag \in MsgTags \cup {ANY_TAG}, Irecv(tag) \/ Improbe(tag)
      PROVE  QInv' /\ [Recvq!Next]_(Recvq!vars)
  BY <1>5, IrecvQueue, ImprobeQueue
<1>6. ASSUME NEW r \in DOMAIN rreq, Imrecv(r) \/ Cancel_recv(r) \/ ReleaseRecv(r)
      PROVE  QInv' /\ [Recvq!Next]_(Recvq!vars)
  BY <1>6, ImrecvQueue, CancelRecvQueue, ReleaseRecvQueue
<1>7. CASE Comm_revoke
  BY <1>7, CommRevokeQueue
<1>8. CASE UNCHANGED vars
  <2>1. UNCHANGED <<receiver, nmsg>> /\ toR' = toR
    BY <1>8 DEF vars, receiver
  <2> QED
    BY <2>1, ReceiverIdle DEF PktsR
<1> QED
  BY <1>1, <1>2, <1>3, <1>4, <1>5, <1>6, <1>7, <1>8 DEF Next

\* Point-to-point communication uses the receive queues as CH3Recvq says: every
\* packet handler and every call of the user is one operation of the queues, or
\* leaves them alone, whatever the handles of the requests in the queues are
\* used for in the meantime.
THEOREM UsesReceiveQueues == Spec => RecvqSpec
<1>1. Init => QInv /\ Recvq!Init
  BY InitQueue
<1>2. IInv /\ QInv /\ [Next]_vars => QInv' /\ [Recvq!Next]_(Recvq!vars)
  BY NextQueue
<1> QED
  BY <1>1, <1>2, Invariance, PTL DEF Spec, RecvqSpec, Recvq!Spec

-----------------------------------------------------------------------------
(* What is proved of CH3Recvq holds of point-to-point communication.       *)

RecvqThm == INSTANCE CH3RecvqProofs WITH
  Ranks <- {1}, BaseTags <- MsgTags, FTTags <- {}, Tagged <- {FALSE}, Comms <- {1},
  Kinds <- {"pt2pt"}, context_id <- <<1>>, recvcontext_id <- <<1>>,
  ErrorBits <- {{}}, Handles <- SHandles, ANY_SOURCE <- 0,
  posted <- RecvqPosted, unexpected <- RecvqUnexpected, revoked <- RecvqRevoked,
  moribund <- {}, nmsg <- narr, matched <- RecvqMatched, dropped <- RecvqDropped

LEMMA RecvqAssumptions ==
  /\ 0 \notin {1} /\ ANY_TAG \notin [base : MsgTags, coll : {FALSE}]
  /\ DOMAIN <<1>> = {1}
  /\ {} \in {{}} /\ {{}} \subseteq SUBSET {"error", "proc_failure"}
  /\ MaxRecvs \in Nat /\ MaxMsgs \in Nat
<1>1. ANY_TAG \notin [base : MsgTags, coll : {FALSE}]
  BY TagsAssumption, Zenon
<1>2. DOMAIN <<1>> = {1}
  OBVIOUS
<1>3. 0 \notin {1} /\ {} \in {{}} /\ {{}} \subseteq SUBSET {"error", "proc_failure"}
  OBVIOUS
<1> QED
  BY <1>1, <1>2, <1>3, LimitsAssumption

\* Messages do not overtake each other in the queues.
THEOREM PairsInOrder == Spec => []RecvqThm!NonOvertaking
<1>1. Recvq!Init => RecvqThm!Init
  BY DEF Recvq!Init, RecvqThm!Init
<1>2. [Recvq!Next]_(Recvq!vars) => [RecvqThm!Next]_(RecvqThm!vars)
  BY DEF Recvq!Next, RecvqThm!Next, Recvq!vars, RecvqThm!vars,
         Recvq!Irecv, RecvqThm!Irecv, Recvq!Improbe, RecvqThm!Improbe,
         Recvq!FDU_or_AEP, RecvqThm!FDU_or_AEP, Recvq!AppendPosted, RecvqThm!AppendPosted,
         Recvq!TakeUnexpected, RecvqThm!TakeUnexpected, Recvq!Tags, RecvqThm!Tags,
         Recvq!MatchingMsgs, RecvqThm!MatchingMsgs, Recvq!MatchingRecvs, RecvqThm!MatchingRecvs,
         Recvq!MATCH_WITH_LEFT_MASK, RecvqThm!MATCH_WITH_LEFT_MASK,
         Recvq!MATCH_WITH_LEFT_RIGHT_MASK, RecvqThm!MATCH_WITH_LEFT_RIGHT_MASK,
         Recvq!IsFirst, RecvqThm!IsFirst, Recvq!IsLast, RecvqThm!IsLast,
         Recvq!PassesIrecv, RecvqThm!PassesIrecv, Recvq!PassesQueue, RecvqThm!PassesQueue,
         Recvq!Cancel_recv, RecvqThm!Cancel_recv, Recvq!Comm_find, RecvqThm!Comm_find,
         Recvq!ThrowAway, RecvqThm!ThrowAway, Recvq!FDP_or_AEU, RecvqThm!FDP_or_AEU,
         Recvq!Arrive, RecvqThm!Arrive, Recvq!FDU, RecvqThm!FDU,
         Recvq!Cleaned, RecvqThm!Cleaned, Recvq!Comm_revoke, RecvqThm!Comm_revoke,
         Recvq!Complete_posted_with_error, RecvqThm!Complete_posted_with_error
<1>3. Spec => RecvqThm!Spec
  BY <1>1, <1>2, UsesReceiveQueues, PTL DEF RecvqSpec, Recvq!Spec, RecvqThm!Spec
<1>4. RecvqThm!Spec => []RecvqThm!NonOvertaking
  BY RecvqThm!MessagesDoNotOvertake, RecvqAssumptions
<1> QED
  BY <1>3, <1>4, PTL

-----------------------------------------------------------------------------
(* Messages are matched in the order in which they were sent.              *)

\* The messages that have been matched or are in the unexpected queue.
Handled == {x.msg : x \in matched} \cup {Msg(rreq[u].seq, rreq[u]) : u \in Queue("unexpected")}

\* They were numbered in the order in which they were sent.
InSequence ==
  /\ \A x \in matched : x.recv.tag \in MsgTags \cup {ANY_TAG} /\ x.msg.tag \in MsgTags
  /\ \A x \in Handled : x.seq \in Nat /\ x.seq <= narr /\ x.id \in Decided \cup UnexpectedIds
  /\ \A x, y \in Handled : x.id < y.id => x.seq < y.seq

LEMMA MsgFields ==
  ASSUME NEW n, NEW x
  PROVE  Msg(n, x).seq = n /\ Msg(n, x).id = x.id /\ Msg(n, x).tag = x.tag
BY DEF Msg

LEMMA SequenceKept ==
  ASSUME IInv, IInv', InSequence, Handled' \subseteq Handled,
         \A x \in matched' : \/ x \in matched
                             \/ x.recv.tag \in MsgTags \cup {ANY_TAG} /\ x.msg.tag \in MsgTags,
         narr' \in Nat, narr' >= narr
  PROVE  InSequence'
<1>1. ASSUME NEW x \in Handled'
      PROVE  x.seq \in Nat /\ x.seq <= narr' /\ x.id \in (Decided \cup UnexpectedIds)'
  <2>1. x.seq \in Nat /\ x.seq <= narr /\ narr \in Nat
    BY <1>1 DEF InSequence, IInv, TypeOK
  <2>2. x.id \in (Decided \cup UnexpectedIds)'
    BY <1>1, MsgFields DEF Handled, Decided, Ids, UnexpectedIds
  <2> QED
    BY <2>1, <2>2
<1>2. \A x, y \in Handled' : x.id < y.id => x.seq < y.seq
  BY DEF InSequence
<1>3. \A x \in matched' : x.recv.tag \in MsgTags \cup {ANY_TAG} /\ x.msg.tag \in MsgTags
  BY DEF InSequence
<1> QED
  BY <1>1, <1>2, <1>3 DEF InSequence

LEMMA SequenceGrows ==
  ASSUME IInv, IInv', InSequence, NEW p \in PktsR, p.type = "Send",
         Handled' \subseteq Handled \cup {Msg(narr + 1, p)},
         \A x \in matched' : \/ x \in matched
                             \/ x.recv.tag \in MsgTags \cup {ANY_TAG} /\ x.msg.tag \in MsgTags,
         narr' = narr + 1
  PROVE  InSequence'
<1>1. PICK m : m = Msg(narr + 1, p)
  OBVIOUS
<1>2. m.seq = narr + 1 /\ m.id = p.id /\ p.id \in Nat /\ narr \in Nat
  BY <1>1, MsgFields DEF IInv, ToReceiver, PktR, TypeOK
<1>3. \A x \in Handled : x.seq \in Nat /\ x.seq <= narr /\ x.id < p.id /\ x.id \in Nat
  <2>1. \A i \in Decided \cup UnexpectedIds : i < p.id /\ i \in Nat
    <3>1. \A i \in Decided \cup UnexpectedIds : i < p.id
      BY DEF IInv, ToReceiver, PktR
    <3>2. \A i \in Decided : i \in 1 .. nmsg
      BY DEF IInv, History, Decided
    <3>3. \A i \in UnexpectedIds : i \in 1 .. nmsg
      BY DEF IInv, Unexpected, Known, UnexpectedIds
    <3> QED
      BY <3>1, <3>2, <3>3
  <2> QED
    BY <2>1 DEF InSequence
<1>4. ASSUME NEW x \in Handled'
      PROVE  x.seq \in Nat /\ x.seq <= narr' /\ x.id \in (Decided \cup UnexpectedIds)'
  <2>1. x.seq \in Nat /\ x.seq <= narr'
    BY <1>1, <1>2, <1>3, <1>4
  <2>2. x.id \in (Decided \cup UnexpectedIds)'
    BY <1>4, MsgFields DEF Handled, Decided, Ids, UnexpectedIds
  <2> QED
    BY <2>1, <2>2
<1>5. ASSUME NEW x \in Handled', NEW y \in Handled', x.id < y.id
      PROVE  x.seq < y.seq
  <2>1. CASE x \in Handled /\ y \in Handled
    BY <1>5, <2>1 DEF InSequence
  <2>2. CASE y = m
    <3>1. x # m
      BY <1>2, <1>5, <2>2
    <3> QED
      BY <1>1, <1>2, <1>3, <2>2, <3>1
  <2>3. CASE x = m /\ y # m
    BY <1>1, <1>2, <1>3, <1>5, <2>3
  <2> QED
    BY <1>1, <2>1, <2>2, <2>3
<1>6. \A x \in matched' : x.recv.tag \in MsgTags \cup {ANY_TAG} /\ x.msg.tag \in MsgTags
  BY DEF InSequence
<1> QED
  BY <1>4, <1>5, <1>6 DEF InSequence

LEMMA HandledKept ==
  ASSUME Kept("unexpected"), NEW N, \A x \in matched' : x \in matched \/ x.msg \in Handled \cup N
  PROVE  Handled' \subseteq Handled \cup N
<1>1. ASSUME NEW u \in Queue("unexpected")'
      PROVE  Msg(rreq'[u].seq, rreq'[u]) \in Handled
  <2>1. u \in Queue("unexpected") /\ Msg(rreq'[u].seq, rreq'[u]) = Msg(rreq[u].seq, rreq[u])
    BY DEF Kept, Msg
  <2> QED
    BY <2>1 DEF Handled
<1>2. \A x \in matched' : x.msg \in Handled \cup N
  BY DEF Handled
<1> QED
  BY <1>1, <1>2 DEF Handled

LEMMA PairFields ==
  ASSUME NEW n, NEW t, NEW m
  PROVE  Pair(n, t, m).recv.tag = t /\ Pair(n, t, m).msg = m /\ Pair(n, t, m).recv.seq = n
BY DEF Pair

\* Steps that match no message, and add none to the unexpected queue.
LEMMA SequenceQuiet ==
  ASSUME IInv, IInv', InSequence, Kept("unexpected"), matched' = matched, narr' \in {narr, narr + 1}
  PROVE  InSequence'
<1>1. Handled' \subseteq Handled
  BY HandledKept
<1>2. narr' \in Nat /\ narr' >= narr
  BY DEF IInv, TypeOK
<1> QED
  BY <1>1, <1>2, SequenceKept

\* A receive or a probe takes a message from the unexpected queue.
LEMMA SequenceTaken ==
  ASSUME IInv, IInv', QInv, InSequence, Kept("unexpected"), NEW tag \in MsgTags \cup {ANY_TAG},
         NEW u \in Queue("unexpected"), narr' = narr, NEW n,
         matched' = matched \cup {Pair(n, tag, Msg(rreq[u].seq, rreq[u]))}
  PROVE  InSequence'
<1>1. PICK m : m = Msg(rreq[u].seq, rreq[u])
  OBVIOUS
<1>2. PICK y : y = Pair(n, tag, m)
  OBVIOUS
<1>3. /\ matched' = matched \cup {y} /\ y.msg = m /\ y.recv.tag = tag /\ m \in Handled
      /\ m.tag \in MsgTags
  BY <1>1, <1>2, PairFields, MsgFields DEF Handled, QInv, MsgTagsOK
<1>4. Handled' \subseteq Handled
  BY <1>3, HandledKept
<1>5. narr' \in Nat /\ narr' >= narr
  BY DEF IInv, TypeOK
<1> QED
  BY <1>3, <1>4, <1>5, SequenceKept

LEMMA SequenceSend ==
  ASSUME IInv, IInv', QInv, InSequence, toR # << >>, Head(toR).type = "Send", narr' = narr + 1,
         UNCHANGED <<sender, revoked, nrecv, removed>>,
         FoundPosted(Head(toR)) \/ ThrowAway(Head(toR)) \/ AppendUnexpected(Head(toR))
  PROVE  InSequence'
<1>1. PICK p : p = Head(toR)
  OBVIOUS
<1>2. nmsg' = nmsg
  BY DEF sender
<1>3. p \in PktsR /\ p.type = "Send" /\ p.tag \in MsgTags
  BY <1>1, <1>2, HeadToReceiver, Arriving
<1>4. CASE ThrowAway(p)
  <2>1. Kept("unexpected") /\ matched' = matched
    BY <1>1, <1>4, ThrowAwayQueue DEF ThrowAway
  <2> QED
    BY <2>1, SequenceQuiet
<1>5. CASE FoundPosted(p)
  <2>1. Kept("unexpected")
    BY <1>1, <1>5, FoundPostedQueue
  <2>2. PICK r \in DOMAIN rreq :
          /\ IsFirst(r, MatchingRecvs(p.tag))
          /\ matched' = matched \cup {Pair(rreq[r].seq, rreq[r].tag, Msg(narr + 1, p))}
    BY <1>5 DEF FoundPosted
  <2>3. rreq[r].tag \in MsgTags \cup {ANY_TAG}
    BY RecvRequest, RecvFields
  <2>4. PICK m : m = Msg(narr + 1, p)
    OBVIOUS
  <2>5. PICK y : y = Pair(rreq[r].seq, rreq[r].tag, m)
    OBVIOUS
  <2>6. matched' = matched \cup {y} /\ y.msg = m /\ y.recv.tag = rreq[r].tag /\ m.tag = p.tag
    BY <2>2, <2>4, <2>5, PairFields, MsgFields
  <2>7. Handled' \subseteq Handled \cup {m}
    BY <2>1, <2>6, HandledKept
  <2> QED
    BY <1>3, <2>3, <2>4, <2>6, <2>7, SequenceGrows
<1>6. CASE AppendUnexpected(p)
  <2>1. matched' = matched
    BY <1>6 DEF AppendUnexpected
  <2>2. \A k \in Queue("unexpected")' : \/ k \in Queue("unexpected") /\ rreq'[k] = rreq[k]
                                        \/ Msg(rreq'[k].seq, rreq'[k]) = Msg(narr + 1, p)
    BY <1>1, <1>6, AppendUnexpectedQueue
  <2>3. Handled' \subseteq Handled \cup {Msg(narr + 1, p)}
    BY <2>1, <2>2 DEF Handled
  <2> QED
    BY <1>3, <2>1, <2>3, SequenceGrows
<1> QED
  BY <1>1, <1>4, <1>5, <1>6

LEMMA NextSequence == IInv /\ IInv' /\ QInv /\ InSequence /\ [Next]_vars => InSequence'
<1> SUFFICES ASSUME IInv, IInv', QInv, InSequence, [Next]_vars PROVE InSequence'
  OBVIOUS
<1>1. ASSUME NEW h \in SHandles, NEW proto \in Protocols, NEW tag \in MsgTags,
             Isend(h, proto, tag)
      PROVE  InSequence'
  <2>1. matched' = matched /\ narr' = narr
    BY <1>1 DEF Isend, receiver
  <2> QED
    BY <1>1, <2>1, IsendQueue, SequenceQuiet
<1>2. CASE \/ \E h \in DOMAIN sreq : Cancel_send(h) \/ ReleaseSend(h)
           \/ \E h \in sending : Send_complete(h)
           \/ SenderProgress
  <2>1. matched' = matched /\ narr' = narr
    BY <1>2 DEF Cancel_send, ReleaseSend, Send_complete, SenderProgress, receiver
  <2>2. Kept("unexpected")
    BY <1>2, SenderQueue
  <2> QED
    BY <2>1, <2>2, SequenceQuiet
<1>3. CASE ReceiverProgress
  <2>1. toR # << >> /\ recv_active = NULL /\ UNCHANGED <<sender, revoked, nrecv>>
    BY <1>3 DEF ReceiverProgress
  <2>2. CASE PktHandler_Send(Head(toR))
    BY <2>1, <2>2, SequenceSend DEF PktHandler_Send
  <2>3. CASE PktHandler_RndvSend(Head(toR))
    <3>1. matched' = matched /\ narr' = narr
      BY <2>3 DEF PktHandler_RndvSend
    <3> QED
      BY <2>1, <2>3, <3>1, RndvSendQueue, SequenceQuiet
  <2>4. CASE PktHandler_CancelSendReq(Head(toR))
    <3>1. matched' = matched /\ narr' = narr
      BY <2>4 DEF PktHandler_CancelSendReq
    <3> QED
      BY <2>1, <2>4, <3>1, CancelSendReqQueue, SequenceQuiet
  <2> QED
    BY <1>3, <2>2, <2>3, <2>4 DEF ReceiverProgress
<1>4. CASE DataArrives
  <2>1. matched' = matched /\ narr' = narr
    BY <1>4 DEF DataArrives
  <2> QED
    BY <1>4, <2>1, DataArrivesQueue, SequenceQuiet
<1>5. ASSUME NEW tag \in MsgTags \cup {ANY_TAG}, Irecv(tag)
      PROVE  InSequence'
  <2>1. Kept("unexpected")
    BY <1>5, IrecvQueue
  <2>2. narr' = narr
    BY <1>5 DEF Irecv
  <2>3. CASE matched' = matched
    BY <2>1, <2>2, <2>3, SequenceQuiet
  <2>4. ASSUME NEW u \in DOMAIN rreq, IsFirst(u, MatchingMsgs(tag)),
               matched' = matched \cup {Pair(nrecv + 1, tag, Msg(rreq[u].seq, rreq[u]))}
        PROVE  InSequence'
    <3>1. u \in Queue("unexpected")
      BY <2>4, FirstMsg
    <3> QED
      BY <2>1, <2>2, <2>4, <3>1, SequenceTaken
  <2> QED
    BY <1>5, <2>3, <2>4 DEF Irecv
<1>6. ASSUME NEW tag \in MsgTags \cup {ANY_TAG}, Improbe(tag)
      PROVE  InSequence'
  <2>1. Kept("unexpected")
    BY <1>6, ImprobeQueue
  <2>2. narr' = narr
    BY <1>6 DEF Improbe
  <2>3. PICK u \in DOMAIN rreq :
          /\ IsFirst(u, MatchingMsgs(tag))
          /\ matched' = matched \cup {Pair(nrecv + 1, tag, Msg(rreq[u].seq, rreq[u]))}
    BY <1>6 DEF Improbe
  <2>4. u \in Queue("unexpected")
    BY <2>3, FirstMsg
  <2> QED
    BY <2>1, <2>2, <2>3, <2>4, SequenceTaken
<1>7. ASSUME NEW r \in DOMAIN rreq, Imrecv(r) \/ Cancel_recv(r) \/ ReleaseRecv(r)
      PROVE  InSequence'
  <2>1. matched' = matched /\ narr' = narr
    BY <1>7 DEF Imrecv, Cancel_recv, ReleaseRecv
  <2>2. Kept("unexpected")
    BY <1>7, ImrecvQueue, CancelRecvQueue, ReleaseRecvQueue
  <2> QED
    BY <2>1, <2>2, SequenceQuiet
<1>8. CASE Comm_revoke
  <2>1. matched' = matched /\ narr' = narr
    BY <1>8 DEF Comm_revoke
  <2> QED
    BY <1>8, <2>1, CommRevokeQueue, SequenceQuiet
<1>9. CASE UNCHANGED vars
  <2>1. matched' = matched /\ narr' = narr /\ rreq' = rreq
    BY <1>9 DEF vars
  <2>2. Kept("unexpected")
    BY <2>1 DEF Kept, Queue
  <2> QED
    BY <2>1, <2>2, SequenceQuiet
<1> QED
  BY <1>1, <1>2, <1>3, <1>4, <1>5, <1>6, <1>7, <1>8, <1>9 DEF Next

\* Of two receives, the one posted first never gets a message when one that was
\* sent earlier, and that it accepts, goes to the other: the order of the calls
\* MPID_Isend at the sender and MPID_Irecv or MPID_Improbe at the receiver is
\* kept through channel and queues, whatever the protocols of the messages.
SentInOrder ==
  \A a, b \in matched :
    a.recv.seq < b.recv.seq /\ b.msg.id < a.msg.id => a.recv.tag \notin {b.msg.tag, ANY_TAG}

\* Every pair of matches keeps the order of the calls, which follows from what
\* CH3RecvqProofs proves of the queues and from the order of the channel.
THEOREM CallsKeepOrder == Spec => []SentInOrder
<1>1. Init => InSequence
  <2> SUFFICES ASSUME Init PROVE InSequence
    OBVIOUS
  <2>1. matched = {} /\ Queue("unexpected") = {}
    BY DEF Init, Queue
  <2>2. Handled = {}
    BY <2>1 DEF Handled
  <2> QED
    BY <2>1, <2>2 DEF InSequence
<1>2. IInv /\ IInv' /\ QInv /\ InSequence /\ [Next]_vars => InSequence'
  BY NextSequence
<1>3. IInv /\ QInv /\ [Next]_vars => QInv'
  BY NextQueue
<1>4. Init => QInv
  BY InitQueue
<1>5. InSequence /\ RecvqThm!NonOvertaking => SentInOrder
  <2> SUFFICES ASSUME InSequence, RecvqThm!NonOvertaking,
                      NEW a \in matched, NEW b \in matched,
                      a.recv.seq < b.recv.seq, b.msg.id < a.msg.id
               PROVE  a.recv.tag \notin {b.msg.tag, ANY_TAG}
    BY DEF SentInOrder
  <2>1. b.msg.seq < a.msg.seq
    BY DEF InSequence, Handled
  <2>2. PICK A : A = [recv |-> RecvqRecv(a.recv), msg |-> RecvqMsg(a.msg)]
    OBVIOUS
  <2>3. PICK C : C = [recv |-> RecvqRecv(b.recv), msg |-> RecvqMsg(b.msg)]
    OBVIOUS
  <2>4. A \in RecvqMatched /\ C \in RecvqMatched
    BY <2>2, <2>3 DEF RecvqMatched
  <2>5. /\ A.recv = RecvqRecv(a.recv) /\ A.msg = RecvqMsg(a.msg)
        /\ C.recv = RecvqRecv(b.recv) /\ C.msg = RecvqMsg(b.msg)
    BY <2>2, <2>3
  <2>6. ~RecvqThm!Accepts(A.recv, C.msg)
    BY <2>1, <2>4, <2>5, RecvqFields DEF RecvqThm!NonOvertaking
  <2>7. Coll(a.recv.tag) \notin {Coll(b.msg.tag), ANY_TAG}
    BY <2>5, <2>6, RecvqFields DEF RecvqThm!Accepts
  <2> QED
    BY <2>7, CollTags DEF InSequence
<1> QED
  BY <1>1, <1>2, <1>3, <1>4, <1>5, Invariance, PairsInOrder, PTL DEF Spec

=============================================================================
