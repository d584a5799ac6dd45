------------------------------ MODULE CH3Pt2pt ------------------------------
(***************************************************************************)
(* Point-to-point communication of CH3 between a sending and a receiving   *)
(* process: eager, synchronous eager and rendezvous sends, nonblocking     *)
(* receives and matched probes, the cancellation of both, and the          *)
(* revocation of the communicator.  The two processes exchange packets     *)
(* over a virtual connection that keeps their order; they refer to each    *)
(* other's requests by handles, and a handle is used again as soon as its  *)
(* request has no references left.                                         *)
(*                                                                         *)
(* A message has a number, its id, which packets and requests carry for    *)
(* the properties only: no action reads it.                                *)
(***************************************************************************)
EXTENDS Integers, Sequences

CONSTANTS SHandles, RHandles,  \* request handles of the two processes
          MsgTags, ANY_TAG,
          NULL, GARBLED,       \* values of recv_active, see below
          MaxMsgs, MaxRecvs    \* bounds: sends, and receives plus probes

ASSUME HandlesAssumption == RHandles \cap {NULL, GARBLED} = {} /\ NULL # GARBLED
ASSUME TagsAssumption == ANY_TAG \notin MsgTags \cup [base : MsgTags, coll : {FALSE}]
ASSUME LimitsAssumption == MaxMsgs \in Nat /\ MaxRecvs \in Nat

VARIABLES
  sreq,         \* the sender's requests
  sending,      \* handles of requests whose data the channel is writing
  rreq,         \* the receiver's requests
  toR, toS,     \* packets on their way to the receiver and to the sender
  recv_active,  \* vc_ch->recv_active: the request that the channel fills
                \* with data, NULL, or GARBLED if it has lost the boundary
                \* between data and packets
  revoked,      \* comm->revoked at the receiver
  nmsg,         \* messages sent so far
  narr, nrecv,  \* messages handled and receives posted so far
  matched,      \* history: [recv, msg] pairs
  removed,      \* history: the ids of messages that were cancelled
  dropped       \* history: messages thrown away

sender == <<sreq, sending, nmsg>>
receiver == <<rreq, recv_active, revoked, narr, nrecv, matched, removed, dropped>>
vars == <<sreq, sending, rreq, toR, toS, recv_active, revoked, nmsg, narr, nrecv,
          matched, removed, dropped>>

Protocols == {"eager", "sync", "rndv"}

\* cc is the completion counter and ref the reference count; user says
\* whether the user has the handle, which is one of the references.
SReqs == [id : Nat, proto : Protocols, tag : MsgTags, cc : Int, ref : Int, user : BOOLEAN,
          cancel_pending : BOOLEAN, cancelled : BOOLEAN]

\* where: the queue of the request, or what has become of it.  seq: its number
\* in the queue.  pending: recv_pending_count.  tmpbuf: how much of the message
\* is in the temporary buffer.  buf: what is in the user's buffer.
RReqs == [where : {"posted", "unexpected", "probed", "matched", "cancelled", "error"},
          seq : Nat, tag : MsgTags \cup {ANY_TAG}, proto : Protocols,
          sreq : SHandles \cup {NULL}, id : Nat, cc : Int, ref : Int, user : BOOLEAN, pending : Int,
          tmpbuf : {"none", "part", "all"}, buf : {"none", "good", "bad"}]


MsgPkts == [type : {"Send"}, proto : Protocols, tag : MsgTags, sreq : SHandles, id : Nat]
CancelPkts == [type : {"CancelSendReq"}, tag : MsgTags, sreq : SHandles, id : Nat]
DataPkts == [type : {"RndvSend"}, rreq : RHandles, id : Nat]
AckPkts == [type : {"EagerSyncAck"}, sreq : SHandles, id : Nat]
CTSPkts == [type : {"RndvClrToSend"}, sreq : SHandles, rreq : RHandles, id : Nat]
RespPkts == [type : {"CancelSendResp"}, sreq : SHandles, ack : BOOLEAN, id : Nat]

Init == /\ sreq = <<>> /\ sending = {} /\ rreq = <<>>
        /\ toR = <<>> /\ toS = <<>> /\ recv_active = NULL
        /\ revoked = FALSE
        /\ nmsg = 0 /\ narr = 0 /\ nrecv = 0
        /\ matched = {} /\ removed = {} /\ dropped = {}

-----------------------------------------------------------------------------
(* Requests.  The domain of sreq and rreq is the set of handles in use.    *)

\* Request q at handle h; it is destroyed if nobody refers to it.
Store(reqs, h, q) ==
  [k \in IF q.ref = 0 THEN DOMAIN reqs \ {h} ELSE DOMAIN reqs \cup {h} |->
     IF k = h THEN q ELSE reqs[k]]

\* MPID_Request_complete.
Complete(q) ==
  [q EXCEPT !.cc = @ - 1, !.ref = IF q.cc = 1 THEN @ - 1 ELSE @]

\* The user gives the handle back: MPI_Wait, MPI_Test or MPI_Request_free.
Release(q) == [q EXCEPT !.user = FALSE, !.ref = @ - 1]

\* MPIR_cc_decr asserts that the counter does not become negative.
Aborted == \E r \in DOMAIN rreq : rreq[r].cc < 0

-----------------------------------------------------------------------------
(* The sender.                                                             *)

\* Mutant: a synchronous send does not count the acknowledgement.
IsendOnce(h, proto, tag) ==
  /\ nmsg < MaxMsgs
  /\ h \notin DOMAIN sreq
  /\ sreq' = Store(sreq, h, [id |-> nmsg + 1, proto |-> proto, tag |-> tag, cc |-> 1,
                             ref |-> 2, user |-> TRUE, cancel_pending |-> FALSE,
                             cancelled |-> FALSE])
  /\ sending' = IF proto = "rndv" THEN sending ELSE sending \cup {h}
  /\ toR' = Append(toR, [type |-> "Send", proto |-> proto, tag |-> tag, sreq |-> h,
                         id |-> nmsg + 1])
  /\ nmsg' = nmsg + 1
  /\ UNCHANGED <<receiver, toS>>

\* MPID_Isend and MPID_Issend.  The channel sends the packet, and with it the
\* data of an eager message, in the order of the calls.
Isend(h, proto, tag) ==
  /\ nmsg < MaxMsgs
  /\ h \notin DOMAIN sreq
  /\ sreq' = Store(sreq, h, [id |-> nmsg + 1, proto |-> proto, tag |-> tag,
                             cc |-> IF proto = "sync" THEN 2 ELSE 1, ref |-> 2,
                             user |-> TRUE, cancel_pending |-> FALSE,
                             cancelled |-> FALSE])
  /\ sending' = IF proto = "rndv" THEN sending ELSE sending \cup {h}
  /\ toR' = Append(toR, [type |-> "Send", proto |-> proto, tag |-> tag, sreq |-> h,
                         id |-> nmsg + 1])
  /\ nmsg' = nmsg + 1
  /\ UNCHANGED <<receiver, toS>>

\* The channel has written all of the message.
Send_complete(h) ==
  /\ h \in sending
  /\ sending' = sending \ {h}
  /\ sreq' = Store(sreq, h, Complete(sreq[h]))
  /\ UNCHANGED <<receiver, toR, toS, nmsg>>

\* Mutant: a complete request is not kept for the answer.
Cancel_sendUncounted(h) ==
  /\ sreq[h].user /\ ~sreq[h].cancel_pending
  /\ sreq' = [sreq EXCEPT ![h].cancel_pending = TRUE, ![h].cc = @ + 1]
  /\ toR' = Append(toR, [type |-> "CancelSendReq", tag |-> sreq[h].tag, sreq |-> h,
                         id |-> sreq[h].id])
  /\ UNCHANGED <<receiver, sending, toS, nmsg>>

\* MPID_Cancel_send, for a request that is not being cancelled yet.
Cancel_send(h) ==
  /\ sreq[h].user /\ ~sreq[h].cancel_pending
  /\ sreq' = [sreq EXCEPT ![h].cancel_pending = TRUE,
                          ![h].cc = @ + 1,
                          ![h].ref = IF sreq[h].cc = 0 THEN @ + 1 ELSE @]
  /\ toR' = Append(toR, [type |-> "CancelSendReq", tag |-> sreq[h].tag, sreq |-> h,
                         id |-> sreq[h].id])
  /\ UNCHANGED <<receiver, sending, toS, nmsg>>

ReleaseSend(h) ==
  /\ sreq[h].user
  /\ sreq' = Store(sreq, h, Release(sreq[h]))
  /\ UNCHANGED <<receiver, sending, toR, toS, nmsg>>

\* The packet handlers of the sender, for the first packet p.
PktHandler_EagerSyncAck(p) ==
  /\ p.type = "EagerSyncAck"
  /\ sreq' = Store(sreq, p.sreq, Complete(sreq[p.sreq]))
  /\ UNCHANGED <<sending, toR>>

PktHandler_RndvClrToSend(p) ==
  /\ p.type = "RndvClrToSend"
  /\ sending' = sending \cup {p.sreq}
  /\ toR' = Append(toR, [type |-> "RndvSend", rreq |-> p.rreq, id |-> p.id])
  /\ UNCHANGED sreq

\* Mutants: no extra decrement at all, and one for eager messages too.
NeverAnsweredNot(p) == 0
NeverAnsweredAll(p) == IF p.ack THEN 1 ELSE 0

\* For a message that was cancelled, the counter goes down once more for the
\* packet that the receiver will never send.
NeverAnswered(p) ==
  IF p.ack /\ sreq[p.sreq].proto \in {"rndv", "sync"} THEN 1 ELSE 0

PktHandler_CancelSendResp(p) ==
  /\ p.type = "CancelSendResp"
  /\ sreq' = Store(sreq, p.sreq,
                   Complete([sreq[p.sreq] EXCEPT !.cancelled = p.ack,
                                                 !.cc = @ - NeverAnswered(p)]))
  /\ UNCHANGED <<sending, toR>>

SenderProgress ==
  /\ toS # <<>>
  /\ toS' = Tail(toS)
  /\ \/ PktHandler_EagerSyncAck(Head(toS))
     \/ PktHandler_RndvClrToSend(Head(toS))
     \/ PktHandler_CancelSendResp(Head(toS))
  /\ UNCHANGED <<receiver, nmsg>>

-----------------------------------------------------------------------------
(* The receive queues, see CH3Recvq.                                       *)

Queue(w) == {r \in DOMAIN rreq : rreq[r].where = w}
IsAny(r, S) == r \in S                                               \* mutant
IsFirst(r, S) == r \in S /\ \A s \in S : rreq[r].seq <= rreq[s].seq
IsNotLast(r, S) == IsFirst(r, S)                                     \* mutant
IsLast(r, S) == r \in S /\ \A s \in S : rreq[s].seq <= rreq[r].seq

MatchingRecvs(tag) == {r \in Queue("posted") : rreq[r].tag \in {tag, ANY_TAG}}
MatchingMsgs(tag) == {u \in Queue("unexpected") : tag \in {rreq[u].tag, ANY_TAG}}

Msg(seq, x) == [seq |-> seq, tag |-> x.tag, sreq |-> x.sreq, id |-> x.id]
Pair(seq, tag, msg) == [recv |-> [seq |-> seq, tag |-> tag], msg |-> msg]

-----------------------------------------------------------------------------
(* The receiver handles the first packet p.                                *)

\* All of message id is in the channel.
Arrived(id) == \A h \in sending : sreq[h].id # id

\* The data go to the user's buffer, and complete the request.
Filled(q) == Complete([q EXCEPT !.buf = "good"])

\* The last data of a message go to the temporary buffer
\* (MPIDI_CH3_ReqHandler_UnpackUEBufComplete): they are unpacked here if the
\* message is matched, otherwise by the receive that matches it.
UnpackUEBufComplete(q) ==
  Complete([q EXCEPT !.pending = @ - 1,
                     !.tmpbuf = IF q.pending = 1 THEN "none" ELSE "all",
                     !.buf = IF q.pending = 1 THEN "good" ELSE @])

SendAck(q) == Append(toS, [type |-> "EagerSyncAck", sreq |-> q.sreq, id |-> q.id])
SendCTS(r, q) == Append(toS, [type |-> "RndvClrToSend", sreq |-> q.sreq, rreq |-> r,
                              id |-> q.id])

\* Data for request q at handle r: all of them are here, or the channel will
\* fill the request.
ReceiveData(r, q, done, id) ==
  \/ /\ Arrived(id)
     /\ rreq' = Store(rreq, r, done)
     /\ UNCHANGED recv_active
  \/ /\ rreq' = Store(rreq, r, q)
     /\ recv_active' = r

\* A posted receive is found for the message.
FoundPosted(p) ==
  \E r \in DOMAIN rreq :
    LET q == [rreq[r] EXCEPT !.where = "matched", !.proto = p.proto,
                             !.sreq = p.sreq, !.id = p.id]
    IN  /\ IsFirst(r, MatchingRecvs(p.tag))
        /\ matched' = matched \cup {Pair(rreq[r].seq, rreq[r].tag, Msg(narr + 1, p))}
        /\ \/ /\ p.proto \in {"eager", "sync"}
              /\ ReceiveData(r, q, Filled(q), p.id)
              /\ toS' = IF p.proto = "sync" THEN SendAck(p) ELSE toS
           \/ /\ p.proto = "rndv"
              /\ rreq' = Store(rreq, r, q)
              /\ toS' = SendCTS(r, p)
              /\ UNCHANGED recv_active
        /\ toR' = Tail(toR)
        /\ UNCHANGED dropped

\* Data follow the packet in the channel.
HasData(p) == p.type = "RndvSend" \/ (p.type = "Send" /\ p.proto # "rndv")

\* The communicator is revoked: the message is thrown away.  The handler does
\* not say how much of the channel's buffer it has used, so all of the buffer
\* is skipped.  It holds the first n packets; if it ends before the data of the
\* last one or in the middle of the next, these will be taken for packets.
ThrowAway(p) ==
  /\ revoked
  /\ MatchingRecvs(p.tag) = {}
  /\ dropped' = dropped \cup {Msg(narr + 1, p)}
  /\ \E n \in 1 .. Len(toR) :
       /\ toR' = SubSeq(toR, n + 1, Len(toR))
       /\ \/ /\ \A i \in 1 .. n : HasData(toR[i]) => Arrived(toR[i].id)
             /\ UNCHANGED recv_active
          \/ /\ HasData(toR[n]) \/ n < Len(toR)
             /\ recv_active' = GARBLED
  /\ UNCHANGED <<rreq, toS, matched>>

\* Mutant: the arrival of the rest of the data is not counted.
UnexpectedPartOnce(q) == [q EXCEPT !.tmpbuf = "part"]

\* MPIDI_CH3U_Receive_data_unexpected with a part of the data.
UnexpectedPart(q) == [q EXCEPT !.tmpbuf = "part", !.pending = 2]

\* The message gets a request in the unexpected queue.
AppendUnexpected(p) ==
  \E r \in RHandles \ DOMAIN rreq :
    LET q == [where |-> "unexpected", seq |-> narr + 1, tag |-> p.tag,
              proto |-> p.proto, sreq |-> p.sreq, id |-> p.id, cc |-> 1, ref |-> 2,
              user |-> FALSE, pending |-> 1, tmpbuf |-> "none", buf |-> "none"]
    IN  /\ ~revoked
        /\ MatchingRecvs(p.tag) = {}
        /\ \/ /\ p.proto \in {"eager", "sync"}
              /\ ReceiveData(r, UnexpectedPart(q),
                             Complete([q EXCEPT !.tmpbuf = "all"]), p.id)
           \/ /\ p.proto = "rndv"
              /\ rreq' = Store(rreq, r, q)
              /\ UNCHANGED recv_active
        /\ toR' = Tail(toR)
        /\ UNCHANGED <<toS, matched, dropped>>

\* MPIDI_CH3_PktHandler_EagerSend, EagerSyncSend and RndvReqToSend.
PktHandler_Send(p) ==
  /\ p.type = "Send"
  /\ narr' = narr + 1
  /\ FoundPosted(p) \/ ThrowAway(p) \/ AppendUnexpected(p)
  /\ UNCHANGED removed

\* Data of a rendezvous message.
PktHandler_RndvSend(p) ==
  /\ p.type = "RndvSend"
  /\ ReceiveData(p.rreq, rreq[p.rreq], Filled(rreq[p.rreq]), p.id)
  /\ toR' = Tail(toR)
  /\ UNCHANGED <<toS, narr, matched, removed, dropped>>

\* The sender wants to cancel a message: it is the last one with this handle
\* and this tag in the unexpected queue, if there is one.
PktHandler_CancelSendReq(p) ==
  LET S == {u \in Queue("unexpected") : rreq[u].sreq = p.sreq /\ rreq[u].tag = p.tag}
      Resp(ack) == Append(toS, [type |-> "CancelSendResp", sreq |-> p.sreq,
                                ack |-> ack, id |-> p.id])
  IN  /\ p.type = "CancelSendReq"
      /\ \/ \E u \in S :
              /\ IsLast(u, S)
              /\ rreq' = Store(rreq, u, [rreq[u] EXCEPT
                                  !.ref = @ - IF rreq[u].proto = "rndv" THEN 2 ELSE 1])
              /\ removed' = removed \cup {rreq[u].id}
              /\ toS' = Resp(TRUE)
         \/ /\ S = {}
            /\ toS' = Resp(FALSE)
            /\ UNCHANGED <<rreq, removed>>
      /\ toR' = Tail(toR)
      /\ UNCHANGED <<recv_active, narr, matched, dropped>>

ReceiverProgress ==
  /\ ~Aborted
  /\ toR # <<>>
  /\ recv_active = NULL
  /\ \/ PktHandler_Send(Head(toR))
     \/ PktHandler_RndvSend(Head(toR))
     \/ PktHandler_CancelSendReq(Head(toR))
  /\ UNCHANGED <<sender, revoked, nrecv>>

\* The rest of the data arrives for the request that the channel fills.
DataArrives ==
  LET q == rreq[recv_active]
  IN  /\ ~Aborted
      /\ recv_active \in RHandles
      /\ Arrived(q.id)
      /\ rreq' = Store(rreq, recv_active,
                       IF q.tmpbuf = "part" THEN UnpackUEBufComplete(q) ELSE Filled(q))
      /\ recv_active' = NULL
      /\ UNCHANGED <<sender, toR, toS, revoked, narr, nrecv, matched, removed, dropped>>

-----------------------------------------------------------------------------
(* The user of the receiver.                                               *)

\* A receive is matched with the message in request q, found at handle u.  An
\* eager message that is all here is unpacked; for a rendezvous message the
\* sender is told to send the data.
Receive(u, q) ==
  LET m == [q EXCEPT !.where = "matched", !.user = TRUE]
  IN  \/ /\ q.proto \in {"eager", "sync"}
         /\ rreq' = Store(rreq, u, [m EXCEPT
                       !.pending = @ - 1,
                       !.buf = CASE q.cc # 0 -> @
                                 [] q.cc = 0 /\ q.tmpbuf = "all" -> "good"
                                 [] OTHER -> "bad",
                       !.tmpbuf = IF q.cc = 0 THEN "none" ELSE @])
         /\ toS' = IF q.proto = "sync" THEN SendAck(q) ELSE toS
      \/ /\ q.proto = "rndv"
         /\ rreq' = Store(rreq, u, m)
         /\ toS' = SendCTS(u, q)

\* MPID_Irecv.
Irecv(tag) ==
  /\ ~Aborted
  /\ nrecv < MaxRecvs
  /\ ~revoked
  /\ \/ \E u \in DOMAIN rreq :
          /\ IsFirst(u, MatchingMsgs(tag))
          /\ Receive(u, rreq[u])
          /\ matched' = matched \cup {Pair(nrecv + 1, tag, Msg(rreq[u].seq, rreq[u]))}
     \/ /\ MatchingMsgs(tag) = {}
        /\ \E r \in RHandles \ DOMAIN rreq :
             rreq' = Store(rreq, r, [where |-> "posted", seq |-> nrecv + 1, tag |-> tag,
                         proto |-> "eager", sreq |-> NULL, id |-> 0, cc |-> 1, ref |-> 2,
                         user |-> TRUE, pending |-> 1, tmpbuf |-> "none",
                         buf |-> "none"])
        /\ UNCHANGED <<toS, matched>>
  /\ nrecv' = nrecv + 1
  /\ UNCHANGED <<sender, toR, recv_active, revoked, narr, removed, dropped>>

\* MPID_Improbe with a match, and the MPID_Imrecv that follows it.
Improbe(tag) ==
  /\ ~Aborted
  /\ nrecv < MaxRecvs
  /\ ~revoked
  /\ \E u \in DOMAIN rreq :
       /\ IsFirst(u, MatchingMsgs(tag))
       /\ rreq' = [rreq EXCEPT ![u].where = "probed", ![u].user = TRUE]
       /\ matched' = matched \cup {Pair(nrecv + 1, tag, Msg(rreq[u].seq, rreq[u]))}
  /\ nrecv' = nrecv + 1
  /\ UNCHANGED <<sender, toR, toS, recv_active, revoked, narr, removed, dropped>>

Imrecv(u) ==
  /\ ~Aborted
  /\ u \in Queue("probed")
  /\ Receive(u, rreq[u])
  /\ UNCHANGED <<sender, toR, recv_active, revoked, narr, nrecv, matched, removed,
                 dropped>>

\* MPID_Cancel_recv, which does nothing unless the receive is still posted.
Cancel_recv(r) ==
  /\ ~Aborted
  /\ r \in Queue("posted") /\ rreq[r].user
  /\ rreq' = Store(rreq, r, Complete([rreq[r] EXCEPT !.where = "cancelled"]))
  /\ UNCHANGED <<sender, toR, toS, recv_active, revoked, narr, nrecv, matched, removed,
                 dropped>>

ReleaseRecv(r) ==
  /\ ~Aborted
  /\ rreq[r].user /\ rreq[r].where # "probed"
  /\ rreq' = Store(rreq, r, Release(rreq[r]))
  /\ UNCHANGED <<sender, toR, toS, recv_active, revoked, narr, nrecv, matched, removed,
                 dropped>>

\* MPID_Comm_revoke: MPIDI_CH3U_Clean_recvq completes every request in the two
\* queues with an error.
Comm_revoke ==
  LET clean == [r \in DOMAIN rreq |->
                  IF r \in Queue("posted") \cup Queue("unexpected")
                  THEN Complete([rreq[r] EXCEPT !.where = "error"]) ELSE rreq[r]]
  IN  /\ ~Aborted
      /\ ~revoked
      /\ revoked' = TRUE
      /\ rreq' = [r \in {k \in DOMAIN rreq : clean[k].ref # 0} |-> clean[r]]
      /\ UNCHANGED <<sender, toR, toS, recv_active, narr, nrecv, matched, removed,
                     dropped>>

-----------------------------------------------------------------------------
Next == \/ \E h \in SHandles, proto \in Protocols, tag \in MsgTags : Isend(h, proto, tag)
        \/ \E h \in DOMAIN sreq : Cancel_send(h) \/ ReleaseSend(h)
        \/ \E h \in sending : Send_complete(h)
        \/ SenderProgress
        \/ ReceiverProgress
        \/ DataArrives
        \/ \E tag \in MsgTags \cup {ANY_TAG} : Irecv(tag) \/ Improbe(tag)
        \/ \E r \in DOMAIN rreq : Imrecv(r) \/ Cancel_recv(r) \/ ReleaseRecv(r)
        \/ Comm_revoke

Spec == Init /\ [][Next]_vars

\* Both processes make progress, the channels write what they are given, and
\* the user receives the messages that it has probed for, as MPI requires.
FairSpec == /\ Spec
            /\ WF_vars(SenderProgress)
            /\ WF_vars(ReceiverProgress)
            /\ WF_vars(DataArrives)
            /\ WF_vars(\E h \in sending : Send_complete(h))
            /\ WF_vars(\E r \in DOMAIN rreq : Imrecv(r))

-----------------------------------------------------------------------------
(* Properties.                                                             *)

TypeOK ==
  /\ DOMAIN sreq \subseteq SHandles /\ \A h \in DOMAIN sreq : sreq[h] \in SReqs
  /\ DOMAIN rreq \subseteq RHandles /\ \A r \in DOMAIN rreq : rreq[r] \in RReqs
  /\ sending \subseteq SHandles
  /\ toR \in Seq(MsgPkts \cup CancelPkts \cup DataPkts)
  /\ toS \in Seq(AckPkts \cup CTSPkts \cup RespPkts)
  /\ recv_active \in RHandles \cup {NULL, GARBLED}
  /\ revoked \in BOOLEAN
  /\ nmsg \in Nat /\ narr \in Nat /\ nrecv \in Nat

Ids(pairs) == {x.msg.id : x \in pairs}

\* The sender's request with handle h is that of message id.
IsRequestOf(h, id) == h \in DOMAIN sreq /\ sreq[h].id = id

\* Whoever will use a handle of the other process finds the request that it
\* stands for, not one that was freed or that has taken its place: packets,
\* requests of messages that must be answered, and the channel.
HandlesAreValid ==
  /\ \A h \in sending : h \in DOMAIN sreq
  /\ \A i \in DOMAIN toS : IsRequestOf(toS[i].sreq, toS[i].id)
  /\ \A i \in DOMAIN toR :
       /\ toR[i].type = "CancelSendReq" => IsRequestOf(toR[i].sreq, toR[i].id)
       /\ toR[i].type = "Send" /\ toR[i].proto # "eager"
            => IsRequestOf(toR[i].sreq, toR[i].id)
       /\ toR[i].type = "RndvSend"
            => toR[i].rreq \in DOMAIN rreq /\ rreq[toR[i].rreq].id = toR[i].id
  /\ \A r \in Queue("unexpected") \cup Queue("probed") :
       rreq[r].proto # "eager" => IsRequestOf(rreq[r].sreq, rreq[r].id)
  /\ recv_active \in DOMAIN rreq \cup {NULL, GARBLED}

\* A completion counter becomes negative, which fails the assertion of
\* MPIR_cc_decr, only after a revocation; the counters of the sender never do.
AssertOnlyAfterRevoke ==
  /\ \A h \in DOMAIN sreq : sreq[h].cc >= 0
  /\ Aborted => revoked

\* The assertion of MPIR_cc_decr holds.
NoAssertFails == ~Aborted

\* Cancelling a message is all or nothing: the answer to the sender says what
\* happened to the very message that it wanted to cancel, though its handle may
\* have been used for others, and a cancelled message is not received.
CancelIsHonest ==
  /\ removed \cap Ids(matched) = {}
  /\ \A i \in DOMAIN toS : toS[i].type = "CancelSendResp" =>
       IF toS[i].ack THEN toS[i].id \in removed
                     ELSE revoked \/ toS[i].id \in Ids(matched)
  /\ \A h \in DOMAIN sreq : sreq[h].cancelled => sreq[h].id \in removed

\* A synchronous or rendezvous send is complete only when its message has been
\* matched or cancelled.
SyncMeansMatched ==
  \A h \in DOMAIN sreq : sreq[h].proto # "eager" /\ sreq[h].cc = 0
    => sreq[h].id \in Ids(matched) \cup removed

\* A receive that is complete has its message in the user's buffer, unpacked
\* from a temporary buffer only when all of it was there, whichever of the
\* data and the receive came first; and MPID_Irecv's two assertions on
\* recv_pending_count hold.
CompleteMeansReceived ==
  \A r \in DOMAIN rreq : LET q == rreq[r] IN
    /\ q.buf # "bad"
    /\ q.where = "matched" => (q.cc = 0 <=> q.buf = "good")
    /\ q.where \in {"unexpected", "probed"} /\ q.proto # "rndv"
         => (q.cc = 0 <=> q.pending = 1)

\* The receive queues are used as CH3Recvq says.
Coll(tag) == IF tag = ANY_TAG THEN tag ELSE [base |-> tag, coll |-> FALSE]
Ctx == [id |-> 1, kind |-> "pt2pt"]
RecvqRecv(x) == [seq |-> x.seq, rank |-> 1, tag |-> Coll(x.tag), ctx |-> Ctx, comm |-> 1]
RecvqMsg(x) == [seq |-> x.seq, rank |-> 1, tag |-> Coll(x.tag), errs |-> {},
                ctx |-> Ctx, sreq |-> x.sreq]

RecvqPosted == {RecvqRecv(rreq[r]) : r \in Queue("posted")}
RecvqUnexpected == {RecvqMsg(rreq[r]) : r \in Queue("unexpected")}
RecvqRevoked == IF revoked THEN {1} ELSE {}
RecvqMatched == {[recv |-> RecvqRecv(x.recv), msg |-> RecvqMsg(x.msg)] : x \in matched}
RecvqDropped == {RecvqMsg(x) : x \in dropped}

Recvq == INSTANCE CH3Recvq WITH
  Ranks <- {1}, BaseTags <- MsgTags, FTTags <- {}, Tagged <- {FALSE}, Comms <- {1},
  Kinds <- {"pt2pt"}, context_id <- <<1>>, recvcontext_id <- <<1>>,
  ErrorBits <- {{}}, Handles <- SHandles, ANY_SOURCE <- 0,
  posted <- RecvqPosted, unexpected <- RecvqUnexpected, revoked <- RecvqRevoked,
  moribund <- {}, nmsg <- narr, matched <- RecvqMatched, dropped <- RecvqDropped

RecvqSpec == Recvq!Spec

\* A send that is to be cancelled, or whose message is matched, completes.
SendReturns ==
  \A h \in SHandles :
    (h \in DOMAIN sreq /\ (sreq[h].cancel_pending \/ sreq[h].id \in Ids(matched)))
      ~> (h \notin DOMAIN sreq \/ sreq[h].cc = 0 \/ revoked)
=============================================================================
