--------------------------- MODULE CH3RecvqProofs ---------------------------
(***************************************************************************)
(* Proofs about the receive queues for every number of ranks, tags,        *)
(* contexts, receives and messages.                                        *)
(***************************************************************************)
EXTENDS CH3Recvq, TLAPS

(***************************************************************************)
(* The inductive invariant.  Numbers are given out in order; a message that*)
(* still waits was refused by every receive that took a later one; a       *)
(* receive that still waits refuses whatever a later receive took.         *)
(***************************************************************************)
SeqBounds == /\ \A p \in posted : p.seq <= nrecv
             /\ \A u \in unexpected : u.seq <= nmsg
             /\ \A a \in matched : a.recv.seq <= nrecv /\ a.msg.seq <= nmsg
WaitingMsgs == \A a \in matched, u \in unexpected :
                  u.seq < a.msg.seq => ~Accepts(a.recv, u)
WaitingRecvs == \A a \in matched, p \in posted :
                  p.seq < a.recv.seq => ~Accepts(p, a.msg)
OrderInv == SeqBounds /\ NoMissedMatch /\ WaitingMsgs /\ WaitingRecvs /\ NonOvertaking

\* The receive that an Irecv or Improbe of the next step posts, and the message
\* that an Arrive delivers.
NewRecv(c, k, r, t) == [seq |-> nrecv + 1, rank |-> r, tag |-> t, comm |-> c,
                        ctx |-> [id |-> recvcontext_id[c], kind |-> k]]
NewMsg(c, k, r, t, e, s) == [seq |-> nmsg + 1, rank |-> r, tag |-> t, errs |-> e,
                             ctx |-> [id |-> recvcontext_id[c], kind |-> k],
                             sreq |-> s]

LEMMA ContextType ==
  ASSUME NEW c \in Comms, NEW k \in Kinds
  PROVE  [id |-> recvcontext_id[c], kind |-> k] \in Contexts
<1>1. recvcontext_id[c] \in ContextIds
  BY DEF ContextIds
<1> QED
  BY <1>1 DEF Contexts

\* Clearing the error bits of the envelope makes the masked comparison of the
\* posted queue agree with MPI's definition.
LEMMA PostedSearch ==
  ASSUME NEW m \in Msgs, NEW p
  PROVE  MATCH_WITH_LEFT_RIGHT_MASK(p, [m EXCEPT !.errs = {}]) <=> Accepts(p, m)
BY DEF MATCH_WITH_LEFT_RIGHT_MASK, MATCH_WITH_LEFT_MASK, Accepts, Msgs

LEMMA UnexpectedSearch ==
  ASSUME NEW m, NEW p
  PROVE  MATCH_WITH_LEFT_MASK(m, p) <=> Accepts(p, m)
BY DEF MATCH_WITH_LEFT_MASK, Accepts

\* Steps that match nothing and only remove requests keep the order.
LEMMA ShrinkKeepsOrder ==
  ASSUME TypeOK, OrderInv, posted' \subseteq posted, unexpected' \subseteq unexpected,
         matched' = matched, nrecv' \in {nrecv, nrecv + 1}, nmsg' \in {nmsg, nmsg + 1}
  PROVE  OrderInv'
<1> USE DEF TypeOK, Recvs, Msgs
<1>1. SeqBounds'
  BY DEF OrderInv, SeqBounds
<1>2. NoMissedMatch'
  BY DEF OrderInv, NoMissedMatch, Accepts
<1>3. WaitingMsgs' /\ WaitingRecvs' /\ NonOvertaking'
  BY DEF OrderInv, WaitingMsgs, WaitingRecvs, NonOvertaking, Accepts
<1> QED
  BY <1>1, <1>2, <1>3 DEF OrderInv

\* A new receive takes the first unexpected message it accepts.
LEMMA TakeKeepsOrder ==
  ASSUME TypeOK, OrderInv, NEW p \in Recvs, NEW u \in unexpected,
         p.seq = nrecv + 1, IsFirst(u, unexpected, MatchingMsgs(p)),
         TakeUnexpected(p, u), nrecv' = nrecv + 1, nmsg' = nmsg
  PROVE  OrderInv'
<1> USE DEF TypeOK
<1>0. /\ posted' = posted /\ unexpected' \subseteq unexpected
      /\ matched' = matched \cup {[recv |-> p, msg |-> u]}
  BY DEF TakeUnexpected
<1>1. Accepts(p, u) /\ u \in Msgs
  BY UnexpectedSearch DEF IsFirst, MatchingMsgs
<1>2. ASSUME NEW v \in unexpected, v.seq < u.seq
      PROVE  ~Accepts(p, v)
  <2>1. v.seq \in Nat /\ u.seq \in Nat
    BY <1>1 DEF Msgs
  <2> QED
    BY <1>2, <2>1, UnexpectedSearch DEF IsFirst, MatchingMsgs
<1>3. SeqBounds'
  <2>1. \A a \in matched' : a.recv.seq <= nrecv' /\ a.msg.seq <= nmsg'
    BY <1>0, <1>1 DEF OrderInv, SeqBounds, Recvs, Msgs
  <2> QED
    BY <1>0, <2>1 DEF OrderInv, SeqBounds, Recvs
<1>4. NoMissedMatch'
  BY <1>0 DEF OrderInv, NoMissedMatch, Accepts
<1>5. WaitingMsgs'
  <2> SUFFICES ASSUME NEW a \in matched', NEW v \in unexpected', v.seq < a.msg.seq
               PROVE  ~Accepts(a.recv, v)
    BY DEF WaitingMsgs, Accepts
  <2>1. CASE a \in matched
    BY <1>0, <2>1 DEF OrderInv, WaitingMsgs
  <2>2. CASE a = [recv |-> p, msg |-> u]
    BY <1>0, <1>2, <2>2
  <2> QED
    BY <1>0, <2>1, <2>2
<1>6. WaitingRecvs'
  <2> SUFFICES ASSUME NEW a \in matched', NEW q \in posted', q.seq < a.recv.seq
               PROVE  ~Accepts(q, a.msg)
    BY DEF WaitingRecvs, Accepts
  <2>1. CASE a \in matched
    BY <1>0, <2>1 DEF OrderInv, WaitingRecvs
  <2>2. CASE a = [recv |-> p, msg |-> u]
    BY <1>0, <2>2 DEF OrderInv, NoMissedMatch
  <2> QED
    BY <1>0, <2>1, <2>2
<1>7. NonOvertaking'
  <2> SUFFICES ASSUME NEW a \in matched', NEW b \in matched',
                      a.recv.seq < b.recv.seq, b.msg.seq < a.msg.seq
               PROVE  ~Accepts(a.recv, b.msg)
    BY DEF NonOvertaking, Accepts
  <2>1. CASE a \in matched /\ b \in matched
    BY <2>1 DEF OrderInv, NonOvertaking
  <2>2. CASE a \in matched /\ b = [recv |-> p, msg |-> u]
    BY <2>2 DEF OrderInv, WaitingMsgs
  <2>3. CASE a = [recv |-> p, msg |-> u] /\ b \in matched
    <3>1. b.recv.seq <= nrecv /\ b.recv.seq \in Nat
      BY <2>3 DEF OrderInv, SeqBounds, Recvs
    <3> QED
      BY <2>3, <3>1
  <2>4. CASE a = [recv |-> p, msg |-> u] /\ b = [recv |-> p, msg |-> u]
    BY <2>4 DEF Recvs
  <2> QED
    BY <1>0, <2>1, <2>2, <2>3, <2>4
<1> QED
  BY <1>3, <1>4, <1>5, <1>6, <1>7 DEF OrderInv

\* A new receive that accepts no unexpected message is appended.
LEMMA PostKeepsOrder ==
  ASSUME TypeOK, OrderInv, NEW p \in Recvs, p.seq = nrecv + 1, MatchingMsgs(p) = {},
         AppendPosted(p), nrecv' = nrecv + 1, nmsg' = nmsg
  PROVE  OrderInv'
<1> USE DEF TypeOK
<1>0. /\ posted' = posted \cup {p} /\ unexpected' = unexpected /\ matched' = matched
  BY DEF AppendPosted
<1>1. \A u \in unexpected : ~Accepts(p, u)
  BY UnexpectedSearch DEF MatchingMsgs
<1>2. SeqBounds'
  BY <1>0 DEF OrderInv, SeqBounds, Recvs
<1>3. NoMissedMatch'
  BY <1>0, <1>1 DEF OrderInv, NoMissedMatch, Accepts
<1>4. WaitingMsgs' /\ NonOvertaking'
  BY <1>0 DEF OrderInv, WaitingMsgs, NonOvertaking, Accepts
<1>5. WaitingRecvs'
  <2> SUFFICES ASSUME NEW a \in matched, NEW q \in posted', q.seq < a.recv.seq
               PROVE  ~Accepts(q, a.msg)
    BY <1>0 DEF WaitingRecvs, Accepts
  <2>1. a.recv.seq <= nrecv /\ a.recv.seq \in Nat
    BY DEF OrderInv, SeqBounds, Recvs
  <2>2. q # p
    BY <2>1
  <2> QED
    BY <1>0, <2>2 DEF OrderInv, WaitingRecvs
<1> QED
  BY <1>2, <1>3, <1>4, <1>5 DEF OrderInv

\* A new message goes to the first posted receive that accepts it.
LEMMA DeliverKeepsOrder ==
  ASSUME TypeOK, OrderInv, NEW m \in Msgs, NEW p \in posted,
         m.seq = nmsg + 1, IsFirst(p, posted, MatchingRecvs(m)),
         posted' = posted \ {p}, unexpected' = unexpected,
         matched' = matched \cup {[recv |-> p, msg |-> m]},
         nrecv' = nrecv, nmsg' = nmsg + 1
  PROVE  OrderInv'
<1> USE DEF TypeOK
<1>1. Accepts(p, m) /\ p \in Recvs
  BY PostedSearch DEF IsFirst, MatchingRecvs
<1>2. ASSUME NEW q \in posted, q.seq < p.seq
      PROVE  ~Accepts(q, m)
  <2>1. q.seq \in Nat /\ p.seq \in Nat
    BY <1>1 DEF Recvs
  <2> QED
    BY <1>2, <2>1, PostedSearch DEF IsFirst, MatchingRecvs
<1>3. SeqBounds'
  <2>1. \A a \in matched' : a.recv.seq <= nrecv' /\ a.msg.seq <= nmsg'
    BY <1>1 DEF OrderInv, SeqBounds, Recvs, Msgs
  <2> QED
    BY <2>1 DEF OrderInv, SeqBounds, Msgs
<1>4. NoMissedMatch'
  BY DEF OrderInv, NoMissedMatch, Accepts
<1>5. WaitingMsgs'
  <2> SUFFICES ASSUME NEW a \in matched', NEW v \in unexpected, v.seq < a.msg.seq
               PROVE  ~Accepts(a.recv, v)
    BY DEF WaitingMsgs, Accepts
  <2>1. CASE a \in matched
    BY <2>1 DEF OrderInv, WaitingMsgs
  <2>2. CASE a = [recv |-> p, msg |-> m]
    BY <2>2 DEF OrderInv, NoMissedMatch
  <2> QED
    BY <2>1, <2>2
<1>6. WaitingRecvs'
  <2> SUFFICES ASSUME NEW a \in matched', NEW q \in posted', q.seq < a.recv.seq
               PROVE  ~Accepts(q, a.msg)
    BY DEF WaitingRecvs, Accepts
  <2>1. CASE a \in matched
    BY <2>1 DEF OrderInv, WaitingRecvs
  <2>2. CASE a = [recv |-> p, msg |-> m]
    BY <1>2, <2>2
  <2> QED
    BY <2>1, <2>2
<1>7. NonOvertaking'
  <2> SUFFICES ASSUME NEW a \in matched', NEW b \in matched',
                      a.recv.seq < b.recv.seq, b.msg.seq < a.msg.seq
               PROVE  ~Accepts(a.recv, b.msg)
    BY DEF NonOvertaking, Accepts
  <2>1. CASE a \in matched /\ b \in matched
    BY <2>1 DEF OrderInv, NonOvertaking
  <2>2. CASE a \in matched /\ b = [recv |-> p, msg |-> m]
    <3>1. a.msg.seq <= nmsg /\ a.msg.seq \in Nat
      BY <2>2 DEF OrderInv, SeqBounds, Msgs
    <3> QED
      BY <2>2, <3>1
  <2>3. CASE a = [recv |-> p, msg |-> m] /\ b \in matched
    BY <2>3 DEF OrderInv, WaitingRecvs
  <2>4. CASE a = [recv |-> p, msg |-> m] /\ b = [recv |-> p, msg |-> m]
    BY <2>4 DEF Msgs
  <2> QED
    BY <2>1, <2>2, <2>3, <2>4
<1> QED
  BY <1>3, <1>4, <1>5, <1>6, <1>7 DEF OrderInv

\* A new message that no posted receive accepts is appended.
LEMMA QueueKeepsOrder ==
  ASSUME TypeOK, OrderInv, NEW m \in Msgs, m.seq = nmsg + 1, MatchingRecvs(m) = {},
         posted' = posted, unexpected' = unexpected \cup {m}, matched' = matched,
         nrecv' = nrecv, nmsg' = nmsg + 1
  PROVE  OrderInv'
<1> USE DEF TypeOK
<1>1. \A p \in posted : ~Accepts(p, m)
  BY PostedSearch DEF MatchingRecvs
<1>2. SeqBounds'
  BY DEF OrderInv, SeqBounds, Msgs
<1>3. NoMissedMatch'
  BY <1>1 DEF OrderInv, NoMissedMatch, Accepts
<1>4. WaitingRecvs' /\ NonOvertaking'
  BY DEF OrderInv, WaitingRecvs, NonOvertaking, Accepts
<1>5. WaitingMsgs'
  <2> SUFFICES ASSUME NEW a \in matched, NEW v \in unexpected', v.seq < a.msg.seq
               PROVE  ~Accepts(a.recv, v)
    BY DEF WaitingMsgs, Accepts
  <2>1. a.msg.seq <= nmsg /\ a.msg.seq \in Nat
    BY DEF OrderInv, SeqBounds, Msgs
  <2>2. v # m
    BY <2>1
  <2> QED
    BY <2>2 DEF OrderInv, WaitingMsgs
<1> QED
  BY <1>2, <1>3, <1>4, <1>5 DEF OrderInv

-----------------------------------------------------------------------------
\* A receive in the posted queue has the context of its communicator.
PostedContexts == \A p \in posted : p.ctx.id = recvcontext_id[p.comm]

QueueInv == /\ TypeOK /\ OrderInv /\ FailedNotAwaited /\ PostedContexts

LEMMA InitQueueInv == Init => QueueInv
BY DEF Init, QueueInv, TypeOK, OrderInv, SeqBounds, NoMissedMatch, WaitingMsgs,
       WaitingRecvs, NonOvertaking, FailedNotAwaited, PostedContexts

\* Steps that only remove requests from the posted queue, or leave it alone.
LEMMA RemovePosted ==
  ASSUME QueueInv, posted' \subseteq posted, moribund' = moribund
  PROVE  FailedNotAwaited' /\ PostedContexts'
BY DEF QueueInv, FailedNotAwaited, PostedContexts

LEMMA TakeStep ==
  ASSUME QueueInv, NEW c \in Comms, NEW k \in Kinds,
         NEW r \in Ranks \cup {ANY_SOURCE}, NEW t \in Tags \cup {ANY_TAG},
         NEW u \in unexpected,
         IsFirst(u, unexpected, MatchingMsgs(NewRecv(c, k, r, t))),
         TakeUnexpected(NewRecv(c, k, r, t), u),
         nrecv' = nrecv + 1, UNCHANGED <<revoked, moribund, nmsg, dropped>>
  PROVE  QueueInv'
<1> DEFINE p == NewRecv(c, k, r, t)
<1>0. TypeOK
  BY DEF QueueInv
<1>1. p \in Recvs /\ p.seq = nrecv + 1
  BY <1>0, ContextType DEF TypeOK, Recvs, NewRecv
<1> HIDE DEF p
<1>2. OrderInv'
  BY <1>1, TakeKeepsOrder DEF QueueInv, p
<1>3. TypeOK'
  BY <1>1 DEF QueueInv, TypeOK, TakeUnexpected, p
<1>4. FailedNotAwaited' /\ PostedContexts'
  BY RemovePosted DEF TakeUnexpected
<1> QED
  BY <1>2, <1>3, <1>4 DEF QueueInv

LEMMA IrecvStep ==
  ASSUME QueueInv, NEW c \in Comms, NEW k \in Kinds,
         NEW r \in Ranks \cup {ANY_SOURCE}, NEW t \in Tags \cup {ANY_TAG},
         Irecv(c, k, r, t)
  PROVE  QueueInv'
<1> DEFINE p == NewRecv(c, k, r, t)
<1>0. TypeOK
  BY DEF QueueInv
<1>1. /\ p \in Recvs /\ p.seq = nrecv + 1 /\ p.comm = c /\ p.rank = r
      /\ p.ctx = [id |-> recvcontext_id[c], kind |-> k]
  BY <1>0, ContextType DEF TypeOK, Recvs, NewRecv
<1>2. FDU_or_AEP(p) /\ nrecv' = nrecv + 1 /\ UNCHANGED <<revoked, moribund, nmsg, dropped>>
  BY DEF Irecv, NewRecv
<1> HIDE DEF p
<1>3. CASE \E u \in unexpected : /\ IsFirst(u, unexpected, MatchingMsgs(p))
                                 /\ TakeUnexpected(p, u)
  BY <1>2, <1>3, TakeStep DEF p
<1>4. CASE /\ MatchingMsgs(p) = {} /\ p.rank \in moribund
           /\ UNCHANGED <<posted, unexpected, matched>>
  <2>1. OrderInv'
    BY <1>2, <1>4, ShrinkKeepsOrder DEF QueueInv, TypeOK
  <2>2. TypeOK'
    BY <1>2, <1>4 DEF QueueInv, TypeOK
  <2> QED
    BY <1>2, <1>4, <2>1, <2>2, RemovePosted DEF QueueInv
<1>5. CASE MatchingMsgs(p) = {} /\ p.rank \notin moribund /\ AppendPosted(p)
  <2>1. OrderInv'
    BY <1>1, <1>2, <1>5, PostKeepsOrder DEF QueueInv
  <2>2. TypeOK'
    BY <1>1, <1>2, <1>5 DEF QueueInv, TypeOK, AppendPosted
  <2>3. FailedNotAwaited' /\ PostedContexts'
    BY <1>1, <1>2, <1>5 DEF QueueInv, FailedNotAwaited, PostedContexts, AppendPosted
  <2> QED
    BY <2>1, <2>2, <2>3 DEF QueueInv
<1> QED
  BY <1>2, <1>3, <1>4, <1>5 DEF FDU_or_AEP

LEMMA ArriveStep ==
  ASSUME QueueInv, NEW c \in Comms, NEW k \in Kinds, NEW r \in Ranks, NEW t \in Tags,
         NEW e \in ErrorBits, NEW s \in Handles, Arrive(c, k, r, t, e, s)
  PROVE  QueueInv'
<1> DEFINE m == NewMsg(c, k, r, t, e, s)
<1>0. TypeOK
  BY DEF QueueInv
<1>1. m \in Msgs /\ m.seq = nmsg + 1
  BY <1>0, ContextType DEF TypeOK, Msgs, NewMsg
<1>2. FDP_or_AEU(m) /\ nmsg' = nmsg + 1 /\ UNCHANGED <<revoked, moribund, nrecv>>
  BY DEF Arrive, NewMsg
<1> HIDE DEF m
<1>3. ASSUME NEW p \in posted, IsFirst(p, posted, MatchingRecvs(m)),
             posted' = posted \ {p},
             matched' = matched \cup {[recv |-> p, msg |-> m]},
             UNCHANGED <<unexpected, dropped>>
      PROVE  QueueInv'
  <2>1. OrderInv'
    BY <1>1, <1>2, <1>3, DeliverKeepsOrder DEF QueueInv
  <2>2. TypeOK'
    BY <1>1, <1>2, <1>3 DEF QueueInv, TypeOK
  <2> QED
    BY <1>2, <1>3, <2>1, <2>2, RemovePosted DEF QueueInv
<1>4. CASE /\ MatchingRecvs(m) = {} /\ ThrowAway(m) /\ dropped' = dropped \cup {m}
           /\ UNCHANGED <<posted, unexpected, matched>>
  <2>1. OrderInv'
    BY <1>2, <1>4, ShrinkKeepsOrder DEF QueueInv, TypeOK
  <2>2. TypeOK'
    BY <1>1, <1>2, <1>4 DEF QueueInv, TypeOK
  <2> QED
    BY <1>2, <1>4, <2>1, <2>2, RemovePosted DEF QueueInv
<1>5. CASE /\ MatchingRecvs(m) = {} /\ ~ThrowAway(m)
           /\ unexpected' = unexpected \cup {m}
           /\ UNCHANGED <<posted, matched, dropped>>
  <2>1. OrderInv'
    BY <1>1, <1>2, <1>5, QueueKeepsOrder DEF QueueInv
  <2>2. TypeOK'
    BY <1>1, <1>2, <1>5 DEF QueueInv, TypeOK
  <2> QED
    BY <1>2, <1>5, <2>1, <2>2, RemovePosted DEF QueueInv
<1> QED
  BY <1>2, <1>3, <1>4, <1>5 DEF FDP_or_AEU

LEMMA QueueInvStep == QueueInv /\ [Next]_vars => QueueInv'
<1> SUFFICES ASSUME QueueInv, [Next]_vars PROVE QueueInv'
  OBVIOUS
<1>1. ASSUME NEW c \in Comms, NEW k \in Kinds, NEW r \in Ranks \cup {ANY_SOURCE},
             NEW t \in Tags \cup {ANY_TAG}, Irecv(c, k, r, t)
      PROVE  QueueInv'
  BY <1>1, IrecvStep
<1>2. ASSUME NEW c \in Comms, NEW k \in Kinds, NEW r \in Ranks \cup {ANY_SOURCE},
             NEW t \in Tags \cup {ANY_TAG}, Improbe(c, k, r, t)
      PROVE  QueueInv'
  <2>1. PICK u \in unexpected :
           /\ IsFirst(u, unexpected, MatchingMsgs(NewRecv(c, k, r, t)))
           /\ TakeUnexpected(NewRecv(c, k, r, t), u)
    BY <1>2 DEF Improbe, NewRecv
  <2>2. nrecv' = nrecv + 1 /\ UNCHANGED <<revoked, moribund, nmsg, dropped>>
    BY <1>2 DEF Improbe
  <2> QED
    BY <2>1, <2>2, TakeStep
<1>3. ASSUME NEW p \in posted, Cancel_recv(p) PROVE QueueInv'
  <2>1. OrderInv'
    BY <1>3, ShrinkKeepsOrder DEF QueueInv, Cancel_recv
  <2>2. TypeOK'
    BY <1>3 DEF QueueInv, TypeOK, Cancel_recv
  <2> QED
    BY <1>3, <2>1, <2>2, RemovePosted DEF QueueInv, Cancel_recv
<1>4. ASSUME NEW c \in Comms, NEW k \in Kinds, NEW r \in Ranks, NEW t \in Tags,
             NEW s \in Handles, FDU(c, k, r, t, s)
      PROVE  QueueInv'
  <2>1. /\ unexpected' \subseteq unexpected
        /\ UNCHANGED <<posted, revoked, moribund, nrecv, nmsg, matched, dropped>>
    BY <1>4 DEF FDU
  <2>2. OrderInv'
    BY <2>1, ShrinkKeepsOrder DEF QueueInv
  <2>3. TypeOK'
    BY <2>1 DEF QueueInv, TypeOK
  <2> QED
    BY <2>1, <2>2, <2>3, RemovePosted DEF QueueInv
<1>5. ASSUME NEW c \in Comms, NEW k \in Kinds, NEW r \in Ranks, NEW t \in Tags,
             NEW e \in ErrorBits, NEW s \in Handles, Arrive(c, k, r, t, e, s)
      PROVE  QueueInv'
  BY <1>5, ArriveStep
<1>6. ASSUME NEW c \in Comms, Comm_revoke(c) PROVE QueueInv'
  <2>3. OrderInv'
    BY <1>6, ShrinkKeepsOrder DEF QueueInv, Comm_revoke
  <2>4. TypeOK'
    BY <1>6 DEF QueueInv, TypeOK, Comm_revoke
  <2> QED
    BY <1>6, <2>3, <2>4, RemovePosted DEF QueueInv, Comm_revoke
<1>7. ASSUME NEW r \in Ranks, Complete_posted_with_error(r) PROVE QueueInv'
  <2> DEFINE S == {p \in posted : p.rank = r}
  <2>1. /\ moribund' = moribund \cup {r} /\ posted' = posted \ S
        /\ UNCHANGED <<unexpected, revoked, nrecv, nmsg, matched, dropped>>
    BY <1>7 DEF Complete_posted_with_error
  <2>3. OrderInv'
    BY <2>1, ShrinkKeepsOrder DEF QueueInv
  <2>4. TypeOK'
    BY <2>1 DEF QueueInv, TypeOK
  <2>5. FailedNotAwaited' /\ PostedContexts'
    BY <2>1 DEF QueueInv, FailedNotAwaited, PostedContexts
  <2> QED
    BY <2>3, <2>4, <2>5 DEF QueueInv
<1>8. CASE UNCHANGED vars
  BY <1>8 DEF vars, QueueInv, TypeOK, OrderInv, SeqBounds, NoMissedMatch, WaitingMsgs,
              WaitingRecvs, NonOvertaking, FailedNotAwaited, PostedContexts, Accepts
<1> QED
  BY <1>1, <1>2, <1>3, <1>4, <1>5, <1>6, <1>7, <1>8 DEF Next

\* QueueInv is an invariant of the specification.
THEOREM QueueInvariance == Spec => []QueueInv
<1>1. Init => QueueInv
  BY InitQueueInv
<1>2. QueueInv /\ [Next]_vars => QueueInv'
  BY QueueInvStep
<1> QED
  BY <1>1, <1>2, PTL DEF Spec

\* The queues of ch3u_recvq.c hold requests of the right shape.
THEOREM QueueTypes == Spec => []TypeOK
<1>1. QueueInv => TypeOK
  BY DEF QueueInv
<1> QED
  BY <1>1, QueueInvariance, PTL

\* The two searches, with their different masks, never leave a receive and a
\* message that it accepts waiting for each other.
THEOREM NoMatchIsMissed == Spec => []NoMissedMatch
<1>1. QueueInv => NoMissedMatch
  BY DEF QueueInv, OrderInv
<1> QED
  BY <1>1, QueueInvariance, PTL

\* Receives get messages in order, with wild cards, probes, cancellations,
\* failures and revocations in between.
THEOREM MessagesDoNotOvertake == Spec => []NonOvertaking
<1>1. QueueInv => NonOvertaking
  BY DEF QueueInv, OrderInv
<1> QED
  BY <1>1, QueueInvariance, PTL

\* No receive is left waiting for a rank whose failure is known.
THEOREM NobodyAwaitsTheDead == Spec => []FailedNotAwaited
<1>1. QueueInv => FailedNotAwaited
  BY DEF QueueInv
<1> QED
  BY <1>1, QueueInvariance, PTL

-----------------------------------------------------------------------------
(***************************************************************************)
(* Revocation.  The two theorems need communicators that send and receive  *)
(* with the same context id (intracommunicators); the second one also that *)
(* no tag has the bit of tagged collectives.  CH3Recvq_inter and           *)
(* CH3Recvq_shrink show that neither can be dropped.                       *)
(***************************************************************************)
IntraComms == \A c \in Comms : context_id[c] = recvcontext_id[c]

LEMMA RevokedStep ==
  ASSUME IntraComms
  PROVE  QueueInv /\ RevokedIsClean /\ [Next]_vars => RevokedIsClean'
<1> SUFFICES ASSUME QueueInv, RevokedIsClean, [Next]_vars PROVE RevokedIsClean'
  OBVIOUS
\* Steps that revoke nothing and only remove requests.
<1>a. ASSUME posted' \subseteq posted, unexpected' \subseteq unexpected, revoked' = revoked
      PROVE  RevokedIsClean'
  BY <1>a DEF RevokedIsClean, PassesIrecv
<1>1. ASSUME NEW c \in Comms, NEW k \in Kinds, NEW r \in Ranks \cup {ANY_SOURCE},
             NEW t \in Tags \cup {ANY_TAG}, Irecv(c, k, r, t)
      PROVE  RevokedIsClean'
  <2> DEFINE p == NewRecv(c, k, r, t)
  <2>1. p.comm = c /\ p.tag = t
    BY DEF NewRecv
  <2>2. FDU_or_AEP(p) /\ revoked' = revoked /\ (c \notin revoked \/ PassesIrecv(t))
    BY <1>1 DEF Irecv, NewRecv
  <2> HIDE DEF p
  <2>3. posted' \subseteq posted \cup {p} /\ unexpected' \subseteq unexpected
    BY <2>2 DEF FDU_or_AEP, TakeUnexpected, AppendPosted
  <2> QED
    BY <2>1, <2>2, <2>3 DEF RevokedIsClean, PassesIrecv
<1>2. ASSUME NEW c \in Comms, NEW k \in Kinds, NEW r \in Ranks \cup {ANY_SOURCE},
             NEW t \in Tags \cup {ANY_TAG}, Improbe(c, k, r, t)
      PROVE  RevokedIsClean'
  BY <1>2, <1>a DEF Improbe, TakeUnexpected
<1>3. ASSUME NEW p \in posted, Cancel_recv(p) PROVE RevokedIsClean'
  BY <1>3, <1>a DEF Cancel_recv
<1>4. ASSUME NEW c \in Comms, NEW k \in Kinds, NEW r \in Ranks, NEW t \in Tags,
             NEW s \in Handles, FDU(c, k, r, t, s)
      PROVE  RevokedIsClean'
  BY <1>4, <1>a DEF FDU
<1>5. ASSUME NEW c \in Comms, NEW k \in Kinds, NEW r \in Ranks, NEW t \in Tags,
             NEW e \in ErrorBits, NEW s \in Handles, Arrive(c, k, r, t, e, s)
      PROVE  RevokedIsClean'
  <2> DEFINE m == NewMsg(c, k, r, t, e, s)
  <2>1. m.tag = t /\ m.ctx.id = recvcontext_id[c]
    BY DEF NewMsg
  <2>2. FDP_or_AEU(m) /\ revoked' = revoked
    BY <1>5 DEF Arrive, NewMsg
  <2> HIDE DEF m
  <2>3. /\ posted' \subseteq posted
        /\ \/ unexpected' = unexpected
           \/ unexpected' = unexpected \cup {m} /\ ~ThrowAway(m)
    BY <2>2 DEF FDP_or_AEU
  <2>4. CASE unexpected' = unexpected
    BY <2>2, <2>3, <2>4, <1>a
  <2>5. CASE unexpected' = unexpected \cup {m} /\ ~ThrowAway(m)
    <3>1. ASSUME NEW d \in revoked, m.ctx.id = recvcontext_id[d]
          PROVE  m.tag.base \in FTTags
      <4>1. d \in Comms /\ context_id[d] = m.ctx.id
        BY <3>1 DEF QueueInv, TypeOK, IntraComms
      <4>2. d \in Comm_find(m.ctx) \cap revoked
        BY <3>1, <4>1 DEF Comm_find
      <4> QED
        BY <2>5, <4>2 DEF ThrowAway, PassesQueue
    <3> QED
      BY <2>2, <2>3, <2>5, <3>1 DEF RevokedIsClean, PassesIrecv
  <2> QED
    BY <2>3, <2>4, <2>5
<1>6. ASSUME NEW c \in Comms, Comm_revoke(c) PROVE RevokedIsClean'
  <2>1. ASSUME NEW p \in posted', p.comm = c PROVE PassesIrecv(p.tag)
    <3>1. p \in posted /\ p \notin Cleaned(c, posted)
      BY <1>6, <2>1 DEF Comm_revoke
    <3>2. p.ctx.id = recvcontext_id[c]
      BY <2>1, <3>1 DEF QueueInv, PostedContexts
    <3> QED
      BY <3>1, <3>2 DEF Cleaned, PassesQueue, PassesIrecv
  <2>2. ASSUME NEW u \in unexpected', u.ctx.id = recvcontext_id[c]
        PROVE  u.tag.base \in FTTags
    BY <1>6, <2>2 DEF Comm_revoke, Cleaned, PassesQueue
  <2>3. posted' \subseteq posted /\ unexpected' \subseteq unexpected /\ revoked' = revoked \cup {c}
    BY <1>6 DEF Comm_revoke
  <2> QED
    BY <2>1, <2>2, <2>3 DEF RevokedIsClean, PassesIrecv
<1>7. ASSUME NEW r \in Ranks, Complete_posted_with_error(r) PROVE RevokedIsClean'
  BY <1>7, <1>a DEF Complete_posted_with_error
<1>8. CASE UNCHANGED vars
  BY <1>8, <1>a DEF vars
<1> QED
  BY <1>1, <1>2, <1>3, <1>4, <1>5, <1>6, <1>7, <1>8 DEF Next

\* MPID_Comm_revoke and the check in FDP_or_AEU together keep the queues free of
\* what a revoked intracommunicator no longer needs.
THEOREM RevocationCleans == ASSUME IntraComms PROVE Spec => []RevokedIsClean
<1>1. Init => RevokedIsClean
  BY DEF Init, RevokedIsClean
<1>2. QueueInv /\ RevokedIsClean /\ [Next]_vars => RevokedIsClean'
  BY RevokedStep
<1> QED
  BY <1>1, <1>2, QueueInvariance, PTL DEF Spec

\* Only messages of revoked communicators are thrown away.
DroppedRevoked == \A m \in dropped : /\ \E c \in revoked : context_id[c] = m.ctx.id
                                     /\ ~PassesQueue(m.tag)

LEMMA DroppedStep == DroppedRevoked /\ [Next]_vars => DroppedRevoked'
<1> SUFFICES ASSUME DroppedRevoked, [Next]_vars PROVE DroppedRevoked'
  OBVIOUS
<1>a. ASSUME dropped' = dropped, revoked \subseteq revoked' PROVE DroppedRevoked'
  BY <1>a DEF DroppedRevoked, PassesQueue
<1>1. ASSUME NEW c \in Comms, NEW k \in Kinds, NEW r \in Ranks, NEW t \in Tags,
             NEW e \in ErrorBits, NEW s \in Handles, Arrive(c, k, r, t, e, s)
      PROVE  DroppedRevoked'
  <2> DEFINE m == NewMsg(c, k, r, t, e, s)
  <2>1. FDP_or_AEU(m) /\ revoked' = revoked
    BY <1>1 DEF Arrive, NewMsg
  <2> HIDE DEF m
  <2>2. CASE dropped' = dropped
    BY <2>1, <2>2, <1>a
  <2>3. CASE dropped' = dropped \cup {m} /\ ThrowAway(m)
    <3>1. (\E d \in revoked : context_id[d] = m.ctx.id) /\ ~PassesQueue(m.tag)
      BY <2>3 DEF ThrowAway, Comm_find
    <3> QED
      BY <2>1, <2>3, <3>1 DEF DroppedRevoked, PassesQueue
  <2> QED
    BY <2>1, <2>2, <2>3 DEF FDP_or_AEU
<1>2. CASE dropped' = dropped /\ revoked \subseteq revoked'
  BY <1>2, <1>a
<1> QED
  BY <1>1, <1>2 DEF Next, vars, Irecv, Improbe, Cancel_recv, FDU, Comm_revoke,
                    Complete_posted_with_error

\* What FDP_or_AEU throws away because of a revocation no accepted receive waits
\* for, when context ids are not shared and no tag has the collective bit.
THEOREM DroppedNotNeeded ==
  ASSUME IntraComms, Tagged = {FALSE},
         \A c, d \in Comms : recvcontext_id[c] = recvcontext_id[d] => c = d
  PROVE  Spec => []DroppedIsUnused
<1>1. Init => DroppedRevoked
  BY DEF Init, DroppedRevoked
<1>2. DroppedRevoked /\ [Next]_vars => DroppedRevoked'
  BY DroppedStep
<1>3. QueueInv /\ RevokedIsClean /\ DroppedRevoked => DroppedIsUnused
  <2> SUFFICES ASSUME QueueInv, RevokedIsClean, DroppedRevoked,
                      NEW p \in posted, NEW m \in dropped, Accepts(p, m)
               PROVE  FALSE
    BY DEF DroppedIsUnused
  <2>1. p \in Recvs /\ m \in Msgs /\ p.ctx = m.ctx
    BY DEF QueueInv, TypeOK, Accepts
  <2>2. PICK c \in revoked : context_id[c] = m.ctx.id /\ ~PassesQueue(m.tag)
    BY DEF DroppedRevoked
  <2>3. c \in Comms /\ p.comm \in Comms
    BY <2>1 DEF QueueInv, TypeOK, Recvs
  <2>4. p.comm = c
    BY <2>1, <2>2, <2>3 DEF QueueInv, PostedContexts, IntraComms
  <2>5. PassesIrecv(p.tag)
    BY <2>4 DEF RevokedIsClean
  <2>6. p.tag = m.tag /\ m.tag.base \in FTTags /\ m.tag # ANY_TAG
    BY <2>5 DEF PassesIrecv, Accepts
  <2>7. m.tag.coll = FALSE
    BY <2>1 DEF Msgs, Tags
  <2> QED
    BY <2>2, <2>6, <2>7 DEF PassesQueue
<1> QED
  BY <1>1, <1>2, <1>3, QueueInvariance, RevocationCleans, PTL DEF Spec
=============================================================================
