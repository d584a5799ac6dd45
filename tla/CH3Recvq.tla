------------------------------ MODULE CH3Recvq ------------------------------
(***************************************************************************)
(* The two receive queues of a process (src/mpid/ch3/src/ch3u_recvq.c):    *)
(* receives that wait for a message and messages that wait for a receive,  *)
(* with wild cards, the error bits of tags, cancellation, the failure of   *)
(* processes and the revocation of communicators.                          *)
(*                                                                         *)
(* The code appends requests at the tails of two linked lists and removes  *)
(* them anywhere.  A list is modelled as the set of its requests, each     *)
(* with the number it got when it was appended; the list is in the order   *)
(* of these numbers.  Every operation runs in one critical section, so it  *)
(* is one step.                                                            *)
(***************************************************************************)
EXTENDS Naturals

CONSTANTS Ranks,            \* the ranks messages come from
          BaseTags,         \* tags without the bits that MPICH adds
          FTTags,           \* MPIR_AGREE_TAG and MPIR_SHRINK_TAG
          Tagged,           \* may a tag have MPIR_Process.tagged_coll_mask?
          Comms,            \* the communicators of this process
          Kinds,            \* the contexts of a communicator
          context_id,       \* [Comms -> ids], added to what a process sends
          recvcontext_id,   \* [Comms -> ids], what its receives match
          ErrorBits,        \* combinations of error bits that tags may have
          Handles,          \* request handles of the senders
          ANY_SOURCE, ANY_TAG,
          MaxRecvs, MaxMsgs \* bounds: receives posted, messages arriving

ASSUME WildAssumption == /\ ANY_SOURCE \notin Ranks
                         /\ ANY_TAG \notin [base : BaseTags, coll : Tagged]
ASSUME CommAssumption == DOMAIN recvcontext_id = Comms
ASSUME ErrorBitsAssumption ==
         {} \in ErrorBits /\ ErrorBits \subseteq SUBSET {"error", "proc_failure"}
ASSUME BoundAssumption == MaxRecvs \in Nat /\ MaxMsgs \in Nat

VARIABLES posted,           \* recvq_posted_head: receives without a message
          unexpected,       \* recvq_unexpected_head: messages without a receive
          revoked,          \* communicators with comm->revoked
          moribund,         \* ranks whose VC is MPIDI_VC_STATE_MORIBUND
          nrecv, nmsg,      \* receives posted and messages arrived so far
          matched,          \* history: which receive got which message
          dropped           \* history: messages thrown away on arrival

vars == <<posted, unexpected, revoked, moribund, nrecv, nmsg, matched, dropped>>

Tags == [base : BaseTags, coll : Tagged]
ContextIds == {context_id[c] : c \in Comms} \cup {recvcontext_id[c] : c \in Comms}
Contexts == [id : ContextIds, kind : Kinds]

Recvs == [seq : Nat, rank : Ranks \cup {ANY_SOURCE}, tag : Tags \cup {ANY_TAG},
          ctx : Contexts, comm : Comms]
Msgs == [seq : Nat, rank : Ranks, tag : Tags, errs : ErrorBits,
         ctx : Contexts, sreq : Handles]

-----------------------------------------------------------------------------
\* Does search criterion or posted receive p accept the envelope of message m?
\* The searches of the unexpected queue mask the error bits of m out.
MATCH_WITH_LEFT_MASK(m, p) ==
  /\ p.ctx = m.ctx
  /\ p.rank \in {m.rank, ANY_SOURCE}
  /\ p.tag \in {m.tag, ANY_TAG}

\* The search of the posted queue uses the mask of the receive, which has the
\* error bits set unless the tag is MPI_ANY_TAG.
MATCH_WITH_LEFT_RIGHT_MASK(p, m) ==
  /\ MATCH_WITH_LEFT_MASK(m, p)
  /\ p.tag = ANY_TAG \/ m.errs = {}

IsAny(r, q, S) == r \in q \cap S                                      \* mutant
\* r is the first, or the last, request of list q that is in S.
IsFirst(r, q, S) == r \in q \cap S /\ \A s \in q \cap S : r.seq <= s.seq
IsLast(r, q, S) == r \in q \cap S /\ \A s \in q \cap S : s.seq <= r.seq

\* The unexpected messages that receive p accepts, and the posted receives that
\* accept message m once its error bits are cleared.
MatchingMsgs(p) == {u \in unexpected : MATCH_WITH_LEFT_MASK(u, p)}
MatchingRecvsErrs(m) == {p \in posted : MATCH_WITH_LEFT_RIGHT_MASK(p, m)} \* mutant
MatchingRecvs(m) ==
  {p \in posted : MATCH_WITH_LEFT_RIGHT_MASK(p, [m EXCEPT !.errs = {}])}

\* Is the tag one that revocation lets through?  MPID_Irecv takes the tagged
\* collective bit away before it compares, the receive queue does not.
PassesIrecv(tag) == tag # ANY_TAG /\ tag.base \in FTTags
PassesQueueNot(tag) == FALSE                                         \* mutant
PassesQueue(tag) == tag # ANY_TAG /\ tag.base \in FTTags /\ ~tag.coll

Init == /\ posted = {} /\ unexpected = {}
        /\ revoked = {} /\ moribund = {}
        /\ nrecv = 0 /\ nmsg = 0
        /\ matched = {} /\ dropped = {}

-----------------------------------------------------------------------------
\* Receive p leaves with unexpected message u.
TakeUnexpected(p, u) ==
  /\ unexpected' = unexpected \ {u}
  /\ matched' = matched \cup {[recv |-> p, msg |-> u]}
  /\ UNCHANGED posted

AppendPosted(p) ==
  /\ posted' = posted \cup {p}
  /\ UNCHANGED <<unexpected, matched>>

FDU_or_AEPUnchecked(p) ==                                            \* mutant
  \/ \E u \in unexpected : /\ IsFirst(u, unexpected, MatchingMsgs(p))
                           /\ TakeUnexpected(p, u)
  \/ MatchingMsgs(p) = {} /\ AppendPosted(p)

\* MPIDI_CH3U_Recvq_FDU_or_AEP: the first matching message, or a new posted
\* receive unless the sender's VC has failed.
FDU_or_AEP(p) ==
  \/ \E u \in unexpected : /\ IsFirst(u, unexpected, MatchingMsgs(p))
                           /\ TakeUnexpected(p, u)
  \/ /\ MatchingMsgs(p) = {}
     /\ p.rank \in moribund
     /\ UNCHANGED <<posted, unexpected, matched>>
  \/ /\ MatchingMsgs(p) = {}
     /\ p.rank \notin moribund
     /\ AppendPosted(p)

\* MPID_Irecv and MPID_Recv, which refuse most tags on a revoked communicator.
Irecv(comm, kind, rank, tag) ==
  LET p == [seq |-> nrecv + 1, rank |-> rank, tag |-> tag, comm |-> comm,
            ctx |-> [id |-> recvcontext_id[comm], kind |-> kind]]
  IN  /\ nrecv < MaxRecvs
      /\ comm \notin revoked \/ PassesIrecv(tag)
      /\ FDU_or_AEP(p)
      /\ nrecv' = nrecv + 1
      /\ UNCHANGED <<revoked, moribund, nmsg, dropped>>

\* MPID_Improbe with a match: MPIDI_CH3U_Recvq_FDU_matchonly takes the message
\* out of the queue for an MPI_Imrecv to come.
Improbe(comm, kind, rank, tag) ==
  LET p == [seq |-> nrecv + 1, rank |-> rank, tag |-> tag, comm |-> comm,
            ctx |-> [id |-> recvcontext_id[comm], kind |-> kind]]
  IN  /\ nrecv < MaxRecvs
      /\ comm \notin revoked
      /\ \E u \in unexpected : /\ IsFirst(u, unexpected, MatchingMsgs(p))
                               /\ TakeUnexpected(p, u)
      /\ nrecv' = nrecv + 1
      /\ UNCHANGED <<revoked, moribund, nmsg, dropped>>

\* MPID_Cancel_recv: MPIDI_CH3U_Recvq_DP finds the receive in the posted queue.
Cancel_recv(p) ==
  /\ posted' = posted \ {p}
  /\ UNCHANGED <<unexpected, revoked, moribund, nrecv, nmsg, matched, dropped>>

\* MPIDI_CH3I_Comm_find: the communicators with this context id.
Comm_find(ctx) == {c \in Comms : context_id[c] = ctx.id}

ThrowAwayNot(m) == FALSE                                             \* mutant
\* The communicator of the message is known to be revoked.
ThrowAway(m) == /\ Comm_find(m.ctx) \cap revoked # {}
                /\ ~PassesQueue(m.tag)

\* MPIDI_CH3U_Recvq_FDP_or_AEU, called when message m arrives: the first posted
\* receive that matches, or nothing if the communicator is revoked, or a new
\* request in the unexpected queue.
FDP_or_AEU(m) ==
  \/ \E p \in posted : /\ IsFirst(p, posted, MatchingRecvs(m))
                       /\ posted' = posted \ {p}
                       /\ matched' = matched \cup {[recv |-> p, msg |-> m]}
                       /\ UNCHANGED <<unexpected, dropped>>
  \/ /\ MatchingRecvs(m) = {}
     /\ ThrowAway(m)
     /\ dropped' = dropped \cup {m}
     /\ UNCHANGED <<posted, unexpected, matched>>
  \/ /\ MatchingRecvs(m) = {}
     /\ ~ThrowAway(m)
     /\ unexpected' = unexpected \cup {m}
     /\ UNCHANGED <<posted, matched, dropped>>

\* A message arrives: packet handlers for eager, ready, synchronous and
\* rendezvous sends and MPIDI_Isend_self.
Arrive(comm, kind, rank, tag, errs, sreq) ==
  /\ nmsg < MaxMsgs
  /\ FDP_or_AEU([seq |-> nmsg + 1, rank |-> rank, tag |-> tag, errs |-> errs,
                 ctx |-> [id |-> recvcontext_id[comm], kind |-> kind],
                 sreq |-> sreq])
  /\ nmsg' = nmsg + 1
  /\ UNCHANGED <<revoked, moribund, nrecv>>

\* MPIDI_CH3U_Recvq_FDU, for the request of a sender to cancel the message it
\* sent with handle sreq: the last one with this handle.
FDU(comm, kind, rank, tag, sreq) ==
  LET Same == {u \in unexpected : /\ u.sreq = sreq /\ u.rank = rank /\ u.tag = tag
                                  /\ u.ctx = [id |-> recvcontext_id[comm],
                                              kind |-> kind]}
  IN  \E u \in unexpected :
        /\ IsLast(u, unexpected, Same)
        /\ unexpected' = unexpected \ {u}
        /\ UNCHANGED <<posted, revoked, moribund, nrecv, nmsg, matched, dropped>>

\* MPIDI_CH3U_Clean_recvq: requests of the communicator's contexts.  On the
\* point-to-point context they all go, on the others those with the tags of
\* agreement and shrinking stay.
Cleaned(comm, q) ==
  {r \in q : /\ r.ctx.id = recvcontext_id[comm]
             /\ r.ctx.kind = "pt2pt" \/ ~PassesQueue(r.tag)}

\* MPID_Comm_revoke, called by the user or for a packet of another process.
Comm_revoke(comm) ==
  /\ comm \notin revoked
  /\ revoked' = revoked \cup {comm}
  /\ posted' = posted \ Cleaned(comm, posted)
  /\ unexpected' = unexpected \ Cleaned(comm, unexpected)
  /\ UNCHANGED <<moribund, nrecv, nmsg, matched, dropped>>

\* The VC to rank fails: MPIDI_CH3U_Complete_posted_with_error completes the
\* receives that name this rank.
Complete_posted_with_error(rank) ==
  LET S == {p \in posted : p.rank = rank}
  IN  /\ rank \notin moribund
      /\ moribund' = moribund \cup {rank}
      /\ posted' = posted \ S
      /\ UNCHANGED <<unexpected, revoked, nrecv, nmsg, matched, dropped>>

Next ==
  \/ \E c \in Comms, k \in Kinds, r \in Ranks \cup {ANY_SOURCE},
        t \in Tags \cup {ANY_TAG} : Irecv(c, k, r, t) \/ Improbe(c, k, r, t)
  \/ \E p \in posted : Cancel_recv(p)
  \/ \E c \in Comms, k \in Kinds, r \in Ranks, t \in Tags, s \in Handles :
        \/ FDU(c, k, r, t, s)
        \/ \E e \in ErrorBits : Arrive(c, k, r, t, e, s)
  \/ \E c \in Comms : Comm_revoke(c)
  \/ \E r \in Ranks : Complete_posted_with_error(r)

Spec == Init /\ [][Next]_vars

-----------------------------------------------------------------------------
\* The variables keep their types, and the requests of a queue their numbers.
TypeOK == /\ posted \subseteq Recvs /\ unexpected \subseteq Msgs
          /\ revoked \subseteq Comms /\ moribund \subseteq Ranks
          /\ nrecv \in Nat /\ nmsg \in Nat
          /\ matched \subseteq [recv : Recvs, msg : Msgs]
          /\ dropped \subseteq Msgs

\* What MPI says of the envelope of a message and a receive: same context, the
\* source and the tag equal or wild.  Error bits are not part of it.
Accepts(p, m) == /\ p.ctx = m.ctx
                 /\ p.rank = m.rank \/ p.rank = ANY_SOURCE
                 /\ p.tag = m.tag \/ p.tag = ANY_TAG

\* No receive waits in the posted queue for a message that waits in the
\* unexpected queue, though the two are searched with different masks and
\* by different callers.
NoMissedMatch == \A p \in posted, u \in unexpected : ~Accepts(p, u)

\* Messages do not overtake: a receive never gets a message when an earlier
\* one that it accepts goes to a receive posted after it.
NonOvertaking ==
  \A a \in matched, b \in matched :
     a.recv.seq < b.recv.seq /\ b.msg.seq < a.msg.seq => ~Accepts(a.recv, b.msg)

\* No receive waits for a process that is known to have failed, whatever the
\* order in which the receive was posted and the failure was noticed.
FailedNotAwaited == \A p \in posted : p.rank \notin moribund

\* A revoked communicator keeps nothing in the queues but the messages and the
\* receives of agreement and shrinking.
RevokedIsClean ==
  \A c \in revoked :
     /\ \A p \in posted : p.comm = c => PassesIrecv(p.tag)
     /\ \A u \in unexpected : u.ctx.id = recvcontext_id[c] => u.tag.base \in FTTags

\* A message that was thrown away is one that no receive can be waiting for:
\* "just throw this request away since it won't be used anyway".
DroppedIsUnused == \A p \in posted, m \in dropped : ~Accepts(p, m)
=============================================================================
