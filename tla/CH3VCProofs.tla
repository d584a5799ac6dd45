---------------------------- MODULE CH3VCProofs ----------------------------
(***************************************************************************)
(* Proofs about the close protocol of CH3VC for every number of processes, *)
(* every set of processes that may die and every set of processes whose    *)
(* sends may be queued.                                                    *)
(***************************************************************************)
EXTENDS CH3VC, FiniteSetTheorems, TLAPS

\* The states in which two live processes p and q and the packets between
\* them can be: s is p's side of the VC, t is q's, a and b are the packets
\* from p to q and from q to p.
Over == {"CLOSED", "INACTIVE", "INACTIVE_CLOSED"}

None(a) == Len(a) = 0
One(a, x) == Len(a) = 1 /\ a[1] = x
Two(a, x, y) == Len(a) = 2 /\ a[1] = x /\ a[2] = y

HalfPair(s, t, a, b) ==
  \/ s = "ACTIVE" /\ t = "ACTIVE" /\ None(a) /\ None(b)
  \/ s = "LOCAL_CLOSE" /\ t = "ACTIVE" /\ One(a, "FALSE") /\ None(b)
  \/ s = "LOCAL_CLOSE" /\ t = "REMOTE_CLOSE" /\ None(a) /\ None(b)
  \/ s = "LOCAL_CLOSE" /\ t = "CLOSE_ACKED" /\ None(a) /\ One(b, "TRUE")
  \/ s = "LOCAL_CLOSE" /\ t = "LOCAL_CLOSE" /\ One(a, "FALSE") /\ One(b, "FALSE")
  \/ s = "CLOSE_ACKED" /\ t = "LOCAL_CLOSE" /\ Two(a, "FALSE", "TRUE") /\ None(b)
  \/ s = "CLOSE_ACKED" /\ t = "CLOSE_ACKED" /\ One(a, "TRUE") /\ One(b, "TRUE")
  \/ s \in Over /\ t = "CLOSE_ACKED" /\ One(a, "TRUE") /\ None(b)
  \/ s \in Over /\ t \in Over /\ None(a) /\ None(b)

Pair(s, t, a, b) == HalfPair(s, t, a, b) \/ HalfPair(t, s, b, a)

PairInv ==
  \A p, q \in Procs :
    (p # q /\ p \notin Failed /\ q \notin Failed)
      => Pair(vc[p][q], vc[q][p], wire[p][q], wire[q][p])

\* Only finitely many sends are queued.
ShmqFinite == \A p \in Procs : IsFiniteSet(shmq[p])

\* Only dead processes are published, noticed and terminated.
DeadInv ==
  /\ dead \subseteq Failed
  /\ \A p \in Procs : known[p] \subseteq dead /\ todo[p] \subseteq dead

\* A VC to a live process waits at most once in the termination queue, and is
\* CLOSED while it waits.
TermInv ==
  \A p \in Procs : \A i \in 1 .. Len(termq[p]) :
    \/ termq[p][i].vc \in Failed
    \/ /\ vc[p][termq[p][i].vc] = "CLOSED"
       /\ \A j \in 1 .. Len(termq[p]) :
            termq[p][j].vc = termq[p][i].vc => j = i

\* The types and the counter depend on each other: a counter that is to be
\* decremented is positive because it counts something.
CountInv == TypeOK /\ OutstandingCount /\ ShmqFinite

IInv == /\ CountInv
        /\ DeadInv
        /\ TermInv
        /\ PairInv
        /\ FailureAccuracy
        /\ AssertOnlyAfterFailure

-----------------------------------------------------------------------------
(* Sequences and remainders.                                               *)

LEMMA HeadTailType ==
  ASSUME NEW S, NEW s \in Seq(S), s # <<>>
  PROVE  /\ Head(s) \in S /\ Tail(s) \in Seq(S)
         /\ Head(s) = s[1] /\ 1 \in 1 .. Len(s)
         /\ Len(Tail(s)) = Len(s) - 1
         /\ \A i \in 1 .. Len(Tail(s)) :
              i + 1 \in 1 .. Len(s) /\ Tail(s)[i] = s[i + 1]
  OBVIOUS

LEMMA ElementType ==
  ASSUME NEW S, NEW s \in Seq(S), NEW i \in 1 .. Len(s)
  PROVE  s[i] \in S
  OBVIOUS

LEMMA AppendType ==
  ASSUME NEW S, NEW s \in Seq(S), NEW x \in S
  PROVE  /\ Append(s, x) \in Seq(S)
         /\ Len(Append(s, x)) = Len(s) + 1
         /\ \A i \in 1 .. Len(s) : Append(s, x)[i] = s[i]
         /\ Append(s, x)[Len(s) + 1] = x
  OBVIOUS

LEMMA ModRange ==
  ASSUME NEW x \in Nat
  PROVE  x % N \in Procs
  BY NAssumption DEF Procs

-----------------------------------------------------------------------------
(* Counting.                                                               *)

Initiated(f) == {q \in Procs : f[q] \in CloseInitiated}

\* The effect of one VC's change of state on the number of closing VCs.
LEMMA CountChange ==
  ASSUME NEW f \in [Procs -> VCState], NEW q \in Procs, NEW s \in VCState
  PROVE  LET g == [f EXCEPT ![q] = s]
             c == Cardinality(Initiated(f))
             d == Cardinality(Initiated(g))
         IN  /\ c \in Nat /\ d \in Nat
             /\ (f[q] \in CloseInitiated <=> s \in CloseInitiated) => d = c
             /\ f[q] \notin CloseInitiated /\ s \in CloseInitiated => d = c + 1
             /\ f[q] \in CloseInitiated /\ s \notin CloseInitiated
                  => c \in Nat \ {0} /\ d = c - 1
  <1> DEFINE g == [f EXCEPT ![q] = s]
  <1>1. IsFiniteSet(Procs)
    BY FS_Interval, NAssumption DEF Procs
  <1>2. IsFiniteSet(Initiated(f)) /\ IsFiniteSet(Initiated(g))
    BY <1>1, FS_Subset DEF Initiated
  <1>3. Cardinality(Initiated(f)) \in Nat /\ Cardinality(Initiated(g)) \in Nat
    BY <1>2, FS_CardinalityType
  <1>4. CASE (f[q] \in CloseInitiated <=> s \in CloseInitiated)
    <2>1. Initiated(g) = Initiated(f)
      BY <1>4 DEF Initiated
    <2> QED BY <1>3, <1>4, <2>1, Zenon
  <1>5. CASE f[q] \notin CloseInitiated /\ s \in CloseInitiated
    <2>1. Initiated(g) = Initiated(f) \cup {q} /\ q \notin Initiated(f)
      BY <1>5 DEF Initiated
    <2> QED BY <1>2, <1>3, <1>5, <2>1, FS_AddElement
  <1>6. CASE f[q] \in CloseInitiated /\ s \notin CloseInitiated
    <2>1. Initiated(g) = Initiated(f) \ {q} /\ q \in Initiated(f)
      BY <1>6 DEF Initiated
    <2>2. Cardinality(Initiated(g)) = Cardinality(Initiated(f)) - 1
      BY <1>2, <2>1, FS_RemoveElement
    <2> QED BY <1>3, <1>6, <2>1, <2>2
  <1> QED BY <1>4, <1>5, <1>6

Counts(v, o) == \A p \in Procs : o[p] = Cardinality(Initiated(v[p]))

\* What a step adds to the counter of closing VCs when a VC goes from s to t.
Corrected(o, s, t) ==
  IF s \in CloseInitiated
  THEN IF t \in CloseInitiated THEN o ELSE o - 1
  ELSE IF t \in CloseInitiated THEN o + 1 ELSE o

\* A step that changes one VC of p and corrects the counter accordingly.
LEMMA CountStep ==
  ASSUME NEW v \in [Procs -> [Procs -> VCState]], NEW o \in [Procs -> Nat],
         Counts(v, o),
         NEW p \in Procs, NEW q \in Procs, NEW s \in VCState,
         NEW o2, o2 = [o EXCEPT ![p] = Corrected(o[p], v[p][q], s)],
         NEW v2, v2 = [v EXCEPT ![p][q] = s]
  PROVE  /\ v2 \in [Procs -> [Procs -> VCState]]
         /\ o2 \in [Procs -> Nat]
         /\ Counts(v2, o2)
  <1>1. v2 \in [Procs -> [Procs -> VCState]]
    OBVIOUS
  <1>2. v[p] \in [Procs -> VCState] /\ v2[p] = [v[p] EXCEPT ![q] = s]
    OBVIOUS
  <1> DEFINE c == Cardinality(Initiated(v[p]))
             d == Cardinality(Initiated([v[p] EXCEPT ![q] = s]))
  <1>4. /\ c \in Nat /\ d \in Nat
        /\ (v[p][q] \in CloseInitiated <=> s \in CloseInitiated) => d = c
        /\ v[p][q] \notin CloseInitiated /\ s \in CloseInitiated => d = c + 1
        /\ v[p][q] \in CloseInitiated /\ s \notin CloseInitiated
             => c \in Nat \ {0} /\ d = c - 1
    BY <1>2, CountChange
  <1>5. c = o[p]
    BY DEF Counts
  <1>6. o2[p] = d /\ o2[p] \in Nat
    <2> HIDE DEF c, d
    <2> QED BY <1>4, <1>5 DEF Corrected
  <1>7. o2 \in [Procs -> Nat]
    BY <1>6
  <1>8. \A r \in Procs : o2[r] = Cardinality(Initiated(v2[r]))
    BY <1>2, <1>6 DEF Counts
  <1> QED BY <1>1, <1>7, <1>8 DEF Counts

LEMMA VCStep ==
  ASSUME TypeOK, OutstandingCount, NEW p \in Procs, NEW q \in Procs,
         \E s \in VCState :
           /\ vc' = [vc EXCEPT ![p][q] = s]
           /\ outstanding' = [outstanding EXCEPT ![p] =
                                Corrected(outstanding[p], vc[p][q], s)]
  PROVE  /\ vc' \in [Procs -> [Procs -> VCState]]
         /\ outstanding' \in [Procs -> Nat]
         /\ OutstandingCount'
  <1>1. vc \in [Procs -> [Procs -> VCState]] /\ outstanding \in [Procs -> Nat]
    BY DEF TypeOK
  <1>2. Counts(vc, outstanding)
    BY DEF OutstandingCount, Counts, Initiated
  <1>3. PICK s \in VCState :
           /\ vc' = [vc EXCEPT ![p][q] = s]
           /\ outstanding' = [outstanding EXCEPT ![p] =
                                Corrected(outstanding[p], vc[p][q], s)]
    OBVIOUS
  <1>4. /\ vc' \in [Procs -> [Procs -> VCState]]
        /\ outstanding' \in [Procs -> Nat]
        /\ Counts(vc', outstanding')
    <2> DEFINE v2 == [vc EXCEPT ![p][q] = s]
               o2 == [outstanding EXCEPT ![p] =
                        Corrected(outstanding[p], vc[p][q], s)]
    <2>1. /\ v2 \in [Procs -> [Procs -> VCState]]
          /\ o2 \in [Procs -> Nat]
          /\ Counts(v2, o2)
      BY <1>1, <1>2, CountStep, Zenon
    <2>2. vc' = v2 /\ outstanding' = o2
      BY <1>3
    <2> HIDE DEF v2, o2
    <2> QED BY <2>1, <2>2
  <1> QED BY <1>4 DEF OutstandingCount, Counts, Initiated

-----------------------------------------------------------------------------
(* Types and the counter.                                                  *)

\* The queued packets to one process are finitely many.
LEMMA QueuedNat ==
  ASSUME ShmqFinite, NEW p \in Procs, NEW q \in Procs
  PROVE  Queued(p, q) \in Nat
  <1>1. IsFiniteSet({r \in shmq[p] : r.dst = q})
    BY FS_Subset DEF ShmqFinite
  <1> QED BY <1>1, FS_CardinalityType DEF Queued

\* What is in cells is a prefix of what was sent.
LEMMA InCellsType ==
  ASSUME TypeOK, ShmqFinite, NEW p \in Procs, NEW q \in Procs
  PROVE  InCells(p, q) \in Seq(Ack)
  <1>1. wire[p][q] \in Seq(Ack) /\ Queued(p, q) \in Nat
    BY QueuedNat DEF TypeOK
  <1> QED BY <1>1 DEF InCells

\* Starting a packet keeps the send queue well-typed and finite.
LEMMA StartStep ==
  ASSUME TypeOK, ShmqFinite, NEW p \in Procs, NEW q \in Procs, Start(p, q)
  PROVE  /\ shmq' \in [Procs -> SUBSET [dst : Procs, req : Nat]]
         /\ started' \in [Procs -> Nat]
         /\ ShmqFinite'
  <1>1. PICK sq \in iStartMsg(p, q) : shmq' = [shmq EXCEPT ![p] = sq]
    BY DEF Start
  <1>2. sq \in SUBSET [dst : Procs, req : Nat]
    BY DEF iStartMsg, TypeOK
  <1>3. IsFiniteSet(sq)
    <2>1. CASE sq = {}
      BY <2>1, FS_EmptySet
    <2>2. CASE sq = shmq[p] \cup {[dst |-> q, req |-> started[p]]}
      BY <2>2, FS_AddElement DEF ShmqFinite
    <2> QED BY <2>1, <2>2 DEF iStartMsg
  <1>4. shmq' \in [Procs -> SUBSET [dst : Procs, req : Nat]]
    BY <1>1, <1>2 DEF TypeOK
  <1>5. started' \in [Procs -> Nat]
    BY DEF Start, TypeOK
  <1>6. \A r \in Procs : shmq'[r] = IF r = p THEN sq ELSE shmq[r]
    BY <1>1 DEF TypeOK
  <1>7. ShmqFinite'
    BY <1>3, <1>6 DEF ShmqFinite
  <1> QED BY <1>4, <1>5, <1>7

LEMMA AckType == "FALSE" \in Ack /\ "TRUE" \in Ack
  BY DEF Ack

\* A step of the handler for CLOSE packets preserves the types and the counter.
LEMMA CloseCount ==
  ASSUME CountInv, NEW p \in Procs, NEW q \in Procs, PktHandler_Close(p, q)
  PROVE  CountInv'
  <1> USE DEF CountInv
  <1>0. /\ wire[q][p] \in Seq(Ack) /\ wire[p][q] \in Seq(Ack)
        /\ wire[q][p] # <<>>
    <2>1. wire[q][p] \in Seq(Ack) /\ Queued(q, p) \in Nat
      BY QueuedNat DEF TypeOK
    <2>2. wire[q][p] # <<>>
      BY <2>1 DEF PktHandler_Close, Receivable
    <2> QED BY <2>1, <2>2 DEF TypeOK
  <1>1. /\ Tail(wire[q][p]) \in Seq(Ack)
        /\ Append(wire[p][q], "TRUE") \in Seq(Ack)
    BY <1>0, AckType
  <1>2. wire' \in [Procs -> [Procs -> Seq(Ack)]]
    <2>1. CASE wire' = [wire EXCEPT ![q][p] = Tail(@)]
      BY <1>1, <2>1 DEF TypeOK
    <2>2. CASE wire' = [wire EXCEPT ![q][p] = Tail(@), ![p][q] = Append(@, "TRUE")]
      BY <1>1, <2>2 DEF TypeOK, PktHandler_Close
    <2>3. CASE UNCHANGED wire
      BY <2>3 DEF TypeOK
    <2> QED BY <2>1, <2>2, <2>3
          DEF PktHandler_Close, CloseRequest, CloseAck, CloseAssertFails
  <1>3. /\ shmq' \in [Procs -> SUBSET [dst : Procs, req : Nat]]
        /\ started' \in [Procs -> Nat]
        /\ ShmqFinite'
    <2>1. CASE Start(p, q)
      BY <2>1, StartStep
    <2>2. CASE UNCHANGED <<shmq, started>>
      BY <2>2 DEF TypeOK, ShmqFinite
    <2> QED BY <2>1, <2>2
          DEF PktHandler_Close, CloseRequest, CloseAck, CloseAssertFails
  <1>4. termq' \in [Procs -> Seq([vc : Procs, req : Nat])]
    <2>1. CASE UNCHANGED termq
      BY <2>1 DEF TypeOK
    <2>2. CASE \E r \in Newest(shmq'[p]) :
                 termq' = [termq EXCEPT ![p] = Append(@, [vc |-> q, req |-> r.req])]
      <3>1. PICK r \in Newest(shmq'[p]) :
                 termq' = [termq EXCEPT ![p] = Append(@, [vc |-> q, req |-> r.req])]
        BY <2>2
      <3>2. r \in shmq'[p] /\ shmq'[p] \subseteq [dst : Procs, req : Nat]
        BY <1>3 DEF Newest
      <3>3. [vc |-> q, req |-> r.req] \in [vc : Procs, req : Nat]
        BY <3>2
      <3>4. termq[p] \in Seq([vc : Procs, req : Nat])
        BY DEF TypeOK
      <3>5. Append(termq[p], [vc |-> q, req |-> r.req])
              \in Seq([vc : Procs, req : Nat])
        BY <3>3, <3>4
      <3> QED BY <3>1, <3>5 DEF TypeOK
    <2> QED BY <2>1, <2>2
          DEF PktHandler_Close, CloseRequest, CloseAck, CloseAssertFails
  <1>5. /\ vc' \in [Procs -> [Procs -> VCState]]
        /\ outstanding' \in [Procs -> Nat]
        /\ OutstandingCount'
    <2>1. CASE UNCHANGED <<vc, outstanding>>
      BY <1>0, <2>1 DEF TypeOK, OutstandingCount
    <2>3. CASE CloseRequest(p, q)
      <3>1. outstanding' = [outstanding EXCEPT ![p] = outstanding[p]]
        BY <2>3 DEF CloseRequest, TypeOK
      <3> QED BY VCStep, <2>3, <3>1
            DEF CloseRequest, VCState, Corrected, CloseInitiated, SetActive
    <2>4. CASE CloseAck(p, q)
      <3>1. vc[p][q] \in CloseInitiated
        BY <2>4 DEF CloseAck, CloseInitiated
      <3>2. CASE /\ vc' = [vc EXCEPT ![p][q] = AfterTerminated("CLOSED")]
                 /\ outstanding' = [outstanding EXCEPT ![p] = @ - 1]
        BY VCStep, <3>1, <3>2
          DEF VCState, Corrected, CloseInitiated, AfterTerminated
      <3>3. CASE vc' = [vc EXCEPT ![p][q] = "CLOSED"] /\ UNCHANGED outstanding
        <4>1. outstanding' = [outstanding EXCEPT ![p] = outstanding[p]]
          BY <3>3 DEF TypeOK
        <4> QED BY VCStep, <3>1, <3>3, <4>1 DEF VCState, Corrected, CloseInitiated
      <3> QED BY <2>4, <3>2, <3>3 DEF CloseAck
    <2> QED BY <2>1, <2>3, <2>4 DEF PktHandler_Close, CloseAssertFails
  <1>6. /\ aborted' \in BOOLEAN
        /\ UNCHANGED <<failedVCs, phase, n, todo, checking, known, dead>>
    BY DEF PktHandler_Close, CloseRequest, CloseAck, CloseAssertFails, TypeOK
  <1> QED BY <1>2, <1>3, <1>4, <1>5, <1>6 DEF TypeOK

\* MPIDI_CH3U_Handle_connection preserves the types and the counter.
LEMMA HandleCount ==
  ASSUME TypeOK, OutstandingCount, NEW p \in Procs, NEW q \in Procs,
         Handle_connection(p, q)
  PROVE  /\ vc' \in [Procs -> [Procs -> VCState]]
         /\ outstanding' \in [Procs -> Nat]
         /\ failedVCs' \in [Procs -> Nat]
         /\ OutstandingCount'
  <1>1. AfterTerminated(vc[p][q]) \in VCState \ CloseInitiated
    BY DEF AfterTerminated, VCState, CloseInitiated
  <1>2. vc' = [vc EXCEPT ![p][q] = AfterTerminated(vc[p][q])]
    BY DEF Handle_connection
  <1>3. outstanding' = [outstanding EXCEPT ![p] =
          Corrected(outstanding[p], vc[p][q], AfterTerminated(vc[p][q]))]
    BY <1>1 DEF Handle_connection, Corrected
  <1>4. failedVCs' \in [Procs -> Nat]
    BY SMTT(40) DEF Handle_connection, TypeOK
  <1> QED BY <1>1, <1>2, <1>3, <1>4, VCStep

\* A step of the loop that sends the close requests does too.
LEMMA SendCount ==
  ASSUME CountInv, NEW p \in Procs, PG_Close_VCs(p)
  PROVE  CountInv'
  <1> USE DEF CountInv
  <1> DEFINE q == ClosePeer(p, n[p])
  <1>0. n[p] \in 0 .. N /\ n[p] < N /\ q \in Procs
    <2>1. n[p] \in 0 .. N /\ n[p] < N
      BY DEF PG_Close_VCs, TypeOK
    <2>2. p + 1 \in Nat /\ n[p] \in Nat
      BY <2>1, NAssumption DEF Procs
    <2>3. (p + 1) % N \in Procs
      BY <2>2, ModRange
    <2>4. n[p] + ((p + 1) % N) \in Nat
      BY <2>2, <2>3, NAssumption DEF Procs
    <2>5. q \in Procs
      BY <2>4, ModRange DEF ClosePeer
    <2> QED BY <2>1, <2>5
  <1>1. /\ UNCHANGED <<termq, failedVCs, todo, checking, known, dead, aborted>>
        /\ n' \in [Procs -> 0 .. N]
        /\ phase' \in [Procs -> Phase]
    <2>1. n[p] + 1 \in 0 .. N
      BY <1>0, NAssumption
    <2>2. n' \in [Procs -> 0 .. N]
      BY <2>1 DEF PG_Close_VCs, TypeOK
    <2> QED BY <2>2 DEF PG_Close_VCs, TypeOK, Phase
  <1> HIDE DEF q
  <1>2. CASE VC_SendClose(p, q)
    <2>1. wire' \in [Procs -> [Procs -> Seq(Ack)]]
      BY <1>0, <1>2, SMTT(40) DEF VC_SendClose, TypeOK, Ack
    <2>2. /\ shmq' \in [Procs -> SUBSET [dst : Procs, req : Nat]]
          /\ started' \in [Procs -> Nat]
          /\ ShmqFinite'
      BY <1>0, <1>2, StartStep DEF VC_SendClose
    <2>3. /\ vc' \in [Procs -> [Procs -> VCState]]
          /\ outstanding' \in [Procs -> Nat]
          /\ OutstandingCount'
      BY <1>0, <1>2, VCStep
        DEF VC_SendClose, VCState, CloseInitiated, Corrected
    <2> QED BY <1>1, <2>1, <2>2, <2>3 DEF TypeOK
  <1>3. CASE VC_SkipClose(p, q)
    <2>1. outstanding' = [outstanding EXCEPT ![p] = outstanding[p]]
      BY <1>3 DEF VC_SkipClose, TypeOK
    <2> DEFINE s == vc'[p][q]
    <2>2. /\ s \in VCState /\ vc' = [vc EXCEPT ![p][q] = s]
          /\ s = vc[p][q] \/ (vc[p][q] = "INACTIVE" /\ s = "INACTIVE_CLOSED")
      <3>1. vc[p] \in [Procs -> VCState] /\ vc[p][q] \in VCState
        BY <1>0 DEF TypeOK
      <3>2. CASE vc[p][q] = "INACTIVE" /\ p # q
        <4>1. vc' = [vc EXCEPT ![p][q] = "INACTIVE_CLOSED"]
          BY <1>3, <3>2 DEF VC_SkipClose
        <4>2. vc'[p][q] = "INACTIVE_CLOSED"
          BY <1>0, <4>1 DEF TypeOK
        <4> QED BY <3>2, <4>1, <4>2 DEF VCState
      <3>3. CASE ~(vc[p][q] = "INACTIVE" /\ p # q)
        <4>1. vc' = [vc EXCEPT ![p][q] = vc[p][q]]
          BY <1>3, <3>3 DEF VC_SkipClose
        <4>2. vc'[p][q] = vc[p][q]
          BY <1>0, <4>1 DEF TypeOK
        <4> QED BY <3>1, <4>1, <4>2
      <3> QED BY <3>2, <3>3
    <2> HIDE DEF s
    <2>3. Corrected(outstanding[p], vc[p][q], s) = outstanding[p]
      BY <2>2 DEF Corrected, CloseInitiated
    <2>4. /\ vc' \in [Procs -> [Procs -> VCState]]
          /\ outstanding' \in [Procs -> Nat]
          /\ OutstandingCount'
      BY <1>0, <2>1, <2>2, <2>3, VCStep
    <2> QED BY <1>1, <1>3, <2>4 DEF VC_SkipClose, TypeOK, ShmqFinite
  <1> QED BY <1>2, <1>3 DEF PG_Close_VCs, q

\* The steps that terminate VCs do too.
LEMMA TerminateCount ==
  ASSUME CountInv, NEW p \in Procs,
         check_terminating_vcs(p) \/ terminate_failed_VCs(p)
  PROVE  CountInv'
  <1> USE DEF CountInv
  <1>1. CASE check_terminating_vcs(p)
    <2>1. CASE /\ TermqHeadComplete(p)
               /\ termq' = [termq EXCEPT ![p] = Tail(@)]
               /\ Handle_connection(p, Head(termq[p]).vc)
               /\ UNCHANGED checking
      <3>1. termq[p] \in Seq([vc : Procs, req : Nat]) /\ termq[p] # <<>>
        BY <2>1 DEF TypeOK, TermqHeadComplete
      <3>2. /\ Head(termq[p]).vc \in Procs
            /\ Tail(termq[p]) \in Seq([vc : Procs, req : Nat])
        <4>1. /\ Head(termq[p]) \in [vc : Procs, req : Nat]
              /\ Tail(termq[p]) \in Seq([vc : Procs, req : Nat])
          BY <3>1, HeadTailType, Zenon
        <4> QED BY <4>1
      <3>3. termq' \in [Procs -> Seq([vc : Procs, req : Nat])]
        BY <2>1, <3>2 DEF TypeOK
      <3> QED BY <1>1, <2>1, <3>2, <3>3, HandleCount
            DEF check_terminating_vcs, TypeOK, ShmqFinite
    <2>2. CASE /\ checking' = [checking EXCEPT ![p] = FALSE]
               /\ UNCHANGED <<vc, termq, outstanding, failedVCs>>
      BY <1>1, <2>2
        DEF check_terminating_vcs, TypeOK, OutstandingCount, ShmqFinite
    <2> QED BY <1>1, <2>1, <2>2 DEF check_terminating_vcs
  <1>2. CASE terminate_failed_VCs(p)
    <2>1. PICK q \in todo[p] : /\ Connection_terminate(p, q)
                               /\ todo' = [todo EXCEPT ![p] = @ \ {q}]
      BY <1>2 DEF terminate_failed_VCs
    <2>2. q \in Procs /\ todo' \in [Procs -> SUBSET Procs]
      BY <2>1 DEF TypeOK
    <2>3. /\ wire' \in [Procs -> [Procs -> Seq(Ack)]]
          /\ shmq' \in [Procs -> SUBSET [dst : Procs, req : Nat]]
          /\ ShmqFinite'
      <3>1. CASE UNCHANGED <<wire, shmq>>
        BY <3>1 DEF TypeOK, ShmqFinite
      <3>2. CASE /\ wire' = [wire EXCEPT ![p][q] = InCells(p, q)]
                 /\ shmq' = [shmq EXCEPT ![p] = {r \in @ : r.dst # q}]
        <4>1. wire' \in [Procs -> [Procs -> Seq(Ack)]]
          BY <2>2, <3>2, InCellsType DEF TypeOK
        <4>2. shmq' \in [Procs -> SUBSET [dst : Procs, req : Nat]]
          BY <3>2 DEF TypeOK
        <4>3. \A r \in Procs : shmq'[r] \subseteq shmq[r]
          BY <3>2 DEF TypeOK
        <4>4. ShmqFinite'
          BY <4>3, FS_Subset DEF ShmqFinite
        <4> QED BY <4>1, <4>2, <4>4
      <3> QED BY <2>1, <3>1, <3>2 DEF Connection_terminate
    <2>4. termq' \in [Procs -> Seq([vc : Procs, req : Nat])]
      <3>1. CASE UNCHANGED termq
        BY <3>1 DEF TypeOK
      <3>2. CASE \E r \in Newest(shmq[p]) :
                   termq' = [termq EXCEPT ![p] = Append(@, [vc |-> q, req |-> r.req])]
        <4>1. PICK r \in Newest(shmq[p]) :
                   termq' = [termq EXCEPT ![p] = Append(@, [vc |-> q, req |-> r.req])]
          BY <3>2
        <4>2. [vc |-> q, req |-> r.req] \in [vc : Procs, req : Nat]
          BY <2>2 DEF Newest, TypeOK
        <4>3. Append(termq[p], [vc |-> q, req |-> r.req])
                \in Seq([vc : Procs, req : Nat])
          <5>1. termq[p] \in Seq([vc : Procs, req : Nat])
            BY DEF TypeOK
          <5> QED BY <4>2, <5>1, AppendType, Zenon
        <4> QED BY <4>1, <4>3 DEF TypeOK
      <3> QED BY <2>1, <3>1, <3>2 DEF Connection_terminate
    <2>5. /\ vc' \in [Procs -> [Procs -> VCState]]
          /\ outstanding' \in [Procs -> Nat]
          /\ failedVCs' \in [Procs -> Nat]
          /\ OutstandingCount'
      <3>1. CASE UNCHANGED <<vc, outstanding, failedVCs>>
        BY <3>1 DEF TypeOK, OutstandingCount
      <3>2. CASE Handle_connection(p, q)
        BY <2>2, <3>2, HandleCount
      <3> QED BY <2>1, <3>1, <3>2 DEF Connection_terminate
    <2> QED BY <1>2, <2>2, <2>3, <2>4, <2>5 DEF terminate_failed_VCs, TypeOK
  <1> QED BY <1>1, <1>2

\* Types and counter are preserved by every step.
LEMMA CountNext ==
  ASSUME CountInv, [Next]_vars
  PROVE  CountInv'
  <1> USE DEF CountInv
  <1>1. ASSUME NEW p \in Procs, Finalize(p) \/ VC_WaitForClose(p)
        PROVE  CountInv'
    <2>1. /\ UNCHANGED <<vc, wire, shmq, started, termq, outstanding,
                         failedVCs, n, todo, checking, known, dead, aborted>>
          /\ phase' \in [Procs -> Phase]
      BY <1>1 DEF Finalize, VC_WaitForClose, TypeOK, Phase
    <2> QED BY <2>1 DEF TypeOK, OutstandingCount, ShmqFinite
  <1>2. ASSUME NEW p \in Procs, Shm_send_progress(p)
        PROVE  CountInv'
    <2>1. PICK r \in shmq[p] : shmq' = [shmq EXCEPT ![p] = @ \ {r}]
      BY <1>2 DEF Shm_send_progress, Oldest
    <2>2. \A x \in Procs : shmq'[x] \subseteq shmq[x]
      BY <2>1 DEF TypeOK
    <2>3. ShmqFinite'
      BY <2>2, FS_Subset DEF ShmqFinite
    <2>4. shmq' \in [Procs -> SUBSET [dst : Procs, req : Nat]]
      BY <2>1 DEF TypeOK
    <2> QED BY <1>2, <2>3, <2>4, SMTT(40)
          DEF Shm_send_progress, TypeOK, OutstandingCount
  <1>3. ASSUME NEW p \in Procs, Fail(p)
        PROVE  CountInv'
    <2>1. wire' \in [Procs -> [Procs -> Seq(Ack)]]
      BY <1>3, InCellsType DEF Fail, TypeOK
    <2>2. ShmqFinite'
      <3>1. \A x \in Procs : shmq'[x] \subseteq shmq[x]
        BY <1>3 DEF Fail, TypeOK
      <3> QED BY <3>1, FS_Subset DEF ShmqFinite
    <2> QED BY <1>3, <2>1, <2>2 DEF Fail, TypeOK, OutstandingCount, Phase
  <1>4. ASSUME NEW p \in Procs,
               PMI_dead_processes(p) \/ Check_for_failed_procs(p)
        PROVE  CountInv'
    <2>1. /\ UNCHANGED <<vc, wire, shmq, started, termq, outstanding,
                         failedVCs, phase, n, checking, aborted>>
          /\ todo' \in [Procs -> SUBSET Procs]
          /\ known' \in [Procs -> SUBSET Procs]
          /\ dead' \in SUBSET Procs
      BY <1>4, ZenonT(60) DEF PMI_dead_processes, Check_for_failed_procs, TypeOK
    <2> QED BY <2>1 DEF TypeOK, OutstandingCount, ShmqFinite
  <1>5. CASE UNCHANGED vars
    BY <1>5 DEF vars, TypeOK, OutstandingCount, ShmqFinite
  <1> QED BY <1>1, <1>2, <1>3, <1>4, <1>5, CloseCount, SendCount,
             TerminateCount DEF Next, Step, Ended

-----------------------------------------------------------------------------
(* The two ends of a VC.                                                   *)

\* What sending a close request, or the acknowledgement of one that came
\* first, does to a pair.
LEMMA PairSend ==
  ASSUME NEW s, NEW t, NEW a \in Seq(Ack), NEW b \in Seq(Ack),
         Pair(s, t, a, b)
  PROVE  /\ s = "ACTIVE" => Pair("LOCAL_CLOSE", t, Append(a, "FALSE"), b)
         /\ s = "REMOTE_CLOSE" => Pair("CLOSE_ACKED", t, Append(a, "TRUE"), b)
  BY AckType DEF Pair, HalfPair, None, One, Two, Over

\* What handling a packet does to a pair.
LEMMA PairReceive ==
  ASSUME NEW s, NEW t, NEW a \in Seq(Ack), NEW b \in Seq(Ack),
         Pair(s, t, a, b), b # <<>>
  PROVE  /\ Head(b) = "FALSE" =>
              /\ s \in {"ACTIVE", "LOCAL_CLOSE"}
              /\ s = "ACTIVE" => Pair("REMOTE_CLOSE", t, a, Tail(b))
              /\ s = "LOCAL_CLOSE"
                   => Pair("CLOSE_ACKED", t, Append(a, "TRUE"), Tail(b))
         /\ Head(b) = "TRUE" =>
              /\ s \in {"LOCAL_CLOSE", "CLOSE_ACKED"}
              /\ \A o \in Over :
                   /\ s = "LOCAL_CLOSE" => Pair(o, t, Append(a, "TRUE"), Tail(b))
                   /\ s = "CLOSE_ACKED" => Pair(o, t, a, Tail(b))
  BY AckType DEF Pair, HalfPair, None, One, Two, Over

\* Closing is over on one side: it may be forgotten.
LEMMA PairOver ==
  ASSUME NEW s \in Over, NEW t, NEW a, NEW b, Pair(s, t, a, b), NEW o \in Over
  PROVE  Pair(o, t, a, b)
  BY DEF Pair, HalfPair, Over

\* A step that touches only p's end of its VC with q and the packets between
\* the two has to be examined for this pair only.
LEMMA PairFrame ==
  ASSUME PairInv, Failed \subseteq Failed', NEW p \in Procs, NEW q \in Procs,
         \A x, y \in Procs : x # p \/ y # q => vc'[x][y] = vc[x][y],
         \A x, y \in Procs : (x # p \/ y # q) /\ (x # q \/ y # p)
                               => wire'[x][y] = wire[x][y],
         p # q /\ p \notin Failed /\ q \notin Failed
           => Pair(vc'[p][q], vc[q][p], wire'[p][q], wire'[q][p])
  PROVE  PairInv'
  <1> SUFFICES ASSUME NEW x \in Procs, NEW y \in Procs,
                      x # y, x \notin Failed, y \notin Failed
               PROVE  Pair(vc'[x][y], vc'[y][x], wire'[x][y], wire'[y][x])
    BY DEF PairInv
  <1>1. CASE x = p /\ y = q
    BY <1>1
  <1>2. CASE x = q /\ y = p
    BY <1>2 DEF Pair
  <1>3. CASE (x # p \/ y # q) /\ (x # q \/ y # p)
    <2>1. Pair(vc[x][y], vc[y][x], wire[x][y], wire[y][x])
      BY DEF PairInv
    <2> QED BY <1>3, <2>1
  <1> QED BY <1>1, <1>2, <1>3

\* The dead stay dead.
LEMMA FailedGrows ==
  ASSUME TypeOK, [Next]_vars
  PROVE  Failed \subseteq Failed'
  <1> SUFFICES ASSUME NEW x \in Procs, phase[x] = "failed"
               PROVE  phase'[x] = "failed"
    BY DEF Failed
  <1>1. ASSUME NEW p \in Procs, PG_Close_VCs(p) PROVE phase'[x] = "failed"
    BY <1>1 DEF PG_Close_VCs, Ready, TypeOK
  <1>2. ASSUME NEW p \in Procs, Finalize(p) \/ VC_WaitForClose(p) \/ Fail(p)
        PROVE  phase'[x] = "failed"
    BY <1>2 DEF Finalize, VC_WaitForClose, Fail, Ready, TypeOK
  <1>3. CASE UNCHANGED phase
    BY <1>3
  <1> QED BY <1>1, <1>2, <1>3
        DEF Next, Step, Ended, vars, Shm_send_progress, check_terminating_vcs,
            Check_for_failed_procs, terminate_failed_VCs, PktHandler_Close,
            PMI_dead_processes

\* Only dead processes are ever published, noticed and terminated.
LEMMA DeadNext ==
  ASSUME TypeOK, DeadInv, [Next]_vars
  PROVE  DeadInv'
  <1>0. Failed \subseteq Failed'
    BY FailedGrows
  <1>1. ASSUME NEW p \in Procs, PMI_dead_processes(p)
        PROVE  DeadInv'
    BY <1>0, <1>1 DEF PMI_dead_processes, DeadInv
  <1>2. ASSUME NEW p \in Procs, Check_for_failed_procs(p)
        PROVE  DeadInv'
    BY <1>0, <1>2 DEF Check_for_failed_procs, DeadInv, TypeOK
  <1>3. ASSUME NEW p \in Procs, terminate_failed_VCs(p)
        PROVE  DeadInv'
    <2>1. UNCHANGED <<known, dead>>
      BY <1>3 DEF terminate_failed_VCs
    <2>2. \A x \in Procs : todo'[x] \subseteq todo[x]
      BY <1>3 DEF terminate_failed_VCs, TypeOK
    <2> QED BY <1>0, <2>1, <2>2 DEF DeadInv
  <1>4. CASE UNCHANGED <<todo, known, dead>>
    BY <1>0, <1>4 DEF DeadInv
  <1> QED BY <1>1, <1>2, <1>3, <1>4
        DEF Next, Step, Ended, vars, Finalize, PG_Close_VCs, VC_WaitForClose,
            Fail, Shm_send_progress, check_terminating_vcs, PktHandler_Close

\* Every step keeps the two ends of a VC between live processes in one of the
\* states that Pair lists.
LEMMA PairNext ==
  ASSUME IInv, [Next]_vars
  PROVE  PairInv'
  <1> USE DEF IInv, CountInv
  <1>0. Failed \subseteq Failed'
    BY FailedGrows
  <1>a. \A x, y \in Procs : /\ vc[x][y] \in VCState
                            /\ wire[x][y] \in Seq(Ack)
    BY DEF TypeOK
  <1>1. ASSUME NEW p \in Procs, PG_Close_VCs(p)
        PROVE  PairInv'
    <2> DEFINE q == ClosePeer(p, n[p])
    <2>1. q \in Procs
      <3>1. n[p] \in Nat /\ p + 1 \in Nat
        BY NAssumption DEF TypeOK, Procs
      <3>2. n[p] + ((p + 1) % N) \in Nat
        BY <3>1, ModRange, NAssumption DEF Procs
      <3> QED BY <3>2, ModRange DEF ClosePeer
    <2> HIDE DEF q
    <2>2. CASE p # q /\ VC_SendClose(p, q)
      <3>1. vc[p][q] \in {"ACTIVE", "REMOTE_CLOSE"}
        BY <2>2 DEF VC_SendClose
      <3>2. CASE vc[p][q] = "ACTIVE"
        <4>1. /\ vc' = [vc EXCEPT ![p][q] = "LOCAL_CLOSE"]
              /\ wire' = [wire EXCEPT ![p][q] = Append(wire[p][q], "FALSE")]
          BY <2>2, <3>2 DEF VC_SendClose
        <4>2. /\ vc'[p][q] = "LOCAL_CLOSE"
              /\ wire'[p][q] = Append(wire[p][q], "FALSE")
              /\ wire'[q][p] = wire[q][p]
              /\ \A x, y \in Procs : x # p \/ y # q => vc'[x][y] = vc[x][y]
              /\ \A x, y \in Procs : (x # p \/ y # q) /\ (x # q \/ y # p)
                    => wire'[x][y] = wire[x][y]
          BY <2>1, <2>2, <4>1 DEF TypeOK
        <4>3. p # q /\ p \notin Failed /\ q \notin Failed
                => Pair(vc[p][q], vc[q][p], wire[p][q], wire[q][p])
          BY <2>1 DEF PairInv
        <4>4. p # q /\ p \notin Failed /\ q \notin Failed
                => Pair(vc'[p][q], vc[q][p], wire'[p][q], wire'[q][p])
          BY <1>a, <2>1, <3>2, <4>2, <4>3, PairSend
        <4> QED BY <1>0, <2>1, <4>2, <4>4, PairFrame
      <3>3. CASE vc[p][q] = "REMOTE_CLOSE"
        <4>1. /\ vc' = [vc EXCEPT ![p][q] = "CLOSE_ACKED"]
              /\ wire' = [wire EXCEPT ![p][q] = Append(wire[p][q], "TRUE")]
          BY <2>2, <3>3 DEF VC_SendClose
        <4>2. /\ vc'[p][q] = "CLOSE_ACKED"
              /\ wire'[p][q] = Append(wire[p][q], "TRUE")
              /\ wire'[q][p] = wire[q][p]
              /\ \A x, y \in Procs : x # p \/ y # q => vc'[x][y] = vc[x][y]
              /\ \A x, y \in Procs : (x # p \/ y # q) /\ (x # q \/ y # p)
                    => wire'[x][y] = wire[x][y]
          BY <2>1, <2>2, <4>1 DEF TypeOK
        <4>3. p # q /\ p \notin Failed /\ q \notin Failed
                => Pair(vc[p][q], vc[q][p], wire[p][q], wire[q][p])
          BY <2>1 DEF PairInv
        <4>4. p # q /\ p \notin Failed /\ q \notin Failed
                => Pair(vc'[p][q], vc[q][p], wire'[p][q], wire'[q][p])
          BY <1>a, <2>1, <3>3, <4>2, <4>3, PairSend
        <4> QED BY <1>0, <2>1, <4>2, <4>4, PairFrame
      <3> QED BY <3>1, <3>2, <3>3
    <2>3. CASE VC_SkipClose(p, q)
      <3>1. UNCHANGED wire
        BY <2>3 DEF VC_SkipClose
      <3>2. CASE p # q /\ vc[p][q] = "INACTIVE"
        <4>1. vc' = [vc EXCEPT ![p][q] = "INACTIVE_CLOSED"]
          BY <2>3, <3>2 DEF VC_SkipClose
        <4>2. /\ vc'[p][q] = "INACTIVE_CLOSED"
              /\ \A x, y \in Procs : x # p \/ y # q => vc'[x][y] = vc[x][y]
          BY <2>1, <4>1 DEF TypeOK
        <4>3. p # q /\ p \notin Failed /\ q \notin Failed
                => Pair(vc[p][q], vc[q][p], wire[p][q], wire[q][p])
          BY <2>1 DEF PairInv
        <4>4. p # q /\ p \notin Failed /\ q \notin Failed
                => Pair(vc'[p][q], vc[q][p], wire'[p][q], wire'[q][p])
          BY <3>1, <3>2, <4>2, <4>3, PairOver DEF Over
        <4> QED BY <1>0, <2>1, <3>1, <4>2, <4>4, PairFrame
      <3>3. CASE ~(p # q /\ vc[p][q] = "INACTIVE")
        <4>1. vc' = [vc EXCEPT ![p][q] = vc[p][q]]
          BY <2>3, <3>3 DEF VC_SkipClose
        <4>2. vc' = vc
          BY <2>1, <4>1 DEF TypeOK
        <4> QED BY <1>0, <3>1, <4>2 DEF PairInv
      <3> QED BY <3>2, <3>3
    <2> QED BY <1>1, <2>2, <2>3 DEF PG_Close_VCs, q
  <1>2. ASSUME NEW p \in Procs, NEW q \in Procs, PktHandler_Close(p, q)
        PROVE  PairInv'
    <2>1. p # q /\ p \notin Failed
      BY <1>2 DEF PktHandler_Close, InProgress, Ready, Failed
    <2>2. wire[q][p] # <<>>
      BY <1>a, <1>2, QueuedNat DEF PktHandler_Close, Receivable
    <2>3. q \notin Failed => Pair(vc[p][q], vc[q][p], wire[p][q], wire[q][p])
      BY <2>1 DEF PairInv
    <2>4. CASE CloseAssertFails(p, q)
      BY <1>0, <2>4 DEF CloseAssertFails, PairInv
    <2>5. ASSUME NEW o \in VCState,
                 vc' = [vc EXCEPT ![p][q] = o],
                 \/ /\ wire' = [wire EXCEPT ![q][p] = Tail(@)]
                    /\ q \notin Failed
                         => Pair(o, vc[q][p], wire[p][q], Tail(wire[q][p]))
                 \/ /\ wire' = [wire EXCEPT ![q][p] = Tail(@),
                                            ![p][q] = Append(@, "TRUE")]
                    /\ q \notin Failed
                         => Pair(o, vc[q][p], Append(wire[p][q], "TRUE"),
                                 Tail(wire[q][p]))
          PROVE  PairInv'
      <3>1. /\ vc'[p][q] = o
            /\ \A x, y \in Procs : x # p \/ y # q => vc'[x][y] = vc[x][y]
        BY <2>5 DEF TypeOK
      <3>2. /\ wire'[q][p] = Tail(wire[q][p])
            /\ \A x, y \in Procs : (x # p \/ y # q) /\ (x # q \/ y # p)
                  => wire'[x][y] = wire[x][y]
            /\ q \notin Failed => Pair(o, vc[q][p], wire'[p][q], wire'[q][p])
        <4>1. CASE /\ wire' = [wire EXCEPT ![q][p] = Tail(@)]
                   /\ q \notin Failed
                        => Pair(o, vc[q][p], wire[p][q], Tail(wire[q][p]))
          <5>1. /\ wire'[q][p] = Tail(wire[q][p]) /\ wire'[p][q] = wire[p][q]
                /\ \A x, y \in Procs : (x # p \/ y # q) /\ (x # q \/ y # p)
                     => wire'[x][y] = wire[x][y]
            BY <2>1, <4>1 DEF TypeOK
          <5> QED BY <4>1, <5>1
        <4>2. CASE /\ wire' = [wire EXCEPT ![q][p] = Tail(@),
                                            ![p][q] = Append(@, "TRUE")]
                   /\ q \notin Failed
                         => Pair(o, vc[q][p], Append(wire[p][q], "TRUE"),
                                 Tail(wire[q][p]))
          <5>1. /\ wire'[q][p] = Tail(wire[q][p])
                /\ wire'[p][q] = Append(wire[p][q], "TRUE")
                /\ \A x, y \in Procs : (x # p \/ y # q) /\ (x # q \/ y # p)
                     => wire'[x][y] = wire[x][y]
            BY <2>1, <4>2 DEF TypeOK
          <5> QED BY <4>2, <5>1
        <4> QED BY <2>5, <4>1, <4>2
      <3> QED BY <1>0, <3>1, <3>2, PairFrame
    <2>6. CASE CloseRequest(p, q)
      <3>1. Head(wire[q][p]) = "FALSE"
        BY <2>6 DEF CloseRequest
      <3>2. CASE /\ vc[p][q] = "LOCAL_CLOSE"
                 /\ vc' = [vc EXCEPT ![p][q] = "CLOSE_ACKED"]
                 /\ wire' = [wire EXCEPT ![q][p] = Tail(@),
                                         ![p][q] = Append(@, "TRUE")]
        <4>1. q \notin Failed => Pair("CLOSE_ACKED", vc[q][p],
                 Append(wire[p][q], "TRUE"), Tail(wire[q][p]))
          BY <1>a, <2>2, <2>3, <3>1, <3>2, PairReceive
        <4> QED BY <2>5, <3>2, <4>1 DEF VCState
      <3>3. CASE /\ SetActive(vc[p][q]) = "ACTIVE"
                 /\ vc' = [vc EXCEPT ![p][q] = "REMOTE_CLOSE"]
                 /\ wire' = [wire EXCEPT ![q][p] = Tail(@)]
        <4>1. q \notin Failed => Pair("REMOTE_CLOSE", vc[q][p], wire[p][q],
                                      Tail(wire[q][p]))
          BY <1>a, <2>2, <2>3, <3>1, <3>3, PairReceive DEF SetActive
        <4> QED BY <2>5, <3>3, <4>1 DEF VCState
      <3> QED BY <2>6, <3>2, <3>3 DEF CloseRequest
    <2>7. CASE CloseAck(p, q)
      <3>1. Head(wire[q][p]) = "TRUE"
        BY <2>7 DEF CloseAck
      <3>2. PICK o \in Over \cap VCState : vc' = [vc EXCEPT ![p][q] = o]
        BY <2>7 DEF CloseAck, AfterTerminated, Over, VCState
      <3>3. CASE /\ vc[p][q] = "LOCAL_CLOSE"
                 /\ wire' = [wire EXCEPT ![q][p] = Tail(@),
                                         ![p][q] = Append(@, "TRUE")]
        <4>1. q \notin Failed => Pair(o, vc[q][p],
                 Append(wire[p][q], "TRUE"), Tail(wire[q][p]))
          BY <1>a, <2>2, <2>3, <3>1, <3>3, PairReceive
        <4> QED BY <2>5, <3>2, <3>3, <4>1
      <3>4. CASE /\ vc[p][q] = "CLOSE_ACKED"
                 /\ wire' = [wire EXCEPT ![q][p] = Tail(@)]
        <4>1. q \notin Failed => Pair(o, vc[q][p], wire[p][q],
                                      Tail(wire[q][p]))
          BY <1>a, <2>2, <2>3, <3>1, <3>4, PairReceive
        <4> QED BY <2>5, <3>2, <3>4, <4>1
      <3> QED BY <2>7, <3>3, <3>4 DEF CloseAck
    <2> QED BY <1>2, <2>4, <2>6, <2>7 DEF PktHandler_Close
  <1>3. ASSUME NEW p \in Procs, check_terminating_vcs(p)
        PROVE  PairInv'
    <2>1. UNCHANGED wire
      BY <1>3 DEF check_terminating_vcs
    <2>2. CASE TermqHeadComplete(p) /\ Handle_connection(p, Head(termq[p]).vc)
      <3> DEFINE q == Head(termq[p]).vc
      <3>1. /\ q \in Procs
            /\ q \in Failed \/ vc[p][q] = "CLOSED"
        <4>1. termq[p] \in Seq([vc : Procs, req : Nat]) /\ termq[p] # <<>>
          BY <2>2 DEF TypeOK, TermqHeadComplete
        <4>2. /\ Head(termq[p]) = termq[p][1] /\ 1 \in 1 .. Len(termq[p])
              /\ termq[p][1] \in [vc : Procs, req : Nat]
          BY <4>1, HeadTailType, Zenon
        <4> QED BY <4>2 DEF TermInv
      <3> HIDE DEF q
      <3>2. vc' = [vc EXCEPT ![p][q] = AfterTerminated(vc[p][q])]
        BY <2>2 DEF Handle_connection, q
      <3>3. /\ vc'[p][q] = AfterTerminated(vc[p][q])
            /\ \A x, y \in Procs : x # p \/ y # q => vc'[x][y] = vc[x][y]
        BY <3>1, <3>2 DEF TypeOK
      <3>4. p # q /\ p \notin Failed /\ q \notin Failed
              => Pair(vc'[p][q], vc[q][p], wire'[p][q], wire'[q][p])
        <4>1. p # q /\ p \notin Failed /\ q \notin Failed
              => Pair(vc[p][q], vc[q][p], wire[p][q], wire[q][p])
          BY <3>1 DEF PairInv
        <4> QED BY <2>1, <3>1, <3>3, <4>1, PairOver DEF AfterTerminated, Over
      <3> QED BY <1>0, <2>1, <3>1, <3>3, <3>4, PairFrame
    <2>3. CASE UNCHANGED vc
      BY <1>0, <2>1, <2>3 DEF PairInv
    <2> QED BY <1>3, <2>2, <2>3 DEF check_terminating_vcs
  <1>4. ASSUME NEW p \in Procs, terminate_failed_VCs(p)
        PROVE  PairInv'
    <2>1. PICK q \in todo[p] : Connection_terminate(p, q)
      BY <1>4 DEF terminate_failed_VCs
    <2>2. q \in Procs /\ q \in Failed
      BY DEF DeadInv, TypeOK
    <2>3. \A x, y \in Procs : x # p \/ y # q =>
            vc'[x][y] = vc[x][y] /\ wire'[x][y] = wire[x][y]
      <3>1. CASE UNCHANGED <<vc, wire>>
        BY <3>1
      <3>2. CASE /\ wire' = [wire EXCEPT ![p][q] = InCells(p, q)]
                 /\ Handle_connection(p, q)
        BY <2>2, <3>2 DEF Handle_connection, TypeOK
      <3>3. CASE UNCHANGED wire /\ Handle_connection(p, q)
        BY <2>2, <3>3 DEF Handle_connection, TypeOK
      <3> QED BY <2>1, <3>1, <3>2, <3>3 DEF Connection_terminate
    <2> QED BY <1>0, <2>2, <2>3, PairFrame
  <1>5. ASSUME NEW p \in Procs, Fail(p)
        PROVE  PairInv'
    <2>1. p \in Failed'
      BY <1>5 DEF Fail, Failed, TypeOK
    <2>2. \A x \in Procs \ {p} : \A y \in Procs : wire'[x][y] = wire[x][y]
      BY <1>5 DEF Fail, TypeOK
    <2>3. UNCHANGED vc
      BY <1>5 DEF Fail
    <2> QED BY <1>0, <2>1, <2>2, <2>3 DEF PairInv
  <1>6. CASE UNCHANGED <<vc, wire>>
    BY <1>0, <1>6 DEF PairInv
  <1> QED BY <1>1, <1>2, <1>3, <1>4, <1>5, <1>6
        DEF Next, Step, Ended, vars, Finalize, VC_WaitForClose,
            Shm_send_progress, Check_for_failed_procs, PMI_dead_processes

-----------------------------------------------------------------------------
(* The termination queue.                                                  *)

LEMMA TermqType ==
  ASSUME TypeOK, NEW p \in Procs, NEW i \in 1 .. Len(termq[p])
  PROVE  termq[p][i].vc \in Procs
  <1>1. termq[p] \in Seq([vc : Procs, req : Nat])
    BY DEF TypeOK
  <1>2. termq[p][i] \in [vc : Procs, req : Nat]
    BY <1>1, ElementType, Zenon
  <1> QED BY <1>2

\* An entry for a dead process, or for a VC that does not wait yet, may be
\* appended to the queue of one process.
LEMMA TermAppend ==
  ASSUME TypeOK, TermInv, Failed \subseteq Failed',
         NEW p \in Procs, NEW q \in Procs,
         NEW e \in [vc : Procs, req : Nat], e.vc = q,
         termq' = [termq EXCEPT ![p] = Append(@, e)],
         \A x, y \in Procs : x # p \/ y # q => vc'[x][y] = vc[x][y],
         q \in Failed \/ (vc[p][q] # "CLOSED" /\ vc'[p][q] = "CLOSED")
  PROVE  TermInv'
  <1> DEFINE s == termq[p]
             s2 == Append(s, e)
  <1>1. s \in Seq([vc : Procs, req : Nat])
    BY DEF TypeOK
  <1>2. /\ Len(s) \in Nat
        /\ Len(s2) = Len(s) + 1
        /\ \A i \in 1 .. Len(s) : s2[i] = s[i]
        /\ s2[Len(s) + 1] = e
    BY <1>1, AppendType
  <1>2a. \A i \in 1 .. Len(s) : s[i].vc \in Procs
    BY TermqType
  <1>3. \A x \in Procs : termq'[x] = IF x = p THEN s2 ELSE termq[x]
    BY DEF TypeOK
  <1>4. ASSUME NEW x \in Procs \ {p}, NEW i \in 1 .. Len(termq'[x])
        PROVE  \/ termq'[x][i].vc \in Failed'
               \/ /\ vc'[x][termq'[x][i].vc] = "CLOSED"
                  /\ \A j \in 1 .. Len(termq'[x]) :
                       termq'[x][j].vc = termq'[x][i].vc => j = i
    <2>1. termq'[x] = termq[x]
      BY <1>3
    <2>2. termq[x][i].vc \in Procs
      BY <2>1, TermqType
    <2> QED BY <2>1, <2>2 DEF TermInv
  <1>5. ASSUME NEW i \in 1 .. Len(s2)
        PROVE  \/ s2[i].vc \in Failed'
               \/ /\ vc'[p][s2[i].vc] = "CLOSED"
                  /\ \A j \in 1 .. Len(s2) : s2[j].vc = s2[i].vc => j = i
    <2> HIDE DEF s2
    <2>1. CASE q \in Failed
      <3>1. CASE s2[i].vc = q
        BY <2>1, <3>1
      <3>2. CASE s2[i].vc # q
        <4>1. i \in 1 .. Len(s) /\ s2[i] = s[i]
          BY <1>2, <3>2
        <4>2. \/ s[i].vc \in Failed
              \/ /\ vc[p][s[i].vc] = "CLOSED"
                 /\ \A j \in 1 .. Len(s) : s[j].vc = s[i].vc => j = i
          BY <4>1 DEF TermInv
        <4>3. \A j \in 1 .. Len(s2) : s2[j].vc = s2[i].vc
                => j \in 1 .. Len(s) /\ s[j].vc = s[i].vc
          BY <1>2, <3>2, <4>1
        <4> QED BY <1>2a, <3>2, <4>1, <4>2, <4>3
      <3> QED BY <3>1, <3>2
    <2>2. CASE vc[p][q] # "CLOSED" /\ vc'[p][q] = "CLOSED" /\ q \notin Failed
      <3>1. \A j \in 1 .. Len(s) : s[j].vc # q
        BY <2>2 DEF TermInv
      <3>2. CASE i = Len(s) + 1
        <4>1. \A j \in 1 .. Len(s2) : s2[j].vc = q => j = i
          BY <1>2, <3>1, <3>2
        <4> QED BY <1>2, <2>2, <3>2, <4>1
      <3>3. CASE i # Len(s) + 1
        <4>1. i \in 1 .. Len(s) /\ s2[i] = s[i] /\ s[i].vc # q
          BY <1>2, <3>1, <3>3
        <4>2. \/ s[i].vc \in Failed
              \/ /\ vc[p][s[i].vc] = "CLOSED"
                 /\ \A j \in 1 .. Len(s) : s[j].vc = s[i].vc => j = i
          BY <4>1 DEF TermInv
        <4>3. \A j \in 1 .. Len(s2) : s2[j].vc = s2[i].vc
                => j \in 1 .. Len(s) /\ s[j].vc = s[i].vc
          BY <1>2, <4>1
        <4> QED BY <1>2a, <4>1, <4>2, <4>3
      <3> QED BY <3>2, <3>3
    <2> QED BY <2>1, <2>2
  <1> QED BY <1>3, <1>4, <1>5 DEF TermInv

\* A step that leaves the queues alone and every waiting VC CLOSED.
LEMMA TermFrame ==
  ASSUME TypeOK, TermInv, Failed \subseteq Failed', UNCHANGED termq,
         \A x, y \in Procs : vc[x][y] = "CLOSED"
           => vc'[x][y] = "CLOSED" \/ y \in Failed
  PROVE  TermInv'
  <1> SUFFICES ASSUME NEW x \in Procs, NEW i \in 1 .. Len(termq[x])
               PROVE  \/ termq[x][i].vc \in Failed'
                      \/ /\ vc'[x][termq[x][i].vc] = "CLOSED"
                         /\ \A j \in 1 .. Len(termq[x]) :
                              termq[x][j].vc = termq[x][i].vc => j = i
    BY DEF TermInv
  <1>1. termq[x][i].vc \in Procs
    BY TermqType
  <1> QED BY <1>1 DEF TermInv

LEMMA UpdateVC ==
  ASSUME TypeOK, NEW p \in Procs, NEW q, NEW s,
         NEW v, v = [vc EXCEPT ![p][q] = s]
  PROVE  \A x, y \in Procs : v[x][y] = IF x = p /\ y = q THEN s ELSE vc[x][y]
  BY DEF TypeOK

\* Every step keeps the termination queues in order.
LEMMA TermNext ==
  ASSUME IInv, [Next]_vars
  PROVE  TermInv'
  <1> USE DEF IInv, CountInv
  <1>0. Failed \subseteq Failed'
    BY FailedGrows
  <1>1. ASSUME NEW p \in Procs, PG_Close_VCs(p)
        PROVE  TermInv'
    <2>1. \A x, y \in Procs : vc[x][y] = "CLOSED" => vc'[x][y] = "CLOSED"
      <3> DEFINE q == ClosePeer(p, n[p])
                 s == IF vc[p][q] = "ACTIVE" THEN "LOCAL_CLOSE"
                                             ELSE "CLOSE_ACKED"
                 t == IF p # q /\ vc[p][q] = "INACTIVE"
                      THEN "INACTIVE_CLOSED" ELSE vc[p][q]
      <3>1. CASE VC_SendClose(p, q)
        <4>1. vc' = [vc EXCEPT ![p][q] = s] /\ vc[p][q] # "CLOSED"
          BY <3>1 DEF VC_SendClose
        <4> HIDE DEF q, s
        <4> QED BY <4>1, UpdateVC
      <3>2. CASE VC_SkipClose(p, q)
        <4>1. vc' = [vc EXCEPT ![p][q] = t]
          BY <3>2 DEF VC_SkipClose
        <4>2. vc[p][q] = "CLOSED" => t = "CLOSED"
          OBVIOUS
        <4> HIDE DEF q, t
        <4> QED BY <4>1, <4>2, UpdateVC
      <3> QED BY <1>1, <3>1, <3>2 DEF PG_Close_VCs
    <2>2. UNCHANGED termq
      BY <1>1 DEF PG_Close_VCs
    <2> QED BY <1>0, <2>1, <2>2, TermFrame
  <1>2. ASSUME NEW p \in Procs, NEW q \in Procs, PktHandler_Close(p, q)
        PROVE  TermInv'
    <2>1. CASE CloseRequest(p, q) \/ CloseAssertFails(p, q)
      <3>1. \A x, y \in Procs : vc[x][y] = "CLOSED" => vc'[x][y] = "CLOSED"
        <4>1. CASE UNCHANGED vc
          BY <4>1
        <4>2. CASE \E s \in VCState : /\ vc' = [vc EXCEPT ![p][q] = s]
                                      /\ vc[p][q] # "CLOSED"
          <5>1. PICK s \in VCState : vc' = [vc EXCEPT ![p][q] = s]
            BY <4>2
          <5> QED BY <4>2, <5>1, UpdateVC
        <4> QED BY <2>1, <4>1, <4>2
              DEF CloseRequest, CloseAssertFails, SetActive, VCState
      <3>2. UNCHANGED termq
        BY <2>1 DEF CloseRequest, CloseAssertFails
      <3> QED BY <1>0, <3>1, <3>2, TermFrame
    <2>2. CASE CloseAck(p, q)
      <3>1. vc[p][q] \in {"LOCAL_CLOSE", "CLOSE_ACKED"}
        BY <2>2 DEF CloseAck
      <3>2. CASE UNCHANGED termq
        <4>1. \A x, y \in Procs : vc[x][y] = "CLOSED" => vc'[x][y] = "CLOSED"
          <5>1. PICK s \in VCState : vc' = [vc EXCEPT ![p][q] = s]
            BY <2>2 DEF CloseAck, AfterTerminated, VCState
          <5> QED BY <3>1, <5>1, UpdateVC
        <4> QED BY <1>0, <3>2, <4>1, TermFrame
      <3>3. CASE /\ vc' = [vc EXCEPT ![p][q] = "CLOSED"]
                 /\ \E r \in Newest(shmq'[p]) : termq' =
                      [termq EXCEPT ![p] = Append(@, [vc |-> q, req |-> r.req])]
        <4>1. PICK r \in Newest(shmq'[p]) : termq' =
                 [termq EXCEPT ![p] = Append(@, [vc |-> q, req |-> r.req])]
          BY <3>3
        <4>2. TypeOK'
          BY CountNext
        <4>3. [vc |-> q, req |-> r.req] \in [vc : Procs, req : Nat]
          BY <4>2 DEF Newest, TypeOK
        <4>4. /\ vc'[p][q] = "CLOSED"
              /\ \A x, y \in Procs : x # p \/ y # q => vc'[x][y] = vc[x][y]
          BY <3>3 DEF TypeOK
        <4>5. [vc |-> q, req |-> r.req].vc = q
          OBVIOUS
        <4> QED BY <1>0, <3>1, <4>1, <4>3, <4>4, <4>5, TermAppend
      <3> QED BY <2>2, <3>2, <3>3 DEF CloseAck
    <2> QED BY <1>2, <2>1, <2>2 DEF PktHandler_Close
  <1>3. ASSUME NEW p \in Procs, check_terminating_vcs(p)
        PROVE  TermInv'
    <2>1. CASE /\ TermqHeadComplete(p)
               /\ termq' = [termq EXCEPT ![p] = Tail(@)]
               /\ Handle_connection(p, Head(termq[p]).vc)
      <3> DEFINE s == termq[p]
                 q == Head(termq[p]).vc
      <3>1. s \in Seq([vc : Procs, req : Nat]) /\ s # <<>>
        BY <2>1 DEF TypeOK, TermqHeadComplete
      <3>2. /\ Head(s) = s[1] /\ 1 \in 1 .. Len(s)
            /\ Len(Tail(s)) = Len(s) - 1
            /\ \A i \in 1 .. Len(Tail(s)) :
                 i + 1 \in 1 .. Len(s) /\ Tail(s)[i] = s[i + 1]
        BY <3>1, HeadTailType, Zenon
      <3>3. q = s[1].vc /\ q \in Procs
        BY <3>2, TermqType
      <3>4. \A x \in Procs : termq'[x] = IF x = p THEN Tail(s) ELSE termq[x]
        BY <2>1 DEF TypeOK
      <3>5. vc' = [vc EXCEPT ![p][q] = AfterTerminated(vc[p][q])]
        BY <2>1 DEF Handle_connection
      <3>6. \A x, y \in Procs : x # p \/ y # q => vc'[x][y] = vc[x][y]
        BY <3>3, <3>5 DEF TypeOK
      <3>7. ASSUME NEW x \in Procs \ {p}, NEW i \in 1 .. Len(termq'[x])
            PROVE  \/ termq'[x][i].vc \in Failed'
                   \/ /\ vc'[x][termq'[x][i].vc] = "CLOSED"
                      /\ \A j \in 1 .. Len(termq'[x]) :
                           termq'[x][j].vc = termq'[x][i].vc => j = i
        <4>1. termq'[x] = termq[x]
          BY <3>4
        <4>2. termq[x][i].vc \in Procs
          BY <4>1, TermqType
        <4> QED BY <1>0, <3>6, <4>1, <4>2 DEF TermInv
      <3>8. ASSUME NEW i \in 1 .. Len(Tail(s))
            PROVE  \/ Tail(s)[i].vc \in Failed'
                   \/ /\ vc'[p][Tail(s)[i].vc] = "CLOSED"
                      /\ \A j \in 1 .. Len(Tail(s)) :
                           Tail(s)[j].vc = Tail(s)[i].vc => j = i
        <4>1. i + 1 \in 1 .. Len(s) /\ Tail(s)[i] = s[i + 1] /\ i + 1 # 1
          BY <3>2
        <4>2. \/ s[i + 1].vc \in Failed
              \/ /\ vc[p][s[i + 1].vc] = "CLOSED"
                 /\ \A j \in 1 .. Len(s) : s[j].vc = s[i + 1].vc => j = i + 1
          BY <4>1 DEF TermInv
        <4>3. s[i + 1].vc \in Procs
          BY <4>1, TermqType
        <4>4. CASE s[i + 1].vc \in Failed
          BY <1>0, <4>1, <4>4
        <4>5. CASE /\ vc[p][s[i + 1].vc] = "CLOSED"
                   /\ \A j \in 1 .. Len(s) : s[j].vc = s[i + 1].vc => j = i + 1
          <5>1. s[i + 1].vc # q
            BY <3>2, <3>3, <4>1, <4>5
          <5>2. vc'[p][s[i + 1].vc] = "CLOSED"
            BY <3>6, <4>3, <4>5, <5>1
          <5>3. \A j \in 1 .. Len(Tail(s)) :
                  Tail(s)[j].vc = Tail(s)[i].vc => j + 1 = i + 1
            BY <3>2, <4>1, <4>5
          <5>4. \A j \in 1 .. Len(Tail(s)) :
                  Tail(s)[j].vc = Tail(s)[i].vc => j = i
            BY <5>3
          <5> QED BY <4>1, <5>2, <5>4
        <4> QED BY <4>2, <4>4, <4>5
      <3> QED BY <3>4, <3>7, <3>8 DEF TermInv
    <2>2. CASE UNCHANGED <<vc, termq>>
      BY <1>0, <2>2, TermFrame
    <2> QED BY <1>3, <2>1, <2>2 DEF check_terminating_vcs
  <1>4. ASSUME NEW p \in Procs, terminate_failed_VCs(p)
        PROVE  TermInv'
    <2>1. PICK q \in todo[p] : Connection_terminate(p, q)
      BY <1>4 DEF terminate_failed_VCs
    <2>2. q \in Procs /\ q \in Failed
      BY DEF DeadInv, TypeOK
    <2>3. CASE UNCHANGED termq
      <3>1. \A x, y \in Procs : x # p \/ y # q => vc'[x][y] = vc[x][y]
        <4>1. CASE UNCHANGED vc
          BY <4>1
        <4>2. CASE Handle_connection(p, q)
          BY <2>2, <4>2 DEF Handle_connection, TypeOK
        <4> QED BY <2>1, <4>1, <4>2 DEF Connection_terminate
      <3> QED BY <1>0, <2>2, <2>3, <3>1, TermFrame
    <2>4. CASE /\ UNCHANGED vc
               /\ \E r \in Newest(shmq[p]) : termq' =
                     [termq EXCEPT ![p] = Append(@, [vc |-> q, req |-> r.req])]
      <3>1. PICK r \in Newest(shmq[p]) : termq' =
                     [termq EXCEPT ![p] = Append(@, [vc |-> q, req |-> r.req])]
        BY <2>4
      <3>2. [vc |-> q, req |-> r.req] \in [vc : Procs, req : Nat]
        BY <2>2 DEF Newest, TypeOK
      <3>3. [vc |-> q, req |-> r.req].vc = q
        OBVIOUS
      <3> QED BY <1>0, <2>2, <2>4, <3>1, <3>2, <3>3, TermAppend
    <2> QED BY <2>1, <2>3, <2>4 DEF Connection_terminate
  <1>5. CASE UNCHANGED <<vc, termq>>
    BY <1>0, <1>5, TermFrame
  <1> QED BY <1>1, <1>2, <1>3, <1>4, <1>5
        DEF Next, Step, Ended, vars, Finalize, VC_WaitForClose, Fail,
            Shm_send_progress, Check_for_failed_procs, PMI_dead_processes

-----------------------------------------------------------------------------
(* Failure reports and assertions.                                         *)

\* No step reports a live process as failed.
LEMMA AccuracyNext ==
  ASSUME IInv, [Next]_vars
  PROVE  FailureAccuracy'
  <1> USE DEF IInv, CountInv
  <1>0. Failed \subseteq Failed'
    BY FailedGrows
  <1>a. ASSUME NEW p \in Procs, NEW q, NEW s,
               vc' = [vc EXCEPT ![p][q] = s],
               s = "MORIBUND" => q \in Failed \/ vc[p][q] = "MORIBUND"
        PROVE  FailureAccuracy'
    <2>1. \A x, y \in Procs :
            vc'[x][y] = IF x = p /\ y = q THEN s ELSE vc[x][y]
      <3>1. TypeOK
        OBVIOUS
      <3>2. vc' = [vc EXCEPT ![p][q] = s]
        BY <1>a
      <3> QED BY <3>1, <3>2 DEF TypeOK
    <2> QED BY <1>0, <1>a, <2>1 DEF FailureAccuracy
  <1>1. ASSUME NEW p \in Procs, PG_Close_VCs(p)
        PROVE  FailureAccuracy'
    <2> DEFINE q == ClosePeer(p, n[p])
               s == IF vc[p][q] = "ACTIVE" THEN "LOCAL_CLOSE"
                                           ELSE "CLOSE_ACKED"
               t == IF p # q /\ vc[p][q] = "INACTIVE"
                    THEN "INACTIVE_CLOSED" ELSE vc[p][q]
    <2>1. CASE VC_SendClose(p, q)
      <3>1. vc' = [vc EXCEPT ![p][q] = s] /\ s # "MORIBUND"
        BY <2>1 DEF VC_SendClose
      <3> HIDE DEF q, s
      <3> QED BY <1>a, <3>1
    <2>2. CASE VC_SkipClose(p, q)
      <3>1. /\ vc' = [vc EXCEPT ![p][q] = t]
            /\ t = "MORIBUND" => vc[p][q] = "MORIBUND"
        BY <2>2 DEF VC_SkipClose
      <3> HIDE DEF q, t
      <3> QED BY <1>a, <3>1
    <2> QED BY <1>1, <2>1, <2>2 DEF PG_Close_VCs
  <1>2. ASSUME NEW p \in Procs, NEW q \in Procs, PktHandler_Close(p, q)
        PROVE  FailureAccuracy'
    <2>1. CASE UNCHANGED vc
      BY <1>0, <2>1 DEF FailureAccuracy
    <2>2. CASE \E s \in VCState \ {"MORIBUND"} : vc' = [vc EXCEPT ![p][q] = s]
      <3>1. PICK s \in VCState \ {"MORIBUND"} : vc' = [vc EXCEPT ![p][q] = s]
        BY <2>2
      <3> QED BY <1>a, <3>1
    <2> QED BY <1>2, <2>1, <2>2
          DEF PktHandler_Close, CloseRequest, CloseAck, CloseAssertFails,
              AfterTerminated, VCState
  <1>3. ASSUME NEW p \in Procs, check_terminating_vcs(p)
        PROVE  FailureAccuracy'
    <2>1. CASE TermqHeadComplete(p) /\ Handle_connection(p, Head(termq[p]).vc)
      <3> DEFINE q == Head(termq[p]).vc
                 s == AfterTerminated(vc[p][q])
      <3>1. q \in Failed \/ vc[p][q] = "CLOSED"
        <4>1. termq[p] \in Seq([vc : Procs, req : Nat]) /\ termq[p] # <<>>
          BY <2>1 DEF TypeOK, TermqHeadComplete
        <4>2. Head(termq[p]) = termq[p][1] /\ 1 \in 1 .. Len(termq[p])
          BY <4>1, HeadTailType, Zenon
        <4> QED BY <4>2 DEF TermInv
      <3>2. vc' = [vc EXCEPT ![p][q] = s]
        BY <2>1 DEF Handle_connection
      <3>3. s = "MORIBUND" => q \in Failed
        BY <3>1 DEF AfterTerminated
      <3> HIDE DEF q, s
      <3> QED BY <1>a, <3>2, <3>3
    <2>2. CASE UNCHANGED vc
      BY <1>0, <2>2 DEF FailureAccuracy
    <2> QED BY <1>3, <2>1, <2>2 DEF check_terminating_vcs
  <1>4. ASSUME NEW p \in Procs, terminate_failed_VCs(p)
        PROVE  FailureAccuracy'
    <2>1. PICK q \in todo[p] : Connection_terminate(p, q)
      BY <1>4 DEF terminate_failed_VCs
    <2>2. q \in Failed
      BY DEF DeadInv
    <2>3. CASE UNCHANGED vc
      BY <1>0, <2>3 DEF FailureAccuracy
    <2>4. CASE Handle_connection(p, q)
      <3> DEFINE s == AfterTerminated(vc[p][q])
      <3>1. vc' = [vc EXCEPT ![p][q] = s]
        BY <2>4 DEF Handle_connection
      <3> HIDE DEF s
      <3> QED BY <1>a, <2>2, <3>1
    <2> QED BY <2>1, <2>3, <2>4 DEF Connection_terminate
  <1>5. CASE UNCHANGED vc
    BY <1>0, <1>5 DEF FailureAccuracy
  <1> QED BY <1>1, <1>2, <1>3, <1>4, <1>5
        DEF Next, Step, Ended, vars, Finalize, VC_WaitForClose, Fail,
            Shm_send_progress, Check_for_failed_procs, PMI_dead_processes

\* No assertion fails as long as all processes live.
LEMMA AssertNext ==
  ASSUME IInv, [Next]_vars
  PROVE  AssertOnlyAfterFailure'
  <1> USE DEF IInv, CountInv
  <1>0. Failed \subseteq Failed'
    BY FailedGrows
  <1>1. CASE aborted' => aborted
    BY <1>0, <1>1 DEF AssertOnlyAfterFailure
  <1>2. ASSUME NEW p \in Procs, NEW q \in Procs, PktHandler_Close(p, q),
               CloseAssertFails(p, q)
        PROVE  AssertOnlyAfterFailure'
    <2>1. p # q /\ p \notin Failed
      BY <1>2 DEF PktHandler_Close, InProgress, Ready, Failed
    <2>2. wire[q][p] \in Seq(Ack) /\ wire[p][q] \in Seq(Ack)
      BY DEF TypeOK
    <2>3. wire[q][p] # <<>>
      BY <1>2, <2>2, QueuedNat DEF PktHandler_Close, Receivable
    <2>4. q \notin Failed => Pair(vc[p][q], vc[q][p], wire[p][q], wire[q][p])
      BY <2>1 DEF PairInv
    <2>5. q \in Failed
      BY <1>2, <2>2, <2>3, <2>4, PairReceive DEF CloseAssertFails, SetActive
    <2> QED BY <1>0, <2>5 DEF AssertOnlyAfterFailure
  <1>3. ASSUME NEW p \in Procs, NEW q \in Procs, PktHandler_Close(p, q),
               ~CloseAssertFails(p, q)
        PROVE  UNCHANGED aborted
    BY <1>3 DEF PktHandler_Close, CloseRequest, CloseAck
  <1>4. ASSUME NEW p \in Procs, NEW q \in Procs, PktHandler_Close(p, q)
        PROVE  AssertOnlyAfterFailure'
    BY <1>1, <1>2, <1>3, <1>4
  <1>5. CASE UNCHANGED aborted
    BY <1>1, <1>5
  <1> QED BY <1>4, <1>5
        DEF Next, Step, Ended, vars, Finalize, PG_Close_VCs, VC_WaitForClose,
            Fail, Shm_send_progress, check_terminating_vcs,
            Check_for_failed_procs, terminate_failed_VCs, PMI_dead_processes

-----------------------------------------------------------------------------
(* The theorems.                                                           *)

\* The inductive invariant holds initially.
LEMMA InitIInv == Init => IInv
  <1> SUFFICES ASSUME Init PROVE IInv
    OBVIOUS
  <1> USE DEF Init
  <1>1. Failed = {}
    BY DEF Failed
  <1>2. TypeOK
    <2>1. <<>> \in Seq(Ack) /\ <<>> \in Seq([vc : Procs, req : Nat])
      OBVIOUS
    <2>2. 0 \in 0 .. N
      BY NAssumption
    <2> QED BY <2>1, <2>2 DEF TypeOK, VCState, Phase
  <1>3. OutstandingCount
    <2>1. \A p \in Procs : {q \in Procs : vc[p][q] \in CloseInitiated} = {}
      BY DEF CloseInitiated
    <2> QED BY <2>1, FS_EmptySet DEF OutstandingCount
  <1>4. ShmqFinite
    BY FS_EmptySet DEF ShmqFinite
  <1>5. DeadInv /\ TermInv /\ FailureAccuracy /\ AssertOnlyAfterFailure
    BY DEF DeadInv, TermInv, FailureAccuracy, AssertOnlyAfterFailure
  <1>6. PairInv
    BY DEF PairInv, Pair, HalfPair, None
  <1> QED BY <1>2, <1>3, <1>4, <1>5, <1>6 DEF IInv, CountInv

\* IInv is an invariant of the close protocol.
THEOREM Invariance == Spec => []IInv
  <1>1. IInv /\ [Next]_vars => IInv'
    BY CountNext, DeadNext, TermNext, PairNext, AccuracyNext, AssertNext
      DEF IInv, CountInv
  <1> QED BY InitIInv, <1>1, PTL DEF Spec

\* In every run of any number of processes the variables have their types;
\* in particular no counter is ever decremented below zero.
THEOREM TypeCorrect == Spec => []TypeOK
  <1>1. IInv => TypeOK
    BY DEF IInv, CountInv
  <1> QED BY Invariance, <1>1, PTL

\* MPIDI_Outstanding_close_ops counts the VCs whose close is under way, so
\* MPIDI_CH3U_VC_WaitForClose returns exactly when none is.
THEOREM CountCorrect == Spec => []OutstandingCount
  <1>1. IInv => OutstandingCount
    BY DEF IInv, CountInv
  <1> QED BY Invariance, <1>1, PTL

\* Without a failure no assertion of MPIDI_CH3_PktHandler_Close fails, however
\* the close requests of the processes cross.
THEOREM AssertionsHold == Spec => []AssertOnlyAfterFailure
  <1>1. IInv => AssertOnlyAfterFailure
    BY DEF IInv
  <1> QED BY Invariance, <1>1, PTL

\* A VC is made MORIBUND only when its process is dead.
THEOREM FailureReports == Spec => []FailureAccuracy
  <1>1. IInv => FailureAccuracy
    BY DEF IInv
  <1> QED BY Invariance, <1>1, PTL

\* When p's side of a VC is CLOSED, nothing more arrives on it and the live
\* peer has closed its side.
THEOREM Quiescence == Spec => []ClosedIsQuiet
  <1>1. IInv => ClosedIsQuiet
    <2> SUFFICES ASSUME IInv, NEW p \in Procs, NEW q \in Procs, p # q,
                        {p, q} \cap Failed = {},
                        vc[p][q] \in {"CLOSED", "INACTIVE"}
                 PROVE  /\ wire[q][p] = <<>>
                        /\ vc[q][p] \in {"CLOSE_ACKED", "CLOSED", "INACTIVE",
                                         "INACTIVE_CLOSED"}
      BY DEF ClosedIsQuiet
    <2>1. Pair(vc[p][q], vc[q][p], wire[p][q], wire[q][p])
      BY DEF IInv, PairInv
    <2>2. wire[q][p] \in Seq(Ack)
      BY DEF IInv, CountInv, TypeOK
    <2>3. Len(wire[q][p]) = 0
      BY <2>1 DEF Pair, HalfPair, None, One, Two, Over
    <2>4. vc[q][p] \in Over \cup {"CLOSE_ACKED"}
      BY <2>1 DEF Pair, HalfPair, Over
    <2> QED BY <2>2, <2>3, <2>4 DEF Over
  <1> QED BY Invariance, <1>1, PTL

-----------------------------------------------------------------------------
(***************************************************************************)
(* What the close protocol leaves behind: the termination queue never ends *)
(* a VC it must not end, whatever processes die, and without a death a     *)
(* process leaves MPI_Finalize with nothing queued.  Both need more than   *)
(* the invariant above: which VCs MPIDI_PG_Close_VCs has visited, what a   *)
(* dead process left in shared memory, and the order of the requests in    *)
(* the send queue and the termination queue.                               *)
(***************************************************************************)

\* The loop of p's MPIDI_PG_Close_VCs has visited q.
Seen(p, q) == \E k \in 0 .. n[p] - 1 : ClosePeer(p, k) = q

\* Only a visited VC is closing or closed; the loop visits all VCs.
VisitInv ==
  \A p \in Procs :
    /\ vc[p][p] = "ACTIVE"
    /\ phase[p] \in {"waiting", "done"} => n[p] = N
    /\ \A q \in Procs \ {p} :
         /\ Seen(p, q) => vc[p][q] \in {"LOCAL_CLOSE", "CLOSE_ACKED", "CLOSED",
                                        "INACTIVE", "MORIBUND"}
         /\ ~Seen(p, q) => vc[p][q] \in {"ACTIVE", "REMOTE_CLOSE", "MORIBUND"}

\* Only the last packet from a peer can be an acknowledgement, and nothing is
\* left to receive on a VC whose close is over, even if the peer has died.
TrueLast(a) == \A i \in 1 .. Len(a) : i < Len(a) => a[i] = "FALSE"

QuietInv ==
  \A p, q \in Procs :
    p # q /\ p \notin Failed
      => /\ vc[p][q] \in Over => Len(wire[q][p]) = 0
         /\ TrueLast(wire[q][p])

\* How often a VC waits in a termination queue s.
NoneWaits(s, q) == \A i \in 1 .. Len(s) : s[i].vc # q
OneWaits(s, q) ==
  \A i, j \in 1 .. Len(s) : s[i].vc = q /\ s[j].vc = q => i = j
TwoWait(s, q) ==
  \A i, j, k \in 1 .. Len(s) :
    s[i].vc = q /\ s[j].vc = q /\ s[k].vc = q => i = j \/ j = k \/ i = k

\* p has noticed that q is dead and has terminated its VC to q.
GaveUp(p, q) == q \in known[p] /\ q \notin todo[p]

\* What VC q of p may have in the queue s when it is in state v and g says
\* whether p gave up on q: the second entry of a CLOSED VC is made when p
\* terminates it for q's death, which p does once.
MayWait(v, s, q, g) ==
  /\ v = "CLOSED" => TwoWait(s, q) /\ (g \/ OneWaits(s, q))
  /\ v = "INACTIVE" => OneWaits(s, q) /\ (g \/ NoneWaits(s, q))
  /\ v \notin {"CLOSED", "INACTIVE"} => NoneWaits(s, q)

WaitInv ==
  \A p, q \in Procs : MayWait(vc[p][q], termq[p], q, GaveUp(p, q))

\* p terminates the VCs to the dead it has noticed.
TodoInv == \A p \in Procs : todo[p] \subseteq known[p]

XInv == IInv /\ VisitInv /\ QuietInv /\ WaitInv /\ TodoInv

-----------------------------------------------------------------------------
(* What the actions do to the VCs and the termination queues.              *)

Moved(p, q, s) ==
  \A x, y \in Procs : vc'[x][y] = IF x = p /\ y = q THEN s ELSE vc[x][y]

\* An update of one VC, read point by point.
LEMMA MovedBy ==
  ASSUME TypeOK, NEW p \in Procs, NEW q \in Procs, NEW s,
         vc' = [vc EXCEPT ![p][q] = s]
  PROVE  Moved(p, q, s)
  BY DEF TypeOK, Moved

\* One step of the loop of MPIDI_PG_Close_VCs.
SendMove(p, q) ==
  \/ p # q /\ vc[p][q] = "ACTIVE" /\ Moved(p, q, "LOCAL_CLOSE")
  \/ p # q /\ vc[p][q] = "REMOTE_CLOSE" /\ Moved(p, q, "CLOSE_ACKED")
  \/ p # q /\ vc[p][q] = "INACTIVE" /\ Moved(p, q, "INACTIVE_CLOSED")
  \/ /\ p = q \/ vc[p][q] \notin {"ACTIVE", "REMOTE_CLOSE", "INACTIVE"}
     /\ UNCHANGED vc

\* The loop of MPIDI_PG_Close_VCs visits processes.
LEMMA PeerType ==
  ASSUME TypeOK, NEW p \in Procs
  PROVE  ClosePeer(p, n[p]) \in Procs
  <1>1. n[p] \in 0 .. N /\ p \in 0 .. N-1
    BY DEF TypeOK, Procs
  <1>2. n[p] \in Nat /\ p + 1 \in Nat
    BY <1>1, NAssumption
  <1>3. (p + 1) % N \in Nat
    BY <1>2, ModRange, NAssumption DEF Procs
  <1>4. n[p] + ((p + 1) % N) \in Nat
    BY <1>2, <1>3
  <1> QED BY <1>4, ModRange DEF ClosePeer

\* A step of the loop makes one of the moves of SendMove.
LEMMA SendEffect ==
  ASSUME TypeOK, NEW p \in Procs, PG_Close_VCs(p)
  PROVE  /\ SendMove(p, ClosePeer(p, n[p]))
         /\ p \notin Failed /\ n[p] < N
         /\ UNCHANGED <<termq, known, todo>>
         /\ n' = [n EXCEPT ![p] = @ + 1]
  <1>1. PICK q \in Procs : q = ClosePeer(p, n[p])
    BY PeerType
  <1>2. (p # q /\ VC_SendClose(p, q)) \/ VC_SkipClose(p, q)
    BY <1>1 DEF PG_Close_VCs
  <1> SUFFICES SendMove(p, q)
    BY <1>1 DEF PG_Close_VCs, Ready, Failed
  <1>3. CASE p # q /\ VC_SendClose(p, q)
    <2>1. CASE vc[p][q] = "ACTIVE"
      <3>1. vc' = [vc EXCEPT ![p][q] = "LOCAL_CLOSE"]
        BY <1>3, <2>1 DEF VC_SendClose
      <3> QED BY <1>3, <2>1, <3>1, MovedBy DEF SendMove
    <2>2. CASE vc[p][q] = "REMOTE_CLOSE"
      <3>1. vc' = [vc EXCEPT ![p][q] = "CLOSE_ACKED"]
        BY <1>3, <2>2 DEF VC_SendClose
      <3> QED BY <1>3, <2>2, <3>1, MovedBy DEF SendMove
    <2> QED BY <1>3, <2>1, <2>2 DEF VC_SendClose
  <1>4. CASE VC_SkipClose(p, q)
    <2>1. CASE p # q /\ vc[p][q] = "INACTIVE"
      <3>1. vc' = [vc EXCEPT ![p][q] = "INACTIVE_CLOSED"]
        BY <1>4, <2>1 DEF VC_SkipClose
      <3> QED BY <2>1, <3>1, MovedBy DEF SendMove
    <2>2. CASE ~(p # q /\ vc[p][q] = "INACTIVE")
      <3>1. vc' = [vc EXCEPT ![p][q] = vc[p][q]]
        BY <1>4, <2>2 DEF VC_SkipClose
      <3>2. vc' = vc
        BY <3>1 DEF TypeOK
      <3> QED BY <1>4, <2>2, <3>2 DEF SendMove, VC_SkipClose
    <2> QED BY <2>1, <2>2
  <1> QED BY <1>2, <1>3, <1>4

\* The termination queue of p gets an entry for q.
Waits(p, q) ==
  \E e \in [vc : Procs, req : Nat] :
    e.vc = q /\ termq' = [termq EXCEPT ![p] = Append(@, e)]

\* The handler of a CLOSE packet.
ReceiveMove(p, q) ==
  \/ UNCHANGED <<vc, termq, wire>>
  \/ /\ wire[q][p] # <<>> /\ Head(wire[q][p]) = "FALSE"
     /\ wire'[q][p] = Tail(wire[q][p])
     /\ UNCHANGED termq
     /\ \/ vc[p][q] = "LOCAL_CLOSE" /\ Moved(p, q, "CLOSE_ACKED")
        \/ vc[p][q] \in {"ACTIVE", "INACTIVE"} /\ Moved(p, q, "REMOTE_CLOSE")
  \/ /\ wire[q][p] # <<>> /\ Head(wire[q][p]) = "TRUE"
     /\ wire'[q][p] = Tail(wire[q][p])
     /\ vc[p][q] \in {"LOCAL_CLOSE", "CLOSE_ACKED"}
     /\ \/ Moved(p, q, "INACTIVE") /\ UNCHANGED termq
        \/ Moved(p, q, "CLOSED") /\ Waits(p, q)

\* The handler makes one of the moves of ReceiveMove, and touches only the
\* packets between the two processes.
LEMMA ReceiveEffect ==
  ASSUME CountInv, NEW p \in Procs, NEW q \in Procs, PktHandler_Close(p, q)
  PROVE  /\ ReceiveMove(p, q)
         /\ p # q /\ p \notin Failed
         /\ UNCHANGED <<known, todo, n, phase>>
         /\ \A x, y \in Procs : (x # p \/ y # q) /\ (x # q \/ y # p)
                                  => wire'[x][y] = wire[x][y]
  <1> USE DEF CountInv
  <1>1. /\ p # q /\ p \notin Failed
        /\ UNCHANGED <<known, todo, n, phase>>
    BY DEF PktHandler_Close, InProgress, Ready, Failed
  <1>2. wire[q][p] # <<>>
    <2>1. wire[q][p] \in Seq(Ack) /\ Queued(q, p) \in Nat
      BY QueuedNat DEF TypeOK
    <2> QED BY <2>1 DEF PktHandler_Close, Receivable
  <1>3. /\ \A x, y \in Procs : (x # p \/ y # q) /\ (x # q \/ y # p)
                                 => wire'[x][y] = wire[x][y]
        /\ ~CloseAssertFails(p, q) => wire'[q][p] = Tail(wire[q][p])
    <2>1. CASE wire' = [wire EXCEPT ![q][p] = Tail(@)]
      BY <1>1, <2>1 DEF TypeOK
    <2>2. CASE wire' = [wire EXCEPT ![q][p] = Tail(@), ![p][q] = Append(@, "TRUE")]
      BY <1>1, <2>2 DEF TypeOK
    <2>3. CASE UNCHANGED wire /\ CloseAssertFails(p, q)
      BY <2>3
    <2> QED BY <2>1, <2>2, <2>3
          DEF PktHandler_Close, CloseRequest, CloseAck, CloseAssertFails
  <1>4. CASE CloseAssertFails(p, q)
    BY <1>1, <1>3, <1>4 DEF CloseAssertFails, ReceiveMove
  <1>5. CASE CloseRequest(p, q) /\ ~CloseAssertFails(p, q)
    <2>1. Head(wire[q][p]) = "FALSE" /\ UNCHANGED termq
      BY <1>5 DEF CloseRequest
    <2>2. CASE /\ vc[p][q] = "LOCAL_CLOSE"
               /\ vc' = [vc EXCEPT ![p][q] = "CLOSE_ACKED"]
      <3>1. Moved(p, q, "CLOSE_ACKED")
        BY <2>2, MovedBy
      <3> QED BY <1>1, <1>2, <1>3, <1>5, <2>1, <2>2, <3>1 DEF ReceiveMove
    <2>3. CASE /\ SetActive(vc[p][q]) = "ACTIVE"
               /\ vc' = [vc EXCEPT ![p][q] = "REMOTE_CLOSE"]
      <3>1. Moved(p, q, "REMOTE_CLOSE")
        BY <2>3, MovedBy
      <3>2. vc[p][q] \in {"ACTIVE", "INACTIVE"}
        BY <2>3 DEF SetActive
      <3> QED BY <1>1, <1>2, <1>3, <1>5, <2>1, <3>1, <3>2 DEF ReceiveMove
    <2> QED BY <1>5, <2>2, <2>3 DEF CloseRequest
  <1>6. CASE CloseAck(p, q) /\ ~CloseAssertFails(p, q)
    <2>1. /\ Head(wire[q][p]) = "TRUE"
          /\ vc[p][q] \in {"LOCAL_CLOSE", "CLOSE_ACKED"}
      BY <1>6 DEF CloseAck
    <2>2. CASE /\ vc' = [vc EXCEPT ![p][q] = AfterTerminated("CLOSED")]
               /\ UNCHANGED termq
      <3>1. Moved(p, q, "INACTIVE")
        BY <2>2, MovedBy DEF AfterTerminated
      <3> QED BY <1>1, <1>2, <1>3, <1>6, <2>1, <2>2, <3>1 DEF ReceiveMove
    <2>3. CASE /\ vc' = [vc EXCEPT ![p][q] = "CLOSED"]
               /\ \E r \in Newest(shmq'[p]) :
                    termq' = [termq EXCEPT ![p] =
                                Append(@, [vc |-> q, req |-> r.req])]
      <3>1. Moved(p, q, "CLOSED")
        BY <2>3, MovedBy
      <3>2. PICK r \in Newest(shmq'[p]) :
                    termq' = [termq EXCEPT ![p] =
                                Append(@, [vc |-> q, req |-> r.req])]
        BY <2>3
      <3>3. TypeOK'
        BY CloseCount
      <3>4. [vc |-> q, req |-> r.req] \in [vc : Procs, req : Nat]
        BY <3>3 DEF Newest, TypeOK
      <3>5. Waits(p, q)
        BY <3>2, <3>4 DEF Waits
      <3> QED BY <1>1, <1>2, <1>3, <1>6, <2>1, <3>1, <3>5 DEF ReceiveMove
    <2> QED BY <1>6, <2>2, <2>3 DEF CloseAck
  <1> QED BY <1>4, <1>5, <1>6 DEF PktHandler_Close

\* check_terminating_vcs takes the head of the queue.
TakeMove(p) ==
  /\ termq[p] # <<>>
  /\ \E q \in Procs : /\ q = termq[p][1].vc
                      /\ Moved(p, q, AfterTerminated(vc[p][q]))
  /\ termq' = [termq EXCEPT ![p] = Tail(@)]

\* check_terminating_vcs takes the head of the queue or does nothing.
LEMMA TakeEffect ==
  ASSUME TypeOK, NEW p \in Procs, check_terminating_vcs(p)
  PROVE  /\ TakeMove(p) \/ UNCHANGED <<vc, termq>>
         /\ p \notin Failed
         /\ UNCHANGED <<known, todo, n, phase, wire>>
  <1>1. /\ p \notin Failed
        /\ UNCHANGED <<known, todo, n, phase, wire>>
    BY DEF check_terminating_vcs, Failed
  <1>2. CASE /\ TermqHeadComplete(p)
             /\ termq' = [termq EXCEPT ![p] = Tail(@)]
             /\ Handle_connection(p, Head(termq[p]).vc)
    <2>1. termq[p] \in Seq([vc : Procs, req : Nat]) /\ termq[p] # <<>>
      BY <1>2 DEF TypeOK, TermqHeadComplete
    <2>2. Head(termq[p]) = termq[p][1] /\ 1 \in 1 .. Len(termq[p])
      BY <2>1, HeadTailType, Zenon
    <2>3. PICK q \in Procs : q = termq[p][1].vc
      BY <2>2, TermqType
    <2>4. vc' = [vc EXCEPT ![p][q] = AfterTerminated(vc[p][q])]
      BY <1>2, <2>2, <2>3 DEF Handle_connection
    <2>5. Moved(p, q, AfterTerminated(vc[p][q]))
      BY <2>4, MovedBy
    <2> QED BY <1>1, <1>2, <2>1, <2>3, <2>5 DEF TakeMove
  <1>3. CASE UNCHANGED <<vc, termq>>
    BY <1>1, <1>3
  <1> QED BY <1>2, <1>3 DEF check_terminating_vcs

\* MPIDI_CH3_Connection_terminate for a dead process.
DeathMove(p, q) ==
  \/ /\ vc[p][q] \in {"MORIBUND", "INACTIVE_CLOSED"}
     /\ UNCHANGED <<vc, termq>>
  \/ /\ vc[p][q] \notin {"MORIBUND", "INACTIVE_CLOSED", "CLOSED"}
     /\ Moved(p, q, "MORIBUND") /\ UNCHANGED termq
  \/ /\ vc[p][q] = "CLOSED"
     /\ Moved(p, q, "INACTIVE") /\ UNCHANGED termq
  \/ /\ vc[p][q] = "CLOSED"
     /\ UNCHANGED vc /\ Waits(p, q)

\* terminate_failed_VCs makes one of the moves of DeathMove, for a dead process.
LEMMA DeathEffect ==
  ASSUME TypeOK, DeadInv, NEW p \in Procs, terminate_failed_VCs(p)
  PROVE  /\ \E q \in todo[p] : /\ DeathMove(p, q)
                               /\ q \in Failed /\ q \in Procs /\ q # p
                               /\ todo' = [todo EXCEPT ![p] = @ \ {q}]
                               /\ \A x, y \in Procs : x # p
                                    => wire'[x][y] = wire[x][y]
         /\ p \notin Failed
         /\ UNCHANGED <<known, n, phase>>
  <1>1. p \notin Failed /\ UNCHANGED <<known, n, phase>>
    BY DEF terminate_failed_VCs, Failed
  <1>2. PICK q \in todo[p] : /\ Connection_terminate(p, q)
                             /\ todo' = [todo EXCEPT ![p] = @ \ {q}]
    BY DEF terminate_failed_VCs
  <1>3. q \in Failed /\ q \in Procs /\ q # p
    BY <1>1 DEF DeadInv, TypeOK
  <1>4. \A x, y \in Procs : x # p => wire'[x][y] = wire[x][y]
    <2>1. CASE UNCHANGED wire
      BY <2>1
    <2>2. CASE wire' = [wire EXCEPT ![p][q] = InCells(p, q)]
      BY <1>3, <2>2 DEF TypeOK
    <2> QED BY <1>2, <2>1, <2>2 DEF Connection_terminate
  <1>5. DeathMove(p, q)
    <2>1. CASE Handle_connection(p, q) /\ UNCHANGED termq
               /\ vc[p][q] \notin {"MORIBUND", "INACTIVE_CLOSED"}
      <3>1. vc' = [vc EXCEPT ![p][q] = AfterTerminated(vc[p][q])]
        BY <2>1 DEF Handle_connection
      <3>2. Moved(p, q, AfterTerminated(vc[p][q]))
        BY <1>3, <3>1, MovedBy
      <3> QED BY <2>1, <3>2 DEF DeathMove, AfterTerminated
    <2>2. CASE vc[p][q] \in {"MORIBUND", "INACTIVE_CLOSED"} /\ UNCHANGED <<vc, termq>>
      BY <2>2 DEF DeathMove
    <2>3. CASE /\ vc[p][q] = "CLOSED" /\ UNCHANGED vc
               /\ \E r \in Newest(shmq[p]) : termq' =
                     [termq EXCEPT ![p] = Append(@, [vc |-> q, req |-> r.req])]
      <3>1. PICK r \in Newest(shmq[p]) : termq' =
                     [termq EXCEPT ![p] = Append(@, [vc |-> q, req |-> r.req])]
        BY <2>3
      <3>2. [vc |-> q, req |-> r.req] \in [vc : Procs, req : Nat]
        BY <1>3 DEF Newest, TypeOK
      <3>3. Waits(p, q)
        BY <3>1, <3>2 DEF Waits
      <3> QED BY <2>3, <3>3 DEF DeathMove
    <2> QED BY <1>2, <2>1, <2>2, <2>3 DEF Connection_terminate
  <1> QED BY <1>1, <1>2, <1>3, <1>4, <1>5
-----------------------------------------------------------------------------
(* What a dead process left in shared memory.                              *)

\* Between two live processes QuietInv follows from the states of the pair.
LEMMA PairQuiet ==
  ASSUME NEW s, NEW t, NEW a \in Seq(Ack), NEW b \in Seq(Ack),
         Pair(s, t, a, b)
  PROVE  (s \in Over => Len(b) = 0) /\ TrueLast(b)
  <1>1. s \in Over => Len(b) = 0
    BY DEF Pair, HalfPair, None, One, Two, Over
  <1>2. Len(b) = 0 \/ Len(b) = 1 \/ (Len(b) = 2 /\ b[1] = "FALSE")
    BY DEF Pair, HalfPair, None, One, Two, Over
  <1>3. ASSUME NEW i \in 1 .. Len(b), i < Len(b)
        PROVE  b[i] = "FALSE"
    <2>1. PICK l \in Nat : l = Len(b)
      OBVIOUS
    <2>2. i \in 1 .. l /\ i < l
      BY <1>3, <2>1
    <2>3. l = 0 \/ l = 1 \/ (l = 2 /\ b[1] = "FALSE")
      BY <1>2, <2>1
    <2>4. i = 1 /\ l = 2
      BY <2>2, <2>3
    <2> QED BY <2>3, <2>4
  <1> QED BY <1>1, <1>3 DEF TrueLast

\* Receiving keeps acknowledgements last.
LEMMA TrueLastTail ==
  ASSUME NEW b \in Seq(Ack), b # <<>>, TrueLast(b)
  PROVE  /\ Tail(b) \in Seq(Ack) /\ TrueLast(Tail(b))
         /\ Head(b) = "TRUE" => Len(Tail(b)) = 0
  <1>1. /\ Head(b) = b[1] /\ 1 \in 1 .. Len(b)
        /\ Tail(b) \in Seq(Ack)
        /\ Len(Tail(b)) = Len(b) - 1
        /\ \A i \in 1 .. Len(Tail(b)) :
             i + 1 \in 1 .. Len(b) /\ Tail(b)[i] = b[i + 1]
    BY HeadTailType, Zenon
  <1>2. Len(b) \in Nat
    OBVIOUS
  <1> QED BY <1>1, <1>2 DEF TrueLast

\* So does what remains in cells when the sender dies.
LEMMA TrueLastPrefix ==
  ASSUME NEW b \in Seq(Ack), TrueLast(b), NEW k \in Nat
  PROVE  /\ TrueLast(SubSeq(b, 1, Len(b) - k))
         /\ Len(b) = 0 => Len(SubSeq(b, 1, Len(b) - k)) = 0
  BY DEF TrueLast

\* Every step keeps QuietInv.
LEMMA QuietNext ==
  ASSUME IInv, QuietInv, [Next]_vars
  PROVE  QuietInv'
  <1> USE DEF IInv, CountInv
  <1>0. Failed \subseteq Failed' /\ PairInv' /\ TypeOK'
    BY FailedGrows, PairNext, CountNext
  <1> SUFFICES ASSUME NEW x \in Procs, NEW y \in Procs, x # y, x \notin Failed'
               PROVE  /\ vc'[x][y] \in Over => Len(wire'[y][x]) = 0
                      /\ TrueLast(wire'[y][x])
    BY DEF QuietInv
  <1>1. /\ wire[y][x] \in Seq(Ack) /\ wire'[y][x] \in Seq(Ack)
        /\ wire'[x][y] \in Seq(Ack)
    BY <1>0 DEF TypeOK
  <1>2. /\ vc[x][y] \in Over => Len(wire[y][x]) = 0
        /\ TrueLast(wire[y][x])
    BY <1>0 DEF QuietInv
  <1>3. CASE y \notin Failed'
    <2>1. Pair(vc'[x][y], vc'[y][x], wire'[x][y], wire'[y][x])
      BY <1>0, <1>3 DEF PairInv
    <2> QED BY <1>1, <2>1, PairQuiet, Zenon
  <1>4. CASE UNCHANGED <<vc, wire>>
    BY <1>2, <1>4
  <1>5. ASSUME y \in Failed', wire'[y][x] = wire[y][x],
               vc'[x][y] \in Over => vc[x][y] \in Over
        PROVE  /\ vc'[x][y] \in Over => Len(wire'[y][x]) = 0
               /\ TrueLast(wire'[y][x])
    BY <1>2, <1>5
  <1>6. ASSUME NEW p \in Procs, PG_Close_VCs(p), y \in Failed'
        PROVE  /\ vc'[x][y] \in Over => Len(wire'[y][x]) = 0
               /\ TrueLast(wire'[y][x])
    <2>1. PICK q \in Procs : q = ClosePeer(p, n[p])
      BY PeerType
    <2>2. SendMove(p, q) /\ p \notin Failed
      BY <1>6, <2>1, SendEffect
    <2>3. phase'[y] = "failed" => y # p
      BY <1>6 DEF PG_Close_VCs, Ready, TypeOK
    <2>4. wire'[y][x] = wire[y][x]
      <3>1. CASE VC_SendClose(p, q)
        BY <1>6, <2>3, <3>1 DEF VC_SendClose, Failed, TypeOK
      <3>2. CASE VC_SkipClose(p, q)
        BY <3>2 DEF VC_SkipClose
      <3> QED BY <1>6, <2>1, <3>1, <3>2 DEF PG_Close_VCs
    <2>5. vc'[x][y] \in Over => vc[x][y] \in Over
      BY <2>2 DEF SendMove, Moved, Over
    <2> QED BY <1>5, <1>6, <2>4, <2>5
  <1>7. ASSUME NEW p \in Procs, NEW q \in Procs, PktHandler_Close(p, q),
               y \in Failed'
        PROVE  /\ vc'[x][y] \in Over => Len(wire'[y][x]) = 0
               /\ TrueLast(wire'[y][x])
    <2>1. /\ ReceiveMove(p, q) /\ p # q /\ p \notin Failed
          /\ y \in Failed
          /\ \A u, v \in Procs : (u # p \/ v # q) /\ (u # q \/ v # p)
                                   => wire'[u][v] = wire[u][v]
      BY <1>7, ReceiveEffect DEF Failed
    <2>2. CASE x = p /\ y = q /\ wire[q][p] # <<>>
               /\ wire'[q][p] = Tail(wire[q][p])
      <3>1. /\ TrueLast(wire'[y][x])
            /\ Head(wire[y][x]) = "TRUE" => Len(wire'[y][x]) = 0
        BY <1>1, <1>2, <2>2, TrueLastTail
      <3>2. Len(wire[y][x]) # 0
        BY <1>1, <2>2
      <3>3. CASE Head(wire[y][x]) = "TRUE"
        BY <3>1, <3>3
      <3>4. CASE Head(wire[y][x]) # "TRUE"
        <4>1. vc'[x][y] \in {"CLOSE_ACKED", "REMOTE_CLOSE"} \/ UNCHANGED vc
          BY <2>1, <2>2, <3>4 DEF ReceiveMove, Moved
        <4> QED BY <1>2, <3>1, <3>2, <4>1 DEF Over
      <3> QED BY <3>3, <3>4
    <2>3. CASE x # p \/ y # q
      <3>1. y # p
        BY <2>1
      <3>2. wire'[y][x] = wire[y][x]
        BY <2>1, <2>3, <3>1
      <3>3. vc'[x][y] = vc[x][y]
        BY <2>1, <2>3 DEF ReceiveMove, Moved
      <3> QED BY <1>5, <1>7, <3>2, <3>3
    <2> QED BY <1>4, <2>1, <2>2, <2>3 DEF ReceiveMove
  <1>8. ASSUME NEW p \in Procs, check_terminating_vcs(p), y \in Failed'
        PROVE  /\ vc'[x][y] \in Over => Len(wire'[y][x]) = 0
               /\ TrueLast(wire'[y][x])
    <2>1. (TakeMove(p) \/ UNCHANGED vc) /\ UNCHANGED wire
      BY <1>8, TakeEffect
    <2>2. vc'[x][y] \in Over => vc[x][y] \in Over
      BY <2>1 DEF TakeMove, Moved, AfterTerminated, Over
    <2> QED BY <1>5, <1>8, <2>1, <2>2
  <1>9. ASSUME NEW p \in Procs, terminate_failed_VCs(p), y \in Failed'
        PROVE  /\ vc'[x][y] \in Over => Len(wire'[y][x]) = 0
               /\ TrueLast(wire'[y][x])
    <2>1. PICK q \in Procs : /\ DeathMove(p, q)
                             /\ \A u, v \in Procs : u # p
                                  => wire'[u][v] = wire[u][v]
      BY <1>9, DeathEffect
    <2>2. p \notin Failed /\ Failed' = Failed
      BY <1>9, DeathEffect DEF Failed
    <2>3. vc'[x][y] \in Over => vc[x][y] \in Over
      BY <2>1 DEF DeathMove, Moved, Over
    <2> QED BY <1>5, <1>9, <2>1, <2>2, <2>3
  <1>10. ASSUME NEW p \in Procs, Fail(p), y \in Failed'
         PROVE  /\ vc'[x][y] \in Over => Len(wire'[y][x]) = 0
                /\ TrueLast(wire'[y][x])
    <2>1. UNCHANGED vc
      BY <1>10 DEF Fail
    <2>2. CASE y # p
      <3>1. wire'[y][x] = wire[y][x]
        BY <1>10, <2>2 DEF Fail, TypeOK
      <3> QED BY <1>5, <1>10, <2>1, <3>1
    <2>3. CASE y = p
      <3>1. wire'[y][x] = InCells(y, x)
        BY <1>10, <2>3 DEF Fail, TypeOK
      <3>2. Queued(y, x) \in Nat
        BY QueuedNat
      <3>3. /\ TrueLast(InCells(y, x))
            /\ Len(wire[y][x]) = 0 => Len(InCells(y, x)) = 0
        BY <1>1, <1>2, <3>2, TrueLastPrefix DEF InCells
      <3> QED BY <1>2, <2>1, <3>1, <3>3
    <2> QED BY <2>2, <2>3
  <1> QED BY <1>3, <1>4, <1>6, <1>7, <1>8, <1>9, <1>10
        DEF Next, Step, Ended, vars, Finalize, VC_WaitForClose,
            Shm_send_progress, Check_for_failed_procs, PMI_dead_processes
-----------------------------------------------------------------------------
(* The VCs that MPIDI_PG_Close_VCs visits.                                 *)

\* A remainder of less than twice the modulus.
LEMMA ModOnce ==
  ASSUME NEW m \in Nat \ {0}, NEW x \in Nat, x < m + m
  PROVE  x % m = IF x < m THEN x ELSE x - m
  <1>1. CASE x < m
    BY <1>1
  <1>2. CASE m <= x
    BY <1>2
  <1> QED BY <1>1, <1>2

\* The VCs in the order in which the loop visits them.
LEMMA PeerOrder ==
  ASSUME NEW p \in Procs
  PROVE  \E c \in 0 .. N-1 : \A i \in 0 .. N-1 :
           ClosePeer(p, i) = IF i + c < N THEN i + c ELSE i + c - N
  <1>1. PICK c \in 0 .. N-1 : c = (p + 1) % N
    BY NAssumption DEF Procs
  <1>2. ASSUME NEW i \in 0 .. N-1
        PROVE  ClosePeer(p, i) = IF i + c < N THEN i + c ELSE i + c - N
    <2>1. i + c \in Nat /\ i + c < N + N
      BY NAssumption
    <2> QED BY <1>1, <2>1, ModOnce, NAssumption DEF ClosePeer
  <1> QED BY <1>2

\* The loop visits no VC twice.
LEMMA PeerOnce ==
  ASSUME NEW p \in Procs, NEW j \in 0 .. N-1, NEW k \in 0 .. N-1,
         ClosePeer(p, j) = ClosePeer(p, k)
  PROVE  j = k
  <1>2. PICK c \in 0 .. N-1 : \A i \in 0 .. N-1 :
          ClosePeer(p, i) = IF i + c < N THEN i + c ELSE i + c - N
    BY PeerOrder
  <1> QED BY <1>2, NAssumption

\* Every process is visited.
LEMMA PeerAll ==
  ASSUME NEW p \in Procs, NEW q \in Procs
  PROVE  \E k \in 0 .. N-1 : ClosePeer(p, k) = q
  <1>2. PICK c \in 0 .. N-1 : \A i \in 0 .. N-1 :
          ClosePeer(p, i) = IF i + c < N THEN i + c ELSE i + c - N
    BY PeerOrder
  <1>3. CASE q >= c
    <2>1. q - c \in 0 .. N-1 /\ (q - c) + c < N /\ (q - c) + c = q
      BY <1>3, NAssumption DEF Procs
    <2> QED BY <1>2, <2>1
  <1>4. CASE q < c
    <2>1. /\ q - c + N \in 0 .. N-1 /\ ~((q - c + N) + c < N)
          /\ (q - c + N) + c - N = q
      BY <1>4, NAssumption DEF Procs
    <2> QED BY <1>2, <2>1
  <1> QED BY <1>3, <1>4, NAssumption DEF Procs

\* A step of the loop visits one more VC.
LEMMA SeenNext ==
  ASSUME TypeOK, NEW p \in Procs, n[p] < N, n' = [n EXCEPT ![p] = @ + 1]
  PROVE  /\ ~Seen(p, ClosePeer(p, n[p]))
         /\ \A x, y \in Procs :
              (Seen(x, y)') <=> (Seen(x, y) \/ (x = p /\ y = ClosePeer(p, n[p])))
  <1>1. n[p] \in 0 .. N-1 /\ \A x \in Procs : n[x] \in 0 .. N
    BY NAssumption DEF TypeOK
  <1>2. ~Seen(p, ClosePeer(p, n[p]))
    <2>1. ASSUME NEW k \in 0 .. n[p] - 1, ClosePeer(p, k) = ClosePeer(p, n[p])
          PROVE  FALSE
      <3>1. k \in 0 .. N-1 /\ k # n[p]
        BY <1>1, NAssumption
      <3> QED BY <1>1, <2>1, <3>1, PeerOnce
    <2> QED BY <2>1 DEF Seen
  <1>3. \A x \in Procs : n'[x] = IF x = p THEN n[p] + 1 ELSE n[x]
    BY DEF TypeOK
  <1>4. ASSUME NEW y \in Procs
        PROVE  (Seen(p, y)') <=> (Seen(p, y) \/ y = ClosePeer(p, n[p]))
    <2>1. n'[p] - 1 = n[p] /\ n[p] \in Nat
      BY <1>1, <1>3, NAssumption
    <2>2. Seen(p, y)' <=> \E k \in 0 .. n[p] : ClosePeer(p, k) = y
      BY <2>1 DEF Seen, ClosePeer
    <2>3. \A k : k \in 0 .. n[p] <=> (k \in 0 .. n[p] - 1 \/ k = n[p])
      BY <2>1
    <2> QED BY <2>2, <2>3 DEF Seen
  <1>5. ASSUME NEW x \in Procs \ {p}, NEW y \in Procs
        PROVE  (Seen(x, y)') <=> Seen(x, y)
    BY <1>3 DEF Seen, ClosePeer
  <1> QED BY <1>2, <1>4, <1>5

\* A step outside the loop that changes at most one VC, and not from a state
\* before the close to one after it.
LEMMA VisitFrame ==
  ASSUME VisitInv, UNCHANGED n,
         \A x \in Procs : phase'[x] \in {"waiting", "done"}
                            => phase[x] \in {"waiting", "done"},
         \A x, y \in Procs :
           \/ vc'[x][y] = vc[x][y]
           \/ x # y /\ vc'[x][y] = "MORIBUND"
           \/ /\ x # y
              /\ vc[x][y] \in {"LOCAL_CLOSE", "CLOSE_ACKED", "CLOSED"}
              /\ vc'[x][y] \in {"CLOSE_ACKED", "CLOSED", "INACTIVE"}
           \/ x # y /\ vc[x][y] = "ACTIVE" /\ vc'[x][y] = "REMOTE_CLOSE"
  PROVE  VisitInv'
  <1>1. \A x, y : Seen(x, y)' <=> Seen(x, y)
    BY DEF Seen, ClosePeer
  <1> SUFFICES ASSUME NEW p \in Procs
               PROVE  /\ vc'[p][p] = "ACTIVE"
                      /\ phase'[p] \in {"waiting", "done"} => n'[p] = N
                      /\ \A q \in Procs \ {p} :
                           /\ Seen(p, q) => vc'[p][q] \in
                                {"LOCAL_CLOSE", "CLOSE_ACKED", "CLOSED",
                                 "INACTIVE", "MORIBUND"}
                           /\ ~Seen(p, q) => vc'[p][q] \in
                                {"ACTIVE", "REMOTE_CLOSE", "MORIBUND"}
    BY <1>1 DEF VisitInv
  <1> QED BY DEF VisitInv

\* The VC at the head of a termination queue is CLOSED or INACTIVE.
LEMMA HeadState ==
  ASSUME TypeOK, WaitInv, NEW p \in Procs, TakeMove(p)
  PROVE  vc[p][termq[p][1].vc] \in {"CLOSED", "INACTIVE"}
  <1>1. termq[p] \in Seq([vc : Procs, req : Nat]) /\ termq[p] # <<>>
    BY DEF TypeOK, TakeMove
  <1>2. 1 \in 1 .. Len(termq[p])
    BY <1>1
  <1>3. ~NoneWaits(termq[p], termq[p][1].vc)
    BY <1>2 DEF NoneWaits
  <1>4. termq[p][1].vc \in Procs
    BY <1>2, TermqType
  <1> QED BY <1>3, <1>4 DEF WaitInv, MayWait

\* Every step keeps VisitInv.
LEMMA VisitNext ==
  ASSUME XInv, [Next]_vars
  PROVE  VisitInv'
  <1> USE DEF XInv, IInv, CountInv
  <1>1. ASSUME NEW p \in Procs, PG_Close_VCs(p)
        PROVE  VisitInv'
    <2>1. PICK q \in Procs : q = ClosePeer(p, n[p])
      BY PeerType
    <2>2. /\ SendMove(p, q) /\ n[p] < N
          /\ n' = [n EXCEPT ![p] = @ + 1]
      BY <1>1, <2>1, SendEffect
    <2>3. /\ ~Seen(p, q)
          /\ \A x, y \in Procs :
               (Seen(x, y)') <=> (Seen(x, y) \/ (x = p /\ y = q))
      BY <2>1, <2>2, SeenNext
    <2>4. \A x \in Procs : phase'[x] \in {"waiting", "done"} => n'[x] = N
      <3>1. /\ phase' = [phase EXCEPT ![p] =
                            IF n[p] + 1 = N THEN "waiting" ELSE phase[p]]
            /\ phase[p] = "closing"
        BY <1>1 DEF PG_Close_VCs
      <3>2. \A x \in Procs \ {p} : phase'[x] = phase[x] /\ n'[x] = n[x]
        BY <2>2, <3>1 DEF TypeOK
      <3>3. n'[p] = n[p] + 1
        BY <2>2 DEF TypeOK
      <3>4. n[p] + 1 # N => phase'[p] = "closing"
        BY <3>1 DEF TypeOK
      <3> QED BY <3>2, <3>3, <3>4 DEF VisitInv
    <2>5. \A x, y \in Procs : x # p \/ y # q => vc'[x][y] = vc[x][y]
      BY <2>2 DEF SendMove, Moved
    <2>6. /\ p = q => vc'[p][q] = vc[p][q]
          /\ p # q => vc'[p][q] \in {"LOCAL_CLOSE", "CLOSE_ACKED", "MORIBUND"}
      <3>1. p # q => vc[p][q] \in {"ACTIVE", "REMOTE_CLOSE", "MORIBUND"}
        BY <2>3 DEF VisitInv
      <3> QED BY <2>2, <3>1 DEF SendMove, Moved
    <2>7. ASSUME NEW x \in Procs, NEW y \in Procs \ {x}
          PROVE  /\ Seen(x, y)' => vc'[x][y] \in
                      {"LOCAL_CLOSE", "CLOSE_ACKED", "CLOSED",
                       "INACTIVE", "MORIBUND"}
                 /\ ~(Seen(x, y)') => vc'[x][y] \in
                      {"ACTIVE", "REMOTE_CLOSE", "MORIBUND"}
      <3>1. CASE x = p /\ y = q
        BY <2>3, <2>6, <3>1
      <3>2. CASE x # p \/ y # q
        BY <2>3, <2>5, <3>2 DEF VisitInv
      <3> QED BY <3>1, <3>2
    <2>8. \A x \in Procs : vc'[x][x] = "ACTIVE"
      BY <2>5, <2>6 DEF VisitInv
    <2> QED BY <2>4, <2>7, <2>8 DEF VisitInv
  <1>2. ASSUME NEW p \in Procs, NEW q \in Procs, PktHandler_Close(p, q)
        PROVE  VisitInv'
    <2>1. /\ ReceiveMove(p, q) /\ p # q /\ p \notin Failed
          /\ UNCHANGED <<n, phase>>
      BY <1>2, ReceiveEffect
    <2>2. wire[q][p] # <<>> => vc[p][q] # "INACTIVE"
      <3>1. wire[q][p] \in Seq(Ack)
        BY DEF TypeOK
      <3> QED BY <2>1, <3>1 DEF QuietInv, Over
    <2>3. \A x, y \in Procs :
            \/ vc'[x][y] = vc[x][y]
            \/ /\ x # y
               /\ vc[x][y] \in {"LOCAL_CLOSE", "CLOSE_ACKED", "CLOSED"}
               /\ vc'[x][y] \in {"CLOSE_ACKED", "CLOSED", "INACTIVE"}
            \/ x # y /\ vc[x][y] = "ACTIVE" /\ vc'[x][y] = "REMOTE_CLOSE"
      BY <2>1, <2>2 DEF ReceiveMove, Moved
    <2> QED BY <2>1, <2>3, VisitFrame
  <1>3. ASSUME NEW p \in Procs, check_terminating_vcs(p)
        PROVE  VisitInv'
    <2>1. /\ TakeMove(p) \/ UNCHANGED vc
          /\ UNCHANGED <<n, phase>>
      BY <1>3, TakeEffect
    <2>2. CASE TakeMove(p)
      <3>1. PICK q \in Procs : /\ q = termq[p][1].vc
                               /\ Moved(p, q, AfterTerminated(vc[p][q]))
        BY <2>2 DEF TakeMove
      <3>2. vc[p][q] \in {"CLOSED", "INACTIVE"} /\ p # q
        BY <2>2, <3>1, HeadState DEF VisitInv
      <3>3. \A x, y \in Procs :
              \/ vc'[x][y] = vc[x][y]
              \/ x # y /\ vc'[x][y] = "MORIBUND"
              \/ /\ x # y
                 /\ vc[x][y] \in {"LOCAL_CLOSE", "CLOSE_ACKED", "CLOSED"}
                 /\ vc'[x][y] \in {"CLOSE_ACKED", "CLOSED", "INACTIVE"}
        BY <3>1, <3>2 DEF Moved, AfterTerminated
      <3> QED BY <2>1, <3>3, VisitFrame
    <2>3. CASE UNCHANGED vc
      BY <2>1, <2>3, VisitFrame
    <2> QED BY <2>1, <2>2, <2>3
  <1>4. ASSUME NEW p \in Procs, terminate_failed_VCs(p)
        PROVE  VisitInv'
    <2>1. PICK q \in Procs : DeathMove(p, q) /\ q # p
      BY <1>4, DeathEffect
    <2>2. UNCHANGED <<n, phase>>
      BY <1>4, DeathEffect
    <2>3. \A x, y \in Procs :
            \/ vc'[x][y] = vc[x][y]
            \/ x # y /\ vc'[x][y] = "MORIBUND"
            \/ /\ x # y
               /\ vc[x][y] \in {"LOCAL_CLOSE", "CLOSE_ACKED", "CLOSED"}
               /\ vc'[x][y] \in {"CLOSE_ACKED", "CLOSED", "INACTIVE"}
      BY <2>1 DEF DeathMove, Moved
    <2> QED BY <2>2, <2>3, VisitFrame
  <1>5. CASE UNCHANGED <<vc, n, phase>>
    BY <1>5, VisitFrame
  <1>6. ASSUME NEW p \in Procs, Finalize(p) \/ Fail(p) \/ VC_WaitForClose(p)
        PROVE  VisitInv'
    <2>1. UNCHANGED <<vc, n>>
      BY <1>6 DEF Finalize, Fail, VC_WaitForClose
    <2>2. \A x \in Procs : phase'[x] \in {"waiting", "done"}
                             => phase[x] \in {"waiting", "done"}
      BY <1>6 DEF Finalize, Fail, VC_WaitForClose, TypeOK
    <2> QED BY <2>1, <2>2, VisitFrame
  <1> QED BY <1>1, <1>2, <1>3, <1>4, <1>5, <1>6
        DEF Next, Step, Ended, vars, Shm_send_progress,
            Check_for_failed_procs, PMI_dead_processes
-----------------------------------------------------------------------------
(* How often a VC waits in a termination queue.                            *)

Entry == [vc : Procs, req : Nat]

\* Waiting less often is waiting at most as often.
LEMMA FewerWait ==
  ASSUME NEW s, NEW q
  PROVE  /\ NoneWaits(s, q) => OneWaits(s, q)
         /\ OneWaits(s, q) => TwoWait(s, q)
  BY DEF NoneWaits, OneWaits, TwoWait

\* What an entry appended to a queue changes.
LEMMA AppendWait ==
  ASSUME NEW s \in Seq(Entry), NEW e \in Entry, NEW q
  PROVE  /\ NoneWaits(s, e.vc) => OneWaits(Append(s, e), e.vc)
         /\ OneWaits(s, e.vc) => TwoWait(Append(s, e), e.vc)
         /\ q # e.vc => /\ NoneWaits(s, q) => NoneWaits(Append(s, e), q)
                        /\ OneWaits(s, q) => OneWaits(Append(s, e), q)
                        /\ TwoWait(s, q) => TwoWait(Append(s, e), q)
  <1>1. PICK s2 : s2 = Append(s, e)
    OBVIOUS
  <1>2. PICK l \in Nat : l = Len(s)
    OBVIOUS
  <1>3. /\ Len(s2) = l + 1
        /\ \A i \in 1 .. l : s2[i] = s[i]
        /\ s2[l + 1] = e
    BY <1>1, <1>2, AppendType
  <1>4. \A i \in 1 .. l + 1 : i \in 1 .. l \/ i = l + 1
    OBVIOUS
  <1>5. NoneWaits(s, e.vc) => OneWaits(s2, e.vc)
    BY <1>2, <1>3, <1>4 DEF NoneWaits, OneWaits
  <1>6. OneWaits(s, e.vc) => TwoWait(s2, e.vc)
    BY <1>2, <1>3, <1>4 DEF OneWaits, TwoWait
  <1>7. ASSUME q # e.vc
        PROVE  /\ NoneWaits(s, q) => NoneWaits(s2, q)
               /\ OneWaits(s, q) => OneWaits(s2, q)
               /\ TwoWait(s, q) => TwoWait(s2, q)
    <2>1. \A i \in 1 .. l + 1 : s2[i].vc = q => i \in 1 .. l /\ s[i].vc = q
      BY <1>3, <1>4, <1>7
    <2> QED BY <1>2, <1>3, <2>1 DEF NoneWaits, OneWaits, TwoWait
  <1> QED BY <1>1, <1>5, <1>6, <1>7

\* What taking the head of a queue changes.
LEMMA TailWait ==
  ASSUME NEW s \in Seq(Entry), s # <<>>, NEW q
  PROVE  /\ OneWaits(s, s[1].vc) => NoneWaits(Tail(s), s[1].vc)
         /\ TwoWait(s, s[1].vc) => OneWaits(Tail(s), s[1].vc)
         /\ NoneWaits(s, q) => NoneWaits(Tail(s), q)
         /\ OneWaits(s, q) => OneWaits(Tail(s), q)
         /\ TwoWait(s, q) => TwoWait(Tail(s), q)
  <1>1. PICK s2 : s2 = Tail(s)
    OBVIOUS
  <1>2. /\ 1 \in 1 .. Len(s)
        /\ \A i \in 1 .. Len(s2) : i + 1 \in 1 .. Len(s) /\ s2[i] = s[i + 1]
    BY <1>1, HeadTailType, Zenon
  <1>3. \A i, j \in 1 .. Len(s2) : i + 1 # 1 /\ (i + 1 = j + 1 => i = j)
    OBVIOUS
  <1>4. ASSUME OneWaits(s, s[1].vc), NEW i \in 1 .. Len(s2)
        PROVE  s2[i].vc # s[1].vc
    <2>1. i + 1 \in 1 .. Len(s) /\ s2[i] = s[i + 1] /\ i + 1 # 1
      BY <1>2, <1>3
    <2> QED BY <1>2, <1>4, <2>1 DEF OneWaits
  <1>5. ASSUME TwoWait(s, s[1].vc),
               NEW i \in 1 .. Len(s2), NEW j \in 1 .. Len(s2),
               s2[i].vc = s[1].vc, s2[j].vc = s[1].vc
        PROVE  i = j
    <2>1. /\ i + 1 \in 1 .. Len(s) /\ s[i + 1].vc = s[1].vc /\ i + 1 # 1
          /\ j + 1 \in 1 .. Len(s) /\ s[j + 1].vc = s[1].vc /\ j + 1 # 1
      BY <1>2, <1>3, <1>5
    <2>2. i + 1 = j + 1
      BY <1>2, <1>5, <2>1 DEF TwoWait
    <2> QED BY <1>3, <2>2
  <1>6. /\ NoneWaits(s, q) => NoneWaits(s2, q)
        /\ OneWaits(s, q) => OneWaits(s2, q)
    <2>1. NoneWaits(s, q) => NoneWaits(s2, q)
      BY <1>2 DEF NoneWaits
    <2>2. ASSUME OneWaits(s, q),
                 NEW i \in 1 .. Len(s2), NEW j \in 1 .. Len(s2),
                 s2[i].vc = q, s2[j].vc = q
          PROVE  i = j
      <3>1. i + 1 = j + 1
        BY <1>2, <2>2 DEF OneWaits
      <3> QED BY <1>3, <3>1
    <2> QED BY <2>1, <2>2 DEF OneWaits
  <1>7. ASSUME TwoWait(s, q),
               NEW i \in 1 .. Len(s2), NEW j \in 1 .. Len(s2),
               NEW k \in 1 .. Len(s2),
               s2[i].vc = q, s2[j].vc = q, s2[k].vc = q
        PROVE  i = j \/ j = k \/ i = k
    <2>1. /\ i + 1 \in 1 .. Len(s) /\ s[i + 1].vc = q
          /\ j + 1 \in 1 .. Len(s) /\ s[j + 1].vc = q
          /\ k + 1 \in 1 .. Len(s) /\ s[k + 1].vc = q
      BY <1>2, <1>7
    <2>2. i + 1 = j + 1 \/ j + 1 = k + 1 \/ i + 1 = k + 1
      BY <1>7, <2>1 DEF TwoWait
    <2> QED BY <1>3, <2>2
  <1>8. TwoWait(s, q) => TwoWait(s2, q)
    BY <1>7 DEF TwoWait
  <1>9. /\ OneWaits(s, s[1].vc) => NoneWaits(s2, s[1].vc)
        /\ TwoWait(s, s[1].vc) => OneWaits(s2, s[1].vc)
    BY <1>4, <1>5 DEF NoneWaits, OneWaits
  <1> QED BY <1>1, <1>6, <1>8, <1>9

\* Every step keeps TodoInv.
LEMMA TodoNext ==
  ASSUME TypeOK, DeadInv, TodoInv, [Next]_vars
  PROVE  TodoInv'
  <1>1. ASSUME NEW p \in Procs, Check_for_failed_procs(p)
        PROVE  TodoInv'
    BY <1>1 DEF Check_for_failed_procs, TodoInv, TypeOK
  <1>2. ASSUME NEW p \in Procs, terminate_failed_VCs(p)
        PROVE  TodoInv'
    BY <1>2 DEF terminate_failed_VCs, TodoInv, TypeOK
  <1>3. CASE UNCHANGED <<todo, known>>
    BY <1>3 DEF TodoInv
  <1> QED BY <1>1, <1>2, <1>3
        DEF Next, Step, Ended, vars, Finalize, PG_Close_VCs, VC_WaitForClose,
            Fail, Shm_send_progress, check_terminating_vcs, PktHandler_Close,
            PMI_dead_processes

\* An entry for q is appended to p's queue and nothing else.
LEMMA WaitsEffect ==
  ASSUME TypeOK, NEW p \in Procs, NEW q \in Procs, Waits(p, q)
  PROVE  /\ NoneWaits(termq[p], q) => OneWaits(termq'[p], q)
         /\ OneWaits(termq[p], q) => TwoWait(termq'[p], q)
         /\ \A y \in Procs \ {q} :
              /\ NoneWaits(termq[p], y) => NoneWaits(termq'[p], y)
              /\ OneWaits(termq[p], y) => OneWaits(termq'[p], y)
              /\ TwoWait(termq[p], y) => TwoWait(termq'[p], y)
         /\ \A x \in Procs \ {p} : termq'[x] = termq[x]
  <1>1. PICK e \in Entry :
          e.vc = q /\ termq' = [termq EXCEPT ![p] = Append(termq[p], e)]
    BY DEF Waits, Entry
  <1>2. termq[p] \in Seq(Entry)
    BY DEF TypeOK, Entry
  <1>3. /\ termq'[p] = Append(termq[p], e)
        /\ \A x \in Procs \ {p} : termq'[x] = termq[x]
    BY <1>1 DEF TypeOK
  <1> QED BY <1>1, <1>2, <1>3, AppendWait

\* The VCs and queues a step leaves alone.
LEMMA WaitFrame ==
  ASSUME WaitInv, NEW x \in Procs, NEW y \in Procs,
         \/ vc'[x][y] = vc[x][y]
         \/ {vc'[x][y], vc[x][y]} \cap {"CLOSED", "INACTIVE"} = {},
         termq'[x] = termq[x],
         GaveUp(x, y)' <=> GaveUp(x, y)
  PROVE  MayWait(vc'[x][y], termq'[x], y, GaveUp(x, y)')
  <1>1. MayWait(vc[x][y], termq[x], y, GaveUp(x, y))
    BY DEF WaitInv
  <1> QED BY <1>1 DEF MayWait

\* Every step keeps WaitInv.
LEMMA WaitNext ==
  ASSUME XInv, [Next]_vars
  PROVE  WaitInv'
  <1> USE DEF XInv, IInv, CountInv
  <1> SUFFICES ASSUME NEW x \in Procs, NEW y \in Procs
               PROVE  MayWait(vc'[x][y], termq'[x], y, GaveUp(x, y)')
    BY DEF WaitInv
  <1>0. MayWait(vc[x][y], termq[x], y, GaveUp(x, y))
    BY DEF WaitInv
  <1>1. ASSUME NEW p \in Procs, PG_Close_VCs(p)
        PROVE  MayWait(vc'[x][y], termq'[x], y, GaveUp(x, y)')
    <2>1. PICK q \in Procs : q = ClosePeer(p, n[p])
      BY PeerType
    <2>2. SendMove(p, q) /\ UNCHANGED <<termq, known, todo>> /\ ~Seen(p, q)
      BY <1>1, <2>1, SendEffect, SeenNext
    <2>3. p # q => vc[p][q] # "INACTIVE"
      BY <2>2 DEF VisitInv
    <2>4. \/ vc'[x][y] = vc[x][y]
          \/ {vc'[x][y], vc[x][y]} \cap {"CLOSED", "INACTIVE"} = {}
      BY <2>2, <2>3 DEF SendMove, Moved
    <2> QED BY <2>2, <2>4, WaitFrame DEF GaveUp
  <1>2. ASSUME NEW p \in Procs, NEW q \in Procs, PktHandler_Close(p, q)
        PROVE  MayWait(vc'[x][y], termq'[x], y, GaveUp(x, y)')
    <2>1. /\ ReceiveMove(p, q) /\ p # q /\ p \notin Failed
          /\ UNCHANGED <<known, todo>>
      BY <1>2, ReceiveEffect
    <2>2. GaveUp(x, y)' <=> GaveUp(x, y)
      BY <2>1 DEF GaveUp
    <2>3. wire[q][p] # <<>> => vc[p][q] # "INACTIVE"
      <3>1. wire[q][p] \in Seq(Ack)
        BY DEF TypeOK
      <3> QED BY <2>1, <3>1 DEF QuietInv, Over
    <2>4. CASE Moved(p, q, "CLOSED") /\ Waits(p, q)
               /\ vc[p][q] \in {"LOCAL_CLOSE", "CLOSE_ACKED"}
      <3>1. CASE x = p /\ y = q
        <4>1. NoneWaits(termq[p], q)
          BY <1>0, <2>4, <3>1 DEF MayWait
        <4>2. OneWaits(termq'[p], q) /\ TwoWait(termq'[p], q)
          BY <2>4, <4>1, WaitsEffect, FewerWait
        <4>3. vc'[p][q] = "CLOSED"
          BY <2>4 DEF Moved
        <4> QED BY <3>1, <4>2, <4>3 DEF MayWait
      <3>2. CASE x = p /\ y # q
        <4>1. vc'[x][y] = vc[x][y]
          BY <2>4, <3>2 DEF Moved
        <4> QED BY <1>0, <2>2, <2>4, <3>2, <4>1, WaitsEffect DEF MayWait
      <3>3. CASE x # p
        <4>1. vc'[x][y] = vc[x][y] /\ termq'[x] = termq[x]
          BY <2>4, <3>3, WaitsEffect DEF Moved
        <4> QED BY <2>2, <4>1, WaitFrame
      <3> QED BY <3>1, <3>2, <3>3
    <2>5. CASE Moved(p, q, "INACTIVE") /\ UNCHANGED termq
               /\ vc[p][q] \in {"LOCAL_CLOSE", "CLOSE_ACKED"}
      <3>1. CASE x = p /\ y = q
        <4>1. NoneWaits(termq'[p], q) /\ OneWaits(termq'[p], q)
          BY <1>0, <2>5, <3>1, FewerWait DEF MayWait
        <4>2. vc'[p][q] = "INACTIVE"
          BY <2>5 DEF Moved
        <4> QED BY <3>1, <4>1, <4>2 DEF MayWait
      <3>2. CASE x # p \/ y # q
        BY <2>2, <2>5, <3>2, WaitFrame DEF Moved
      <3> QED BY <3>1, <3>2
    <2>6. CASE /\ UNCHANGED termq
               /\ \/ UNCHANGED vc
                  \/ vc[p][q] = "LOCAL_CLOSE" /\ Moved(p, q, "CLOSE_ACKED")
                  \/ vc[p][q] = "ACTIVE" /\ Moved(p, q, "REMOTE_CLOSE")
      <3>1. \/ vc'[x][y] = vc[x][y]
            \/ {vc'[x][y], vc[x][y]} \cap {"CLOSED", "INACTIVE"} = {}
        BY <2>6 DEF Moved
      <3> QED BY <2>2, <2>6, <3>1, WaitFrame
    <2> QED BY <2>1, <2>3, <2>4, <2>5, <2>6 DEF ReceiveMove
  <1>3. ASSUME NEW p \in Procs, check_terminating_vcs(p)
        PROVE  MayWait(vc'[x][y], termq'[x], y, GaveUp(x, y)')
    <2>1. /\ TakeMove(p) \/ UNCHANGED <<vc, termq>>
          /\ UNCHANGED <<known, todo>>
      BY <1>3, TakeEffect
    <2>2. GaveUp(x, y)' <=> GaveUp(x, y)
      BY <2>1 DEF GaveUp
    <2>3. CASE TakeMove(p)
      <3>1. PICK q \in Procs : /\ q = termq[p][1].vc
                               /\ Moved(p, q, AfterTerminated(vc[p][q]))
        BY <2>3 DEF TakeMove
      <3>2. vc[p][q] \in {"CLOSED", "INACTIVE"}
        BY <2>3, <3>1, HeadState
      <3>3. termq[p] \in Seq(Entry) /\ termq[p] # <<>>
        BY <2>3 DEF TypeOK, TakeMove, Entry
      <3>4. \A z \in Procs : termq'[z] = IF z = p THEN Tail(termq[p]) ELSE termq[z]
        BY <2>3 DEF TakeMove, TypeOK
      <3>5. CASE x = p /\ y = q
        <4>1. /\ OneWaits(termq[p], q) => NoneWaits(termq'[p], q)
              /\ TwoWait(termq[p], q) => OneWaits(termq'[p], q)
          BY <3>1, <3>3, <3>4, TailWait
        <4>2. CASE vc[p][q] = "CLOSED"
          <5>1. vc'[p][q] = "INACTIVE"
            BY <3>1, <4>2 DEF Moved, AfterTerminated
          <5> QED BY <1>0, <2>2, <3>5, <4>1, <4>2, <5>1 DEF MayWait
        <4>3. CASE vc[p][q] = "INACTIVE"
          <5>1. vc'[p][q] = "MORIBUND"
            BY <3>1, <4>3 DEF Moved, AfterTerminated
          <5> QED BY <1>0, <3>5, <4>1, <4>3, <5>1 DEF MayWait
        <4> QED BY <3>2, <4>2, <4>3
      <3>6. CASE x = p /\ y # q
        <4>1. /\ NoneWaits(termq[p], y) => NoneWaits(termq'[p], y)
              /\ OneWaits(termq[p], y) => OneWaits(termq'[p], y)
              /\ TwoWait(termq[p], y) => TwoWait(termq'[p], y)
          BY <3>3, <3>4, TailWait
        <4>2. vc'[x][y] = vc[x][y]
          BY <3>1, <3>6 DEF Moved
        <4> QED BY <1>0, <2>2, <3>6, <4>1, <4>2 DEF MayWait
      <3>7. CASE x # p
        BY <2>2, <3>1, <3>4, <3>7, WaitFrame DEF Moved
      <3> QED BY <3>5, <3>6, <3>7
    <2>4. CASE UNCHANGED <<vc, termq>>
      BY <2>2, <2>4, WaitFrame
    <2> QED BY <2>1, <2>3, <2>4
  <1>4. ASSUME NEW p \in Procs, terminate_failed_VCs(p)
        PROVE  MayWait(vc'[x][y], termq'[x], y, GaveUp(x, y)')
    <2>1. PICK q \in todo[p] : /\ DeathMove(p, q) /\ q \in Procs
                               /\ todo' = [todo EXCEPT ![p] = @ \ {q}]
      BY <1>4, DeathEffect
    <2>2. /\ UNCHANGED known
          /\ \A z \in Procs : todo'[z] = IF z = p THEN todo[p] \ {q} ELSE todo[z]
      BY <1>4, <2>1, DeathEffect DEF TypeOK
    <2>3. ~GaveUp(p, q) /\ GaveUp(p, q)'
      BY <2>1, <2>2 DEF GaveUp, TodoInv
    <2>4. x # p \/ y # q => (GaveUp(x, y)' <=> GaveUp(x, y))
      BY <2>2 DEF GaveUp
    <2>5. x # p \/ y # q => vc'[x][y] = vc[x][y]
      BY <2>1 DEF DeathMove, Moved
    <2>6. x # p => termq'[x] = termq[x]
      BY <2>1, WaitsEffect DEF DeathMove
    <2>7. CASE x # p
      BY <2>4, <2>5, <2>6, <2>7, WaitFrame
    <2>8. CASE x = p /\ y # q
      BY <1>0, <2>1, <2>4, <2>5, <2>8, WaitsEffect DEF DeathMove, MayWait
    <2>9. CASE x = p /\ y = q
      <3>1. CASE vc[p][q] \in {"MORIBUND", "INACTIVE_CLOSED"}
                 /\ UNCHANGED <<vc, termq>>
        BY <1>0, <2>9, <3>1 DEF MayWait
      <3>2. CASE vc[p][q] \notin {"MORIBUND", "INACTIVE_CLOSED", "CLOSED"}
                 /\ Moved(p, q, "MORIBUND") /\ UNCHANGED termq
        <4>1. vc'[p][q] = "MORIBUND"
          BY <2>1, <3>2 DEF Moved
        <4> QED BY <1>0, <2>3, <2>9, <3>2, <4>1 DEF MayWait
      <3>3. CASE vc[p][q] = "CLOSED" /\ Moved(p, q, "INACTIVE")
                 /\ UNCHANGED termq
        <4>1. vc'[p][q] = "INACTIVE"
          BY <2>1, <3>3 DEF Moved
        <4> QED BY <1>0, <2>3, <2>9, <3>3, <4>1 DEF MayWait
      <3>4. CASE vc[p][q] = "CLOSED" /\ UNCHANGED vc /\ Waits(p, q)
        BY <1>0, <2>3, <2>9, <3>4, WaitsEffect DEF MayWait
      <3> QED BY <2>1, <3>1, <3>2, <3>3, <3>4 DEF DeathMove
    <2> QED BY <2>7, <2>8, <2>9
  <1>5. ASSUME NEW p \in Procs, Check_for_failed_procs(p)
        PROVE  MayWait(vc'[x][y], termq'[x], y, GaveUp(x, y)')
    <2>1. UNCHANGED <<vc, termq>>
      BY <1>5 DEF Check_for_failed_procs
    <2>2. GaveUp(x, y)' <=> GaveUp(x, y)
      <3>1. /\ todo[p] = {} /\ known[p] \subseteq dead
            /\ \A z \in Procs : /\ known'[z] = IF z = p THEN dead ELSE known[z]
                                /\ todo'[z] = IF z = p THEN dead \ known[p]
                                              ELSE todo[z]
        BY <1>5 DEF Check_for_failed_procs, InProgress, Ready, DeadInv, TypeOK
      <3> QED BY <3>1 DEF GaveUp
    <2> QED BY <2>1, <2>2, WaitFrame
  <1>6. CASE UNCHANGED <<vc, termq, known, todo>>
    BY <1>6, WaitFrame DEF GaveUp
  <1> QED BY <1>1, <1>2, <1>3, <1>4, <1>5, <1>6
        DEF Next, Step, Ended, vars, Finalize, VC_WaitForClose, Fail,
            Shm_send_progress, PMI_dead_processes

\* Together they are an invariant of the close protocol.
LEMMA XInvariance == Spec => []XInv
  <1>1. Init => XInv
    <2> SUFFICES ASSUME Init PROVE XInv
      OBVIOUS
    <2>1. IInv
      BY InitIInv
    <2>2. \A p, q \in Procs : /\ vc[p][q] = "ACTIVE" /\ wire[p][q] = <<>>
                              /\ termq[p] = <<>> /\ phase[p] = "running"
                              /\ n[p] = 0 /\ todo[p] = {}
      BY DEF Init
    <2>3. \A p, q \in Procs : ~Seen(p, q)
      BY <2>2 DEF Seen
    <2>4. VisitInv /\ TodoInv
      BY <2>2, <2>3 DEF VisitInv, TodoInv
    <2>5. QuietInv
      BY <2>2 DEF QuietInv, TrueLast
    <2>6. WaitInv
      BY <2>2 DEF WaitInv, MayWait, NoneWaits
    <2> QED BY <2>1, <2>4, <2>5, <2>6 DEF XInv
  <1>2. XInv /\ [Next]_vars => XInv'
    <2> SUFFICES ASSUME XInv, [Next]_vars PROVE XInv'
      OBVIOUS
    <2>1. IInv'
      BY CountNext, DeadNext, TermNext, PairNext, AccuracyNext, AssertNext
        DEF XInv, IInv, CountInv
    <2>2. QuietInv' /\ VisitInv' /\ WaitInv' /\ TodoInv'
      BY QuietNext, VisitNext, WaitNext, TodoNext DEF XInv, IInv, CountInv
    <2> QED BY <2>1, <2>2 DEF XInv
  <1> QED BY <1>1, <1>2, PTL DEF Spec

\* The positions at which q waits, counted.
LEMMA CountWaiting ==
  ASSUME NEW s \in Seq(Entry), NEW q
  PROVE  LET w == Cardinality({i \in 1 .. Len(s) : s[i].vc = q})
         IN  /\ w \in Nat
             /\ NoneWaits(s, q) => w <= 0
             /\ OneWaits(s, q) => w <= 1
             /\ TwoWait(s, q) => w <= 2
  <1> DEFINE S == {i \in 1 .. Len(s) : s[i].vc = q}
  <1>1. IsFiniteSet(S)
    <2>1. IsFiniteSet(1 .. Len(s))
      BY FS_Interval
    <2> QED BY <2>1, FS_Subset
  <1>2. Cardinality(S) \in Nat
    BY <1>1, FS_CardinalityType
  <1>3. CASE S = {}
    <2>1. Cardinality(S) = 0
      BY <1>3, FS_EmptySet
    <2> HIDE DEF S
    <2> QED BY <2>1 DEF S
  <1>4. ASSUME NEW x \in S
        PROVE  /\ ~NoneWaits(s, q)
               /\ OneWaits(s, q) => Cardinality(S) <= 1
               /\ TwoWait(s, q) => Cardinality(S) <= 2
    <2>1. ~NoneWaits(s, q)
      BY DEF NoneWaits
    <2>2. IsFiniteSet(S \ {x}) /\ Cardinality(S \ {x}) = Cardinality(S) - 1
      BY <1>1, FS_RemoveElement
    <2>3. CASE S \ {x} = {}
      <3>1. Cardinality(S) - 1 = 0
        BY <2>2, <2>3, FS_EmptySet
      <3> QED BY <1>2, <2>1, <3>1
    <2>4. ASSUME NEW y \in S \ {x}
          PROVE  ~OneWaits(s, q) /\ (TwoWait(s, q) => Cardinality(S) <= 2)
      <3>1. ~OneWaits(s, q)
        BY DEF OneWaits
      <3>2. ASSUME TwoWait(s, q)
            PROVE  Cardinality(S) <= 2
        <4>1. (S \ {x}) \ {y} = {}
          BY <3>2 DEF TwoWait
        <4>2. Cardinality((S \ {x}) \ {y}) = Cardinality(S \ {x}) - 1
          BY <2>2, FS_RemoveElement
        <4>3. Cardinality((S \ {x}) \ {y}) = 0
          BY <4>1, FS_EmptySet
        <4> HIDE DEF S
        <4> QED BY <1>2, <2>2, <4>2, <4>3
      <3> QED BY <3>1, <3>2
    <2> QED BY <2>1, <2>3, <2>4
  <1> QED BY <1>2, <1>3, <1>4

\* vc_term_queue ends a VC only when it is CLOSED, or INACTIVE after its
\* process has died, whatever processes die and whenever that is noticed.
THEOREM TerminationHandled == Spec => []NoUnhandledTermination
  <1>1. XInv => NoUnhandledTermination
    <2> SUFFICES ASSUME XInv, NEW p \in Procs, NEW q \in Procs
                 PROVE  Cardinality({i \in 1 .. Len(termq[p]) :
                                       termq[p][i].vc = q})
                          <= CASE vc[p][q] = "CLOSED" -> 2
                               [] vc[p][q] = "INACTIVE" -> 1
                               [] OTHER -> 0
      BY DEF NoUnhandledTermination
    <2>1. termq[p] \in Seq(Entry)
      BY DEF XInv, IInv, CountInv, TypeOK, Entry
    <2>2. PICK w \in Nat : w = Cardinality({i \in 1 .. Len(termq[p]) :
                                              termq[p][i].vc = q})
      BY <2>1, CountWaiting
    <2>3. /\ NoneWaits(termq[p], q) => w <= 0
          /\ OneWaits(termq[p], q) => w <= 1
          /\ TwoWait(termq[p], q) => w <= 2
      BY <2>1, <2>2, CountWaiting
    <2>4. /\ vc[p][q] = "CLOSED" => w <= 2
          /\ vc[p][q] = "INACTIVE" => w <= 1
          /\ vc[p][q] \notin {"CLOSED", "INACTIVE"} => w <= 0
      BY <2>3 DEF XInv, WaitInv, MayWait
    <2> QED BY <2>2, <2>4
  <1> QED BY XInvariance, <1>1, PTL
-----------------------------------------------------------------------------
(* The order of requests, as long as no process has died.                  *)

Send == [dst : Procs, req : Nat]

\* The requests in a send queue sq have been started, st of them so far, and
\* have different numbers.
Ordered(sq, st) ==
  /\ \A r \in sq : r.req < st
  /\ \A r1, r2 \in sq : r1.req = r2.req => r1 = r2

\* An entry of the termination queue waits for a request in the send queue or
\* for one that has left it before all that are still there.
EntryInOrder(e, sq, st) ==
  /\ e.req < st
  /\ \/ \E r \in sq : r.req = e.req
     \/ \A r \in sq : e.req < r.req

\* Every queued send belongs to a VC whose close is under way; if the VC is
\* CLOSED, its entry in the termination queue tq waits for the send or for a
\* later one.
Awaited(p, sq, tq, v) ==
  \A r \in sq :
    /\ r.dst # p /\ v[r.dst] \in CloseInitiated
    /\ v[r.dst] = "CLOSED"
         => \E i \in 1 .. Len(tq) : tq[i].vc = r.dst /\ r.req <= tq[i].req

InOrder(p, sq, tq, st, v) ==
  /\ Ordered(sq, st)
  /\ \A i \in 1 .. Len(tq) : EntryInOrder(tq[i], sq, st)
  /\ Awaited(p, sq, tq, v)

FifoInv ==
  Failed = {} => \A p \in Procs :
                   InOrder(p, shmq[p], termq[p], started[p], vc[p])

\* A process that has left MPI_Finalize has no close under way and is in none
\* of its loops.
DoneInv ==
  \A p \in Procs : phase[p] = "done"
    => outstanding[p] = 0 /\ ~checking[p] /\ todo[p] = {}

\* What starting a send to q does to the send queue.
Enqueued(sq, sq2, q, st) ==
  \/ sq2 = sq \cup {[dst |-> q, req |-> st]}
  \/ sq = {} /\ sq2 = {}

\* The new request is the last.
LEMMA EnqueueOrder ==
  ASSUME NEW st \in Nat, NEW sq \in SUBSET Send, NEW sq2, NEW q \in Procs,
         Ordered(sq, st), Enqueued(sq, sq2, q, st)
  PROVE  /\ sq2 \in SUBSET Send
         /\ Ordered(sq2, st + 1)
         /\ \A e \in Entry : EntryInOrder(e, sq, st)
                               => EntryInOrder(e, sq2, st + 1)
         /\ \A r \in sq2 : r \in sq \/ r.dst = q
  <1>1. CASE sq = {} /\ sq2 = {}
    BY <1>1 DEF Ordered, EntryInOrder, Entry
  <1>2. CASE sq2 = sq \cup {[dst |-> q, req |-> st]}
    <2>1. PICK new \in Send : new = [dst |-> q, req |-> st]
      BY DEF Send
    <2>2. new.dst = q /\ new.req = st /\ sq2 = sq \cup {new}
      BY <1>2, <2>1
    <2>3. \A r \in sq2 : r \in Send
      BY <2>2
    <2>4. Ordered(sq2, st + 1)
      BY <2>2, <2>3 DEF Ordered, Send
    <2>5. ASSUME NEW e \in Entry, EntryInOrder(e, sq, st)
          PROVE  EntryInOrder(e, sq2, st + 1)
      BY <2>2, <2>3, <2>5 DEF EntryInOrder, Entry, Send
    <2> QED BY <2>2, <2>3, <2>4, <2>5
  <1> QED BY <1>1, <1>2 DEF Enqueued

\* The oldest request leaves first.
LEMMA DequeueOrder ==
  ASSUME NEW st \in Nat, NEW sq \in SUBSET Send, NEW r \in Oldest(sq),
         Ordered(sq, st)
  PROVE  /\ Ordered(sq \ {r}, st)
         /\ \A e \in Entry : EntryInOrder(e, sq, st)
                               => EntryInOrder(e, sq \ {r}, st)
  <1>1. r \in sq /\ \A r2 \in sq : r2 \in Send /\ r.req <= r2.req
    BY DEF Oldest
  <1>2. Ordered(sq \ {r}, st)
    BY DEF Ordered
  <1>3. ASSUME NEW e \in Entry, EntryInOrder(e, sq, st)
        PROVE  EntryInOrder(e, sq \ {r}, st)
    <2>1. CASE e.req = r.req
      <3>1. \A r2 \in sq \ {r} : e.req < r2.req
        BY <1>1, <2>1 DEF Ordered, Send
      <3> QED BY <1>3, <3>1 DEF EntryInOrder
    <2>2. CASE e.req # r.req
      BY <1>3, <2>2 DEF EntryInOrder
    <2> QED BY <2>1, <2>2
  <1> QED BY <1>2, <1>3

\* A packet is started on a VC that is not CLOSED after that.
LEMMA InOrderStart ==
  ASSUME NEW p \in Procs, NEW st \in Nat, NEW sq \in SUBSET Send, NEW sq2,
         NEW tq \in Seq(Entry), NEW v, NEW v2, NEW q \in Procs, q # p,
         InOrder(p, sq, tq, st, v), Enqueued(sq, sq2, q, st),
         v2[q] \in CloseInitiated \ {"CLOSED"},
         \A y \in Procs \ {q} : v2[y] = v[y]
  PROVE  InOrder(p, sq2, tq, st + 1, v2)
  <1>1. /\ sq2 \in SUBSET Send
        /\ Ordered(sq2, st + 1)
        /\ \A e \in Entry : EntryInOrder(e, sq, st)
                              => EntryInOrder(e, sq2, st + 1)
        /\ \A r \in sq2 : r \in sq \/ r.dst = q
    BY EnqueueOrder DEF InOrder
  <1>2. \A i \in 1 .. Len(tq) : EntryInOrder(tq[i], sq2, st + 1)
    BY <1>1, ElementType DEF InOrder
  <1>3. Awaited(p, sq2, tq, v2)
    <2> SUFFICES ASSUME NEW r \in sq2
                 PROVE  /\ r.dst # p /\ v2[r.dst] \in CloseInitiated
                        /\ v2[r.dst] = "CLOSED"
                             => \E i \in 1 .. Len(tq) :
                                  tq[i].vc = r.dst /\ r.req <= tq[i].req
      BY DEF Awaited
    <2>1. CASE r.dst = q
      BY <2>1
    <2>2. CASE r.dst # q
      <3>1. r \in sq /\ v2[r.dst] = v[r.dst]
        BY <1>1, <2>2 DEF Send
      <3> QED BY <3>1 DEF InOrder, Awaited
    <2> QED BY <2>1, <2>2
  <1> QED BY <1>1, <1>2, <1>3 DEF InOrder

\* With an empty send queue nothing is awaited.
LEMMA InOrderEmpty ==
  ASSUME NEW p \in Procs, NEW st \in Nat, NEW st2 \in Nat, st <= st2,
         NEW sq, NEW tq \in Seq(Entry), NEW v, NEW v2,
         InOrder(p, sq, tq, st, v)
  PROVE  InOrder(p, {}, tq, st2, v2)
  <1>1. \A i \in 1 .. Len(tq) : tq[i] \in Entry /\ tq[i].req < st
    BY ElementType DEF InOrder, EntryInOrder
  <1>2. \A i \in 1 .. Len(tq) : tq[i].req < st2
    BY <1>1 DEF Entry
  <1> QED BY <1>2 DEF InOrder, Ordered, EntryInOrder, Awaited

\* VC q becomes CLOSED and waits for the last request.
LEMMA InOrderClosed ==
  ASSUME NEW p \in Procs, NEW st \in Nat, NEW sq \in SUBSET Send,
         NEW tq \in Seq(Entry), NEW v, NEW v2, NEW q \in Procs, q # p,
         InOrder(p, sq, tq, st, v),
         v2[q] = "CLOSED", \A y \in Procs \ {q} : v2[y] = v[y],
         NEW r \in Newest(sq)
  PROVE  InOrder(p, sq, Append(tq, [vc |-> q, req |-> r.req]), st, v2)
  <1>1. r \in sq /\ \A r2 \in sq : r2 \in Send /\ r2.req <= r.req
    BY DEF Newest
  <1>2. PICK e \in Entry : e = [vc |-> q, req |-> r.req]
    BY <1>1 DEF Entry, Send
  <1>3. PICK tq2 : tq2 = Append(tq, e)
    OBVIOUS
  <1>4. PICK l \in Nat : l = Len(tq)
    OBVIOUS
  <1>5. /\ Len(tq2) = l + 1
        /\ \A i \in 1 .. l : tq2[i] = tq[i]
        /\ tq2[l + 1] = e
    BY <1>3, <1>4, AppendType
  <1>6. e.vc = q /\ e.req = r.req
    BY <1>2
  <1>7. EntryInOrder(e, sq, st)
    BY <1>1, <1>6 DEF EntryInOrder, InOrder, Ordered
  <1>8. \A i \in 1 .. Len(tq2) : EntryInOrder(tq2[i], sq, st)
    <2>1. \A i \in 1 .. l + 1 : i \in 1 .. l \/ i = l + 1
      OBVIOUS
    <2> QED BY <1>4, <1>5, <1>7, <2>1 DEF InOrder
  <1>9. Awaited(p, sq, tq2, v2)
    <2> SUFFICES ASSUME NEW a \in sq
                 PROVE  /\ a.dst # p /\ v2[a.dst] \in CloseInitiated
                        /\ v2[a.dst] = "CLOSED"
                             => \E i \in 1 .. Len(tq2) :
                                  tq2[i].vc = a.dst /\ a.req <= tq2[i].req
      BY DEF Awaited
    <2>1. CASE a.dst = q
      <3>1. l + 1 \in 1 .. Len(tq2) /\ tq2[l + 1].vc = q /\ a.req <= tq2[l + 1].req
        BY <1>1, <1>5, <1>6
      <3> QED BY <2>1, <3>1 DEF CloseInitiated
    <2>2. CASE a.dst # q
      <3>1. v2[a.dst] = v[a.dst]
        BY <2>2 DEF Send
      <3>2. \A i \in 1 .. l : i \in 1 .. Len(tq2)
        BY <1>5
      <3> QED BY <1>4, <1>5, <3>1, <3>2 DEF InOrder, Awaited
    <2> QED BY <2>1, <2>2
  <1> QED BY <1>2, <1>3, <1>8, <1>9 DEF InOrder

\* The head of the queue is taken: its VC has nothing queued any more.
LEMMA InOrderTake ==
  ASSUME NEW p \in Procs, NEW st \in Nat, NEW sq \in SUBSET Send,
         NEW tq \in Seq(Entry), tq # <<>>, NEW v, NEW v2,
         InOrder(p, sq, tq, st, v),
         v[tq[1].vc] = "CLOSED",
         \A j \in 1 .. Len(tq) : tq[j].vc = tq[1].vc => j = 1,
         \A r \in sq : r.req # tq[1].req,
         \A y \in Procs \ {tq[1].vc} : v2[y] = v[y]
  PROVE  InOrder(p, sq, Tail(tq), st, v2)
  <1>1. PICK t : t = Tail(tq)
    OBVIOUS
  <1>2. PICK l \in Nat : l = Len(tq)
    OBVIOUS
  <1>3. /\ 1 \in 1 .. l /\ Len(t) = l - 1
        /\ \A i \in 1 .. Len(t) : i + 1 \in 1 .. l /\ t[i] = tq[i + 1]
    BY <1>1, <1>2, HeadTailType, Zenon
  <1>4. \A i \in 1 .. l : i # 1 => i - 1 \in 1 .. Len(t) /\ t[i - 1] = tq[i]
    BY <1>3
  <1>5. \A r \in sq : tq[1].req < r.req
    BY <1>2, <1>3 DEF InOrder, EntryInOrder
  <1>6. tq[1] \in Entry
    BY <1>2, <1>3, ElementType
  <1>7. Awaited(p, sq, t, v2)
    <2> SUFFICES ASSUME NEW a \in sq
                 PROVE  /\ a.dst # p /\ v2[a.dst] \in CloseInitiated
                        /\ v2[a.dst] = "CLOSED"
                             => \E i \in 1 .. Len(t) :
                                  t[i].vc = a.dst /\ a.req <= t[i].req
      BY DEF Awaited
    <2>1. a \in Send /\ tq[1].req < a.req
      BY <1>5
    <2>2. a.dst # tq[1].vc
      <3>1. SUFFICES ASSUME a.dst = tq[1].vc PROVE FALSE
        OBVIOUS
      <3>2. PICK i \in 1 .. Len(tq) : tq[i].vc = a.dst /\ a.req <= tq[i].req
        BY <3>1 DEF InOrder, Awaited
      <3>3. i = 1
        BY <3>1, <3>2
      <3> QED BY <1>6, <2>1, <3>2, <3>3 DEF Send, Entry
    <2>3. v2[a.dst] = v[a.dst]
      BY <2>1, <2>2 DEF Send
    <2>4. ASSUME v[a.dst] = "CLOSED"
          PROVE  \E i \in 1 .. Len(t) : t[i].vc = a.dst /\ a.req <= t[i].req
      <3>1. PICK i \in 1 .. Len(tq) : tq[i].vc = a.dst /\ a.req <= tq[i].req
        BY <2>4 DEF InOrder, Awaited
      <3>2. i # 1 /\ i \in 1 .. l
        BY <1>2, <2>2, <3>1
      <3> QED BY <1>4, <3>1, <3>2
    <2> QED BY <2>3, <2>4 DEF InOrder, Awaited
  <1>8. \A i \in 1 .. Len(t) : EntryInOrder(t[i], sq, st)
    BY <1>2, <1>3 DEF InOrder
  <1> QED BY <1>1, <1>7, <1>8 DEF InOrder

\* The state of a VC on which nothing is under way may change.
LEMMA InOrderOther ==
  ASSUME NEW p \in Procs, NEW st, NEW sq \in SUBSET Send, NEW tq, NEW v,
         NEW v2, NEW q, InOrder(p, sq, tq, st, v), v[q] \notin CloseInitiated,
         \A y \in Procs \ {q} : v2[y] = v[y]
  PROVE  InOrder(p, sq, tq, st, v2)
  <1>1. \A r \in sq : r.dst # q /\ v2[r.dst] = v[r.dst]
    BY DEF InOrder, Awaited, Send
  <1> QED BY <1>1 DEF InOrder, Awaited

\* Start puts the packet in a cell or at the end of the send queue.
LEMMA StartEnqueues ==
  ASSUME TypeOK, NEW p \in Procs, NEW q \in Procs, Start(p, q)
  PROVE  /\ Enqueued(shmq[p], shmq'[p], q, started[p])
         /\ started'[p] = started[p] + 1
         /\ \A x \in Procs \ {p} : /\ shmq'[x] = shmq[x]
                                   /\ started'[x] = started[x]
  <1>1. PICK sq \in iStartMsg(p, q) : shmq' = [shmq EXCEPT ![p] = sq]
    BY DEF Start
  <1>2. Enqueued(shmq[p], sq, q, started[p])
    BY DEF iStartMsg, Enqueued
  <1>3. /\ shmq'[p] = sq
        /\ \A x \in Procs \ {p} : shmq'[x] = shmq[x]
    BY <1>1 DEF TypeOK
  <1>4. /\ started'[p] = started[p] + 1
        /\ \A x \in Procs \ {p} : started'[x] = started[x]
    BY DEF Start, TypeOK
  <1> QED BY <1>2, <1>3, <1>4

\* Every step keeps FifoInv.
LEMMA FifoNext ==
  ASSUME XInv, FifoInv, [Next]_vars
  PROVE  FifoInv'
  <1> USE DEF XInv, IInv, CountInv
  <1> SUFFICES ASSUME Failed' = {}, NEW x \in Procs
               PROVE  InOrder(x, shmq'[x], termq'[x], started'[x], vc'[x])
    BY DEF FifoInv
  <1>0. Failed = {} /\ TypeOK'
    BY FailedGrows, CountNext
  <1>1. \A p \in Procs : /\ InOrder(p, shmq[p], termq[p], started[p], vc[p])
                         /\ shmq[p] \in SUBSET Send /\ shmq'[p] \in SUBSET Send
                         /\ termq[p] \in Seq(Entry)
                         /\ started[p] \in Nat
    BY <1>0 DEF FifoInv, TypeOK, Send, Entry
  <1>2. CASE /\ shmq'[x] = shmq[x] /\ termq'[x] = termq[x]
             /\ started'[x] = started[x] /\ vc'[x] = vc[x]
    BY <1>1, <1>2
  <1>3. ASSUME NEW p \in Procs, NEW q \in Procs, NEW s,
               vc' = [vc EXCEPT ![p][q] = s]
        PROVE  /\ vc'[p][q] = s
               /\ \A y \in Procs \ {q} : vc'[p][y] = vc[p][y]
               /\ x # p => vc'[x] = vc[x]
    BY <1>3 DEF TypeOK
  <1>4. ASSUME NEW p \in Procs, PG_Close_VCs(p)
        PROVE  InOrder(x, shmq'[x], termq'[x], started'[x], vc'[x])
    <2>1. PICK q \in Procs : q = ClosePeer(p, n[p])
      BY PeerType
    <2>2. /\ (p # q /\ VC_SendClose(p, q)) \/ VC_SkipClose(p, q)
          /\ UNCHANGED termq
      BY <1>4, <2>1 DEF PG_Close_VCs
    <2>3. CASE p # q /\ VC_SendClose(p, q)
      <3>1. PICK s \in CloseInitiated \ {"CLOSED"} :
                 vc' = [vc EXCEPT ![p][q] = s]
        <4>1. PICK s : s = IF vc[p][q] = "ACTIVE" THEN "LOCAL_CLOSE"
                                                  ELSE "CLOSE_ACKED"
          OBVIOUS
        <4>2. vc' = [vc EXCEPT ![p][q] = s]
          BY <2>3, <4>1 DEF VC_SendClose
        <4>3. s \in CloseInitiated \ {"CLOSED"}
          BY <4>1 DEF CloseInitiated
        <4> QED BY <4>2, <4>3
      <3>2. /\ Enqueued(shmq[p], shmq'[p], q, started[p])
            /\ started'[p] = started[p] + 1
            /\ x # p => shmq'[x] = shmq[x] /\ started'[x] = started[x]
        BY <2>3, StartEnqueues DEF VC_SendClose
      <3>3. CASE x = p
        <4>0. /\ vc'[p][q] \in CloseInitiated \ {"CLOSED"}
              /\ \A y \in Procs \ {q} : vc'[p][y] = vc[p][y]
          <5>1. /\ vc'[p][q] = s
                /\ \A y \in Procs \ {q} : vc'[p][y] = vc[p][y]
            BY <3>1 DEF TypeOK
          <5> QED BY <5>1
        <4>1. InOrder(p, shmq'[p], termq[p], started[p] + 1, vc'[p])
          BY <1>1, <2>3, <3>2, <4>0, InOrderStart
        <4> QED BY <2>2, <3>2, <3>3, <4>1
      <3>4. CASE x # p
        BY <1>2, <1>3, <2>2, <3>1, <3>2, <3>4
      <3> QED BY <3>3, <3>4
    <2>4. CASE VC_SkipClose(p, q)
      <3>1. SendMove(p, q) /\ ~Seen(p, q)
        BY <1>4, <2>1, SendEffect, SeenNext
      <3>2. p # q => vc[p][q] # "INACTIVE"
        BY <3>1 DEF VisitInv
      <3>3. vc' = [vc EXCEPT ![p][q] = vc[p][q]]
        BY <2>4, <3>2 DEF VC_SkipClose
      <3>4. vc' = vc
        BY <3>3 DEF TypeOK
      <3> QED BY <1>2, <2>2, <2>4, <3>4 DEF VC_SkipClose
    <2> QED BY <2>2, <2>3, <2>4
  <1>5. ASSUME NEW p \in Procs, NEW q \in Procs, PktHandler_Close(p, q)
        PROVE  InOrder(x, shmq'[x], termq'[x], started'[x], vc'[x])
    <2>1. p # q
      BY <1>5 DEF PktHandler_Close
    <2>2. CASE CloseAssertFails(p, q)
      BY <1>2, <2>2 DEF CloseAssertFails
    <2>3. CASE CloseRequest(p, q)
      <3>1. UNCHANGED termq
        BY <2>3 DEF CloseRequest
      <3>2. CASE vc' = [vc EXCEPT ![p][q] = "CLOSE_ACKED"] /\ Start(p, q)
        <4>1. /\ Enqueued(shmq[p], shmq'[p], q, started[p])
              /\ started'[p] = started[p] + 1
              /\ x # p => shmq'[x] = shmq[x] /\ started'[x] = started[x]
          BY <3>2, StartEnqueues
        <4>2. /\ vc'[p][q] \in CloseInitiated \ {"CLOSED"}
              /\ \A y \in Procs \ {q} : vc'[p][y] = vc[p][y]
              /\ x # p => vc'[x] = vc[x]
          <5>1. /\ vc'[p][q] = "CLOSE_ACKED"
                /\ \A y \in Procs \ {q} : vc'[p][y] = vc[p][y]
                /\ x # p => vc'[x] = vc[x]
            BY <3>2 DEF TypeOK
          <5> QED BY <5>1 DEF CloseInitiated
        <4>3. CASE x = p
          <5>1. InOrder(p, shmq'[p], termq[p], started[p] + 1, vc'[p])
            BY <1>1, <2>1, <4>1, <4>2, InOrderStart
          <5> QED BY <3>1, <4>1, <4>3, <5>1
        <4>4. CASE x # p
          BY <1>2, <3>1, <4>1, <4>2, <4>4
        <4> QED BY <4>3, <4>4
      <3>3. CASE /\ SetActive(vc[p][q]) = "ACTIVE"
                 /\ vc' = [vc EXCEPT ![p][q] = "REMOTE_CLOSE"]
                 /\ UNCHANGED <<shmq, started>>
        <4>1. /\ \A y \in Procs \ {q} : vc'[p][y] = vc[p][y]
              /\ x # p => vc'[x] = vc[x]
          BY <1>3, <3>3
        <4>2. vc[p][q] \notin CloseInitiated
          BY <3>3 DEF SetActive, CloseInitiated
        <4>3. InOrder(p, shmq[p], termq[p], started[p], vc'[p])
          BY <1>1, <4>1, <4>2, InOrderOther
        <4> QED BY <1>2, <3>1, <3>3, <4>1, <4>3
      <3> QED BY <2>3, <3>2, <3>3 DEF CloseRequest
    <2>4. CASE CloseAck(p, q)
      <3>1. PICK s \in VCState : vc' = [vc EXCEPT ![p][q] = s]
        BY <2>4 DEF CloseAck, AfterTerminated, VCState
      <3>2. /\ vc'[p][q] = s
            /\ \A y \in Procs \ {q} : vc'[p][y] = vc[p][y]
            /\ x # p => vc'[x] = vc[x]
        BY <1>3, <3>1
      <3>3. x # p => shmq'[x] = shmq[x] /\ started'[x] = started[x]
        BY <2>4, StartEnqueues DEF CloseAck
      <3>4. x # p => termq'[x] = termq[x]
        BY <2>4 DEF CloseAck, TypeOK
      <3>5. PICK v : v = [vc[p] EXCEPT ![q] = "CLOSE_ACKED"]
        OBVIOUS
      <3>6. v[q] = "CLOSE_ACKED" /\ \A y \in Procs \ {q} : v[y] = vc[p][y]
        BY <3>5 DEF TypeOK
      <3>7. /\ InOrder(p, shmq'[p], termq[p], started'[p], v)
            /\ started[p] <= started'[p] /\ started'[p] \in Nat
        <4>1. CASE Start(p, q)
          <5>1. /\ Enqueued(shmq[p], shmq'[p], q, started[p])
                /\ started'[p] = started[p] + 1
            BY <4>1, StartEnqueues
          <5>2. v[q] \in CloseInitiated \ {"CLOSED"}
            BY <3>6 DEF CloseInitiated
          <5>3. InOrder(p, shmq'[p], termq[p], started[p] + 1, v)
            BY <1>1, <2>1, <3>6, <5>1, <5>2, InOrderStart
          <5> QED BY <1>1, <5>1, <5>3
        <4>2. CASE vc[p][q] = "CLOSE_ACKED" /\ UNCHANGED <<shmq, started>>
          <5>1. v = vc[p]
            BY <3>5, <4>2 DEF TypeOK
          <5> QED BY <1>1, <4>2, <5>1
        <4> QED BY <2>4, <4>1, <4>2 DEF CloseAck
      <3>8. CASE x = p
        <4>1. CASE shmq'[p] = {} /\ UNCHANGED termq
          <5>1. InOrder(p, {}, termq[p], started'[p], vc'[p])
            BY <1>1, <3>7, InOrderEmpty
          <5> QED BY <3>8, <4>1, <5>1
        <4>2. CASE /\ vc' = [vc EXCEPT ![p][q] = "CLOSED"]
                   /\ \E r \in Newest(shmq'[p]) : termq' =
                      [termq EXCEPT ![p] = Append(@, [vc |-> q, req |-> r.req])]
          <5>1. PICK r \in Newest(shmq'[p]) : termq' =
                   [termq EXCEPT ![p] =
                      Append(termq[p], [vc |-> q, req |-> r.req])]
            BY <4>2
          <5>2. termq'[p] = Append(termq[p], [vc |-> q, req |-> r.req])
            BY <5>1 DEF TypeOK
          <5>3. /\ vc'[p][q] = "CLOSED"
                /\ \A y \in Procs \ {q} : vc'[p][y] = v[y]
            <6>1. vc'[p][q] = "CLOSED"
              BY <4>2 DEF TypeOK
            <6> QED BY <3>2, <3>6, <6>1
          <5>4. InOrder(p, shmq'[p],
                        Append(termq[p], [vc |-> q, req |-> r.req]),
                        started'[p], vc'[p])
            BY <1>1, <2>1, <3>7, <5>3, InOrderClosed
          <5> QED BY <3>8, <5>2, <5>4
        <4> QED BY <2>4, <4>1, <4>2 DEF CloseAck
      <3> QED BY <1>2, <3>2, <3>3, <3>4, <3>8
    <2> QED BY <1>5, <2>2, <2>3, <2>4 DEF PktHandler_Close
  <1>6. ASSUME NEW p \in Procs, Shm_send_progress(p)
        PROVE  InOrder(x, shmq'[x], termq'[x], started'[x], vc'[x])
    <2>1. PICK r \in Oldest(shmq[p]) : shmq' = [shmq EXCEPT ![p] = @ \ {r}]
      BY <1>6 DEF Shm_send_progress
    <2>2. UNCHANGED <<vc, termq, started>>
      BY <1>6 DEF Shm_send_progress
    <2>3. CASE x = p
      <3>1. shmq'[p] = shmq[p] \ {r}
        BY <2>1 DEF TypeOK
      <3>2. /\ Ordered(shmq[p] \ {r}, started[p])
            /\ \A e \in Entry : EntryInOrder(e, shmq[p], started[p])
                 => EntryInOrder(e, shmq[p] \ {r}, started[p])
        BY <1>1, DequeueOrder DEF InOrder
      <3>3. \A i \in 1 .. Len(termq[p]) :
              EntryInOrder(termq[p][i], shmq[p] \ {r}, started[p])
        BY <1>1, <3>2, ElementType DEF InOrder
      <3>4. Awaited(p, shmq[p] \ {r}, termq[p], vc[p])
        BY <1>1 DEF InOrder, Awaited
      <3> QED BY <2>2, <2>3, <3>1, <3>2, <3>3, <3>4 DEF InOrder
    <2>4. CASE x # p
      <3>1. shmq'[x] = shmq[x]
        BY <2>1, <2>4 DEF TypeOK
      <3> QED BY <1>2, <2>2, <3>1
    <2> QED BY <2>3, <2>4
  <1>7. ASSUME NEW p \in Procs, check_terminating_vcs(p)
        PROVE  InOrder(x, shmq'[x], termq'[x], started'[x], vc'[x])
    <2>1. UNCHANGED <<shmq, started>>
      BY <1>7 DEF check_terminating_vcs
    <2>2. CASE /\ TermqHeadComplete(p)
               /\ termq' = [termq EXCEPT ![p] = Tail(@)]
               /\ Handle_connection(p, Head(termq[p]).vc)
      <3>1. termq[p] \in Seq(Entry) /\ termq[p] # <<>>
        BY <1>1, <2>2 DEF TermqHeadComplete
      <3>2. Head(termq[p]) = termq[p][1] /\ 1 \in 1 .. Len(termq[p])
        BY <3>1, HeadTailType, Zenon
      <3>3. PICK q \in Procs : q = termq[p][1].vc
        BY <3>2, TermqType
      <3>4. vc' = [vc EXCEPT ![p][q] = AfterTerminated(vc[p][q])]
        BY <2>2, <3>2, <3>3 DEF Handle_connection
      <3>5. /\ \A y \in Procs \ {q} : vc'[p][y] = vc[p][y]
            /\ x # p => vc'[x] = vc[x]
        BY <1>3, <3>4
      <3>6. /\ vc[p][q] = "CLOSED"
            /\ \A j \in 1 .. Len(termq[p]) : termq[p][j].vc = q => j = 1
        BY <1>0, <3>2, <3>3 DEF TermInv
      <3>7. \A r \in shmq[p] : r.req # termq[p][1].req
        BY <2>2, <3>2 DEF TermqHeadComplete
      <3>8. InOrder(p, shmq[p], Tail(termq[p]), started[p], vc'[p])
        BY <1>1, <3>1, <3>3, <3>5, <3>6, <3>7, InOrderTake
      <3>9. /\ termq'[p] = Tail(termq[p])
            /\ x # p => termq'[x] = termq[x]
        BY <2>2 DEF TypeOK
      <3> QED BY <1>2, <2>1, <3>5, <3>8, <3>9
    <2>3. CASE UNCHANGED <<vc, termq>>
      BY <1>2, <2>1, <2>3
    <2> QED BY <1>7, <2>2, <2>3 DEF check_terminating_vcs
  <1>8. ASSUME NEW p \in Procs, terminate_failed_VCs(p)
        PROVE  FALSE
    BY <1>0, <1>8 DEF terminate_failed_VCs, DeadInv
  <1>9. ASSUME NEW p \in Procs, Fail(p)
        PROVE  FALSE
    <2>1. phase'[p] = "failed"
      BY <1>9 DEF Fail, TypeOK
    <2> QED BY <2>1 DEF Failed
  <1>10. CASE UNCHANGED <<vc, shmq, termq, started>>
    BY <1>2, <1>10
  <1> QED BY <1>4, <1>5, <1>6, <1>7, <1>8, <1>9, <1>10
        DEF Next, Step, Ended, vars, Finalize, VC_WaitForClose,
            Check_for_failed_procs, PMI_dead_processes

\* Every step keeps DoneInv.
LEMMA DoneNext ==
  ASSUME XInv, DoneInv, [Next]_vars
  PROVE  DoneInv'
  <1> USE DEF XInv, IInv, CountInv
  <1> SUFFICES ASSUME NEW x \in Procs, phase'[x] = "done"
               PROVE  outstanding'[x] = 0 /\ ~checking'[x] /\ todo'[x] = {}
    BY DEF DoneInv
  <1>1. ASSUME NEW p \in Procs, VC_WaitForClose(p)
        PROVE  outstanding'[x] = 0 /\ ~checking'[x] /\ todo'[x] = {}
    BY <1>1 DEF VC_WaitForClose, Ready, DoneInv, TypeOK
  <1>2. CASE /\ phase[x] = "done"
             /\ outstanding'[x] = outstanding[x]
             /\ checking'[x] = checking[x] /\ todo'[x] = todo[x]
    BY <1>2 DEF DoneInv
  <1>3. CASE UNCHANGED <<phase, outstanding, checking, todo>>
    BY <1>2, <1>3
  <1>4. ASSUME NEW p \in Procs, PG_Close_VCs(p)
        PROVE  outstanding'[x] = 0 /\ ~checking'[x] /\ todo'[x] = {}
    <2>1. x # p /\ phase[x] = "done" /\ UNCHANGED <<checking, todo>>
      BY <1>4 DEF PG_Close_VCs, TypeOK
    <2>2. outstanding'[x] = outstanding[x]
      BY <1>4, <2>1 DEF PG_Close_VCs, VC_SendClose, VC_SkipClose, TypeOK
    <2> QED BY <1>2, <2>1, <2>2
  <1>5. ASSUME NEW p \in Procs, NEW q \in Procs, PktHandler_Close(p, q)
        PROVE  outstanding'[x] = 0 /\ ~checking'[x] /\ todo'[x] = {}
    <2>1. x # p /\ phase[x] = "done" /\ UNCHANGED <<checking, todo>>
      BY <1>5 DEF PktHandler_Close, InProgress, Ready
    <2>2. outstanding'[x] = outstanding[x]
      BY <1>5, <2>1 DEF PktHandler_Close, CloseRequest, CloseAck,
                        CloseAssertFails, TypeOK
    <2> QED BY <1>2, <2>1, <2>2
  <1>6. ASSUME NEW p \in Procs, Shm_send_progress(p)
        PROVE  outstanding'[x] = 0 /\ ~checking'[x] /\ todo'[x] = {}
    <2>1. x # p /\ phase[x] = "done" /\ UNCHANGED <<outstanding, todo>>
      BY <1>6 DEF Shm_send_progress, Ready
    <2>2. checking'[x] = checking[x]
      BY <1>6, <2>1 DEF Shm_send_progress, TypeOK
    <2> QED BY <1>2, <2>1, <2>2
  <1>7. ASSUME NEW p \in Procs, check_terminating_vcs(p)
        PROVE  outstanding'[x] = 0 /\ ~checking'[x] /\ todo'[x] = {}
    <2>1. checking[p] /\ UNCHANGED <<phase, todo>>
      BY <1>7 DEF check_terminating_vcs
    <2>2. x # p
      BY <2>1 DEF DoneInv
    <2>3. outstanding'[x] = outstanding[x] /\ checking'[x] = checking[x]
      BY <1>7, <2>2 DEF check_terminating_vcs, Handle_connection, TypeOK
    <2> QED BY <1>2, <2>1, <2>3
  <1>8. ASSUME NEW p \in Procs, Check_for_failed_procs(p)
        PROVE  outstanding'[x] = 0 /\ ~checking'[x] /\ todo'[x] = {}
    <2>1. x # p /\ phase[x] = "done" /\ UNCHANGED <<outstanding, checking>>
      BY <1>8 DEF Check_for_failed_procs, InProgress, Ready
    <2>2. todo'[x] = todo[x]
      BY <1>8, <2>1 DEF Check_for_failed_procs, TypeOK
    <2> QED BY <1>2, <2>1, <2>2
  <1>9. ASSUME NEW p \in Procs, terminate_failed_VCs(p)
        PROVE  outstanding'[x] = 0 /\ ~checking'[x] /\ todo'[x] = {}
    <2>1. PICK q \in todo[p] : /\ Connection_terminate(p, q)
                               /\ todo' = [todo EXCEPT ![p] = @ \ {q}]
      BY <1>9 DEF terminate_failed_VCs
    <2>2. UNCHANGED <<phase, checking>>
      BY <1>9 DEF terminate_failed_VCs
    <2>3. x # p
      BY <2>2 DEF DoneInv
    <2>4. outstanding'[x] = outstanding[x]
      BY <2>1, <2>3 DEF Connection_terminate, Handle_connection, TypeOK
    <2>5. todo'[x] = todo[x]
      BY <2>1, <2>3 DEF TypeOK
    <2> QED BY <1>2, <2>2, <2>4, <2>5
  <1>10. ASSUME NEW p \in Procs, Finalize(p) \/ Fail(p)
         PROVE  outstanding'[x] = 0 /\ ~checking'[x] /\ todo'[x] = {}
    <2>1. UNCHANGED <<outstanding, checking, todo>>
      BY <1>10 DEF Finalize, Fail
    <2>2. phase[x] = "done"
      BY <1>10 DEF Finalize, Fail, TypeOK
    <2> QED BY <1>2, <2>1, <2>2
  <1> QED BY <1>1, <1>3, <1>4, <1>5, <1>6, <1>7, <1>8, <1>9, <1>10
        DEF Next, Step, Ended, vars, PMI_dead_processes

\* Without a death a process leaves MPI_Finalize with every VC closed, its
\* send queue drained and its termination queue empty.
THEOREM ExitIsClean == Spec => []CleanExit
  <1>1. Init => FifoInv /\ DoneInv
    <2> SUFFICES ASSUME Init PROVE FifoInv /\ DoneInv
      OBVIOUS
    <2>1. \A p \in Procs : /\ shmq[p] = {} /\ termq[p] = <<>>
                           /\ phase[p] = "running"
      BY DEF Init
    <2> QED BY <2>1 DEF FifoInv, DoneInv, InOrder, Ordered, Awaited
  <1>2. XInv /\ FifoInv /\ DoneInv /\ [Next]_vars => FifoInv' /\ DoneInv'
    BY FifoNext, DoneNext
  <1>3. XInv /\ FifoInv /\ DoneInv => CleanExit
    <2> SUFFICES ASSUME XInv, FifoInv, DoneInv, NEW p \in Procs,
                        phase[p] = "done", Failed = {}
                 PROVE  /\ \A q \in Procs \ {p} : vc[p][q] = "INACTIVE"
                        /\ shmq[p] = {} /\ termq[p] = <<>>
      BY DEF CleanExit
    <2> USE DEF XInv, IInv, CountInv
    <2>1. \A q \in Procs : vc[p][q] \notin CloseInitiated
      <3> DEFINE S == {q \in Procs : vc[p][q] \in CloseInitiated}
      <3>1. IsFiniteSet(S)
        <4>1. IsFiniteSet(Procs)
          BY FS_Interval, NAssumption DEF Procs
        <4> QED BY <4>1, FS_Subset
      <3>2. Cardinality(S) = 0
        BY DEF DoneInv, OutstandingCount
      <3>3. S = {}
        BY <3>1, <3>2, FS_EmptySet
      <3> QED BY <3>3
    <2>2. \A q \in Procs \ {p} : vc[p][q] = "INACTIVE"
      <3>1. \A q \in Procs : Seen(p, q)
        BY PeerAll DEF VisitInv, Seen
      <3> QED BY <2>1, <3>1 DEF VisitInv, FailureAccuracy, CloseInitiated
    <2>3. shmq[p] = {}
      <3>1. \A r \in shmq[p] : r.dst \in Procs
        BY DEF TypeOK
      <3> QED BY <2>1, <3>1 DEF FifoInv, InOrder, Awaited
    <2>4. termq[p] = <<>>
      <3>1. termq[p] \in Seq([vc : Procs, req : Nat])
        BY DEF TypeOK
      <3>2. SUFFICES ASSUME termq[p] # <<>> PROVE FALSE
        OBVIOUS
      <3>3. 1 \in 1 .. Len(termq[p])
        BY <3>1, <3>2
      <3>4. termq[p][1].vc \in Procs /\ vc[p][termq[p][1].vc] = "CLOSED"
        BY <3>3, TermqType DEF TermInv
      <3> QED BY <2>1, <3>4 DEF CloseInitiated
    <2> QED BY <2>2, <2>3, <2>4
  <1> QED BY XInvariance, <1>1, <1>2, <1>3, PTL DEF Spec
=============================================================================
