------------------------------- MODULE Sched -------------------------------
(***************************************************************************)
(* The engine of nonblocking collectives (src/mpid/common/sched).          *)
(*                                                                         *)
(* A collective is a schedule: a list of sends, receives and local         *)
(* operations on the buffers of a process, some marked as barriers.  An    *)
(* entry starts when all entries up to every barrier in front of it are    *)
(* complete.  Entries start in the order of the list and those between two *)
(* barriers are under way together, so that the messages of a collective   *)
(* interleave with its local operations and with each other.               *)
(*                                                                         *)
(* A buffer is a set of slots.  A slot holds a sequence: the data that     *)
(* were put into it, in the order in which they were reduced.              *)
(***************************************************************************)
EXTENDS Naturals, Sequences, FiniteSets, SequencesExt

CONSTANT Colls         \* the collectives to be tried

(***************************************************************************)
(* A collective c has the fields                                           *)
(*   entries    c.entries[p] is the schedule that process p builds         *)
(*   match      is Matches(c.entries), see below                           *)
(*   buf        c.buf[p] is what the slots of p hold at first              *)
(*   count      c.count[p] is the counter of the callbacks of p            *)
(*   want       c.want[p] is what slots of p must hold in the end          *)
(*   eager      the length of the longest message that is sent at once,    *)
(*              before its receive is posted (the empty message always is) *)
(*   ordered    whether the operation is not commutative                   *)
(*   barrier    whether the collective synchronises                        *)
(*   miscounts  the processes that miscount what they receive              *)
(***************************************************************************)
VARIABLES coll,        \* the collective of this behavior
          status,      \* status[p][i]: the status of entry i of p
          complete,    \* complete[p]: entries whose requests are complete
          sent,        \* sent[p]: data of p's eager messages not yet received
          buf,         \* buf[p]: the slots of p
          cnt,         \* cnt[p]: the counters that callbacks of p work on
          errflag,     \* errflag[p]: a callback of p found an error
          req          \* req[p]: the request of the collective

vars == <<coll, status, complete, sent, buf, cnt, errflag, req>>

P == DOMAIN coll.entries
Entry(p, i) == coll.entries[p][i]
Indices(p) == DOMAIN coll.entries[p]

IsComm(e) == e.op \in {"SEND", "RECV"}

Init ==
  /\ coll \in Colls
  /\ status = [p \in P |-> [i \in Indices(p) |-> "NOT_STARTED"]]
  /\ complete = [p \in P |-> {}]
  /\ sent = [p \in P |-> <<>>]
  /\ buf = coll.buf
  /\ cnt = [p \in P |-> [recvd |-> 0, curr |-> coll.count[p], sub |-> 0]]
  /\ errflag = [p \in P |-> FALSE]
  /\ req = [p \in P |-> "none"]

-----------------------------------------------------------------------------
(* Starting entries.                                                       *)

\* Mutant: a barrier waits for the entry that carries it only.
StartableOwn(p, st) ==
  LET held == {b \in Indices(p) : /\ Entry(p, b).barrier
                                  /\ IsComm(Entry(p, b))
                                  /\ st[b] # "COMPLETE"}
  IN  {i \in Indices(p) : st[i] = "NOT_STARTED" /\ \A b \in held : i <= b}

\* The entries of p that MPIDU_Sched_continue starts when the statuses are st: no
\* barrier in front of them is held up by a message at or before it.  Local
\* operations hold up nothing: they are complete when they have started.
Startable(p, st) ==
  LET open == {j \in Indices(p) : IsComm(Entry(p, j)) /\ st[j] # "COMPLETE"}
      held == {b \in Indices(p) : Entry(p, b).barrier /\ \E j \in open : j <= b}
  IN  {i \in Indices(p) : st[i] = "NOT_STARTED" /\ \A b \in held : i <= b}

Started(p, st, S) ==
  [i \in Indices(p) |-> IF i \notin S THEN st[i]
                        ELSE IF IsComm(Entry(p, i)) THEN "STARTED" ELSE "COMPLETE"]

\* The slots B after slot out[k] was set to val[k] for each k.
Stored(B, out, val) ==
  [s \in DOMAIN B |-> IF \E k \in DOMAIN out : out[k] = s
                      THEN val[CHOOSE k \in DOMAIN out : out[k] = s] ELSE B[s]]

\* What the send e of a process with memory m has in its buffer.  A deferred send
\* has a counter as its length; callbacks that change it are behind a barrier.
Data(m, e) ==
  LET n == CASE e.len = "curr" -> m.cnt.curr
             [] e.len = "sub" -> m.cnt.sub [] OTHER -> Len(e.in)
  IN  [k \in 1 .. n |-> m.buf[e.in[k]]]

\* What starting entry i of p does to its memory m.  A short message leaves at
\* once; a longer one stays in the buffer until it is received.  A reduction
\* computes inout = in op inout.  The callbacks count and check the length of
\* what was received.
start_entry(p, m, i) ==
  LET e == Entry(p, i)
  IN  CASE e.op = "SEND" /\ Len(Data(m, e)) <= coll.eager ->
             [m EXCEPT !.sent = [k \in DOMAIN @ \cup {i} |->
                                   IF k = i THEN Data(m, e) ELSE @[k]]]
        [] e.op = "COPY" ->
             [m EXCEPT !.buf = Stored(@, e.out, [k \in DOMAIN e.out |-> m.buf[e.in[k]]])]
        [] e.op = "REDUCE" ->
             [m EXCEPT !.buf = Stored(@, e.out, [k \in DOMAIN e.out |->
                                                  m.buf[e.in[k]] \o m.buf[e.out[k]]])]
        [] e.op = "set_curr" -> [m EXCEPT !.cnt.curr = m.cnt.recvd]
        [] e.op = "add_curr" -> [m EXCEPT !.cnt.curr = @ + m.cnt.recvd]
        [] e.op = "calc_send_count" -> [m EXCEPT !.cnt.sub = m.cnt.curr - e.arg]
        [] e.op = "calc_curr_count" -> [m EXCEPT !.cnt.curr = @ - m.cnt.sub]
        [] e.op = "test_length" -> [m EXCEPT !.err = @ \/ m.cnt.recvd # e.arg]
        [] e.op = "test_curr_length" -> [m EXCEPT !.err = @ \/ m.cnt.curr # e.arg]
        [] OTHER -> m

Memory(p) == [buf |-> buf[p], cnt |-> cnt[p], err |-> errflag[p], sent |-> sent[p]]

\* MPIDU_Sched_continue for p whose statuses are st: all entries that may start
\* do so, in order.  The requests done of p were seen to be complete.
Sched_continue(p, st, done) ==
  LET S == Startable(p, st)
      todo == SelectSeq([i \in Indices(p) |-> i], LAMBDA i : i \in S)
      m == FoldLeft(LAMBDA x, i : start_entry(p, x, i), Memory(p), todo)
  IN  /\ status' = [status EXCEPT ![p] = Started(p, st, S)]
      /\ complete' = [complete EXCEPT ![p] = (@ \ done) \cup (DOMAIN m.sent \cap S)]
      /\ sent' = [sent EXCEPT ![p] = m.sent]
      /\ buf' = [buf EXCEPT ![p] = m.buf]
      /\ cnt' = [cnt EXCEPT ![p] = m.cnt]
      /\ errflag' = [errflag EXCEPT ![p] = m.err]

\* MPIDU_Sched_start: p calls the collective.
Sched_start(p) ==
  /\ req[p] = "none"
  /\ req' = [req EXCEPT ![p] = "pending"]
  /\ Sched_continue(p, status[p], {})
  /\ UNCHANGED coll

AllComplete(st) == \A i \in DOMAIN st : st[i] = "COMPLETE"

\* MPIDU_Sched_progress_state: p sees which requests are complete, starts what
\* they held up, and completes the request of the collective after the last
\* entry.
CanProgress(p) ==
  /\ req[p] = "pending"
  /\ complete[p] # {} \/ AllComplete(status[p])

Sched_progress_state(p) ==
  /\ CanProgress(p)
  /\ Sched_continue(p, [i \in Indices(p) |-> IF i \in complete[p] THEN "COMPLETE"
                                             ELSE status[p][i]], complete[p])
  /\ req' = [req EXCEPT ![p] = IF AllComplete(status'[p]) THEN "complete" ELSE @]
  /\ UNCHANGED coll

-----------------------------------------------------------------------------
(* External: point-to-point messages.                                      *)

\* Messages from p to q are received in the order in which they are sent, and
\* both sides start their entries in order: the k-th send of p to q matches the
\* k-th receive of q from p.  Matches(entries)[q][j] is the entry that sends to
\* receive j of q, 0 if there is none.
Matches(entries) ==
  LET Ordinal(p, i) ==
        Cardinality({j \in 1 .. i : /\ entries[p][j].op = entries[p][i].op
                                    /\ entries[p][j].peer = entries[p][i].peer})
      Senders(q, j) ==
        LET p == entries[q][j].peer
        IN  {i \in DOMAIN entries[p] : /\ entries[p][i].op = "SEND"
                                       /\ entries[p][i].peer = q
                                       /\ Ordinal(p, i) = Ordinal(q, j)}
      IsRecv(q, j) == entries[q][j].op = "RECV" /\ Senders(q, j) # {}
  IN  [q \in DOMAIN entries |-> [j \in DOMAIN entries[q] |->
         IF IsRecv(q, j) THEN CHOOSE i \in Senders(q, j) : TRUE ELSE 0]]

\* The send is under way: its data are still in the buffer.
Posted(p, i) == /\ i \in Indices(p)
                /\ status[p][i] = "STARTED"
                /\ i \notin complete[p]

\* The message of receive j of q arrives, from the eager messages or from the
\* buffer of the sender.  It may be shorter than the receive allows.
Receive(q, j) ==
  LET e == Entry(q, j)
      p == e.peer
      i == coll.match[q][j]
      data == IF i \in DOMAIN sent[p] THEN sent[p][i] ELSE Data(Memory(p), Entry(p, i))
  IN  /\ e.op = "RECV"
      /\ Posted(q, j)
      /\ i \in DOMAIN sent[p] \/ Posted(p, i)
      /\ buf' = [buf EXCEPT ![q] =
                   Stored(@, SubSeq(e.out, 1, Len(data)), data)]
      /\ cnt' = [cnt EXCEPT ![q].recvd = Len(data)]
      /\ complete' = [complete EXCEPT ![q] = @ \cup {j},
                        ![p] = @ \cup (IF i \in DOMAIN sent[p] THEN {} ELSE {i})]
      /\ sent' = [sent EXCEPT ![p] = [k \in DOMAIN @ \ {i} |-> @[k]]]
      /\ UNCHANGED <<coll, status, errflag, req>>

AllDone == \A p \in P : req[p] = "complete"

Done == AllDone /\ UNCHANGED vars

Next == \/ \E p \in P : Sched_start(p) \/ Sched_progress_state(p)
        \/ \E p \in P : \E i \in Indices(p) : Receive(p, i)
        \/ Done

Spec == Init /\ [][Next]_vars

-----------------------------------------------------------------------------
(* Properties.                                                             *)

\* When MPI_Wait returns, the receive buffer holds what the MPI standard says:
\* every contribution once and, if the operation is not commutative, in the
\* order of the ranks.
ResultsAreCorrect ==
  \A p \in P : req[p] = "complete" =>
    \A s \in DOMAIN coll.want[p] :
      LET have == buf[p][s]
          want == coll.want[p][s]
      IN  IF coll.ordered THEN have = want
          ELSE Len(have) = Len(want) /\ ToSet(have) = ToSet(want)

\* No entry of a schedule that was started writes outside the buffers that were
\* allocated (nor could start_entry read there), and a message fits into the
\* receive that it matches (no MPI_ERR_TRUNCATE).
MessagesFit ==
  \A q \in P : \A j \in Indices(q) : status[q][j] # "NOT_STARTED" =>
    LET e == Entry(q, j)
        i == coll.match[q][j]
    IN  /\ ToSet(e.out) \subseteq DOMAIN buf[q]
        /\ (e.op = "SEND" /\ status[q][j] = "STARTED") =>
             Len(Data(Memory(q), e)) <= Len(e.in)
        /\ (e.op = "RECV" /\ Posted(q, j)) =>
             /\ i \in DOMAIN sent[e.peer] => Len(sent[e.peer][i]) <= Len(e.out)
             /\ Posted(e.peer, i) =>
                  Len(Data(Memory(e.peer), Entry(e.peer, i))) <= Len(e.out)

\* While a message is under way nothing changes the data that it sends.
SendBuffersAreStable ==
  [][\A p \in P : buf'[p] # buf[p] =>
       \A i \in Indices(p) :
         (Posted(p, i) /\ Posted(p, i)' /\ Entry(p, i).op = "SEND") =>
           Data(Memory(p), Entry(p, i))' = Data(Memory(p), Entry(p, i))]_vars

\* A collective leaves no message behind that a later one could receive.
NoStrayMessages == AllDone => \A p \in P : DOMAIN sent[p] = {}

\* No process leaves a barrier before every process has entered it.
BarrierSynchronises ==
  (coll.barrier /\ \E p \in P : req[p] = "complete") => \A p \in P : req[p] # "none"

\* The length checks of a broadcast report no error but for one case.
LengthErrors ==
  \A p \in P : req[p] = "complete" => (errflag[p] <=> p \in coll.miscounts)
=============================================================================
