--------------------------- MODULE NemQueueProofs ---------------------------
(***************************************************************************)
(* Proofs about the nemesis cell queue for any number of producers and     *)
(* cells: the lock-free build, the build with a lock, and both as a FIFO.  *)
(***************************************************************************)
EXTENDS MCNemQueue, TLAPS

(***************************************************************************)
(* The inductive invariant.  The linked list is the history variable queue,*)
(* with the cell e in front while the consumer waits for its next field; a *)
(* link is missing exactly where a producer is between its swap and its    *)
(* link.                                                                   *)
(***************************************************************************)
\* The consumer has taken e and still needs its next field.
Waiting == cpc \in {"tail", "spin"}

\* The cells that a producer has swapped in and not linked.
Unlinked == {element[p] : p \in {q \in Procs : pc[q] = "link"}}

\* The cell in front of the i-th of the queue.
Prev == [i \in 1 .. Len(queue) + 1 |->
           IF i > 1 THEN queue[i - 1] ELSE IF Waiting THEN e ELSE NULL]

\* A cell is at one place only.
Places == /\ \A i, j \in 1 .. Len(queue) : queue[i] = queue[j] => i = j
          /\ \A i \in 1 .. Len(queue) : queue[i] # e /\ queue[i] # got
          /\ e # NULL <=> cpc \in {"tail", "spin", "clear"}
          /\ cpc # "idle" => got = NULL

\* A producer that has not linked its cell holds the cell in front of it.
Producers ==
  /\ \A p \in Procs : pc[p] = "link" =>
       \E i \in 1 .. Len(queue) : element[p] = queue[i] /\ r_prev[p] = Prev[i]
  /\ \A p, q \in Procs : pc[p] = "link" /\ pc[q] = "link" /\ element[p] = element[q]
                           => p = q

\* The next fields.
Links ==
  /\ \A i \in 1 .. Len(queue) :
       Prev[i] # NULL => next[Prev[i]] = IF queue[i] \in Unlinked THEN NULL ELSE queue[i]
  /\ Len(queue) > 0 => next[queue[Len(queue)]] = NULL
  /\ Len(queue) = 0 /\ Waiting => next[e] = NULL
  /\ \A c \in Cells : c # e /\ (\A i \in 1 .. Len(queue) : queue[i] # c) => next[c] = NULL

\* The tail is the last cell of the list.
LastCell == /\ Len(queue) > 0 => tail = queue[Len(queue)]
            /\ Len(queue) = 0 => tail = IF Waiting THEN e ELSE NULL
            /\ cpc = "spin" => Len(queue) > 0

\* One of the two heads is the first cell, once it is linked.
FirstCell ==
  /\ Waiting => head = NULL
  /\ ~Waiting /\ (Len(queue) = 0 \/ queue[1] \in Unlinked) =>
       head = NULL /\ my_head = NULL /\ cpc \notin {"reset", "ready"}
  /\ ~Waiting /\ Len(queue) > 0 /\ queue[1] \notin Unlinked =>
       \/ my_head = queue[1] /\ head = NULL /\ cpc # "reset"
       \/ my_head = NULL /\ head = queue[1] /\ cpc \in {"idle", "clear"}
       \/ my_head = queue[1] /\ head = queue[1] /\ cpc = "reset"

Inv == TypeOK /\ Places /\ Producers /\ Links /\ LastCell /\ FirstCell

\* The lock-free dequeue has cleared my_head before it looks at the tail.
FreeInv == Waiting => my_head = NULL

\* With the lock one producer at most is between its swap and its link, and
\* its cell is the last one.
LockInv == \A p \in Procs : pc[p] = "link" =>
             /\ Len(queue) > 0 /\ element[p] = queue[Len(queue)]
             /\ \A q \in Procs : pc[q] = "link" => q = p

BuildInv == /\ build \in {"lock-free", "lock"}
            /\ Inv
            /\ build = "lock-free" => FreeInv
            /\ build = "lock" => LockInv /\ cpc # "spin"

-----------------------------------------------------------------------------
(* Producers.                                                              *)

LEMMA AppendQueue ==
  ASSUME NEW s \in Seq(Cells), NEW c \in Cells
  PROVE  /\ Append(s, c) \in Seq(Cells) /\ Len(Append(s, c)) = Len(s) + 1
         /\ \A i \in 1 .. Len(s) : Append(s, c)[i] = s[i]
         /\ Append(s, c)[Len(s) + 1] = c
         /\ Len(s) \in Nat /\ \A i \in 1 .. Len(s) : s[i] \in Cells
OBVIOUS

LEMMA TailQueue ==
  ASSUME NEW s \in Seq(Cells), Len(s) > 0
  PROVE  /\ Tail(s) \in Seq(Cells) /\ Len(Tail(s)) = Len(s) - 1
         /\ \A i \in 1 .. Len(s) - 1 : Tail(s)[i] = s[i + 1]
         /\ Head(s) = s[1] /\ s # << >>
         /\ Len(s) \in Nat /\ \A i \in 1 .. Len(s) : s[i] \in Cells
OBVIOUS

LEMMA QueuedCells == TypeOK => Queued = {queue[i] : i \in 1 .. Len(queue)}
BY DEF TypeOK, Queued

LEMMA SwapStep ==
  ASSUME Inv, NEW p \in Procs, NEW c \in Cells, Swap(p, c)
  PROVE  Inv'
<1> USE CellsAssumption DEF Inv
<1>1. /\ element' = [element EXCEPT ![p] = c] /\ r_prev' = [r_prev EXCEPT ![p] = tail]
      /\ tail' = c /\ pc' = [pc EXCEPT ![p] = "link"] /\ queue' = Append(queue, c)
      /\ pc[p] = "idle"
      /\ UNCHANGED <<head, my_head, next, cpc, e, got>>
  BY DEF Swap
<1>2. c # e /\ c # got /\ \A i \in 1 .. Len(queue) : queue[i] # c
  BY QueuedCells DEF Swap
<1>3. /\ queue \in Seq(Cells) /\ queue' \in Seq(Cells)
      /\ Len(queue) \in Nat /\ Len(queue') = Len(queue) + 1
      /\ \A i \in 1 .. Len(queue) : queue'[i] = queue[i] /\ queue[i] \in Cells
      /\ queue'[Len(queue) + 1] = c
  BY <1>1, AppendQueue DEF TypeOK
<1>4. TypeOK'
  BY <1>1, <1>3 DEF TypeOK, Pointer
<1>5. Places'
  BY <1>1, <1>2, <1>3 DEF Places
<1>6. /\ \A q \in Procs : /\ pc'[q] = IF q = p THEN "link" ELSE pc[q]
                          /\ element'[q] = IF q = p THEN c ELSE element[q]
                          /\ r_prev'[q] = IF q = p THEN tail ELSE r_prev[q]
  BY <1>1 DEF TypeOK
<1>7. tail = IF Len(queue) > 0 THEN queue[Len(queue)] ELSE IF Waiting THEN e ELSE NULL
  BY <1>3 DEF LastCell
<1>8. Waiting' <=> Waiting
  BY <1>1 DEF Waiting
<1>9. /\ \A i \in 1 .. Len(queue) : Prev'[i] = Prev[i]
      /\ \A i \in 1 .. Len(queue) : (queue'[i] \in Unlinked') <=> (queue[i] \in Unlinked)
      /\ c \in Unlinked'
  BY <1>1, <1>2, <1>3, <1>6, <1>8 DEF Prev, Unlinked
<1>10. Prev'[Len(queue) + 1] = tail
  BY <1>1, <1>3, <1>7, <1>8 DEF Prev
<1>11. Producers'
  <2>1. ASSUME NEW q \in Procs, pc'[q] = "link"
        PROVE  \E i \in 1 .. Len(queue') : element'[q] = queue'[i] /\ r_prev'[q] = Prev'[i]
    <3>1. CASE q = p
      BY <1>3, <1>6, <1>10, <3>1
    <3>2. CASE q # p
      <4>1. PICK i \in 1 .. Len(queue) : element[q] = queue[i] /\ r_prev[q] = Prev[i]
        BY <1>6, <2>1, <3>2 DEF Producers
      <4>2. queue'[i] = queue[i] /\ Prev'[i] = Prev[i]
        BY <1>3, <1>9
      <4>4. i \in 1 .. Len(queue')
        BY <1>3
      <4>3. element'[q] = element[q] /\ r_prev'[q] = r_prev[q]
        BY <1>6, <3>2
      <4> QED
        BY <4>1, <4>2, <4>3, <4>4
    <3> QED
      BY <3>1, <3>2
  <2>2. ASSUME NEW q \in Procs, NEW r \in Procs, pc'[q] = "link", pc'[r] = "link",
               element'[q] = element'[r]
        PROVE  q = r
    <3>1. \A x \in Procs : pc[x] = "link" => element[x] # c
      BY <1>2 DEF Producers
    <3> QED
      BY <1>6, <2>2, <3>1 DEF Producers
  <2> QED
    BY <2>1, <2>2 DEF Producers
<1>12. Links'
  <2>1. ASSUME NEW i \in 1 .. Len(queue'), Prev'[i] # NULL
        PROVE  next'[Prev'[i]] = IF queue'[i] \in Unlinked' THEN NULL ELSE queue'[i]
    <3>1. CASE i \in 1 .. Len(queue)
      <4>1. /\ Prev'[i] = Prev[i] /\ queue'[i] = queue[i]
            /\ queue'[i] \in Unlinked' <=> queue[i] \in Unlinked
        BY <1>3, <1>9, <3>1
      <4>2. next[Prev[i]] = IF queue[i] \in Unlinked THEN NULL ELSE queue[i]
        BY <2>1, <3>1, <4>1 DEF Links
      <4> QED
        BY <1>1, <4>1, <4>2
    <3>2. CASE i = Len(queue) + 1
      <4>1. next[tail] = NULL
        BY <1>3, <1>7, <1>10, <2>1, <3>2 DEF Links
      <4> QED
        BY <1>1, <1>3, <1>9, <1>10, <3>2, <4>1
    <3> QED
      BY <1>3, <3>1, <3>2
  <2>2. next[c] = NULL
    BY <1>2 DEF Links
  <2>3. \A d \in Cells : d # e' /\ (\A i \in 1 .. Len(queue') : queue'[i] # d) => next'[d] = NULL
    BY <1>1, <1>3 DEF Links
  <2>4. Len(queue') > 0 /\ next'[queue'[Len(queue')]] = NULL
    BY <1>1, <1>3, <2>2
  <2> QED
    BY <2>1, <2>3, <2>4 DEF Links
<1>13. LastCell'
  BY <1>1, <1>3 DEF LastCell
<1>14. FirstCell'
  <2>1. CASE Len(queue) = 0
    <3>1. queue'[1] = c
      BY <1>3, <2>1
    <3> QED
      BY <1>1, <1>3, <1>8, <1>9, <2>1, <3>1 DEF FirstCell
  <2>2. CASE Len(queue) > 0
    <3>0. 1 \in 1 .. Len(queue)
      BY <1>3, <2>2
    <3>1. queue'[1] = queue[1] /\ (queue'[1] \in Unlinked' <=> queue[1] \in Unlinked)
      BY <1>3, <1>9, <3>0
    <3> QED
      BY <1>1, <1>3, <1>8, <2>2, <3>1 DEF FirstCell
  <2> QED
    BY <1>3, <2>1, <2>2
<1> QED
  BY <1>4, <1>5, <1>11, <1>12, <1>13, <1>14

\* The cells in front of queued cells are different, and the last cell is in
\* front of none.
LEMMA PrevCells ==
  ASSUME Inv
  PROVE  /\ Len(queue) \in Nat
         /\ \A i \in 1 .. Len(queue) : queue[i] \in Cells
         /\ \A i \in 1 .. Len(queue) : Prev[i] = NULL <=> (i = 1 /\ ~Waiting)
         /\ \A i \in 1 .. Len(queue) : Prev[i] # NULL => /\ Prev[i] \in Cells
                                                       /\ Prev[i] # queue[Len(queue)]
         /\ \A i, j \in 1 .. Len(queue) : Prev[i] = Prev[j] => i = j
         /\ \A i \in 1 .. Len(queue) : Prev[i] # NULL =>
              (Prev[i] = e \/ \E j \in 1 .. Len(queue) : Prev[i] = queue[j])
         /\ Waiting => e \in Cells
<1> USE CellsAssumption
<1>1. Len(queue) \in Nat /\ \A i \in 1 .. Len(queue) : queue[i] \in Cells
  BY DEF Inv, TypeOK
<1>2. Waiting => e \in Cells
  BY DEF Inv, TypeOK, Places, Waiting, Pointer
<1>3. \A i \in 1 .. Len(queue) : Prev[i] = IF i > 1 THEN queue[i - 1]
                                        ELSE IF Waiting THEN e ELSE NULL
  BY <1>1 DEF Prev
<1>4. \A i, j \in 1 .. Len(queue) : queue[i] = queue[j] => i = j
  BY DEF Inv, Places
<1>5. \A i \in 1 .. Len(queue) : queue[i] # e
  BY DEF Inv, Places
<1>6. \A i \in 1 .. Len(queue) : i > 1 => /\ i - 1 \in 1 .. Len(queue)
                                         /\ i - 1 # Len(queue)
  BY <1>1
<1>7. ASSUME NEW i \in 1 .. Len(queue), Prev[i] # NULL
      PROVE  Prev[i] \in Cells /\ Prev[i] # queue[Len(queue)]
  <2>1. Len(queue) \in 1 .. Len(queue)
    BY <1>1
  <2> QED
    BY <1>1, <1>2, <1>3, <1>4, <1>5, <1>6, <1>7, <2>1
<1>8. ASSUME NEW i \in 1 .. Len(queue), NEW j \in 1 .. Len(queue), Prev[i] = Prev[j]
      PROVE  i = j
  <2>1. CASE i > 1 /\ j > 1
    BY <1>1, <1>3, <1>4, <1>6, <1>8, <2>1
  <2>2. CASE i > 1 /\ j = 1
    BY <1>1, <1>3, <1>5, <1>6, <1>8, <2>2
  <2>3. CASE i = 1 /\ j > 1
    BY <1>1, <1>3, <1>5, <1>6, <1>8, <2>3
  <2> QED
    BY <1>1, <2>1, <2>2, <2>3
<1>9. \A i \in 1 .. Len(queue) : Prev[i] = NULL <=> (i = 1 /\ ~Waiting)
  BY <1>1, <1>2, <1>3, <1>6
<1>10. \A i \in 1 .. Len(queue) : Prev[i] # NULL =>
         (Prev[i] = e \/ \E j \in 1 .. Len(queue) : Prev[i] = queue[j])
  BY <1>1, <1>3, <1>6
<1> QED
  BY <1>1, <1>2, <1>7, <1>8, <1>9, <1>10

LEMMA LinkStep ==
  ASSUME Inv, NEW p \in Procs, Link(p)
  PROVE  Inv'
<1> USE CellsAssumption DEF Inv
<1>1. /\ pc[p] = "link" /\ pc' = [pc EXCEPT ![p] = "idle"]
      /\ element' = [element EXCEPT ![p] = NULL] /\ r_prev' = [r_prev EXCEPT ![p] = NULL]
      /\ UNCHANGED <<my_head, tail, cpc, e, got, queue>>
      /\ r_prev[p] = NULL => head' = element[p] /\ next' = next
      /\ r_prev[p] # NULL => next' = [next EXCEPT ![r_prev[p]] = element[p]] /\ head' = head
  BY DEF Link
<1>2. PICK i \in 1 .. Len(queue) : element[p] = queue[i] /\ r_prev[p] = Prev[i]
  BY <1>1 DEF Producers
<1>3. TypeOK'
  BY <1>1 DEF TypeOK, Pointer
<1>4. Places'
  BY <1>1 DEF Places
<1>5. Prev' = Prev /\ (Waiting' <=> Waiting)
  BY <1>1 DEF Prev, Waiting
<1>6. \A q \in Procs : /\ pc'[q] = IF q = p THEN "idle" ELSE pc[q]
                       /\ q # p => element'[q] = element[q] /\ r_prev'[q] = r_prev[q]
  BY <1>1 DEF TypeOK
<1>7. Producers'
  BY <1>1, <1>5, <1>6 DEF Producers
<1>8. \A q \in Procs : pc[q] = "link" /\ element[q] = queue[i] => q = p
  BY <1>1, <1>2 DEF Producers
<1>9. /\ \A c \in Cells : (c \in Unlinked') <=> (c \in Unlinked /\ c # queue[i])
      /\ queue[i] \in Unlinked
  BY <1>1, <1>2, <1>6, <1>8 DEF Unlinked
<1>10. LastCell'
  BY <1>1, <1>5 DEF LastCell
<1>11. /\ \A j \in 1 .. Len(queue) : queue[j] \in Cells
       /\ \A j \in 1 .. Len(queue) : queue[j] = queue[i] => j = i
       /\ \A j \in 1 .. Len(queue) : (queue[j] \in Unlinked') <=> (queue[j] \in Unlinked /\ j # i)
       /\ Len(queue) \in Nat
  BY <1>9, PrevCells DEF Places
<1>12. CASE r_prev[p] = NULL
  <2>1. i = 1 /\ ~Waiting /\ head' = queue[1] /\ next' = next /\ Prev[1] = NULL
    BY <1>1, <1>2, <1>12, PrevCells
  <2>2. Links'
    <3>1. ASSUME NEW j \in 1 .. Len(queue), Prev[j] # NULL
          PROVE  next'[Prev[j]] = IF queue[j] \in Unlinked' THEN NULL ELSE queue[j]
      BY <1>11, <2>1, <3>1 DEF Links
    <3> QED
      BY <1>1, <1>5, <2>1, <3>1 DEF Links
  <2>3. FirstCell'
    <3>1. my_head = NULL /\ cpc \notin {"reset", "ready"}
      BY <1>9, <2>1 DEF FirstCell
    <3>2. cpc \in {"idle", "clear"}
      BY <2>1, <3>1 DEF TypeOK, ConsumerPc, Waiting
    <3>3. queue[1] \notin Unlinked' /\ Len(queue) > 0
      BY <1>11, <2>1
    <3> QED
      BY <1>1, <1>5, <2>1, <3>1, <3>2, <3>3 DEF FirstCell
  <2> QED
    BY <1>3, <1>4, <1>7, <1>10, <2>2, <2>3
<1>13. CASE r_prev[p] # NULL
  <2>1. /\ Prev[i] # NULL /\ Prev[i] \in Cells /\ head' = head
        /\ next' = [next EXCEPT ![Prev[i]] = queue[i]]
    BY <1>1, <1>2, <1>13, PrevCells
  <2>2. \A c \in Cells : next'[c] = IF c = Prev[i] THEN queue[i] ELSE next[c]
    BY <2>1 DEF TypeOK
  <2>3. Links'
    <3>1. ASSUME NEW j \in 1 .. Len(queue), Prev[j] # NULL
          PROVE  next'[Prev[j]] = IF queue[j] \in Unlinked' THEN NULL ELSE queue[j]
      <4>1. Prev[j] \in Cells /\ (Prev[j] = Prev[i] => j = i)
        BY <3>1, PrevCells
      <4> QED
        BY <1>11, <2>2, <3>1, <4>1 DEF Links
    <3>2. next'[queue[Len(queue)]] = NULL /\ Len(queue) > 0
      <4>1. Len(queue) \in 1 .. Len(queue)
        BY <1>11
      <4>2. Prev[i] # queue[Len(queue)]
        BY <2>1, PrevCells
      <4> QED
        BY <1>11, <2>2, <4>1, <4>2 DEF Links
    <3>3. ASSUME NEW c \in Cells, c # e, \A j \in 1 .. Len(queue) : queue[j] # c
          PROVE  next'[c] = NULL
      <4>1. c # Prev[i]
        BY <2>1, <3>3, PrevCells
      <4> QED
        BY <2>2, <3>3, <4>1 DEF Links
    <3> QED
      BY <1>1, <1>5, <3>1, <3>2, <3>3 DEF Links
  <2>4. FirstCell'
    <3>1. CASE Waiting
      BY <1>1, <1>5, <2>1, <3>1 DEF FirstCell
    <3>2. CASE ~Waiting
      <4>1. i # 1 /\ 1 \in 1 .. Len(queue)
        BY <1>11, <2>1, <3>2, PrevCells
      <4>2. (queue[1] \in Unlinked') <=> (queue[1] \in Unlinked)
        BY <1>11, <4>1
      <4> QED
        BY <1>1, <1>5, <2>1, <3>2, <4>2 DEF FirstCell
    <3> QED
      BY <3>1, <3>2
  <2> QED
    BY <1>3, <1>4, <1>7, <1>10, <2>3, <2>4
<1> QED
  BY <1>12, <1>13

-----------------------------------------------------------------------------
(* The consumer, where both builds do the same.                            *)

LEMMA EmptyFalseStep ==
  ASSUME Inv, EmptyFalse
  PROVE  Inv'
<1> USE CellsAssumption DEF Inv
<1>1. /\ cpc = "idle" /\ got = NULL /\ cpc' \in {"ready", "reset"}
      /\ UNCHANGED <<head, tail, next, pc, element, r_prev, e, got, queue>>
  BY DEF EmptyFalse, producer
<1>2. ~Waiting /\ ~Waiting'
  BY <1>1 DEF Waiting
<1>3. Prev' = Prev /\ Unlinked' = Unlinked
  BY <1>1, <1>2 DEF Prev, Unlinked
<1>4. TypeOK' /\ Places'
  BY <1>1 DEF TypeOK, Places, EmptyFalse, ConsumerPc
<1>5. Producers' /\ Links' /\ LastCell'
  BY <1>1, <1>2, <1>3 DEF Producers, Links, LastCell
<1>6. FirstCell'
  <2>1. Len(queue) \in Nat
    BY DEF TypeOK
  <2>2. my_head # NULL \/ head # NULL
    BY DEF EmptyFalse
  <2>3. /\ Len(queue) > 0 /\ queue[1] \notin Unlinked
        /\ \/ my_head = queue[1] /\ head = NULL
           \/ my_head = NULL /\ head = queue[1]
    BY <1>1, <1>2, <2>1, <2>2 DEF FirstCell
  <2>4. queue[1] # NULL
    BY <2>1, <2>3, PrevCells
  <2> QED
    BY <1>1, <1>2, <1>3, <2>1, <2>3, <2>4 DEF FirstCell, EmptyFalse
<1> QED
  BY <1>4, <1>5, <1>6

LEMMA EmptyResetStep ==
  ASSUME Inv, EmptyReset
  PROVE  Inv'
<1> USE CellsAssumption DEF Inv
<1>1. /\ cpc = "reset" /\ cpc' = "ready" /\ head' = NULL
      /\ UNCHANGED <<my_head, tail, next, pc, element, r_prev, e, got, queue>>
  BY DEF EmptyReset, producer
<1>2. ~Waiting /\ ~Waiting'
  BY <1>1 DEF Waiting
<1>3. Prev' = Prev /\ Unlinked' = Unlinked
  BY <1>1, <1>2 DEF Prev, Unlinked
<1>4. TypeOK' /\ Places'
  BY <1>1 DEF TypeOK, Places, Pointer, ConsumerPc
<1>5. Producers' /\ Links' /\ LastCell'
  BY <1>1, <1>2, <1>3 DEF Producers, Links, LastCell
<1>6. FirstCell'
  <2>1. Len(queue) \in Nat
    BY DEF TypeOK
  <2>2. Len(queue) > 0 /\ queue[1] \notin Unlinked /\ my_head = queue[1]
    BY <1>1, <1>2, <2>1 DEF FirstCell
  <2> QED
    BY <1>1, <1>2, <1>3, <2>1, <2>2 DEF FirstCell
<1> QED
  BY <1>4, <1>5, <1>6

LEMMA DequeueClearStep ==
  ASSUME Inv, DequeueClear
  PROVE  Inv'
<1> USE CellsAssumption DEF Inv
<1>1. /\ cpc = "clear" /\ cpc' = "idle" /\ got' = e /\ e' = NULL
      /\ next' = [next EXCEPT ![e] = NULL]
      /\ UNCHANGED <<head, my_head, tail, pc, element, r_prev, queue>>
  BY DEF DequeueClear, producer
<1>2. ~Waiting /\ ~Waiting'
  BY <1>1 DEF Waiting
<1>3. Prev' = Prev /\ Unlinked' = Unlinked
  BY <1>1, <1>2 DEF Prev, Unlinked
<1>4. TypeOK'
  BY <1>1 DEF TypeOK, Pointer, ConsumerPc
<1>5. /\ \A i \in 1 .. Len(queue) : queue[i] # e /\ queue[i] # NULL
      /\ Len(queue) \in Nat
  BY PrevCells DEF Places
<1>6. Places'
  BY <1>1, <1>5 DEF Places
<1>7. Producers' /\ LastCell'
  BY <1>1, <1>2, <1>3 DEF Producers, LastCell
<1>8. \A c \in Cells : next'[c] = IF c = e THEN NULL ELSE next[c]
  BY <1>1 DEF TypeOK
<1>9. Links'
  <2>1. ASSUME NEW i \in 1 .. Len(queue), Prev[i] # NULL
        PROVE  next'[Prev[i]] = next[Prev[i]]
    <3>1. Prev[i] \in Cells
      BY <2>1, PrevCells
    <3>2. i > 1 /\ Prev[i] = queue[i - 1] /\ i - 1 \in 1 .. Len(queue)
      BY <1>2, <1>5, <2>1 DEF Prev
    <3> QED
      BY <1>5, <1>8, <3>1, <3>2
  <2>2. ASSUME Len(queue) > 0
        PROVE  next'[queue[Len(queue)]] = NULL
    <3>1. Len(queue) \in 1 .. Len(queue) /\ queue[Len(queue)] \in Cells
      BY <1>5, <2>2, PrevCells
    <3> QED
      BY <1>8, <2>2, <3>1 DEF Links
  <2>3. \A c \in Cells : (\A i \in 1 .. Len(queue) : queue[i] # c) => next'[c] = NULL
    BY <1>8 DEF Links
  <2> QED
    BY <1>1, <1>2, <1>3, <2>1, <2>2, <2>3 DEF Links
<1>10. FirstCell'
  BY <1>1, <1>2, <1>3 DEF FirstCell
<1> QED
  BY <1>4, <1>6, <1>7, <1>9, <1>10

LEMMA ReleaseStep ==
  ASSUME Inv, Release
  PROVE  Inv'
<1> USE CellsAssumption DEF Inv
<1>1. /\ got' = NULL
      /\ UNCHANGED <<head, my_head, tail, next, pc, element, r_prev, cpc, e, queue>>
  BY DEF Release, producer, pointers
<1>2. (Waiting' <=> Waiting) /\ Prev' = Prev /\ Unlinked' = Unlinked
  BY <1>1 DEF Waiting, Prev, Unlinked
<1>3. TypeOK' /\ Producers' /\ Links' /\ LastCell' /\ FirstCell'
  BY <1>1, <1>2 DEF TypeOK, Pointer, Producers, Links, LastCell, FirstCell
<1>4. Places'
  BY <1>1, PrevCells DEF Places
<1> QED
  BY <1>3, <1>4

-----------------------------------------------------------------------------
(* Taking the first cell.  The builds differ in my_head while the consumer *)
(* waits for the next field of the cell it took.                           *)

TakeFirst ==
  /\ cpc = "ready"
  /\ e' = my_head
  /\ queue' = Tail(queue)
  /\ \/ next[my_head] # NULL /\ my_head' = next[my_head] /\ cpc' = "clear"
     \/ next[my_head] = NULL /\ my_head' \in Pointer /\ cpc' = "tail"
  /\ UNCHANGED <<head, tail, next, pc, element, r_prev, got>>

LEMMA TakeFirstStep ==
  ASSUME Inv, TakeFirst
  PROVE  Inv'
<1> USE CellsAssumption DEF Inv
<1>1. /\ cpc = "ready" /\ e' = my_head /\ queue' = Tail(queue)
      /\ UNCHANGED <<head, tail, next, pc, element, r_prev, got>>
  BY DEF TakeFirst
<1>2. ~Waiting /\ Unlinked' = Unlinked
  BY <1>1 DEF Waiting, Unlinked
<1>3. Len(queue) \in Nat /\ queue \in Seq(Cells)
  BY DEF TypeOK
<1>4. /\ Len(queue) > 0 /\ queue[1] \notin Unlinked /\ my_head = queue[1] /\ head = NULL
  BY <1>1, <1>2, <1>3 DEF FirstCell
<1>5. /\ queue' \in Seq(Cells) /\ Len(queue') = Len(queue) - 1
      /\ \A i \in 1 .. Len(queue) - 1 : queue'[i] = queue[i + 1] /\ i + 1 \in 1 .. Len(queue)
      /\ \A i \in 1 .. Len(queue) : queue[i] \in Cells
      /\ queue[1] \in Cells /\ e' = queue[1]
  BY <1>1, <1>3, <1>4, TailQueue
<1>6. /\ \A i, j \in 1 .. Len(queue) : queue[i] = queue[j] => i = j
      /\ \A i \in 1 .. Len(queue) : queue[i] # got
      /\ got = NULL
  BY <1>1 DEF Places
<1>7. TypeOK'
  BY <1>1, <1>4, <1>5 DEF TypeOK, TakeFirst, Pointer, ConsumerPc
<1>8. Places'
  <2>1. \A i, j \in 1 .. Len(queue') : queue'[i] = queue'[j] => i = j
    BY <1>3, <1>5, <1>6
  <2>2. \A i \in 1 .. Len(queue') : queue'[i] # e' /\ queue'[i] # got'
    BY <1>1, <1>3, <1>4, <1>5, <1>6
  <2>3. cpc' \in {"tail", "clear"} /\ e' # NULL
    BY <1>5 DEF TakeFirst
  <2> QED
    BY <1>1, <1>6, <2>1, <2>2, <2>3 DEF Places
<1>9. \A i \in 1 .. Len(queue') : i > 1 => Prev'[i] = Prev[i + 1]
  BY <1>3, <1>5 DEF Prev
<1>10. ASSUME NEW i \in 1 .. Len(queue), i > 1
       PROVE  Prev[i] = queue[i - 1]
  BY <1>3, <1>10 DEF Prev
<1>11. LastCell'
  <2>1. Len(queue') > 0 => queue'[Len(queue')] = queue[Len(queue)]
    BY <1>3, <1>5
  <2>2. Len(queue') = 0 => Waiting'
    <3>1. Len(queue) = 1 => next[queue[1]] = NULL
      BY DEF Links
    <3> QED
      BY <1>3, <1>4, <1>5, <3>1 DEF TakeFirst, Waiting
  <2>3. cpc' # "spin"
    BY DEF TakeFirst
  <2>4. tail = queue[Len(queue)]
    BY <1>4 DEF LastCell
  <2> QED
    BY <1>1, <1>3, <1>4, <1>5, <2>1, <2>2, <2>3, <2>4 DEF LastCell
<1>12. /\ Len(queue') > 0 => next'[queue'[Len(queue')]] = NULL
       /\ Len(queue') = 0 => next'[e'] = NULL
  <2>1. next[queue[Len(queue)]] = NULL
    BY <1>4 DEF Links
  <2> QED
    BY <1>1, <1>3, <1>4, <1>5, <2>1
<1>13. ASSUME NEW c \in Cells, c # e', \A i \in 1 .. Len(queue') : queue'[i] # c
       PROVE  next'[c] = NULL
  <2>1. ASSUME NEW i \in 1 .. Len(queue)
        PROVE  queue[i] # c
    <3>1. CASE i = 1
      BY <1>5, <1>13, <3>1
    <3>2. CASE i > 1
      <4>1. i - 1 \in 1 .. Len(queue')  /\ i - 1 \in 1 .. Len(queue) - 1 /\ (i - 1) + 1 = i
        BY <1>3, <1>5, <3>2
      <4> QED
        BY <1>5, <1>13, <4>1
    <3> QED
      BY <1>3, <3>1, <3>2
  <2>2. c # e
    BY <1>1 DEF Places, TypeOK
  <2> QED
    BY <1>1, <1>13, <2>1, <2>2 DEF Links
<1>14. ASSUME NEW i \in 1 .. Len(queue'), Prev'[i] = Prev[i + 1]
       PROVE  next'[Prev'[i]] = IF queue'[i] \in Unlinked' THEN NULL ELSE queue'[i]
  <2>1. i + 1 \in 1 .. Len(queue) /\ queue'[i] = queue[i + 1]
    BY <1>5
  <2>2. Prev[i + 1] # NULL
    BY <1>3, <2>1, PrevCells
  <2> QED
    BY <1>1, <1>2, <1>14, <2>1, <2>2 DEF Links
<1>15. ASSUME NEW q \in Procs, pc[q] = "link"
       PROVE  \E i \in 1 .. Len(queue') : element[q] = queue'[i] /\ r_prev[q] = Prev[i + 1]
  <2>1. PICK i \in 1 .. Len(queue) : element[q] = queue[i] /\ r_prev[q] = Prev[i]
    BY <1>15 DEF Producers
  <2>2. i # 1
    BY <1>4, <1>15, <2>1 DEF Unlinked
  <2>3. i - 1 \in 1 .. Len(queue') /\ i - 1 \in 1 .. Len(queue) - 1 /\ (i - 1) + 1 = i
    BY <1>3, <1>5, <2>2
  <2> QED
    BY <1>5, <2>1, <2>3
<1>16. CASE next[my_head] = NULL
  <2>1. cpc' = "tail" /\ Waiting'
    BY <1>16 DEF TakeFirst, Waiting
  <2>2. \A i \in 1 .. Len(queue') : Prev'[i] = Prev[i + 1]
    BY <1>3, <1>5, <1>9, <2>1 DEF Prev
  <2>3. Producers'
    <3>1. ASSUME NEW q \in Procs, pc[q] = "link"
          PROVE  \E i \in 1 .. Len(queue') : element[q] = queue'[i] /\ r_prev[q] = Prev'[i]
      BY <1>15, <2>2, <3>1
    <3>2. \A q, r \in Procs : pc[q] = "link" /\ pc[r] = "link" /\ element[q] = element[r]
                               => q = r
      BY DEF Producers
    <3> HIDE DEF Inv
    <3> QED
      BY <1>1, <3>1, <3>2 DEF Producers
  <2>4. Links'
    BY <1>12, <1>13, <1>14, <2>2 DEF Links
  <2>5. FirstCell'
    BY <1>1, <1>4, <2>1 DEF FirstCell
  <2> QED
    BY <1>7, <1>8, <1>11, <2>3, <2>4, <2>5
<1>17. CASE next[my_head] # NULL
  <2>1. cpc' = "clear" /\ ~Waiting' /\ my_head' = next[queue[1]]
    BY <1>4, <1>17 DEF TakeFirst, Waiting
  <2>2. Len(queue) # 1
    BY <1>4, <1>17 DEF Links
  <2>3. 2 \in 1 .. Len(queue) /\ 1 \in 1 .. Len(queue') /\ queue'[1] = queue[2]
    BY <1>3, <1>4, <1>5, <2>2
  <2>4. Prev[2] = queue[1] /\ Prev[2] # NULL
    BY <1>5, <1>10, <2>3
  <2>5. queue[2] \notin Unlinked /\ next[queue[1]] = queue[2]
    BY <1>4, <1>17, <2>3, <2>4 DEF Links
  <2>6. Producers'
    <3>1. ASSUME NEW q \in Procs, pc[q] = "link"
          PROVE  \E i \in 1 .. Len(queue') : element[q] = queue'[i] /\ r_prev[q] = Prev'[i]
      <4>1. PICK i \in 1 .. Len(queue') : element[q] = queue'[i] /\ r_prev[q] = Prev[i + 1]
        BY <1>15, <3>1
      <4>2. i # 1
        BY <2>3, <2>5, <3>1, <4>1 DEF Unlinked
      <4>3. Prev'[i] = Prev[i + 1]
        BY <1>3, <1>5, <1>9, <4>2
      <4> HIDE DEF Inv
      <4> QED
        BY <4>1, <4>3, Zenon
    <3>2. \A q, r \in Procs : pc[q] = "link" /\ pc[r] = "link" /\ element[q] = element[r]
                               => q = r
      BY DEF Producers
    <3> HIDE DEF Inv
    <3> QED
      BY <1>1, <3>1, <3>2 DEF Producers
  <2>7. Prev'[1] = NULL
    BY <1>3, <1>5, <2>1, <2>3 DEF Prev
  <2>8. Links'
    <3>1. ASSUME NEW i \in 1 .. Len(queue'), Prev'[i] # NULL
          PROVE  next'[Prev'[i]] = IF queue'[i] \in Unlinked' THEN NULL ELSE queue'[i]
      BY <1>3, <1>5, <1>9, <1>14, <2>7, <3>1
    <3> QED
      BY <1>12, <1>13, <3>1 DEF Links
  <2>9. FirstCell'
    <3>1. queue'[1] \notin Unlinked' /\ Len(queue') > 0
      BY <1>2, <1>3, <1>5, <2>3, <2>5
    <3> QED
      BY <1>1, <1>4, <2>1, <2>3, <2>5, <3>1 DEF FirstCell
  <2> QED
    BY <1>7, <1>8, <1>11, <2>6, <2>8, <2>9
<1> QED
  BY <1>16, <1>17

-----------------------------------------------------------------------------
(* Leaving the list of the taken cell.                                     *)

\* The next field of the taken cell is set: my_head takes it.
TakeNext ==
  /\ Waiting /\ next[e] # NULL
  /\ my_head' = next[e] /\ cpc' = "clear"
  /\ UNCHANGED <<head, tail, next, pc, element, r_prev, e, got, queue>>

\* The taken cell was the last: the queue is empty.
TakeLast ==
  /\ Waiting /\ Len(queue) = 0
  /\ tail' = NULL /\ my_head' = NULL /\ cpc' = "clear"
  /\ UNCHANGED <<head, next, pc, element, r_prev, e, got, queue>>

LEMMA TakeNextStep ==
  ASSUME Inv, TakeNext
  PROVE  Inv'
<1> USE CellsAssumption DEF Inv
<1>1. /\ Waiting /\ cpc' = "clear" /\ my_head' = next[e] /\ next[e] # NULL
      /\ UNCHANGED <<head, tail, next, pc, element, r_prev, e, got, queue>>
  BY DEF TakeNext
<1>2. ~Waiting' /\ Unlinked' = Unlinked
  BY <1>1 DEF Waiting, Unlinked
<1>3. Len(queue) \in Nat /\ e \in Cells
  BY <1>1, PrevCells
<1>4. Len(queue) > 0 /\ 1 \in 1 .. Len(queue)
  BY <1>1, <1>3 DEF Links
<1>5. Prev[1] = e
  BY <1>1, <1>3, <1>4 DEF Prev
<1>6. queue[1] \notin Unlinked /\ next[e] = queue[1]
  BY <1>1, <1>3, <1>4, <1>5 DEF Links
<1>7. /\ \A i \in 1 .. Len(queue) : i # 1 => Prev'[i] = Prev[i]
      /\ Prev'[1] = NULL
  BY <1>1, <1>2, <1>3, <1>4 DEF Prev
<1>8. TypeOK'
  BY <1>1, <1>3 DEF TypeOK, ConsumerPc
<1>9. Places'
  BY <1>1 DEF Places, Waiting
<1>10. Producers'
  <2>1. ASSUME NEW q \in Procs, pc[q] = "link"
        PROVE  \E i \in 1 .. Len(queue) : element[q] = queue[i] /\ r_prev[q] = Prev'[i]
    <3>1. PICK i \in 1 .. Len(queue) : element[q] = queue[i] /\ r_prev[q] = Prev[i]
      BY <2>1 DEF Producers
    <3>2. i # 1
      BY <1>6, <2>1, <3>1 DEF Unlinked
    <3> QED
      BY <1>7, <3>1, <3>2
  <2>2. \A q, r \in Procs : pc[q] = "link" /\ pc[r] = "link" /\ element[q] = element[r]
                             => q = r
    BY DEF Producers
  <2> HIDE DEF Inv
  <2> QED
    BY <1>1, <2>1, <2>2 DEF Producers
<1>11. Links'
  <2>1. ASSUME NEW i \in 1 .. Len(queue), Prev'[i] # NULL
        PROVE  next[Prev'[i]] = IF queue[i] \in Unlinked THEN NULL ELSE queue[i]
    BY <1>7, <2>1 DEF Links
  <2>2. /\ next[queue[Len(queue)]] = NULL
        /\ \A c \in Cells : c # e /\ (\A i \in 1 .. Len(queue) : queue[i] # c) => next[c] = NULL
    BY <1>4 DEF Links
  <2> HIDE DEF Inv
  <2> QED
    BY <1>1, <1>2, <1>4, <2>1, <2>2 DEF Links
<1>12. LastCell'
  BY <1>1, <1>3, <1>4 DEF LastCell
<1>13. FirstCell'
  BY <1>1, <1>2, <1>3, <1>4, <1>6 DEF FirstCell
<1> QED
  BY <1>8, <1>9, <1>10, <1>11, <1>12, <1>13

LEMMA TakeLastStep ==
  ASSUME Inv, TakeLast
  PROVE  Inv'
<1> USE CellsAssumption DEF Inv
<1>1. /\ Waiting /\ Len(queue) = 0 /\ tail' = NULL /\ my_head' = NULL /\ cpc' = "clear"
      /\ UNCHANGED <<head, next, pc, element, r_prev, e, got, queue>>
  BY DEF TakeLast
<1>2. ~Waiting' /\ Unlinked' = Unlinked
  BY <1>1 DEF Waiting, Unlinked
<1>3. \A i \in 1 .. Len(queue) : FALSE
  BY <1>1
<1>4. TypeOK' /\ Places'
  BY <1>1 DEF TypeOK, ConsumerPc, Pointer, Places, Waiting
<1>5. Producers'
  BY <1>1, <1>3 DEF Producers
<1>6. Links'
  BY <1>1, <1>2, <1>3 DEF Links
<1>7. LastCell' /\ FirstCell'
  BY <1>1, <1>2 DEF LastCell, FirstCell
<1> QED
  BY <1>4, <1>5, <1>6, <1>7

\* With the tail at e nothing has been swapped in behind it.
LEMMA TailIsE ==
  ASSUME Inv, Waiting
  PROVE  tail = e <=> Len(queue) = 0
<1>1. Len(queue) \in Nat
  BY PrevCells
<1>2. Len(queue) > 0 => tail # e
  BY <1>1 DEF Inv, LastCell, Places
<1> QED
  BY <1>1, <1>2 DEF Inv, LastCell

-----------------------------------------------------------------------------
(* The two builds.                                                         *)

LEMMA FreeStep ==
  ASSUME Inv, FreeInv, Next
  PROVE  Inv' /\ FreeInv'
<1> USE CellsAssumption
<1>1. ASSUME NEW p \in Procs, Link(p)
      PROVE  Inv' /\ FreeInv'
  BY <1>1, LinkStep DEF Link, FreeInv, Waiting
<1>2. ASSUME NEW p \in Procs, NEW c \in Cells, Swap(p, c)
      PROVE  Inv' /\ FreeInv'
  BY <1>2, SwapStep DEF Swap, FreeInv, Waiting
<1>3. CASE EmptyFalse
  BY <1>3, EmptyFalseStep DEF EmptyFalse, FreeInv, Waiting
<1>4. CASE EmptyReset
  BY <1>4, EmptyResetStep DEF EmptyReset, FreeInv, Waiting
<1>5. CASE DequeueRead
  <2>1. TakeFirst
    BY <1>5 DEF DequeueRead, TakeFirst, producer, Pointer
  <2> QED
    BY <1>5, <2>1, TakeFirstStep DEF DequeueRead, FreeInv, Waiting
<1>6. CASE DequeueCAS
  <2>1. Waiting /\ UNCHANGED <<head, my_head, next, pc, element, r_prev, e, got, queue>>
    BY <1>6 DEF DequeueCAS, producer, Waiting
  <2>2. CASE tail = e
    <3>1. TakeLast
      BY <1>6, <2>1, <2>2, TailIsE DEF DequeueCAS, TakeLast, FreeInv
    <3> QED
      BY <3>1, TakeLastStep DEF FreeInv, TakeLast
  <2>3. CASE tail # e
    <3>1. cpc = "tail" /\ cpc' = "spin" /\ tail' = tail /\ Waiting'
      BY <1>6, <2>3 DEF DequeueCAS, Waiting
    <3>2. Len(queue) > 0
      BY <2>1, <2>3, TailIsE, PrevCells
    <3>3. Prev' = Prev /\ Unlinked' = Unlinked
      BY <2>1, <3>1 DEF Prev, Unlinked
    <3>4. TypeOK' /\ Places'
      BY <2>1, <3>1 DEF Inv, TypeOK, ConsumerPc, Places
    <3>5. Producers' /\ Links' /\ LastCell' /\ FirstCell'
      BY <2>1, <3>1, <3>2, <3>3 DEF Inv, Producers, Links, LastCell, FirstCell
    <3> QED
      BY <2>1, <3>4, <3>5 DEF Inv, FreeInv
  <2> QED
    BY <2>2, <2>3
<1>7. CASE DequeueSpin
  <2>1. TakeNext
    BY <1>7 DEF DequeueSpin, TakeNext, Waiting, producer
  <2> QED
    BY <2>1, TakeNextStep DEF TakeNext, FreeInv, Waiting
<1>8. CASE DequeueClear
  BY <1>8, DequeueClearStep DEF DequeueClear, FreeInv, Waiting
<1>9. CASE Release
  BY <1>9, ReleaseStep DEF Release, pointers, FreeInv, Waiting
<1> QED
  BY <1>1, <1>2, <1>3, <1>4, <1>5, <1>6, <1>7, <1>8, <1>9 DEF Next, Consumer

\* With the lock the second read of the next field is exact: a cell behind e
\* is linked when no producer holds the lock.
LEMMA UnlockedNext ==
  ASSUME Inv, Waiting, Unlocked
  PROVE  next[e] = NULL <=> Len(queue) = 0
<1> USE CellsAssumption
<1>1. Len(queue) \in Nat /\ \A i \in 1 .. Len(queue) : queue[i] \in Cells
  BY PrevCells
<1>2. Len(queue) = 0 => next[e] = NULL
  BY DEF Inv, Links
<1>3. ASSUME Len(queue) > 0
      PROVE  next[e] # NULL
  <2>1. 1 \in 1 .. Len(queue) /\ Prev[1] = e
    BY <1>1, <1>3 DEF Prev
  <2>2. queue[1] \notin Unlinked
    BY DEF Unlinked, Unlocked
  <2>3. e # NULL
    BY PrevCells
  <2> QED
    BY <1>1, <2>1, <2>2, <2>3 DEF Inv, Links
<1> QED
  BY <1>1, <1>2, <1>3

LEMMA LockStep ==
  ASSUME Inv, LockInv, cpc # "spin", LockNext
  PROVE  Inv' /\ LockInv' /\ cpc' # "spin"
<1> USE CellsAssumption
<1>1. ASSUME NEW p \in Procs, Link(p)
      PROVE  Inv' /\ LockInv' /\ cpc' # "spin"
  <2>1. \A q \in Procs : pc'[q] # "link"
    BY <1>1 DEF Link, LockInv, Inv, TypeOK
  <2> QED
    BY <1>1, <2>1, LinkStep DEF Link, LockInv
<1>2. ASSUME NEW p \in Procs, NEW c \in Cells, LockSwap(p, c)
      PROVE  Inv' /\ LockInv' /\ cpc' # "spin"
  <2>1. Swap(p, c) /\ Unlocked
    BY <1>2 DEF LockSwap
  <2>2. /\ \A q \in Procs : pc'[q] = "link" <=> q = p
        /\ element'[p] = c /\ cpc' = cpc /\ queue' = Append(queue, c)
    BY <2>1 DEF Swap, Unlocked, Inv, TypeOK
  <2>3. Len(queue') > 0 /\ queue'[Len(queue')] = c
    BY <2>2, AppendQueue DEF Inv, TypeOK
  <2> QED
    BY <2>1, <2>2, <2>3, SwapStep DEF LockInv
<1>3. ASSUME UNCHANGED <<pc, element>>, cpc' # "spin", Inv', queue' = queue \/ TakeFirst
      PROVE  Inv' /\ LockInv' /\ cpc' # "spin"
  <2>1. CASE queue' = queue
    BY <1>3, <2>1 DEF LockInv
  <2>2. CASE TakeFirst
    <3>1. ASSUME NEW p \in Procs, pc[p] = "link"
          PROVE  Len(queue') > 0 /\ element[p] = queue'[Len(queue')]
      <4>1. PICK i \in 1 .. Len(queue') : element'[p] = queue'[i]
        BY <1>3, <3>1 DEF Inv, Producers
      <4>2. Len(queue) > 0 /\ element[p] = queue[Len(queue)]
        BY <3>1 DEF LockInv
      <4>3. Len(queue') \in Nat /\ Len(queue') > 0
        BY <1>3, <4>1 DEF Inv, TypeOK
      <4>4. queue' = Tail(queue) /\ queue \in Seq(Cells)
        BY <2>2 DEF TakeFirst, Inv, TypeOK
      <4>5. queue'[Len(queue')] = queue[Len(queue)]
        BY <4>2, <4>3, <4>4, TailQueue
      <4> QED
        BY <4>2, <4>3, <4>5
    <3> QED
      BY <1>3, <3>1 DEF LockInv
  <2> QED
    BY <1>3, <2>1, <2>2
<1>4. CASE EmptyFalse
  BY <1>3, <1>4, EmptyFalseStep DEF EmptyFalse, producer
<1>5. CASE EmptyReset
  BY <1>3, <1>5, EmptyResetStep DEF EmptyReset, producer
<1>6. CASE LockDequeueRead
  <2>1. TakeFirst
    BY <1>6 DEF LockDequeueRead, TakeFirst, producer, Inv, TypeOK
  <2> QED
    BY <1>3, <1>6, <2>1, TakeFirstStep DEF LockDequeueRead, producer
<1>7. CASE LockDequeueTail
  <2>1. Waiting /\ Unlocked
    BY <1>7 DEF LockDequeueTail, Waiting
  <2>2. TakeNext \/ TakeLast
    BY <1>7, <2>1, UnlockedNext DEF LockDequeueTail, TakeNext, TakeLast, producer
  <2> QED
    BY <1>3, <2>2, TakeNextStep, TakeLastStep DEF TakeNext, TakeLast
<1>8. CASE DequeueClear
  BY <1>3, <1>8, DequeueClearStep DEF DequeueClear, producer
<1>9. CASE Release
  BY <1>3, <1>9, ReleaseStep DEF Release, producer
<1> QED
  BY <1>1, <1>2, <1>4, <1>5, <1>6, <1>7, <1>8, <1>9 DEF LockNext, LockConsumer

LEMMA UnchangedStep ==
  ASSUME Inv, UNCHANGED vars
  PROVE  Inv' /\ (FreeInv => FreeInv') /\ (LockInv => LockInv')
<1>1. UNCHANGED <<head, my_head, tail, next, pc, element, r_prev, cpc, e, got, queue>>
  BY DEF vars
<1>2. (Waiting' <=> Waiting) /\ Prev' = Prev /\ Unlinked' = Unlinked
  BY <1>1 DEF Waiting, Prev, Unlinked
<1>3. TypeOK' /\ Places' /\ Producers'
  BY <1>1, <1>2 DEF Inv, TypeOK, Places, Producers
<1>4. Links' /\ LastCell' /\ FirstCell'
  BY <1>1, <1>2 DEF Inv, Links, LastCell, FirstCell
<1>5. (FreeInv => FreeInv') /\ (LockInv => LockInv')
  BY <1>1, <1>2 DEF FreeInv, LockInv
<1> QED
  BY <1>3, <1>4, <1>5 DEF Inv

-----------------------------------------------------------------------------
(* What the invariant implies.                                             *)

LEMMA InitInv == Init => Inv /\ FreeInv /\ LockInv /\ cpc # "spin"
<1> SUFFICES ASSUME Init
             PROVE  Inv /\ FreeInv /\ LockInv /\ cpc # "spin"
  OBVIOUS
<1>1. queue = << >> /\ Len(queue) = 0 /\ \A i \in 1 .. Len(queue) : FALSE
  BY DEF Init
<1>2. ~Waiting
  BY DEF Init, Waiting
<1>3. TypeOK
  BY <1>1 DEF Init, TypeOK, Pointer, ConsumerPc
<1>4. Places /\ Producers
  BY <1>1 DEF Init, Places, Producers
<1>5. Links
  BY <1>1, <1>2 DEF Init, Links
<1>6. LastCell /\ FirstCell
  BY <1>1, <1>2 DEF Init, LastCell, FirstCell
<1> QED
  BY <1>2, <1>3, <1>4, <1>5, <1>6 DEF Inv, FreeInv, LockInv, Init

\* The first cell is found by MPID_nem_queue_empty unless it is not linked.
LEMMA MissedCell ==
  ASSUME Inv, cpc = "idle", my_head = NULL, head = NULL, queue # << >>
  PROVE  /\ Len(queue) \in Nat /\ Len(queue) > 0 /\ Head(queue) = queue[1]
         /\ \E p \in Procs : pc[p] = "link" /\ element[p] = queue[1]
<1> USE CellsAssumption
<1>1. queue \in Seq(Cells) /\ Len(queue) \in Nat /\ Len(queue) > 0 /\ Head(queue) = queue[1]
  BY DEF Inv, TypeOK
<1>2. queue[1] \in Cells /\ queue[1] # NULL
  BY <1>1
<1>3. ~Waiting
  BY DEF Waiting
<1>4. queue[1] \in Unlinked
  BY <1>1, <1>2, <1>3 DEF Inv, FirstCell
<1> QED
  BY <1>1, <1>4 DEF Unlinked

LEMMA InvImpliesHonest == Inv => EmptyIsHonest
BY MissedCell DEF EmptyIsHonest

LEMMA InvImpliesExact == Inv /\ LockInv => LockedEmptyIsExact
<1> SUFFICES ASSUME Inv, LockInv, cpc = "idle", my_head = NULL, head = NULL, queue # << >>
             PROVE  /\ Len(queue) = 1
                    /\ \E p \in Procs : pc[p] = "link" /\ element[p] = Head(queue)
  BY DEF LockedEmptyIsExact
<1>1. Len(queue) \in Nat /\ Len(queue) > 0 /\ Head(queue) = queue[1]
  BY MissedCell
<1>2. PICK p \in Procs : pc[p] = "link" /\ element[p] = queue[1]
  BY MissedCell
<1>3. element[p] = queue[Len(queue)]
  BY <1>2 DEF LockInv
<1>4. 1 \in 1 .. Len(queue) /\ Len(queue) \in 1 .. Len(queue)
  BY <1>1
<1>5. Len(queue) = 1
  BY <1>2, <1>3, <1>4 DEF Inv, Places
<1> QED
  BY <1>1, <1>2, <1>5

LEMMA InvImpliesAssertions == Inv => QueueAssertions
<1> SUFFICES ASSUME Inv
             PROVE  QueueAssertions
  OBVIOUS
<1> USE CellsAssumption
<1>1. \A c \in Cells \ (Queued \cup {e, got}) : next[c] = NULL
  BY QueuedCells DEF Inv, Links
<1>2. ASSUME NEW p \in Procs, pc[p] = "link", r_prev[p] # NULL
      PROVE  next[r_prev[p]] = NULL
  <2>1. PICK i \in 1 .. Len(queue) : element[p] = queue[i] /\ r_prev[p] = Prev[i]
    BY <1>2 DEF Inv, Producers
  <2>2. queue[i] \in Unlinked
    BY <1>2, <2>1 DEF Unlinked
  <2> QED
    BY <1>2, <2>1, <2>2 DEF Inv, Links
<1>3. Len(queue) \in Nat /\ \A i \in 1 .. Len(queue) : queue[i] \in Cells
  BY PrevCells
<1>4. cpc # "reset" => my_head = NULL \/ head = NULL
  BY <1>3 DEF Inv, FirstCell
<1>5. ASSUME cpc = "ready"
      PROVE  my_head # NULL /\ head = NULL
  <2>1. ~Waiting
    BY <1>5 DEF Waiting
  <2>2. Len(queue) > 0 /\ my_head = queue[1] /\ head = NULL
    BY <1>3, <1>5, <2>1 DEF Inv, FirstCell
  <2> QED
    BY <1>3, <2>2
<1> QED
  BY <1>1, <1>2, <1>4, <1>5 DEF QueueAssertions

-----------------------------------------------------------------------------
(* The abstract FIFO.                                                      *)

Holds == IF cpc \in {"tail", "spin", "clear"} THEN e ELSE got

LEMMA SwapIsEnqueue ==
  ASSUME Inv, NEW p \in Procs, NEW c \in Cells, Swap(p, c)
  PROVE  Fifo!Next
<1>1. c \notin {queue[i] : i \in DOMAIN queue} \cup {Holds}
  BY DEF Swap, Queued, Holds
<1>2. queue' = Append(queue, c) /\ Holds' = Holds
  BY DEF Swap, Holds
<1>3. Fifo!Enqueue(c)
  BY <1>1, <1>2 DEF Fifo!Enqueue, Fifo!Queued, Holds
<1> QED
  BY <1>3 DEF Fifo!Next

LEMMA TakeFirstIsDequeue ==
  ASSUME Inv, TakeFirst
  PROVE  Fifo!Next
<1> USE CellsAssumption
<1>1. cpc = "ready" /\ queue' = Tail(queue) /\ cpc' \in {"tail", "clear"} /\ e' = my_head
  BY DEF TakeFirst
<1>2. ~Waiting /\ queue \in Seq(Cells) /\ Len(queue) \in Nat
  BY <1>1 DEF Waiting, Inv, TypeOK
<1>3. Len(queue) > 0 /\ my_head = queue[1]
  BY <1>1, <1>2 DEF Inv, FirstCell
<1>4. queue # << >> /\ Head(queue) = queue[1]
  BY <1>2, <1>3
<1>5. Holds = NULL /\ Holds' = Head(queue)
  BY <1>1, <1>3, <1>4 DEF Holds, Inv, Places
<1> QED
  BY <1>1, <1>4, <1>5 DEF Fifo!Next, Fifo!Dequeue, Holds

LEMMA ReleaseIsRelease ==
  ASSUME Inv, Release
  PROVE  Fifo!Next
<1>1. cpc = "idle" /\ cpc' = "idle" /\ queue' = queue /\ got # NULL /\ got' = NULL
  BY DEF Release, Inv, Places
<1> QED
  BY <1>1 DEF Fifo!Next, Fifo!Release

LEMMA Stutter ==
  ASSUME \/ queue' = queue /\ cpc' = cpc /\ e' = e /\ got' = got
         \/ EmptyFalse
         \/ EmptyReset
         \/ DequeueCAS
         \/ DequeueSpin
         \/ LockDequeueTail
         \/ DequeueClear
  PROVE  UNCHANGED Fifo!vars
<1>1. queue' = queue /\ Holds' = Holds
  BY DEF EmptyFalse, EmptyReset, DequeueCAS, DequeueSpin, LockDequeueTail, DequeueClear, Holds
<1> QED
  BY <1>1 DEF Fifo!vars, Holds

LEMMA FreeNextIsFifo ==
  ASSUME Inv, Next
  PROVE  [Fifo!Next]_(Fifo!vars)
<1> USE CellsAssumption
<1>1. ASSUME NEW p \in Procs, Link(p)
      PROVE  UNCHANGED Fifo!vars
  BY <1>1, Stutter DEF Link
<1>2. ASSUME DequeueRead
      PROVE  TakeFirst
  BY <1>2 DEF DequeueRead, TakeFirst, producer, Pointer
<1> QED
  BY <1>1, <1>2, SwapIsEnqueue, TakeFirstIsDequeue, ReleaseIsRelease, Stutter DEF Next, Consumer

LEMMA LockNextIsFifo ==
  ASSUME Inv, LockNext
  PROVE  [Fifo!Next]_(Fifo!vars)
<1>1. ASSUME NEW p \in Procs, Link(p)
      PROVE  UNCHANGED Fifo!vars
  BY <1>1, Stutter DEF Link
<1>2. ASSUME LockDequeueRead
      PROVE  TakeFirst
  BY <1>2 DEF LockDequeueRead, TakeFirst, producer, Inv, TypeOK
<1>3. ASSUME NEW p \in Procs, NEW c \in Cells, LockSwap(p, c)
      PROVE  Swap(p, c)
  BY <1>3 DEF LockSwap
<1> QED
  BY <1>1, <1>2, <1>3, SwapIsEnqueue, TakeFirstIsDequeue, ReleaseIsRelease, Stutter
     DEF LockNext, LockConsumer

LEMMA InitIsFifo == Init => Fifo!Init
BY DEF Init, Fifo!Init

-----------------------------------------------------------------------------
(* Theorems about each build.                                              *)

\* The inductive invariant of the lock-free queue.
THEOREM FreeInvariance == Spec => [](Inv /\ FreeInv)
<1>1. Init => Inv /\ FreeInv
  BY InitInv
<1>2. Inv /\ FreeInv /\ [Next]_vars => Inv' /\ FreeInv'
  <2> SUFFICES ASSUME Inv, FreeInv, [Next]_vars
               PROVE  Inv' /\ FreeInv'
    OBVIOUS
  <2>1. CASE Next
    BY <2>1, FreeStep
  <2>2. CASE UNCHANGED vars
    BY <2>2, UnchangedStep
  <2> QED
    BY <2>1, <2>2
<1> QED
  BY <1>1, <1>2, PTL DEF Spec

\* The inductive invariant of the queue with a lock.
THEOREM LockInvariance == LockSpec => [](Inv /\ LockInv /\ cpc # "spin")
<1>1. Init => Inv /\ LockInv /\ cpc # "spin"
  BY InitInv
<1>2. Inv /\ LockInv /\ cpc # "spin" /\ [LockNext]_vars
        => Inv' /\ LockInv' /\ (cpc # "spin")'
  <2> SUFFICES ASSUME Inv, LockInv, cpc # "spin", [LockNext]_vars
               PROVE  Inv' /\ LockInv' /\ (cpc # "spin")'
    OBVIOUS
  <2>1. CASE LockNext
    BY <2>1, LockStep
  <2>2. CASE UNCHANGED vars
    BY <2>2, UnchangedStep DEF vars
  <2> QED
    BY <2>1, <2>2
<1> QED
  BY <1>1, <1>2, PTL DEF LockSpec

\* MPID_nem_queue_enqueue and MPID_nem_queue_dequeue with atomic operations
\* implement a FIFO of cells, for any number of producers and cells.
THEOREM FreeQueueIsFifo == Spec => Fifo!Spec
<1>1. Init => Fifo!Init
  BY InitIsFifo
<1>2. Inv /\ [Next]_vars => [Fifo!Next]_(Fifo!vars)
  <2> SUFFICES ASSUME Inv, [Next]_vars
               PROVE  [Fifo!Next]_(Fifo!vars)
    OBVIOUS
  <2>1. CASE Next
    BY <2>1, FreeNextIsFifo
  <2>2. CASE UNCHANGED vars
    BY <2>2, Stutter DEF vars
  <2> QED
    BY <2>1, <2>2
<1> QED
  BY <1>1, <1>2, FreeInvariance, PTL DEF Spec, Fifo!Spec

\* The queue with a lock implements a FIFO of cells too.
THEOREM LockQueueIsFifo == LockSpec => Fifo!Spec
<1>1. Init => Fifo!Init
  BY InitIsFifo
<1>2. Inv /\ [LockNext]_vars => [Fifo!Next]_(Fifo!vars)
  <2> SUFFICES ASSUME Inv, [LockNext]_vars
               PROVE  [Fifo!Next]_(Fifo!vars)
    OBVIOUS
  <2>1. CASE LockNext
    BY <2>1, LockNextIsFifo
  <2>2. CASE UNCHANGED vars
    BY <2>2, Stutter DEF vars
  <2> QED
    BY <2>1, <2>2
<1> QED
  BY <1>1, <1>2, LockInvariance, PTL DEF LockSpec, Fifo!Spec

-----------------------------------------------------------------------------
(* Theorems about the specification that TLC checks, either build.         *)

\* The inductive invariant of the build that was configured.
THEOREM BuildInvariance == MCSpec => []BuildInv
<1>1. MCInit => BuildInv
  BY InitInv DEF MCInit, BuildInv
<1>2. BuildInv /\ [MCNext]_MCvars => BuildInv'
  <2> SUFFICES ASSUME BuildInv, [MCNext]_MCvars
               PROVE  BuildInv'
    OBVIOUS
  <2>1. ASSUME MCNext
        PROVE  /\ build' = build
               /\ \/ build = "lock-free" /\ Next
                  \/ build = "lock" /\ LockNext
    BY <2>1 DEF MCNext, MCProducer, MCConsumer, Next, LockNext, BuildInv
  <2>2. CASE MCNext
    BY <2>1, <2>2, FreeStep, LockStep DEF BuildInv
  <2>3. CASE UNCHANGED MCvars
    BY <2>3, UnchangedStep DEF MCvars, vars, BuildInv
  <2> QED
    BY <2>2, <2>3
<1> QED
  BY <1>1, <1>2, PTL DEF MCSpec

\* The pointers, the next fields and the locals of both sides have their
\* types.
THEOREM TypeCorrect == MCSpec => []TypeOK
<1>1. BuildInv => TypeOK
  BY DEF BuildInv, Inv
<1> QED
  BY <1>1, BuildInvariance, PTL

\* The assertions about null next fields and about the two heads that
\* mpid_nem_queue.h states hold, whatever the interleaving.
THEOREM AssertionsHold == MCSpec => []QueueAssertions
<1>1. BuildInv => QueueAssertions
  BY InvImpliesAssertions DEF BuildInv
<1> QED
  BY <1>1, BuildInvariance, PTL

\* MPID_nem_queue_empty misses the oldest cell only while its producer is
\* between the swap of the tail and the link.
THEOREM HonestEmpty == MCSpec => []EmptyIsHonest
<1>1. BuildInv => EmptyIsHonest
  BY InvImpliesHonest DEF BuildInv
<1> QED
  BY <1>1, BuildInvariance, PTL

\* With the lock MPID_nem_queue_empty finds every cell whose enqueue has
\* returned.
THEOREM ExactEmpty == MCSpec => []LockedEmptyIsExactInBuild
<1>1. BuildInv => LockedEmptyIsExactInBuild
  BY InvImpliesExact DEF BuildInv, LockedEmptyIsExactInBuild
<1> QED
  BY <1>1, BuildInvariance, PTL
=============================================================================
