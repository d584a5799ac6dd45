--------------------------- MODULE ContextIdProofs ---------------------------
(***************************************************************************)
(* Proofs about the allocation of context ids for any processes, any       *)
(* allocations among any of them and any size of the mask.                 *)
(***************************************************************************)
EXTENDS ContextId, FiniteSetTheorems, WellFoundedInduction, TLAPS

(***************************************************************************)
(* The inductive invariant.                                                *)
(***************************************************************************)
\* Only members take part, and only those who want an id own a segment.
Participation ==
  \A p \in Procs, o \in Ops : /\ pc[p][o] # "idle" => p \in members[o]
                              /\ own[p][o] # "none" => Takes(p, o)

\* Id 0 is never free.  Who owns no segment has contributed the empty mask, and
\* so the Allreduce gave the empty mask.
Contributions ==
  \A p \in Procs :
    /\ 0 \notin context_mask[p]
    /\ \A o \in Ops :
         Takes(p, o) /\ pc[p][o] \in {"reduce", "reduced"}
           => /\ 0 \notin local_mask[p][o]
              /\ own[p][o] = "none" => local_mask[p][o] = {}

\* Where p is when q has not yet looked at the result of an Allreduce of o: it
\* has not looked either and has the same result, or found the id that q will
\* find, or found none, which q will not find either.
SameResult(o, p, q) ==
  /\ 0 \notin local_mask[q][o]
  /\ pc[p][o] \notin {"idle", "fail", "failed"}
  /\ pc[p][o] = "reduced" => local_mask[p][o] = local_mask[q][o]
  /\ pc[p][o] \in {"done", "freed"} =>
       locate_context_bit(local_mask[q][o], context_id[p][o])
  /\ pc[p][o] \in {"reduce", "ready", "yield", "error"} => local_mask[q][o] = {}

\* When p has an id, the others have it or will find it.
SameId(o, p, q) ==
  /\ context_id[p][o] # 0
  /\ pc[q][o] \in {"reduced", "done", "freed"}
  /\ pc[q][o] \in {"done", "freed"} => context_id[p][o] = context_id[q][o]

Agreement ==
  \A o \in Ops : (\E t \in Procs : Takes(t, o)) =>
    \A p, q \in members[o] :
       /\ pc[q][o] = "reduced" => SameResult(o, p, q)
       /\ pc[p][o] \in {"done", "freed"} => SameId(o, p, q)

\* A segment has at most one user, and the flag tells whether there is one.
Exact(p, w, flag) == /\ flag <=> UsesMask(p, w) # {}
                     /\ \A o, n \in UsesMask(p, w) : o = n

Flags == \A p \in Procs : /\ Exact(p, "eager", eager_in_use[p])
                          /\ Exhausted \/ Exact(p, "mask", mask_in_use[p])

\* What an allocation has in its mask is free, and in the segment it owns.
Segments ==
  Exhausted \/ \A p \in Procs, o \in Ops :
                 /\ o \in UsesMask(p, "eager") =>
                      local_mask[p][o] \subseteq context_mask[p] \cap EagerIds
                 /\ o \in UsesMask(p, "mask") =>
                      local_mask[p][o] \subseteq context_mask[p] \ EagerIds

IInv == /\ TypeOK /\ Participation /\ Contributions /\ Agreement /\ Flags
        /\ Segments /\ IdsAreDistinct /\ AssertOnlyAfterExhaustion /\ ListIsPending

-----------------------------------------------------------------------------
(* Ids, words and the list.                                                *)

LEMMA LeastElement ==
  ASSUME NEW T \in SUBSET Nat, T # {}
  PROVE  \E x \in T : \A y \in T : x <= y
<1> DEFINE R == OpToRel(<, Nat)
<1>1. \E x \in T : \A y \in T : ~(<<y, x>> \in R)
  BY NatLessThanWellFounded, WFMin
<1>2. \A x, y \in Nat : y < x => <<y, x>> \in R
  BY DEF OpToRel
<1> HIDE DEF R
<1>3. PICK x \in T : \A y \in T : ~(<<y, x>> \in R)
  BY <1>1
<1>4. \A y \in T : ~(y < x)
  BY <1>2, <1>3, Zenon
<1> QED
  BY <1>4

LEMMA WordType == \A i \in Ids : i \in Nat /\ Word(i) \in Int
<1>1. INT_BITS \in Nat /\ INT_BITS > 0
  BY SizeAssumption
<1>2. \A i \in Ids : i \in Nat
  BY SizeAssumption DEF Ids
<1> QED
  BY <1>1, <1>2 DEF Word

LEMMA ZeroIsId == MAX_CONTEXT_MASK # 0 /\ 0 \in Ids
<1>1. MAX_CONTEXT_MASK \in Nat /\ MAX_CONTEXT_MASK > 0
  BY SizeAssumption
<1>2. INT_BITS \in Nat /\ INT_BITS > 0
  BY SizeAssumption
<1>3. INT_BITS * MAX_CONTEXT_MASK >= 1 /\ INT_BITS * MAX_CONTEXT_MASK \in Nat
  BY <1>1, <1>2
<1> QED
  BY <1>1, <1>3 DEF Ids

\* The scan of a mask is deterministic.
LEMMA LocateUnique ==
  ASSUME NEW S \in SUBSET Ids, NEW i, NEW j,
         locate_context_bit(S, i), locate_context_bit(S, j)
  PROVE  i = j
<1>1. CASE S = {}
  BY <1>1 DEF locate_context_bit
<1>2. CASE S # {}
  <2>1. i \in Ids /\ j \in Ids
    BY <1>2 DEF locate_context_bit
  <2>2. /\ Word(i) < Word(j) \/ (Word(i) = Word(j) /\ j <= i)
        /\ Word(j) < Word(i) \/ (Word(j) = Word(i) /\ i <= j)
    BY <1>2 DEF locate_context_bit
  <2> QED
    BY <2>1, <2>2, WordType
<1> QED
  BY <1>1, <1>2

LEMMA ConcatElements ==
  ASSUME NEW a \in Seq(Ops), NEW b \in Seq(Ops)
  PROVE  /\ a \o b \in Seq(Ops)
         /\ Len(a \o b) = Len(a) + Len(b)
         /\ \A i \in 1 .. Len(a) + Len(b) :
              (a \o b)[i] = IF i <= Len(a) THEN a[i] ELSE b[i - Len(a)]
OBVIOUS

\* The new element is put behind the elements before the first greater one.
LEMMA InsertElement ==
  ASSUME NEW list \in Seq(Ops), NEW o \in Ops
  PROVE  LET new == add_gcn_to_list(list, o)
         IN  /\ new \in Seq(Ops)
             /\ Len(new) = Len(list) + 1
             /\ \E k \in 0 .. Len(list) :
                  /\ \A i \in 1 .. Len(list) + 1 :
                       new[i] = IF i <= k THEN list[i]
                                ELSE IF i = k + 1 THEN o ELSE list[i - 1]
                  /\ \A i \in 1 .. k : Before(list[i], o)
                  /\ k < Len(list) => ~Before(list[k + 1], o)
<1> DEFINE T == {i \in 1 .. Len(list) + 1 : i <= Len(list) => ~Before(list[i], o)}
           K == {i \in 1 .. Len(list) : \A j \in 1 .. i : Before(list[j], o)}
<1>1. PICK m \in T : \A y \in T : m <= y
  <2>1. T \in SUBSET Nat /\ Len(list) + 1 \in T
    OBVIOUS
  <2> QED
    BY <2>1, LeastElement
<1>2. m \in 1 .. Len(list) + 1 /\ \A j \in 1 .. m - 1 : Before(list[j], o)
  BY <1>1
<1>3. m <= Len(list) => ~Before(list[m], o)
  BY <1>1
<1>4. K = 1 .. m - 1
  BY <1>2, <1>3
<1>5. Cardinality(K) = m - 1
  <2>1. Cardinality(1 .. m - 1) = IF 1 > m - 1 THEN 0 ELSE m - 1 - 1 + 1
    BY <1>2, FS_Interval
  <2>2. Cardinality(1 .. m - 1) = m - 1
    BY <1>2, <2>1
  <2> QED
    BY <1>4, <2>2, Zenon
<1> DEFINE k == m - 1
           new == SubSeq(list, 1, k) \o <<o>> \o SubSeq(list, k + 1, Len(list))
<1>6. add_gcn_to_list(list, o) = new
  BY <1>5, Zenon DEF add_gcn_to_list
<1>7. k \in 0 .. Len(list)
  BY <1>2
<1>8. /\ SubSeq(list, 1, k) \in Seq(Ops)
      /\ Len(SubSeq(list, 1, k)) = k
      /\ \A i \in 1 .. k : SubSeq(list, 1, k)[i] = list[i]
  BY <1>7
<1>9. /\ SubSeq(list, k + 1, Len(list)) \in Seq(Ops)
      /\ Len(SubSeq(list, k + 1, Len(list))) = Len(list) - k
      /\ \A i \in 1 .. Len(list) - k : SubSeq(list, k + 1, Len(list))[i] = list[i + k]
  BY <1>7
<1> HIDE DEF k
<1>11. /\ SubSeq(list, 1, k) \o <<o>> \in Seq(Ops)
       /\ Len(SubSeq(list, 1, k) \o <<o>>) = k + 1
       /\ \A i \in 1 .. k + 1 :
            (SubSeq(list, 1, k) \o <<o>>)[i] = IF i <= k THEN list[i] ELSE o
  BY <1>7, <1>8
<1>10. /\ new \in Seq(Ops) /\ Len(new) = Len(list) + 1
       /\ \A i \in 1 .. Len(list) + 1 :
            new[i] = IF i <= k THEN list[i] ELSE IF i = k + 1 THEN o ELSE list[i - 1]
  <2> DEFINE a == SubSeq(list, 1, k) \o <<o>>
             b == SubSeq(list, k + 1, Len(list))
  <2>1. /\ a \in Seq(Ops) /\ Len(a) = k + 1
        /\ \A i \in 1 .. k + 1 : a[i] = IF i <= k THEN list[i] ELSE o
    BY <1>11
  <2>2. /\ b \in Seq(Ops) /\ Len(b) = Len(list) - k
        /\ \A i \in 1 .. Len(list) - k : b[i] = list[i + k]
    BY <1>9
  <2>3. new = a \o b
    OBVIOUS
  <2> HIDE DEF a, b, new
  <2>4. /\ a \o b \in Seq(Ops) /\ Len(a \o b) = Len(a) + Len(b)
        /\ \A i \in 1 .. Len(a) + Len(b) :
             (a \o b)[i] = IF i <= Len(a) THEN a[i] ELSE b[i - Len(a)]
    BY <2>1, <2>2, ConcatElements
  <2>5. new \in Seq(Ops) /\ Len(new) = Len(list) + 1
    BY <1>7, <2>1, <2>2, <2>3, <2>4
  <2>6. ASSUME NEW i \in 1 .. Len(list) + 1
        PROVE  new[i] = IF i <= k THEN list[i] ELSE IF i = k + 1 THEN o ELSE list[i - 1]
    <3>1. CASE i <= k + 1
      BY <1>7, <2>1, <2>2, <2>3, <2>4, <3>1
    <3>2. CASE i > k + 1
      <4>1. i - (k + 1) \in 1 .. Len(list) - k /\ i - (k + 1) + k = i - 1
        BY <1>7, <3>2
      <4>2. new[i] = b[i - (k + 1)]
        BY <1>7, <2>1, <2>2, <2>3, <2>4, <3>2
      <4> QED
        BY <1>7, <2>2, <3>2, <4>1, <4>2
    <3> QED
      BY <1>7, <3>1, <3>2
  <2> QED
    BY <2>5, <2>6
<1>12. /\ \A i \in 1 .. k : Before(list[i], o)
       /\ k < Len(list) => ~Before(list[k + 1], o)
  BY <1>2, <1>3 DEF k
<1> HIDE DEF new
<1> QED
  BY <1>6, <1>7, <1>10, <1>12

LEMMA RemoveElement ==
  ASSUME NEW list \in Seq(Ops), NEW o \in Ops
  PROVE  LET new == Removed(list, o)
         IN  /\ new \in Seq(Ops)
             /\ \/ new = list /\ \A i \in 1 .. Len(list) : list[i] # o
                \/ \E k \in 1 .. Len(list) :
                     /\ list[k] = o
                     /\ Len(new) = Len(list) - 1
                     /\ \A i \in 1 .. Len(list) - 1 :
                          new[i] = IF i < k THEN list[i] ELSE list[i + 1]
<1> DEFINE at == {k \in DOMAIN list : list[k] = o}
           k == CHOOSE k \in at : TRUE
<1>1. CASE at = {}
  BY <1>1 DEF Removed
<1>2. CASE at # {}
  <2>1. k \in at
    BY <1>2
  <2>2. k \in 1 .. Len(list) /\ list[k] = o
    BY <2>1
  <2>3. Removed(list, o) = SubSeq(list, 1, k - 1) \o SubSeq(list, k + 1, Len(list))
    BY <1>2 DEF Removed
  <2> HIDE DEF k
  <2>4. /\ SubSeq(list, 1, k - 1) \in Seq(Ops)
        /\ Len(SubSeq(list, 1, k - 1)) = k - 1
        /\ \A i \in 1 .. k - 1 : SubSeq(list, 1, k - 1)[i] = list[i]
    BY <2>2
  <2>5. /\ SubSeq(list, k + 1, Len(list)) \in Seq(Ops)
        /\ Len(SubSeq(list, k + 1, Len(list))) = Len(list) - k
        /\ \A i \in 1 .. Len(list) - k : SubSeq(list, k + 1, Len(list))[i] = list[i + k]
    BY <2>2
  <2>6. /\ Removed(list, o) \in Seq(Ops)
        /\ Len(Removed(list, o)) = Len(list) - 1
        /\ \A i \in 1 .. Len(list) - 1 :
             Removed(list, o)[i] = IF i < k THEN list[i] ELSE list[i + 1]
    <3> DEFINE a == SubSeq(list, 1, k - 1)
               b == SubSeq(list, k + 1, Len(list))
    <3>1. /\ a \in Seq(Ops) /\ Len(a) = k - 1
          /\ \A i \in 1 .. k - 1 : a[i] = list[i]
      BY <2>4
    <3>2. /\ b \in Seq(Ops) /\ Len(b) = Len(list) - k
          /\ \A i \in 1 .. Len(list) - k : b[i] = list[i + k]
      BY <2>5
    <3>3. Removed(list, o) = a \o b
      BY <2>3
    <3> HIDE DEF a, b
    <3>4. /\ a \o b \in Seq(Ops) /\ Len(a \o b) = Len(a) + Len(b)
          /\ \A i \in 1 .. Len(a) + Len(b) :
               (a \o b)[i] = IF i <= Len(a) THEN a[i] ELSE b[i - Len(a)]
      BY <3>1, <3>2, ConcatElements
    <3>5. Len(a) + Len(b) = Len(list) - 1
      BY <2>2, <3>1, <3>2
    <3>6. ASSUME NEW i \in 1 .. Len(list) - 1
          PROVE  Removed(list, o)[i] = IF i < k THEN list[i] ELSE list[i + 1]
      <4>1. CASE i < k
        BY <2>2, <3>1, <3>3, <3>4, <3>5, <4>1
      <4>2. CASE i >= k
        <5>1. i - (k - 1) \in 1 .. Len(list) - k /\ i - (k - 1) + k = i + 1
          BY <2>2, <4>2
        <5>2. Removed(list, o)[i] = b[i - (k - 1)]
          BY <2>2, <3>1, <3>3, <3>4, <3>5, <4>2
        <5> QED
          BY <2>2, <3>2, <4>2, <5>1, <5>2
      <4> QED
        BY <2>2, <4>1, <4>2
    <3> QED
      BY <3>3, <3>4, <3>5, <3>6
  <2> QED
    BY <2>2, <2>6
<1> QED
  BY <1>1, <1>2

-----------------------------------------------------------------------------
(* Type correctness.                                                       *)

LEMMA TypeInit == Init => TypeOK
<1> SUFFICES ASSUME Init
             PROVE  TypeOK
  OBVIOUS
<1> USE DEF Init
<1>1. context_mask \in [Procs -> SUBSET Ids]
  BY MasksAssumption
<1>2. /\ eager_in_use \in [Procs -> BOOLEAN] /\ mask_in_use \in [Procs -> BOOLEAN]
      /\ next_gcn \in [Procs -> Seq(Ops)] /\ pc \in [Procs -> [Ops -> Pc]]
  BY DEF Pc
<1>3. /\ own \in [Procs -> [Ops -> {"none", "eager", "mask"}]]
      /\ first_iter \in [Procs -> [Ops -> BOOLEAN]]
      /\ local_mask \in [Procs -> [Ops -> SUBSET Ids]]
      /\ ALL_OWN \in [Procs -> [Ops -> BOOLEAN]]
  OBVIOUS
<1>4. context_id \in [Procs -> [Ops -> Ids]] /\ aborted \in BOOLEAN
  BY ZeroIsId
<1> QED
  BY <1>1, <1>2, <1>3, <1>4 DEF TypeOK

LEMMA TypeNoId ==
  ASSUME TypeOK, NEW p \in Procs, NEW o \in Ops, NoId(p, o)
  PROVE  /\ pc' \in [Procs -> [Ops -> Pc]]
         /\ first_iter' \in [Procs -> [Ops -> BOOLEAN]]
         /\ next_gcn' \in [Procs -> Seq(Ops)]
<1>1. add_gcn_to_list(next_gcn[p], o) \in Seq(Ops)
  BY InsertElement DEF TypeOK
<1>2. pc' \in [Procs -> [Ops -> Pc]]
  <2>1. \/ pc' = [pc EXCEPT ![p][o] = "error"]
        \/ pc' = [pc EXCEPT ![p][o] = "ready"]
    BY Zenon DEF NoId
  <2>2. "error" \in Pc /\ "ready" \in Pc /\ pc \in [Procs -> [Ops -> Pc]]
    BY DEF Pc, TypeOK
  <2> QED
    BY <2>1, <2>2
<1>3. first_iter' \in [Procs -> [Ops -> BOOLEAN]]
  <2>1. first_iter' = first_iter \/ first_iter' = [first_iter EXCEPT ![p][o] = FALSE]
    BY Zenon DEF NoId
  <2>2. first_iter \in [Procs -> [Ops -> BOOLEAN]]
    BY DEF TypeOK
  <2>3. [first_iter EXCEPT ![p][o] = FALSE] \in [Procs -> [Ops -> BOOLEAN]]
    BY <2>2
  <2> QED
    BY <2>1, <2>2, <2>3
<1>4. next_gcn' \in [Procs -> Seq(Ops)]
  BY <1>1 DEF TypeOK, NoId
<1> QED
  BY <1>2, <1>3, <1>4

LEMMA TypeReserve ==
  ASSUME TypeOK, NEW p \in Procs, NEW o \in Ops, Reserve(p, o)
  PROVE  TypeOK'
<1>1. pc' \in [Procs -> [Ops -> Pc]]
  BY DEF Reserve, TypeOK, Pc
<1>2. ASSUME NEW S \in SUBSET Ids, NEW w \in {"none", "eager", "mask"},
             NEW all \in BOOLEAN, Contribute(p, o, S, w, all)
      PROVE  /\ own' \in [Procs -> [Ops -> {"none", "eager", "mask"}]]
             /\ local_mask' \in [Procs -> [Ops -> SUBSET Ids]]
             /\ ALL_OWN' \in [Procs -> [Ops -> BOOLEAN]]
  BY <1>2 DEF TypeOK, Contribute
<1>3. context_mask[p] \subseteq Ids
  BY DEF TypeOK
<1>4. /\ own' \in [Procs -> [Ops -> {"none", "eager", "mask"}]]
      /\ local_mask' \in [Procs -> [Ops -> SUBSET Ids]]
      /\ ALL_OWN' \in [Procs -> [Ops -> BOOLEAN]]
      /\ eager_in_use' \in [Procs -> BOOLEAN] /\ mask_in_use' \in [Procs -> BOOLEAN]
  <2>1. CASE Ignores(p, o)
    BY <1>2, <2>1 DEF Reserve, TypeOK
  <2>2. CASE ReserveEager(p, o)
    <3>1. context_mask[p] \cap EagerIds \in SUBSET Ids
      BY <1>3
    <3> QED
      BY <1>2, <2>2, <3>1 DEF ReserveEager, TypeOK
  <2>3. CASE ReserveMask(p, o)
    <3>1. context_mask[p] \ EagerIds \in SUBSET Ids
      BY <1>3
    <3> QED
      BY <1>2, <2>3, <3>1 DEF ReserveMask, TypeOK
  <2> QED
    BY <2>1, <2>2, <2>3 DEF Reserve
<1> QED
  BY <1>1, <1>4 DEF Reserve, TypeOK

LEMMA TypeFinish ==
  ASSUME TypeOK, NEW p \in Procs, NEW o \in Ops, Finish(p, o)
  PROVE  TypeOK'
<1> USE DEF TypeOK
<1>1. /\ local_mask' \in [Procs -> [Ops -> SUBSET Ids]]
      /\ ALL_OWN' \in [Procs -> [Ops -> BOOLEAN]]
  BY DEF Finish
<1>2. PICK i \in Ids :
       /\ Release(p, o, i)
       /\ context_id' = [context_id EXCEPT ![p][o] = i]
       /\ \/ /\ i # 0
             /\ allocate_context_bit(p, o, i)
             /\ next_gcn' = [next_gcn EXCEPT ![p] = Removed(@, o)]
             /\ pc' = [pc EXCEPT ![p][o] = "done"]
             /\ UNCHANGED first_iter
          \/ NoId(p, o) /\ UNCHANGED <<context_mask, aborted>>
          \/ /\ pc' = [pc EXCEPT ![p][o] = "yield"]
             /\ UNCHANGED <<context_mask, next_gcn, first_iter, aborted>>
  BY DEF Finish
<1>3. /\ eager_in_use' \in [Procs -> BOOLEAN] /\ mask_in_use' \in [Procs -> BOOLEAN]
      /\ own' \in [Procs -> [Ops -> {"none", "eager", "mask"}]]
      /\ context_id' \in [Procs -> [Ops -> Ids]]
  BY <1>2 DEF Release
<1>4. /\ context_mask' \in [Procs -> SUBSET Ids] /\ aborted' \in BOOLEAN
  BY <1>2, ZenonT(40) DEF allocate_context_bit
<1>5. /\ pc' \in [Procs -> [Ops -> Pc]]
      /\ first_iter' \in [Procs -> [Ops -> BOOLEAN]]
      /\ next_gcn' \in [Procs -> Seq(Ops)]
  <2>1. Removed(next_gcn[p], o) \in Seq(Ops)
    BY RemoveElement
  <2>2. "done" \in Pc /\ "yield" \in Pc
    BY DEF Pc
  <2>3. CASE NoId(p, o)
    BY <2>3, TypeNoId
  <2>4. CASE ~NoId(p, o)
    <3>1. /\ \/ pc' = [pc EXCEPT ![p][o] = "done"]
             \/ pc' = [pc EXCEPT ![p][o] = "yield"]
          /\ first_iter' = first_iter
          /\ \/ next_gcn' = [next_gcn EXCEPT ![p] = Removed(@, o)]
             \/ next_gcn' = next_gcn
      BY <1>2, <2>4, Zenon
    <3>2. pc \in [Procs -> [Ops -> Pc]]
      OBVIOUS
    <3> HIDE DEF TypeOK
    <3>3. pc' \in [Procs -> [Ops -> Pc]]
      BY <2>2, <3>1, <3>2
    <3> USE DEF TypeOK
    <3>4. next_gcn' \in [Procs -> Seq(Ops)]
      BY <2>1, <3>1
    <3> QED
      BY <3>1, <3>3, <3>4
  <2> QED
    BY <2>3, <2>4
<1> QED
  BY <1>1, <1>3, <1>4, <1>5

LEMMA TypeNext == TypeOK /\ [Next]_vars => TypeOK'
<1> SUFFICES ASSUME TypeOK, [Next]_vars
             PROVE  TypeOK'
  OBVIOUS
<1>1. ASSUME NEW p \in Procs, NEW o \in Ops, Retry(p, o)
      PROVE  TypeOK'
  <2>1. mask_in_use' \in [Procs -> BOOLEAN]
    BY <1>1 DEF Retry, TypeOK
  <2> QED
    BY <1>1, <2>1, TypeNoId DEF Retry, TypeOK
<1>2. ASSUME NEW p \in Procs, NEW o \in Ops, fn_fail(p, o)
      PROVE  TypeOK'
  <2>1. Removed(next_gcn[p], o) \in Seq(Ops)
    BY RemoveElement DEF TypeOK
  <2> QED
    BY <1>2, <2>1 DEF fn_fail, TypeOK, Pc
<1>3. ASSUME NEW p \in Procs, NEW o \in Ops, Free_contextid(p, o)
      PROVE  TypeOK'
  BY <1>3 DEF Free_contextid, TypeOK, Pc
<1>4. ASSUME NEW o \in Ops, Allreduce(o)
      PROVE  TypeOK'
  BY <1>4 DEF Allreduce, TypeOK, Pc
<1>5. ASSUME NEW o \in Ops, ErrorAllreduce(o)
      PROVE  TypeOK'
  BY <1>5 DEF ErrorAllreduce, TypeOK, Pc
<1>6. CASE UNCHANGED vars
  BY <1>6 DEF vars, TypeOK
<1> QED
  BY <1>1, <1>2, <1>3, <1>4, <1>5, <1>6, TypeReserve, TypeFinish DEF Next

-----------------------------------------------------------------------------
(* What the steps of p in allocation o change.                             *)

\* Nothing changes for other processes, or in other allocations of p.
OthersKept(p, o) ==
  /\ \A r \in Procs, n \in Ops : r # p \/ n # o =>
       /\ pc'[r][n] = pc[r][n] /\ own'[r][n] = own[r][n]
       /\ local_mask'[r][n] = local_mask[r][n]
       /\ context_id'[r][n] = context_id[r][n]
  /\ \A r \in Procs : r # p =>
       /\ context_mask'[r] = context_mask[r]
       /\ eager_in_use'[r] = eager_in_use[r] /\ mask_in_use'[r] = mask_in_use[r]

\* A contribution is everything, nothing or a segment that was not in use.
Reserved(p, o) ==
  /\ OthersKept(p, o) /\ p \in members[o]
  /\ pc[p][o] \in {"idle", "ready"} /\ pc'[p][o] = "reduce"
  /\ context_mask' = context_mask /\ context_id' = context_id
  /\ aborted' = aborted
  /\ \/ /\ Ignores(p, o) /\ own'[p][o] = "none" /\ local_mask'[p][o] = Ids
        /\ eager_in_use' = eager_in_use /\ mask_in_use' = mask_in_use
     \/ /\ ~Ignores(p, o) /\ own'[p][o] = "none" /\ local_mask'[p][o] = {}
        /\ eager_in_use' = eager_in_use /\ mask_in_use' = mask_in_use
     \/ /\ ~Ignores(p, o) /\ own'[p][o] = "eager"
        /\ local_mask'[p][o] = context_mask[p] \cap EagerIds
        /\ eager_in_use[p] = FALSE /\ eager_in_use'[p] = TRUE
        /\ mask_in_use' = mask_in_use
     \/ /\ ~Ignores(p, o) /\ own'[p][o] = "mask"
        /\ local_mask'[p][o] = context_mask[p] \ EagerIds
        /\ mask_in_use[p] = FALSE /\ mask_in_use'[p] = TRUE
        /\ eager_in_use' = eager_in_use

LEMMA ReserveEffect ==
  ASSUME TypeOK, Participation, NEW p \in Procs, NEW o \in Ops, Reserve(p, o)
  PROVE  Reserved(p, o)
<1> USE DEF Reserved
<1>1. /\ context_mask' = context_mask /\ context_id' = context_id /\ aborted' = aborted
  BY DEF Reserve
<1>2. /\ p \in members[o] /\ pc[p][o] \in {"idle", "ready"}
      /\ pc'[p][o] = "reduce"
      /\ \A r \in Procs, n \in Ops : r # p \/ n # o => pc'[r][n] = pc[r][n]
  BY DEF Reserve, Callable, Participation, TypeOK
<1>3. ASSUME NEW S, NEW w, NEW all, Contribute(p, o, S, w, all)
      PROVE  /\ own'[p][o] = w /\ local_mask'[p][o] = S
             /\ \A r \in Procs, n \in Ops : r # p \/ n # o =>
                  /\ own'[r][n] = own[r][n] /\ local_mask'[r][n] = local_mask[r][n]
  BY <1>3 DEF Contribute, TypeOK
<1>4. CASE Ignores(p, o) /\ Contribute(p, o, Ids, "none", TRUE)
           /\ UNCHANGED <<eager_in_use, mask_in_use>>
  BY <1>1, <1>2, <1>3, <1>4, ZenonT(40) DEF OthersKept
<1>5. CASE ~Ignores(p, o) /\ ReserveEager(p, o)
  <2>1. CASE /\ ~eager_in_use[p]
             /\ eager_in_use' = [eager_in_use EXCEPT ![p] = TRUE]
             /\ Contribute(p, o, context_mask[p] \cap EagerIds, "eager", FALSE)
             /\ UNCHANGED mask_in_use
    <3>1. /\ eager_in_use[p] = FALSE /\ eager_in_use'[p] = TRUE
          /\ \A r \in Procs : r # p => eager_in_use'[r] = eager_in_use[r]
      BY <2>1 DEF TypeOK
    <3> QED
      BY <1>1, <1>2, <1>3, <1>5, <2>1, <3>1 DEF OthersKept
  <2>2. CASE Contribute(p, o, {}, "none", FALSE) /\ UNCHANGED <<eager_in_use, mask_in_use>>
    BY <1>1, <1>2, <1>3, <1>5, <2>2, ZenonT(40) DEF OthersKept
  <2> QED
    BY <1>5, <2>1, <2>2, Zenon DEF ReserveEager
<1>6. CASE ~Ignores(p, o) /\ ReserveMask(p, o)
  <2>1. CASE /\ ~mask_in_use[p]
             /\ mask_in_use' = [mask_in_use EXCEPT ![p] = TRUE]
             /\ Contribute(p, o, context_mask[p] \ EagerIds, "mask", TRUE)
             /\ UNCHANGED eager_in_use
    <3>1. /\ mask_in_use[p] = FALSE /\ mask_in_use'[p] = TRUE
          /\ \A r \in Procs : r # p => mask_in_use'[r] = mask_in_use[r]
      BY <2>1 DEF TypeOK
    <3> QED
      BY <1>1, <1>2, <1>3, <1>6, <2>1, <3>1 DEF OthersKept
  <2>2. CASE Contribute(p, o, {}, "none", FALSE) /\ UNCHANGED <<eager_in_use, mask_in_use>>
    BY <1>1, <1>2, <1>3, <1>6, <2>2, ZenonT(40) DEF OthersKept
  <2> QED
    BY <1>6, <2>1, <2>2, Zenon DEF ReserveMask
<1> QED
  BY <1>4, <1>5, <1>6, Zenon DEF Reserve

\* p finds an id in the result and takes it, or finds none.
Finished(p, o) ==
  /\ OthersKept(p, o) /\ p \in members[o] /\ pc[p][o] = "reduced" /\ ~aborted
  /\ eager_in_use'[p] = (eager_in_use[p] /\ own[p][o] # "eager")
  /\ mask_in_use'[p] = (mask_in_use[p] /\ own[p][o] # "mask")
  /\ own'[p][o] # "none" => own[p][o] # "none"
  /\ \/ /\ own[p][o] = "none" /\ ~Ignores(p, o)
        /\ local_mask[p][o] = {} /\ context_id'[p][o] = 0
     \/ locate_context_bit(local_mask[p][o], context_id'[p][o])
  /\ \/ /\ context_id'[p][o] # 0 /\ pc'[p][o] = "done"
        /\ context_mask'[p] = IF Ignores(p, o) THEN context_mask[p]
                              ELSE context_mask[p] \ {context_id'[p][o]}
        /\ aborted' = (~Ignores(p, o) /\ context_id'[p][o] \notin context_mask[p])
     \/ /\ context_id'[p][o] = 0 /\ pc'[p][o] \in {"error", "ready", "yield"}
        /\ context_mask' = context_mask /\ aborted' = aborted

LEMMA FinishEffect ==
  ASSUME TypeOK, Participation, Contributions, NEW p \in Procs, NEW o \in Ops,
         Finish(p, o)
  PROVE  Finished(p, o)
<1>1. PICK i \in Ids :
       /\ IF own[p][o] # "none" \/ Ignores(p, o)
          THEN locate_context_bit(local_mask[p][o], i) ELSE i = 0
       /\ Release(p, o, i)
       /\ context_id' = [context_id EXCEPT ![p][o] = i]
       /\ \/ /\ i # 0
             /\ allocate_context_bit(p, o, i)
             /\ pc' = [pc EXCEPT ![p][o] = "done"]
          \/ i = 0 /\ NoId(p, o) /\ UNCHANGED <<context_mask, aborted>>
          \/ /\ i = 0 /\ pc' = [pc EXCEPT ![p][o] = "yield"]
             /\ UNCHANGED <<context_mask, aborted>>
  BY DEF Finish
<1>2. /\ pc[p][o] = "reduced" /\ ~aborted /\ p \in members[o]
      /\ local_mask' = [local_mask EXCEPT ![p][o] = {}]
  BY DEF Finish, Participation
<1>3. /\ context_id'[p][o] = i
      /\ \A r \in Procs, n \in Ops : r # p \/ n # o =>
           context_id'[r][n] = context_id[r][n] /\ local_mask'[r][n] = local_mask[r][n]
  BY <1>1, <1>2 DEF TypeOK
<1>4. /\ eager_in_use'[p] = (eager_in_use[p] /\ own[p][o] # "eager")
      /\ mask_in_use'[p] = (mask_in_use[p] /\ own[p][o] # "mask")
      /\ \A r \in Procs : r # p =>
           eager_in_use'[r] = eager_in_use[r] /\ mask_in_use'[r] = mask_in_use[r]
  BY <1>1 DEF Release, TypeOK
<1>5. /\ own'[p][o] # "none" => own[p][o] # "none"
      /\ \A r \in Procs, n \in Ops : r # p \/ n # o => own'[r][n] = own[r][n]
  BY <1>1 DEF Release, TypeOK
<1>6. \E x \in {"done", "error", "ready", "yield"} :
         /\ pc' = [pc EXCEPT ![p][o] = x]
         /\ x = "done" <=> i # 0
  BY <1>1 DEF NoId
<1>7. /\ pc'[p][o] \in {"done", "error", "ready", "yield"}
      /\ pc'[p][o] = "done" <=> i # 0
      /\ \A r \in Procs, n \in Ops : r # p \/ n # o => pc'[r][n] = pc[r][n]
  BY <1>6 DEF TypeOK
<1>8. /\ \A r \in Procs : r # p => context_mask'[r] = context_mask[r]
      /\ \/ /\ i # 0
            /\ context_mask'[p] = IF Ignores(p, o) THEN context_mask[p]
                                  ELSE context_mask[p] \ {i}
            /\ aborted' = (~Ignores(p, o) /\ i \notin context_mask[p])
         \/ i = 0 /\ context_mask' = context_mask /\ aborted' = aborted
  BY <1>1 DEF allocate_context_bit, TypeOK
<1>9. OthersKept(p, o)
  BY <1>3, <1>4, <1>5, <1>7, <1>8 DEF OthersKept
<1>10. \/ /\ own[p][o] = "none" /\ ~Ignores(p, o)
          /\ local_mask[p][o] = {} /\ i = 0
       \/ locate_context_bit(local_mask[p][o], i)
  <2>1. CASE own[p][o] # "none" \/ Ignores(p, o)
    BY <1>1, <2>1
  <2>2. CASE ~(own[p][o] # "none" \/ Ignores(p, o))
    BY <1>1, <1>2, <2>2 DEF Contributions, Takes
  <2> QED
    BY <2>1, <2>2
<1> QED
  BY <1>2, <1>3, <1>4, <1>5, <1>7, <1>8, <1>9, <1>10 DEF Finished

\* The steps that change no mask: only the place of p in o changes, and
\* mask_in_use once there is an error.
OnlyMoves(p, o, from, to) ==
  /\ OthersKept(p, o) /\ pc[p][o] = from /\ pc'[p][o] \in to
  /\ context_mask' = context_mask /\ eager_in_use' = eager_in_use /\ own' = own
  /\ local_mask' = local_mask /\ context_id' = context_id /\ aborted' = aborted
  /\ mask_in_use' = mask_in_use \/ pc'[p][o] \in {"error", "failed"}

LEMMA RetryEffect ==
  ASSUME TypeOK, NEW p \in Procs, NEW o \in Ops, Retry(p, o)
  PROVE  OnlyMoves(p, o, "yield", {"error", "ready"})
<1>1. /\ pc[p][o] = "yield" /\ context_mask' = context_mask
      /\ eager_in_use' = eager_in_use /\ own' = own /\ local_mask' = local_mask
      /\ context_id' = context_id /\ aborted' = aborted
  BY DEF Retry
<1>2. \/ pc' = [pc EXCEPT ![p][o] = "error"] /\ ALL_OWN[p][o]
      \/ pc' = [pc EXCEPT ![p][o] = "ready"] /\ ~ALL_OWN[p][o]
  BY Zenon DEF Retry, NoId
<1>3. /\ \A r \in Procs : r # p => mask_in_use'[r] = mask_in_use[r]
      /\ ~ALL_OWN[p][o] => mask_in_use' = mask_in_use
  BY DEF Retry, TypeOK
<1>4. /\ \A r \in Procs, n \in Ops : r # p \/ n # o => pc'[r][n] = pc[r][n]
      /\ \/ pc'[p][o] = "error"
         \/ pc'[p][o] = "ready" /\ ~ALL_OWN[p][o]
  BY <1>2 DEF TypeOK
<1> QED
  BY <1>1, <1>3, <1>4 DEF OnlyMoves, OthersKept

LEMMA FailEffect ==
  ASSUME TypeOK, NEW p \in Procs, NEW o \in Ops, fn_fail(p, o)
  PROVE  OnlyMoves(p, o, "fail", {"failed"})
BY DEF fn_fail, TypeOK, OnlyMoves, OthersKept

LEMMA FreeEffect ==
  ASSUME TypeOK, NEW p \in Procs, NEW o \in Ops, Free_contextid(p, o)
  PROVE  /\ OthersKept(p, o) /\ pc[p][o] = "done" /\ pc'[p][o] = "freed"
         /\ eager_in_use' = eager_in_use /\ mask_in_use' = mask_in_use
         /\ own' = own /\ local_mask' = local_mask /\ context_id' = context_id
         /\ context_mask'[p] = context_mask[p] \cup {context_id[p][o]}
         /\ aborted' = (context_id[p][o] \in context_mask[p])
         /\ ~Ignores(p, o) /\ ~aborted
BY DEF Free_contextid, TypeOK, OthersKept

LEMMA AllreduceEffect ==
  ASSUME TypeOK, NEW o \in Ops, Allreduce(o)
  PROVE  /\ \A p \in members[o] : pc[p][o] = "reduce"
         /\ \A p \in Procs, n \in Ops :
              pc'[p][n] = IF n = o /\ p \in members[o] THEN "reduced" ELSE pc[p][n]
         /\ \A p \in Procs, n \in Ops : n # o => local_mask'[p][n] = local_mask[p][n]
         /\ \A p, q \in members[o] : /\ local_mask'[p][o] \subseteq local_mask[q][o]
                                      /\ local_mask'[p][o] = local_mask'[q][o]
         /\ context_mask' = context_mask /\ eager_in_use' = eager_in_use
         /\ mask_in_use' = mask_in_use /\ own' = own /\ context_id' = context_id
         /\ aborted' = aborted
<1>1. members[o] \subseteq Procs
  BY OpsAssumption
<1> QED
  BY <1>1 DEF Allreduce, TypeOK

LEMMA ErrorEffect ==
  ASSUME TypeOK, NEW o \in Ops, ErrorAllreduce(o)
  PROVE  /\ \A p \in members[o] : pc[p][o] = "error"
         /\ \A p \in Procs, n \in Ops :
              pc'[p][n] = IF n = o /\ p \in members[o] THEN "fail" ELSE pc[p][n]
         /\ context_mask' = context_mask /\ eager_in_use' = eager_in_use
         /\ mask_in_use' = mask_in_use /\ own' = own /\ local_mask' = local_mask
         /\ context_id' = context_id /\ aborted' = aborted
BY DEF ErrorAllreduce, TypeOK

LEMMA LocalStep ==
  ASSUME TypeOK, Participation, Contributions, NEW p \in Procs, NEW o \in Ops,
         \/ Reserve(p, o) \/ Finish(p, o) \/ Retry(p, o)
         \/ fn_fail(p, o) \/ Free_contextid(p, o)
  PROVE  OthersKept(p, o)
BY ReserveEffect, FinishEffect, RetryEffect, FailEffect, FreeEffect
   DEF Reserved, Finished, OnlyMoves

\* A failed allocation remains one.
LEMMA ExhaustedStable ==
  ASSUME TypeOK, Participation, Contributions, Next, Exhausted
  PROVE  Exhausted'
<1>1. PICK r \in Procs, n \in Ops : pc[r][n] \in {"error", "fail", "failed"}
  BY DEF Exhausted
<1> SUFFICES pc'[r][n] \in {"error", "fail", "failed"}
  BY DEF Exhausted
<1>2. ASSUME NEW p \in Procs, NEW o \in Ops, Reserve(p, o)
      PROVE  pc'[r][n] \in {"error", "fail", "failed"}
  <2>1. OthersKept(p, o) /\ pc[p][o] \in {"idle", "ready"}
    BY <1>2, ReserveEffect DEF Reserved
  <2> QED
    BY <1>1, <2>1 DEF OthersKept
<1>3. ASSUME NEW p \in Procs, NEW o \in Ops, Finish(p, o)
      PROVE  pc'[r][n] \in {"error", "fail", "failed"}
  <2>1. OthersKept(p, o) /\ pc[p][o] = "reduced"
    BY <1>3, FinishEffect DEF Finished
  <2> QED
    BY <1>1, <2>1 DEF OthersKept
<1>4. ASSUME NEW p \in Procs, NEW o \in Ops, Retry(p, o)
      PROVE  pc'[r][n] \in {"error", "fail", "failed"}
  BY <1>1, <1>4, RetryEffect DEF OthersKept, OnlyMoves
<1>5. ASSUME NEW p \in Procs, NEW o \in Ops, fn_fail(p, o)
      PROVE  pc'[r][n] \in {"error", "fail", "failed"}
  BY <1>1, <1>5, FailEffect DEF OthersKept, OnlyMoves
<1>6. ASSUME NEW p \in Procs, NEW o \in Ops, Free_contextid(p, o)
      PROVE  pc'[r][n] \in {"error", "fail", "failed"}
  <2>1. OthersKept(p, o) /\ pc[p][o] = "done"
    BY <1>6, FreeEffect
  <2> QED
    BY <1>1, <2>1 DEF OthersKept
<1>7. ASSUME NEW o \in Ops, Allreduce(o)
      PROVE  pc'[r][n] \in {"error", "fail", "failed"}
  BY <1>1, <1>7, AllreduceEffect
<1>8. ASSUME NEW o \in Ops, ErrorAllreduce(o)
      PROVE  pc'[r][n] \in {"error", "fail", "failed"}
  BY <1>1, <1>8, ErrorEffect
<1>9. CASE UNCHANGED vars
  BY <1>1, <1>9 DEF vars
<1> QED
  BY <1>2, <1>3, <1>4, <1>5, <1>6, <1>7, <1>8, <1>9 DEF Next

-----------------------------------------------------------------------------
(* Who takes part, and what the masks hold.                                *)

LEMMA ParticipationNext ==
  ASSUME TypeOK, Participation, Contributions, Next
  PROVE  Participation'
<1> SUFFICES ASSUME NEW r \in Procs, NEW n \in Ops
             PROVE  /\ pc'[r][n] # "idle" => r \in members[n]
                    /\ own'[r][n] # "none" => Takes(r, n)
  BY DEF Participation, Takes, Ignores
<1>0. /\ pc[r][n] # "idle" => r \in members[n]
      /\ own[r][n] # "none" => Takes(r, n)
  BY DEF Participation
<1>2. ASSUME NEW p \in Procs, NEW o \in Ops, Reserve(p, o)
      PROVE  /\ pc'[r][n] # "idle" => r \in members[n]
             /\ own'[r][n] # "none" => Takes(r, n)
  <2>1. /\ OthersKept(p, o) /\ p \in members[o]
        /\ own'[p][o] # "none" => Takes(p, o)
    BY <1>2, ReserveEffect DEF Reserved, Takes
  <2> QED
    BY <1>0, <2>1 DEF OthersKept
<1>3. ASSUME NEW p \in Procs, NEW o \in Ops, Finish(p, o)
      PROVE  /\ pc'[r][n] # "idle" => r \in members[n]
             /\ own'[r][n] # "none" => Takes(r, n)
  <2>1. /\ OthersKept(p, o) /\ p \in members[o]
        /\ own'[p][o] # "none" => own[p][o] # "none"
    BY <1>3, FinishEffect DEF Finished
  <2> QED
    BY <1>0, <2>1 DEF OthersKept
<1>4. ASSUME NEW p \in Procs, NEW o \in Ops,
             Retry(p, o) \/ fn_fail(p, o) \/ Free_contextid(p, o)
      PROVE  /\ pc'[r][n] # "idle" => r \in members[n]
             /\ own'[r][n] # "none" => Takes(r, n)
  <2>1. OthersKept(p, o) /\ pc[p][o] # "idle" /\ own' = own
    <3>1. CASE Retry(p, o)
      BY <3>1, RetryEffect DEF OnlyMoves
    <3>2. CASE fn_fail(p, o)
      BY <3>2, FailEffect DEF OnlyMoves
    <3>3. CASE Free_contextid(p, o)
      BY <3>3, FreeEffect
    <3> QED
      BY <1>4, <3>1, <3>2, <3>3
  <2> QED
    BY <1>0, <2>1 DEF OthersKept
<1>5. ASSUME NEW o \in Ops, Allreduce(o) \/ ErrorAllreduce(o)
      PROVE  /\ pc'[r][n] # "idle" => r \in members[n]
             /\ own'[r][n] # "none" => Takes(r, n)
  <2>1. CASE Allreduce(o)
    BY <1>0, <2>1, AllreduceEffect
  <2>2. CASE ErrorAllreduce(o)
    BY <1>0, <2>2, ErrorEffect
  <2> QED
    BY <1>5, <2>1, <2>2
<1>6. CASE UNCHANGED vars
  BY <1>0, <1>6 DEF vars
<1> QED
  BY <1>2, <1>3, <1>4, <1>5, <1>6 DEF Next

\* Id 0 can be located in no mask that does not hold it.
LEMMA LocateZero ==
  ASSUME NEW S, 0 \notin S, locate_context_bit(S, 0)
  PROVE  S = {}
BY DEF locate_context_bit

LEMMA ContributionsNext ==
  ASSUME TypeOK, Participation, Contributions, Agreement, Next
  PROVE  Contributions'
<1> DEFINE Goal(r, n) ==
             /\ 0 \notin context_mask'[r]
             /\ Takes(r, n) /\ pc'[r][n] \in {"reduce", "reduced"}
                  => /\ 0 \notin local_mask'[r][n]
                     /\ own'[r][n] = "none" => local_mask'[r][n] = {}
<1>0. ASSUME NEW r \in Procs, NEW n \in Ops
      PROVE  Goal(r, n)
  <2>0. /\ 0 \notin context_mask[r]
        /\ Takes(r, n) /\ pc[r][n] \in {"reduce", "reduced"}
             => /\ 0 \notin local_mask[r][n]
                /\ own[r][n] = "none" => local_mask[r][n] = {}
    BY DEF Contributions
  <2>1. ASSUME NEW p \in Procs, NEW o \in Ops, Reserve(p, o)
        PROVE  Goal(r, n)
    <3>1. Reserved(p, o)
      BY <2>1, ReserveEffect
    <3>2. /\ OthersKept(p, o) /\ context_mask' = context_mask
          /\ ~Ignores(p, o) => /\ local_mask'[p][o] \subseteq context_mask[p]
                               /\ own'[p][o] = "none" => local_mask'[p][o] = {}
      BY <3>1 DEF Reserved
    <3> QED
      BY <2>0, <3>2 DEF OthersKept, Takes
  <2>2. ASSUME NEW p \in Procs, NEW o \in Ops, Finish(p, o)
        PROVE  Goal(r, n)
    <3>1. Finished(p, o)
      BY <2>2, FinishEffect
    <3>2. /\ OthersKept(p, o) /\ context_mask'[p] \subseteq context_mask[p]
          /\ pc'[p][o] \in {"done", "error", "ready", "yield"}
      BY <3>1 DEF Finished
    <3> QED
      BY <2>0, <3>2 DEF OthersKept
  <2>3. ASSUME NEW p \in Procs, NEW o \in Ops, Retry(p, o) \/ fn_fail(p, o)
        PROVE  Goal(r, n)
    <3>1. /\ OthersKept(p, o) /\ pc'[p][o] \in {"error", "ready", "failed"}
          /\ context_mask' = context_mask
      BY <2>3, RetryEffect, FailEffect DEF OnlyMoves
    <3> QED
      BY <2>0, <3>1 DEF OthersKept
  <2>4. ASSUME NEW p \in Procs, NEW o \in Ops, Free_contextid(p, o)
        PROVE  Goal(r, n)
    <3>1. /\ OthersKept(p, o) /\ pc[p][o] = "done" /\ pc'[p][o] = "freed"
          /\ context_mask'[p] = context_mask[p] \cup {context_id[p][o]}
          /\ ~Ignores(p, o)
      BY <2>4, FreeEffect
    <3>2. context_id[p][o] # 0
      BY <3>1 DEF Agreement, SameId, Takes, Participation
    <3> QED
      BY <2>0, <3>1, <3>2 DEF OthersKept
  <2>5. ASSUME NEW o \in Ops, Allreduce(o)
        PROVE  Goal(r, n)
    <3>1. /\ context_mask' = context_mask /\ own' = own
          /\ \A p \in members[o] : /\ pc[p][o] = "reduce"
                                    /\ local_mask'[p][o] \subseteq local_mask[p][o]
          /\ pc'[r][n] = IF n = o /\ r \in members[o] THEN "reduced" ELSE pc[r][n]
          /\ n # o => local_mask'[r][n] = local_mask[r][n]
      BY <2>5, AllreduceEffect
    <3> QED
      BY <2>0, <3>1 DEF Takes
  <2>6. ASSUME NEW o \in Ops, ErrorAllreduce(o)
        PROVE  Goal(r, n)
    BY <2>0, <2>6, ErrorEffect
  <2>7. CASE UNCHANGED vars
    BY <2>0, <2>7 DEF vars
  <2> QED
    BY <2>1, <2>2, <2>3, <2>4, <2>5, <2>6, <2>7 DEF Next
<1>1. ASSUME NEW r \in Procs
      PROVE  0 \notin context_mask'[r]
  <2>1. CASE Ops = {}
    BY <2>1 DEF Next, vars, Contributions
  <2>2. CASE Ops # {}
    BY <1>0, <2>2
  <2> QED
    BY <2>1, <2>2
<1> QED
  BY <1>0, <1>1 DEF Contributions, Takes, Ignores

-----------------------------------------------------------------------------
(* Agreement of the members of a communicator.                             *)

\* Agreement, member by member and in terms of the values alone: s, m and c are
\* the place, the mask and the id of a process.
Agree(s1, m1, c1, s2, m2, c2) ==
  /\ s2 = "reduced" =>
       /\ 0 \notin m2
       /\ s1 \notin {"idle", "fail", "failed"}
       /\ s1 = "reduced" => m1 = m2
       /\ s1 \in {"done", "freed"} => locate_context_bit(m2, c1)
       /\ s1 \in {"reduce", "ready", "yield", "error"} => m2 = {}
  /\ s1 \in {"done", "freed"} =>
       /\ c1 # 0
       /\ s2 \in {"reduced", "done", "freed"}
       /\ s2 \in {"done", "freed"} => c1 = c2

LEMMA AgreementNext ==
  ASSUME TypeOK, Participation, Contributions, Agreement, Next
  PROVE  Agreement'
<1> DEFINE Goal(n, r, q) ==
             Agree(pc'[r][n], local_mask'[r][n], context_id'[r][n],
                   pc'[q][n], local_mask'[q][n], context_id'[q][n])
<1> SUFFICES ASSUME NEW n \in Ops, NEW t \in Procs, Takes(t, n),
                    NEW r \in members[n], NEW q \in members[n]
             PROVE  Goal(n, r, q)
  BY DEF Agreement, SameResult, SameId, Agree, Takes, Ignores
<1>0. r \in Procs /\ q \in Procs /\ t \in members[n]
  BY OpsAssumption DEF Takes
<1>1. \A a, b \in {r, q, t} :
         Agree(pc[a][n], local_mask[a][n], context_id[a][n],
               pc[b][n], local_mask[b][n], context_id[b][n])
  BY <1>0 DEF Agreement, SameResult, SameId, Agree
<1>2. ASSUME NEW p \in Procs, NEW o \in Ops, OthersKept(p, o), o # n \/ p \notin {r, q}
      PROVE  Goal(n, r, q)
  BY <1>0, <1>1, <1>2 DEF OthersKept
<1>3. ASSUME NEW p \in Procs, Reserve(p, n), p \in {r, q}
      PROVE  Goal(n, r, q)
  <2>1. Reserved(p, n)
    BY <1>3, ReserveEffect
  <2>2. /\ OthersKept(p, n) /\ pc[p][n] \in {"idle", "ready"} /\ pc'[p][n] = "reduce"
        /\ context_id' = context_id
    BY <2>1 DEF Reserved
  <2> QED
    BY <1>0, <1>1, <1>3, <2>2 DEF OthersKept, Agree
<1>4. ASSUME NEW p \in Procs, Finish(p, n), p \in {r, q}
      PROVE  Goal(n, r, q)
  <2>1. Finished(p, n)
    BY <1>4, FinishEffect
  <2>2. /\ OthersKept(p, n) /\ pc[p][n] = "reduced"
        /\ \/ local_mask[p][n] = {} /\ context_id'[p][n] = 0
           \/ locate_context_bit(local_mask[p][n], context_id'[p][n])
        /\ \/ context_id'[p][n] # 0 /\ pc'[p][n] = "done"
           \/ context_id'[p][n] = 0 /\ pc'[p][n] \in {"error", "ready", "yield"}
    BY <2>1 DEF Finished
  <2>3. locate_context_bit(local_mask[p][n], context_id'[p][n])
    BY <2>2 DEF locate_context_bit
  <2>4. 0 \notin local_mask[p][n] /\ local_mask[p][n] \in SUBSET Ids
    BY <1>0, <1>1, <1>4, <2>2 DEF Agree, TypeOK
  <2>5. context_id'[p][n] = 0 <=> local_mask[p][n] = {}
    BY <2>3, <2>4 DEF locate_context_bit
  <2>6. ASSUME NEW a \in {r, q}, pc[a][n] \in {"done", "freed"}
        PROVE  context_id[a][n] = context_id'[p][n]
    <3>1. locate_context_bit(local_mask[p][n], context_id[a][n])
      BY <1>1, <1>4, <2>2, <2>6 DEF Agree
    <3> QED
      BY <2>3, <2>4, <3>1, LocateUnique
  <2>7. ASSUME NEW a \in {r, q}, a # p
        PROVE  /\ pc'[a][n] = pc[a][n] /\ local_mask'[a][n] = local_mask[a][n]
               /\ context_id'[a][n] = context_id[a][n]
    BY <1>0, <2>2, <2>7 DEF OthersKept
  <2>8. CASE r = p /\ q = p
    BY <2>2, <2>8 DEF Agree
  <2>9. CASE r = p /\ q # p
    <3>1. /\ pc'[q][n] = pc[q][n] /\ local_mask'[q][n] = local_mask[q][n]
          /\ context_id'[q][n] = context_id[q][n]
      BY <2>7, <2>9
    <3>2. pc[q][n] = "reduced" => 0 \notin local_mask[q][n] /\ local_mask[p][n] = local_mask[q][n]
      BY <1>1, <2>2, <2>9 DEF Agree
    <3>3. /\ pc[q][n] \notin {"idle", "fail", "failed"}
          /\ pc[q][n] \in {"reduce", "ready", "yield", "error"} => local_mask[p][n] = {}
      BY <1>1, <2>2, <2>9 DEF Agree
    <3>4. pc[q][n] \in Pc
      BY <1>0 DEF TypeOK
    <3>5. context_id'[p][n] # 0 => /\ pc[q][n] \in {"reduced", "done", "freed"}
                                   /\ pc'[p][n] = "done"
      BY <2>2, <2>5, <3>3, <3>4 DEF Pc
    <3>6. pc[q][n] \in {"done", "freed"} => context_id[q][n] = context_id'[p][n]
      BY <2>6
    <3> QED
      BY <2>2, <2>3, <2>5, <2>9, <3>1, <3>2, <3>5, <3>6 DEF Agree
  <2>10. CASE r # p /\ q = p
    <3>1. Agree(pc[r][n], local_mask[r][n], context_id[r][n],
                "reduced", local_mask[p][n], context_id[p][n])
      BY <1>1, <2>2, <2>10
    <3>2. pc[r][n] \in {"done", "freed"} =>
            context_id[r][n] # 0 /\ context_id[r][n] = context_id'[p][n]
      BY <2>6, <3>1 DEF Agree
    <3>3. /\ pc'[r][n] = pc[r][n] /\ context_id'[r][n] = context_id[r][n]
          /\ pc'[q][n] # "reduced"
      BY <2>2, <2>7, <2>10
    <3> QED
      BY <2>2, <2>10, <3>2, <3>3 DEF Agree
  <2> QED
    BY <1>4, <2>8, <2>9, <2>10
<1>5. ASSUME NEW p \in Procs, p \in {r, q}, Retry(p, n) \/ fn_fail(p, n)
      PROVE  Goal(n, r, q)
  <2>1. /\ OthersKept(p, n) /\ local_mask' = local_mask /\ context_id' = context_id
        /\ \/ pc[p][n] = "yield" /\ pc'[p][n] \in {"error", "ready"}
           \/ pc[p][n] = "fail" /\ pc'[p][n] = "failed"
    BY <1>5, RetryEffect, FailEffect DEF OnlyMoves
  <2> QED
    BY <1>0, <1>1, <1>5, <2>1 DEF OthersKept, Agree
<1>6. ASSUME NEW p \in Procs, p \in {r, q}, Free_contextid(p, n)
      PROVE  Goal(n, r, q)
  <2>1. /\ OthersKept(p, n) /\ local_mask' = local_mask /\ context_id' = context_id
        /\ pc[p][n] = "done" /\ pc'[p][n] = "freed"
    BY <1>6, FreeEffect
  <2> QED
    BY <1>0, <1>1, <1>6, <2>1 DEF OthersKept, Agree
<1>7. ASSUME NEW o \in Ops, Allreduce(o)
      PROVE  Goal(n, r, q)
  <2>1. CASE o # n
    <3>1. /\ \A a \in {r, q} : pc'[a][n] = pc[a][n] /\ local_mask'[a][n] = local_mask[a][n]
          /\ context_id' = context_id
      BY <1>0, <1>7, <2>1, AllreduceEffect
    <3> QED
      BY <1>1, <3>1
  <2>2. CASE o = n
    <3>1. /\ pc[t][n] = "reduce"
          /\ \A a \in {r, q} : pc'[a][n] = "reduced" /\ pc[a][n] = "reduce"
          /\ local_mask'[r][n] = local_mask'[q][n]
          /\ local_mask'[q][n] \subseteq local_mask[t][n]
      BY <1>0, <1>7, <2>2, AllreduceEffect
    <3>2. 0 \notin local_mask[t][n]
      BY <3>1 DEF Contributions
    <3> QED
      BY <3>1, <3>2 DEF Agree
  <2> QED
    BY <2>1, <2>2
<1>8. ASSUME NEW o \in Ops, ErrorAllreduce(o)
      PROVE  Goal(n, r, q)
  <2>1. /\ local_mask' = local_mask /\ context_id' = context_id
        /\ \/ \A a \in {r, q} : pc'[a][n] = pc[a][n]
           \/ \A a \in {r, q} : pc'[a][n] = "fail"
    BY <1>0, <1>8, ErrorEffect
  <2> QED
    BY <1>1, <2>1 DEF Agree
<1>9. CASE UNCHANGED vars
  BY <1>1, <1>9 DEF vars
<1> QED
  <2>1. CASE \E p \in Procs, o \in Ops :
               \/ Reserve(p, o) \/ Finish(p, o) \/ Retry(p, o)
               \/ fn_fail(p, o) \/ Free_contextid(p, o)
    <3>1. PICK p \in Procs, o \in Ops :
               \/ Reserve(p, o) \/ Finish(p, o) \/ Retry(p, o)
               \/ fn_fail(p, o) \/ Free_contextid(p, o)
      BY <2>1
    <3>2. CASE o # n \/ p \notin {r, q}
      BY <1>2, <3>1, <3>2, LocalStep
    <3>3. CASE o = n /\ p \in {r, q}
      BY <1>3, <1>4, <1>5, <1>6, <3>1, <3>3
    <3> QED
      BY <3>2, <3>3
  <2> QED
    BY <1>7, <1>8, <1>9, <2>1 DEF Next

-----------------------------------------------------------------------------
(* The flags and the segments of the mask.                                 *)

\* The users of a segment change from U to V by the step of allocation o, and
\* its flag from f to g.
LEMMA ExactStep ==
  ASSUME NEW U, NEW V, NEW o, NEW f \in BOOLEAN, NEW g \in BOOLEAN,
         f <=> U # {}, \A a, b \in U : a = b, V \ {o} = U \ {o},
         \/ (o \in V <=> o \in U) /\ g = f
         \/ o \notin U /\ o \in V /\ ~f /\ g
         \/ o \in U /\ o \notin V /\ ~g
  PROVE  /\ g <=> V # {}
         /\ \A a, b \in V : a = b
<1>1. CASE (o \in V <=> o \in U) /\ g = f
  <2>1. V = U
    BY <1>1
  <2> QED
    BY <1>1, <2>1
<1>2. CASE o \notin U /\ o \in V /\ ~f /\ g
  <2>1. V = {o}
    BY <1>2
  <2> QED
    BY <1>2, <2>1
<1>3. CASE o \in U /\ o \notin V /\ ~g
  <2>1. V = {}
    BY <1>3
  <2> QED
    BY <1>3, <2>1
<1> QED
  BY <1>1, <1>2, <1>3

LEMMA FlagsNext ==
  ASSUME TypeOK, Participation, Contributions, Flags, Next, TypeOK'
  PROVE  Flags'
<1> DEFINE U(r, w) == {n \in Ops : pc[r][n] \in {"reduce", "reduced"} /\ own[r][n] = w}
           V(r, w) == {n \in Ops : pc'[r][n] \in {"reduce", "reduced"} /\ own'[r][n] = w}
           OK(S, f) == (f <=> S # {}) /\ \A a, b \in S : a = b
           Goal(r) == /\ OK(V(r, "eager"), eager_in_use'[r])
                      /\ Exhausted' \/ OK(V(r, "mask"), mask_in_use'[r])
<1> SUFFICES ASSUME NEW r \in Procs
             PROVE  Goal(r)
  BY DEF Flags, Exact, UsesMask
<1>0. /\ OK(U(r, "eager"), eager_in_use[r])
      /\ Exhausted \/ OK(U(r, "mask"), mask_in_use[r])
  BY DEF Flags, Exact, UsesMask
<1>1. /\ eager_in_use[r] \in BOOLEAN /\ mask_in_use[r] \in BOOLEAN
      /\ eager_in_use'[r] \in BOOLEAN /\ mask_in_use'[r] \in BOOLEAN
  BY DEF TypeOK
<1>2. Exhausted => Exhausted'
  BY ExhaustedStable
<1>3. ASSUME \A w \in {"eager", "mask"} : V(r, w) = U(r, w),
             eager_in_use'[r] = eager_in_use[r],
             mask_in_use'[r] = mask_in_use[r] \/ Exhausted'
      PROVE  Goal(r)
  BY <1>0, <1>2, <1>3
<1>4. ASSUME NEW p \in Procs, NEW o \in Ops, OthersKept(p, o), p # r
      PROVE  Goal(r)
  <2>1. /\ \A n \in Ops : pc'[r][n] = pc[r][n] /\ own'[r][n] = own[r][n]
        /\ eager_in_use'[r] = eager_in_use[r] /\ mask_in_use'[r] = mask_in_use[r]
    BY <1>4 DEF OthersKept
  <2>2. \A w \in {"eager", "mask"} : V(r, w) = U(r, w)
    BY <2>1
  <2> QED
    BY <1>3, <2>1, <2>2
<1>5. ASSUME NEW o \in Ops, OthersKept(r, o)
      PROVE  \A w \in {"eager", "mask"} : V(r, w) \ {o} = U(r, w) \ {o}
  BY <1>5 DEF OthersKept
<1>6. ASSUME NEW o \in Ops, OthersKept(r, o),
             \/ (o \in V(r, "eager") <=> o \in U(r, "eager"))
                  /\ eager_in_use'[r] = eager_in_use[r]
             \/ /\ o \notin U(r, "eager") /\ o \in V(r, "eager")
                /\ ~eager_in_use[r] /\ eager_in_use'[r]
             \/ o \in U(r, "eager") /\ o \notin V(r, "eager") /\ ~eager_in_use'[r],
             \/ (o \in V(r, "mask") <=> o \in U(r, "mask"))
                  /\ mask_in_use'[r] = mask_in_use[r]
             \/ /\ o \notin U(r, "mask") /\ o \in V(r, "mask")
                /\ ~mask_in_use[r] /\ mask_in_use'[r]
             \/ o \in U(r, "mask") /\ o \notin V(r, "mask") /\ ~mask_in_use'[r]
      PROVE  Goal(r)
  <2> HIDE DEF U, V
  <2>1. OK(V(r, "eager"), eager_in_use'[r])
    BY <1>0, <1>1, <1>5, <1>6, ExactStep
  <2>2. Exhausted \/ OK(V(r, "mask"), mask_in_use'[r])
    BY <1>0, <1>1, <1>5, <1>6, ExactStep
  <2> QED
    BY <1>2, <2>1, <2>2
<1>7. ASSUME NEW o \in Ops, Reserve(r, o)
      PROVE  Goal(r)
  <2>1. Reserved(r, o)
    BY <1>7, ReserveEffect
  <2>2. /\ OthersKept(r, o) /\ o \notin U(r, "eager") /\ o \notin U(r, "mask")
        /\ \A w : o \in V(r, w) <=> own'[r][o] = w
    BY <2>1 DEF Reserved
  <2>3. \/ /\ own'[r][o] = "none"
           /\ eager_in_use'[r] = eager_in_use[r] /\ mask_in_use'[r] = mask_in_use[r]
        \/ /\ own'[r][o] = "eager" /\ ~eager_in_use[r] /\ eager_in_use'[r]
           /\ mask_in_use'[r] = mask_in_use[r]
        \/ /\ own'[r][o] = "mask" /\ ~mask_in_use[r] /\ mask_in_use'[r]
           /\ eager_in_use'[r] = eager_in_use[r]
    BY <2>1 DEF Reserved
  <2> HIDE DEF U, V, Goal
  <2> QED
    BY <1>6, <2>2, <2>3
<1>8. ASSUME NEW o \in Ops, Finish(r, o)
      PROVE  Goal(r)
  <2>1. Finished(r, o)
    BY <1>8, FinishEffect
  <2>2. /\ OthersKept(r, o) /\ o \notin V(r, "eager") /\ o \notin V(r, "mask")
        /\ \A w : o \in U(r, w) <=> own[r][o] = w
    BY <2>1 DEF Finished
  <2>3. /\ eager_in_use'[r] = (eager_in_use[r] /\ own[r][o] # "eager")
        /\ mask_in_use'[r] = (mask_in_use[r] /\ own[r][o] # "mask")
    BY <2>1 DEF Finished
  <2>4. /\ own[r][o] = "eager" => ~eager_in_use'[r]
        /\ own[r][o] # "eager" => eager_in_use'[r] = eager_in_use[r]
        /\ own[r][o] = "mask" => ~mask_in_use'[r]
        /\ own[r][o] # "mask" => mask_in_use'[r] = mask_in_use[r]
    BY <1>1, <2>3
  <2> HIDE DEF U, V, Goal
  <2> QED
    BY <1>6, <2>2, <2>4
<1>9. ASSUME NEW o \in Ops, Retry(r, o) \/ fn_fail(r, o) \/ Free_contextid(r, o)
      PROVE  Goal(r)
  <2>1. /\ OthersKept(r, o) /\ pc[r][o] \in {"yield", "fail", "done"}
        /\ pc'[r][o] \in {"error", "ready", "failed", "freed"} /\ own' = own
        /\ eager_in_use' = eager_in_use
        /\ mask_in_use' = mask_in_use \/ pc'[r][o] \in {"error", "failed"}
    <3>1. CASE Retry(r, o)
      BY <3>1, RetryEffect DEF OnlyMoves
    <3>2. CASE fn_fail(r, o)
      BY <3>2, FailEffect DEF OnlyMoves
    <3>3. CASE Free_contextid(r, o)
      BY <3>3, FreeEffect
    <3> QED
      BY <1>9, <3>1, <3>2, <3>3
  <2>2. mask_in_use'[r] = mask_in_use[r] \/ Exhausted'
    BY <2>1 DEF Exhausted
  <2>3. \A w \in {"eager", "mask"} : V(r, w) = U(r, w)
    BY <2>1 DEF OthersKept
  <2> QED
    BY <1>3, <2>1, <2>2, <2>3
<1>10. ASSUME NEW o \in Ops, Allreduce(o) \/ ErrorAllreduce(o)
       PROVE  Goal(r)
  <2>1. /\ own' = own /\ eager_in_use' = eager_in_use /\ mask_in_use' = mask_in_use
        /\ \A n \in Ops : \/ pc'[r][n] = pc[r][n]
                          \/ pc[r][n] = "reduce" /\ pc'[r][n] = "reduced"
                          \/ pc[r][n] = "error" /\ pc'[r][n] = "fail"
    <3>1. CASE Allreduce(o)
      BY <3>1, AllreduceEffect
    <3>2. CASE ErrorAllreduce(o)
      BY <3>2, ErrorEffect
    <3> QED
      BY <1>10, <3>1, <3>2
  <2>2. \A w \in {"eager", "mask"} : V(r, w) = U(r, w)
    BY <2>1
  <2> QED
    BY <1>3, <2>1, <2>2
<1>11. CASE UNCHANGED vars
  <2>1. \A w \in {"eager", "mask"} : V(r, w) = U(r, w)
    BY <1>11 DEF vars
  <2> QED
    BY <1>3, <1>11, <2>1 DEF vars
<1> HIDE DEF Goal
<1> QED
  BY <1>4, <1>7, <1>8, <1>9, <1>10, <1>11, LocalStep DEF Next

\* The id that a process takes is one of its own segment, free until now.
LEMMA TakenIsFree ==
  ASSUME TypeOK, Participation, Contributions, Segments, ~Exhausted,
         NEW p \in Procs, NEW o \in Ops, Finished(p, o),
         ~Ignores(p, o), context_id'[p][o] # 0
  PROVE  /\ context_id'[p][o] \in context_mask[p]
         /\ \/ o \in UsesMask(p, "eager") /\ context_id'[p][o] \in EagerIds
            \/ o \in UsesMask(p, "mask") /\ context_id'[p][o] \notin EagerIds
<1>1. /\ pc[p][o] = "reduced" /\ p \in members[o]
      /\ locate_context_bit(local_mask[p][o], context_id'[p][o])
  BY DEF Finished
<1>2. context_id'[p][o] \in local_mask[p][o]
  BY <1>1 DEF locate_context_bit
<1>3. own[p][o] # "none"
  BY <1>1, <1>2 DEF Contributions, Takes
<1>4. own[p][o] \in {"eager", "mask"}
  BY <1>3 DEF TypeOK
<1>5. o \in UsesMask(p, own[p][o])
  BY <1>1 DEF UsesMask
<1> QED
  BY <1>2, <1>4, <1>5 DEF Segments

LEMMA SegmentsNext ==
  ASSUME TypeOK, Participation, Contributions, Flags, Segments, Next
  PROVE  Segments'
<1> DEFINE V(r, w, n) == pc'[r][n] \in {"reduce", "reduced"} /\ own'[r][n] = w
           Goal(r, n) ==
             /\ V(r, "eager", n) => local_mask'[r][n] \subseteq context_mask'[r] \cap EagerIds
             /\ V(r, "mask", n) => local_mask'[r][n] \subseteq context_mask'[r] \ EagerIds
<1> SUFFICES ASSUME ~Exhausted', NEW r \in Procs, NEW n \in Ops
             PROVE  Goal(r, n)
  BY DEF Segments, UsesMask, EagerIds, Ids, Word
<1>0. ~Exhausted
  BY ExhaustedStable
<1>1. /\ n \in UsesMask(r, "eager") => local_mask[r][n] \subseteq context_mask[r] \cap EagerIds
      /\ n \in UsesMask(r, "mask") => local_mask[r][n] \subseteq context_mask[r] \ EagerIds
  BY <1>0 DEF Segments
<1>2. ASSUME pc'[r][n] = pc[r][n] \/ (pc[r][n] = "reduce" /\ pc'[r][n] = "reduced"),
             own'[r][n] = own[r][n], local_mask'[r][n] \subseteq local_mask[r][n],
             context_mask[r] \subseteq context_mask'[r]
      PROVE  Goal(r, n)
  BY <1>1, <1>2 DEF UsesMask
<1>3. ASSUME NEW p \in Procs, NEW o \in Ops, Reserve(p, o)
      PROVE  Goal(r, n)
  <2>1. Reserved(p, o)
    BY <1>3, ReserveEffect
  <2>2. CASE p = r /\ o = n
    BY <2>1, <2>2 DEF Reserved
  <2>3. CASE p # r \/ o # n
    BY <1>2, <2>1, <2>3 DEF Reserved, OthersKept
  <2> QED
    BY <2>2, <2>3
<1>4. ASSUME NEW p \in Procs, NEW o \in Ops, Finish(p, o)
      PROVE  Goal(r, n)
  <2>1. Finished(p, o)
    BY <1>4, FinishEffect
  <2>2. /\ OthersKept(p, o) /\ pc'[p][o] \in {"done", "error", "ready", "yield"}
        /\ context_id'[p][o] = 0 \/ Ignores(p, o) => context_mask'[p] = context_mask[p]
        /\ context_id'[p][o] # 0 /\ ~Ignores(p, o) =>
             context_mask'[p] = context_mask[p] \ {context_id'[p][o]}
    BY <2>1 DEF Finished
  <2>3. CASE p = r /\ o = n
    BY <2>2, <2>3
  <2>4. CASE p # r
    BY <1>2, <2>2, <2>4 DEF OthersKept
  <2>5. CASE p = r /\ o # n /\ (context_id'[p][o] = 0 \/ Ignores(p, o))
    BY <1>2, <2>2, <2>5 DEF OthersKept
  <2>6. CASE p = r /\ o # n /\ context_id'[p][o] # 0 /\ ~Ignores(p, o)
    <3>1. \/ o \in UsesMask(p, "eager") /\ context_id'[p][o] \in EagerIds
          \/ o \in UsesMask(p, "mask") /\ context_id'[p][o] \notin EagerIds
      BY <1>0, <2>1, <2>6, TakenIsFree
    <3>2. \A w \in {"eager", "mask"} : ~(o \in UsesMask(p, w) /\ n \in UsesMask(p, w))
      BY <1>0, <2>6 DEF Flags, Exact
    <3>3. /\ pc'[r][n] = pc[r][n] /\ own'[r][n] = own[r][n]
          /\ local_mask'[r][n] = local_mask[r][n]
      BY <2>2, <2>6 DEF OthersKept
    <3>4. \A w : V(r, w, n) <=> n \in UsesMask(r, w)
      BY <3>3 DEF UsesMask
    <3> HIDE DEF V
    <3> QED
      BY <1>1, <2>2, <2>6, <3>1, <3>2, <3>3, <3>4
  <2> QED
    BY <2>3, <2>4, <2>5, <2>6
<1>5. ASSUME NEW p \in Procs, NEW o \in Ops,
             Retry(p, o) \/ fn_fail(p, o) \/ Free_contextid(p, o)
      PROVE  Goal(r, n)
  <2>1. /\ OthersKept(p, o) /\ pc'[p][o] \in {"error", "ready", "failed", "freed"}
        /\ own' = own /\ local_mask' = local_mask /\ context_mask[p] \subseteq context_mask'[p]
    <3>1. CASE Retry(p, o)
      BY <3>1, RetryEffect DEF OnlyMoves
    <3>2. CASE fn_fail(p, o)
      BY <3>2, FailEffect DEF OnlyMoves
    <3>3. CASE Free_contextid(p, o)
      BY <3>3, FreeEffect
    <3> QED
      BY <1>5, <3>1, <3>2, <3>3
  <2>2. CASE p = r /\ o = n
    BY <2>1, <2>2
  <2>3. CASE p # r \/ o # n
    BY <1>2, <2>1, <2>3 DEF OthersKept
  <2> QED
    BY <2>2, <2>3
<1>6. ASSUME NEW o \in Ops, Allreduce(o)
      PROVE  Goal(r, n)
  <2>1. /\ context_mask' = context_mask /\ own' = own
        /\ \A p \in members[o] : /\ pc[p][o] = "reduce"
                                  /\ local_mask'[p][o] \subseteq local_mask[p][o]
        /\ pc'[r][n] = IF n = o /\ r \in members[o] THEN "reduced" ELSE pc[r][n]
        /\ n # o => local_mask'[r][n] = local_mask[r][n]
    BY <1>6, AllreduceEffect
  <2>2. CASE n # o \/ r \in members[o]
    BY <1>2, <2>1, <2>2
  <2>3. CASE n = o /\ r \notin members[o]
    BY <2>1, <2>3 DEF Participation
  <2> QED
    BY <2>2, <2>3
<1>7. ASSUME NEW o \in Ops, ErrorAllreduce(o)
      PROVE  Goal(r, n)
  <2>1. /\ context_mask' = context_mask /\ own' = own /\ local_mask' = local_mask
        /\ pc'[r][n] = pc[r][n] \/ pc'[r][n] = "fail"
    BY <1>7, ErrorEffect
  <2> QED
    BY <1>2, <2>1
<1>8. CASE UNCHANGED vars
  BY <1>2, <1>8 DEF vars
<1> HIDE DEF Goal
<1> QED
  BY <1>3, <1>4, <1>5, <1>6, <1>7, <1>8 DEF Next

-----------------------------------------------------------------------------
(* Distinct ids and the assertions.                                        *)

LEMMA DistinctNext ==
  ASSUME TypeOK, Participation, Contributions, IdsAreDistinct, Next
  PROVE  IdsAreDistinct'
<1> DEFINE Goal(r, n, m) ==
             Takes(r, n) /\ pc'[r][n] = "done" /\ ~aborted'
               => /\ context_id'[r][n] \notin context_mask'[r]
                  /\ m # n /\ Takes(r, m) /\ pc'[r][m] = "done"
                       => context_id'[r][m] # context_id'[r][n]
<1> SUFFICES ASSUME NEW r \in Procs, NEW n \in Ops, NEW m \in Ops
             PROVE  Goal(r, n, m)
  BY DEF IdsAreDistinct, Takes, Ignores
<1>1. ~aborted => \A a, b \in {n, m} :
         Takes(r, a) /\ pc[r][a] = "done"
           => /\ context_id[r][a] \notin context_mask[r]
              /\ b # a /\ Takes(r, b) /\ pc[r][b] = "done"
                   => context_id[r][b] # context_id[r][a]
  BY DEF IdsAreDistinct
<1>2. ASSUME \A a \in {n, m} : /\ pc'[r][a] = "done" => pc[r][a] = "done"
                               /\ context_id'[r][a] = context_id[r][a],
             context_mask'[r] = context_mask[r], aborted => aborted'
      PROVE  Goal(r, n, m)
  BY <1>1, <1>2
<1>3. ASSUME NEW p \in Procs, NEW o \in Ops, Reserve(p, o)
      PROVE  Goal(r, n, m)
  <2>1. Reserved(p, o)
    BY <1>3, ReserveEffect
  <2>2. /\ OthersKept(p, o) /\ pc'[p][o] = "reduce" /\ context_mask' = context_mask
        /\ context_id' = context_id /\ aborted' = aborted
    BY <2>1 DEF Reserved
  <2> QED
    BY <1>2, <2>2 DEF OthersKept
<1>4. ASSUME NEW p \in Procs, NEW o \in Ops, Finish(p, o)
      PROVE  Goal(r, n, m)
  <2>1. Finished(p, o)
    BY <1>4, FinishEffect
  <2>2. CASE p # r \/ context_id'[p][o] = 0
    <3>1. /\ OthersKept(p, o) /\ ~aborted
          /\ p = r => /\ pc'[p][o] # "done" /\ context_mask' = context_mask
      BY <2>1, <2>2 DEF Finished
    <3> QED
      BY <1>1, <3>1 DEF OthersKept
  <2>3. CASE p = r /\ context_id'[p][o] # 0
    <3>1. /\ OthersKept(p, o) /\ ~aborted
          /\ context_mask'[p] = IF Ignores(p, o) THEN context_mask[p]
                                ELSE context_mask[p] \ {context_id'[p][o]}
          /\ aborted' = (~Ignores(p, o) /\ context_id'[p][o] \notin context_mask[p])
      BY <2>1, <2>3 DEF Finished
    <3>2. /\ context_mask'[p] \subseteq context_mask[p]
          /\ ~Ignores(p, o) /\ ~aborted' => /\ context_id'[p][o] \in context_mask[p]
                                            /\ context_id'[p][o] \notin context_mask'[p]
      BY <3>1
    <3>3. \A a \in {n, m} : a # o => /\ pc'[r][a] = pc[r][a]
                                     /\ context_id'[r][a] = context_id[r][a]
      BY <2>3, <3>1 DEF OthersKept
    <3> QED
      BY <1>1, <2>3, <3>1, <3>2, <3>3 DEF Takes
  <2> QED
    BY <2>2, <2>3
<1>5. ASSUME NEW p \in Procs, NEW o \in Ops, Retry(p, o) \/ fn_fail(p, o)
      PROVE  Goal(r, n, m)
  <2>1. /\ OthersKept(p, o) /\ pc'[p][o] # "done" /\ context_mask' = context_mask
        /\ context_id' = context_id /\ aborted' = aborted
    BY <1>5, RetryEffect, FailEffect DEF OnlyMoves
  <2> QED
    BY <1>2, <2>1 DEF OthersKept
<1>6. ASSUME NEW p \in Procs, NEW o \in Ops, Free_contextid(p, o)
      PROVE  Goal(r, n, m)
  <2>1. /\ OthersKept(p, o) /\ pc[p][o] = "done" /\ pc'[p][o] = "freed"
        /\ context_id' = context_id /\ ~Ignores(p, o) /\ ~aborted
        /\ context_mask'[p] = context_mask[p] \cup {context_id[p][o]}
    BY <1>6, FreeEffect
  <2>2. Takes(p, o)
    BY <2>1 DEF Participation, Takes
  <2>3. \A a \in {n, m} : pc'[r][a] = "done" => pc[r][a] = "done"
    BY <2>1 DEF OthersKept
  <2>4. Takes(r, n) /\ pc'[r][n] = "done" => context_id[r][n] \notin context_mask'[r]
    <3>1. CASE p # r
      BY <1>1, <2>1, <2>3, <3>1 DEF OthersKept
    <3>2. CASE p = r
      <4>1. Takes(r, n) /\ pc'[r][n] = "done" => context_id[r][n] # context_id[r][o]
        BY <2>1, <2>2, <2>3, <3>2 DEF IdsAreDistinct
      <4> QED
        BY <1>1, <2>1, <2>3, <3>2, <4>1
    <3> QED
      BY <3>1, <3>2
  <2> QED
    BY <1>1, <2>1, <2>3, <2>4
<1>7. ASSUME NEW o \in Ops, Allreduce(o) \/ ErrorAllreduce(o)
      PROVE  Goal(r, n, m)
  <2>1. /\ context_mask' = context_mask /\ context_id' = context_id /\ aborted' = aborted
        /\ \A a \in Ops : pc'[r][a] = "done" => pc[r][a] = "done"
    <3>1. CASE Allreduce(o)
      BY <3>1, AllreduceEffect
    <3>2. CASE ErrorAllreduce(o)
      BY <3>2, ErrorEffect
    <3> QED
      BY <1>7, <3>1, <3>2
  <2> QED
    BY <1>2, <2>1
<1>8. CASE UNCHANGED vars
  BY <1>2, <1>8 DEF vars
<1> HIDE DEF Goal
<1> QED
  BY <1>3, <1>4, <1>5, <1>6, <1>7, <1>8 DEF Next

LEMMA AssertNext ==
  ASSUME TypeOK, Participation, Contributions, Segments, IdsAreDistinct,
         AssertOnlyAfterExhaustion, Next
  PROVE  AssertOnlyAfterExhaustion'
<1> SUFFICES ASSUME ~Exhausted
             PROVE  ~aborted'
  BY ExhaustedStable DEF AssertOnlyAfterExhaustion
<1>0. ~aborted
  BY DEF AssertOnlyAfterExhaustion
<1>1. ASSUME NEW p \in Procs, NEW o \in Ops, Finish(p, o)
      PROVE  ~aborted'
  <2>1. Finished(p, o)
    BY <1>1, FinishEffect
  <2>2. CASE context_id'[p][o] # 0 /\ ~Ignores(p, o)
    BY <2>1, <2>2, TakenIsFree DEF Finished
  <2>3. CASE context_id'[p][o] = 0 \/ Ignores(p, o)
    BY <1>0, <2>1, <2>3 DEF Finished
  <2> QED
    BY <2>2, <2>3
<1>2. ASSUME NEW p \in Procs, NEW o \in Ops, Free_contextid(p, o)
      PROVE  ~aborted'
  <2>1. /\ pc[p][o] = "done" /\ ~Ignores(p, o)
        /\ aborted' = (context_id[p][o] \in context_mask[p])
    BY <1>2, FreeEffect
  <2>2. context_id[p][o] \notin context_mask[p]
    BY <1>0, <2>1 DEF IdsAreDistinct, Takes, Participation
  <2> QED
    BY <2>1, <2>2
<1> QED
  BY <1>0, <1>1, <1>2 DEF Next, Reserve, Retry, fn_fail, Allreduce, ErrorAllreduce, vars

-----------------------------------------------------------------------------
(* The list of pending allocations.                                        *)

Elements(list) == {list[i] : i \in DOMAIN list}
InOrder(list) == \A i, j \in DOMAIN list :
                   i < j => list[i] # list[j] /\ Before(list[i], list[j])

LEMMA BeforeIsOrder ==
  /\ \A a, b \in Ops : Before(a, b) \/ Before(b, a)
  /\ \A a, b, c \in Ops : Before(a, b) /\ Before(b, c) => Before(a, c)
BY OpsAssumption DEF Before

LEMMA InsertInOrder ==
  ASSUME NEW list \in Seq(Ops), InOrder(list), NEW o \in Ops, o \notin Elements(list)
  PROVE  /\ InOrder(add_gcn_to_list(list, o))
         /\ Elements(add_gcn_to_list(list, o)) = Elements(list) \cup {o}
<1> DEFINE new == add_gcn_to_list(list, o)
<1>1. new \in Seq(Ops) /\ Len(new) = Len(list) + 1
  BY InsertElement
<1>2. PICK k \in 0 .. Len(list) :
         /\ \A i \in 1 .. Len(list) + 1 :
              new[i] = IF i <= k THEN list[i] ELSE IF i = k + 1 THEN o ELSE list[i - 1]
         /\ \A i \in 1 .. k : Before(list[i], o)
         /\ k < Len(list) => ~Before(list[k + 1], o)
  BY InsertElement
<1> HIDE DEF new
<1>3. /\ DOMAIN new = 1 .. Len(list) + 1 /\ DOMAIN list = 1 .. Len(list)
      /\ Len(list) \in Nat /\ k \in Nat /\ k <= Len(list)
      /\ \A i \in 1 .. Len(list) : list[i] \in Ops /\ list[i] # o
  BY <1>1 DEF Elements
<1>4. \A i \in 1 .. Len(list) : i > k => Before(o, list[i])
  <2> SUFFICES ASSUME NEW i \in 1 .. Len(list), i > k
               PROVE  Before(o, list[i])
    OBVIOUS
  <2>1. k + 1 \in 1 .. Len(list) /\ Before(o, list[k + 1])
    BY <1>2, <1>3, BeforeIsOrder
  <2>2. i = k + 1 \/ Before(list[k + 1], list[i])
    BY <1>3, <2>1 DEF InOrder
  <2> QED
    BY <1>3, <2>1, <2>2, BeforeIsOrder
<1>5. InOrder(new)
  <2> SUFFICES ASSUME NEW i \in 1 .. Len(list) + 1, NEW j \in 1 .. Len(list) + 1, i < j
               PROVE  new[i] # new[j] /\ Before(new[i], new[j])
    BY <1>3 DEF InOrder
  <2>1. CASE i <= k /\ j <= k
    <3>1. new[i] = list[i] /\ new[j] = list[j]
      BY <1>2, <2>1
    <3>2. i \in DOMAIN list /\ j \in DOMAIN list
      BY <1>3, <2>1
    <3> QED
      BY <3>1, <3>2 DEF InOrder
  <2>2. CASE i <= k /\ j = k + 1
    <3>1. new[i] = list[i] /\ new[j] = o /\ i \in 1 .. k
      BY <1>2, <1>3, <2>2
    <3> QED
      BY <1>2, <1>3, <3>1
  <2>3. CASE i <= k /\ j > k + 1
    <3>1. new[i] = list[i] /\ new[j] = list[j - 1]
      BY <1>2, <1>3, <2>3
    <3>2. i \in DOMAIN list /\ j - 1 \in DOMAIN list /\ i < j - 1
      BY <1>3, <2>3
    <3> QED
      BY <3>1, <3>2 DEF InOrder
  <2>4. CASE i = k + 1 /\ j > k + 1
    <3>1. new[i] = o /\ new[j] = list[j - 1]
      BY <1>2, <1>3, <2>4
    <3>2. j - 1 \in 1 .. Len(list) /\ j - 1 > k
      BY <1>3, <2>4
    <3> QED
      BY <1>3, <1>4, <3>1, <3>2
  <2>5. CASE i > k + 1
    <3>1. new[i] = list[i - 1] /\ new[j] = list[j - 1]
      BY <1>2, <1>3, <2>5
    <3>2. i - 1 \in DOMAIN list /\ j - 1 \in DOMAIN list /\ i - 1 < j - 1
      BY <1>3, <2>5
    <3> QED
      BY <3>1, <3>2 DEF InOrder
  <2> QED
    BY <1>3, <2>1, <2>2, <2>3, <2>4, <2>5
<1>6. Elements(new) = Elements(list) \cup {o}
  <2>1. ASSUME NEW x \in Elements(new)
        PROVE  x \in Elements(list) \cup {o}
    BY <1>2, <1>3, <2>1 DEF Elements
  <2>2. o \in Elements(new)
    BY <1>2, <1>3 DEF Elements
  <2>3. ASSUME NEW i \in DOMAIN list
        PROVE  list[i] \in Elements(new)
    <3>1. i <= k => i \in DOMAIN new /\ new[i] = list[i]
      BY <1>2, <1>3
    <3>2. i > k => i + 1 \in DOMAIN new /\ new[i + 1] = list[i]
      BY <1>2, <1>3
    <3>3. i <= k \/ i > k
      BY <1>3
    <3> QED
      BY <3>1, <3>2, <3>3 DEF Elements
  <2> QED
    BY <2>1, <2>2, <2>3 DEF Elements
<1> QED
  BY <1>5, <1>6 DEF new

LEMMA RemoveInOrder ==
  ASSUME NEW list \in Seq(Ops), InOrder(list), NEW o \in Ops
  PROVE  /\ InOrder(Removed(list, o))
         /\ Elements(Removed(list, o)) = Elements(list) \ {o}
<1> DEFINE new == Removed(list, o)
<1>1. new \in Seq(Ops)
  BY RemoveElement
<1>2. CASE new = list /\ \A i \in 1 .. Len(list) : list[i] # o
  BY <1>2 DEF Elements
<1>3. CASE \E k \in 1 .. Len(list) :
             /\ list[k] = o
             /\ Len(new) = Len(list) - 1
             /\ \A i \in 1 .. Len(list) - 1 :
                  new[i] = IF i < k THEN list[i] ELSE list[i + 1]
  <2>1. PICK k \in 1 .. Len(list) :
             /\ list[k] = o
             /\ Len(new) = Len(list) - 1
             /\ \A i \in 1 .. Len(list) - 1 :
                  new[i] = IF i < k THEN list[i] ELSE list[i + 1]
    BY <1>3
  <2> HIDE DEF new
  <2>2. /\ DOMAIN new = 1 .. Len(list) - 1 /\ DOMAIN list = 1 .. Len(list)
        /\ Len(list) \in Nat /\ k \in Nat /\ k <= Len(list)
    BY <1>1, <2>1
  <2>3. ASSUME NEW i \in DOMAIN new
        PROVE  \E x \in DOMAIN list : /\ new[i] = list[x] /\ x # k
                                      /\ x = IF i < k THEN i ELSE i + 1
    <3>1. CASE i < k
      BY <2>1, <2>2, <3>1
    <3>2. CASE i >= k
      <4>1. i + 1 \in DOMAIN list /\ i + 1 # k /\ new[i] = list[i + 1]
        BY <2>1, <2>2, <3>2
      <4> QED
        BY <2>2, <3>2, <4>1
    <3> QED
      BY <2>2, <3>1, <3>2
  <2>4. InOrder(new)
    <3> SUFFICES ASSUME NEW i \in DOMAIN new, NEW j \in DOMAIN new, i < j
                 PROVE  new[i] # new[j] /\ Before(new[i], new[j])
      BY DEF InOrder
    <3>1. PICK x \in DOMAIN list : new[i] = list[x] /\ x = IF i < k THEN i ELSE i + 1
      BY <2>3
    <3>2. PICK y \in DOMAIN list : new[j] = list[y] /\ y = IF j < k THEN j ELSE j + 1
      BY <2>3
    <3>3. x < y
      BY <2>2, <3>1, <3>2
    <3> QED
      BY <3>1, <3>2, <3>3 DEF InOrder
  <2>5. \A x \in DOMAIN list : x # k => list[x] # o
    BY <2>1, <2>2 DEF InOrder
  <2>6. ASSUME NEW x \in DOMAIN list, x # k
        PROVE  list[x] \in Elements(new)
    <3>1. x < k => x \in DOMAIN new /\ new[x] = list[x]
      BY <2>1, <2>2
    <3>2. x > k => x - 1 \in DOMAIN new /\ new[x - 1] = list[x]
      BY <2>1, <2>2
    <3>3. x < k \/ x > k
      BY <2>2, <2>6
    <3> QED
      BY <3>1, <3>2, <3>3 DEF Elements
  <2>7. Elements(new) = Elements(list) \ {o}
    <3>1. ASSUME NEW i \in DOMAIN new
          PROVE  new[i] \in Elements(list) \ {o}
      BY <2>3, <2>5 DEF Elements
    <3>2. ASSUME NEW x \in DOMAIN list, list[x] # o
          PROVE  list[x] \in Elements(new)
      BY <2>1, <2>6, <3>2
    <3> QED
      BY <3>1, <3>2 DEF Elements
  <2> QED
    BY <2>4, <2>7 DEF new
<1> QED
  BY <1>2, <1>3, RemoveElement

\* The list of p agrees with the places and iterations of p.
Pending(p) == {o \in Ops : Takes(p, o) /\ ~first_iter[p][o] /\ pc[p][o] \notin Ended}
ListOK(p) == Elements(next_gcn[p]) = Pending(p) /\ InOrder(next_gcn[p])

LEMMA ListByProcess == ListIsPending <=> \A p \in Procs : ListOK(p)
BY DEF ListIsPending, ListOK, Elements, Pending, InOrder, Before

\* A step of p in o that leaves the list alone.
LEMMA ListKept ==
  ASSUME NEW r \in Procs, ListOK(r), next_gcn'[r] = next_gcn[r],
         \A n \in Ops : /\ first_iter'[r][n] = first_iter[r][n]
                        /\ pc'[r][n] \in Ended <=> pc[r][n] \in Ended
  PROVE  ListOK(r)'
<1> DEFINE P == {n \in Ops : Takes(r, n) /\ ~first_iter'[r][n] /\ pc'[r][n] \notin Ended}
<1>1. P = Pending(r)
  BY DEF Pending
<1>2. Pending(r)' = P
  BY DEF Pending, Takes, Ignores, Ended
<1> QED
  BY <1>1, <1>2 DEF ListOK, Elements, InOrder, Before

LEMMA ListNoId ==
  ASSUME TypeOK, NEW p \in Procs, NEW o \in Ops, p \in members[o], NoId(p, o),
         pc[p][o] \notin Ended, \A r \in Procs : ListOK(r)
  PROVE  \A r \in Procs : ListOK(r)'
<1>1. CASE /\ pc' = [pc EXCEPT ![p][o] = "error"]
           /\ UNCHANGED <<next_gcn, first_iter>>
  <2>1. \A r \in Procs, n \in Ops : pc'[r][n] \in Ended <=> pc[r][n] \in Ended
    BY <1>1 DEF TypeOK, Ended
  <2> QED
    BY <1>1, <2>1, ListKept
<1>2. CASE /\ pc' = [pc EXCEPT ![p][o] = "ready"]
           /\ first_iter' = [first_iter EXCEPT ![p][o] = FALSE]
           /\ next_gcn' = [next_gcn EXCEPT
                             ![p] = IF first_iter[p][o] /\ ~Ignores(p, o)
                                    THEN add_gcn_to_list(@, o) ELSE @]
  <2>1. \A r \in Procs, n \in Ops : pc'[r][n] \in Ended <=> pc[r][n] \in Ended
    BY <1>2 DEF TypeOK, Ended
  <2>2. \A r \in Procs, n \in Ops :
           first_iter'[r][n] = IF r = p /\ n = o THEN FALSE ELSE first_iter[r][n]
    BY <1>2 DEF TypeOK
  <2>3. ASSUME NEW r \in Procs, r # p
        PROVE  ListOK(r)'
    <3>1. next_gcn'[r] = next_gcn[r]
      BY <1>2, <2>3 DEF TypeOK
    <3>2. \A n \in Ops : /\ first_iter'[r][n] = first_iter[r][n]
                         /\ pc'[r][n] \in Ended <=> pc[r][n] \in Ended
      BY <2>1, <2>2, <2>3
    <3> QED
      BY <3>1, <3>2, ListKept
  <2> DEFINE P == {n \in Ops : Takes(p, n) /\ ~first_iter'[p][n] /\ pc'[p][n] \notin Ended}
  <2>4. Pending(p)' = P
    BY DEF Pending, Takes, Ignores, Ended
  <2>5. CASE first_iter[p][o] /\ ~Ignores(p, o)
    <3>1. next_gcn'[p] = add_gcn_to_list(next_gcn[p], o)
      BY <1>2, <2>5 DEF TypeOK
    <3>2. P = Pending(p) \cup {o}
      BY <2>1, <2>2, <2>5 DEF Pending, Takes
    <3>3. o \notin Pending(p)
      BY <2>5 DEF Pending
    <3>4. /\ InOrder(add_gcn_to_list(next_gcn[p], o))
          /\ Elements(add_gcn_to_list(next_gcn[p], o)) = Pending(p) \cup {o}
      BY <3>3, InsertInOrder DEF ListOK, TypeOK
    <3>5. Elements(next_gcn'[p]) = P /\ InOrder(next_gcn'[p])
      BY <3>1, <3>2, <3>4
    <3>6. ListOK(p)'
      BY <2>4, <3>5 DEF ListOK, Elements, InOrder, Before
    <3> QED
      BY <2>3, <3>6
  <2>6. CASE ~(first_iter[p][o] /\ ~Ignores(p, o))
    <3>1. next_gcn'[p] = next_gcn[p]
      BY <1>2, <2>6 DEF TypeOK
    <3>2. P = Pending(p)
      BY <2>1, <2>2, <2>6 DEF Pending, Takes
    <3>3. ListOK(p)'
      BY <2>4, <3>1, <3>2 DEF ListOK, Elements, InOrder, Before
    <3> QED
      BY <2>3, <3>3
  <2> QED
    BY <2>5, <2>6
<1> QED
  BY <1>1, <1>2, Zenon DEF NoId

\* p has an id or has failed: its allocation leaves the list.
LEMMA ListRemoved ==
  ASSUME TypeOK, NEW p \in Procs, NEW o \in Ops, NEW x \in {"done", "failed"},
         pc' = [pc EXCEPT ![p][o] = x], UNCHANGED first_iter,
         next_gcn' = [next_gcn EXCEPT ![p] = Removed(@, o)],
         \A r \in Procs : ListOK(r)
  PROVE  \A r \in Procs : ListOK(r)'
<1>1. \A r \in Procs, n \in Ops : pc'[r][n] = IF r = p /\ n = o THEN x ELSE pc[r][n]
  BY DEF TypeOK
<1>2. ASSUME NEW r \in Procs, r # p
      PROVE  ListOK(r)'
  <2>1. next_gcn'[r] = next_gcn[r]
    BY <1>2 DEF TypeOK
  <2> QED
    BY <1>1, <1>2, <2>1, ListKept
<1> DEFINE P == {n \in Ops : Takes(p, n) /\ ~first_iter'[p][n] /\ pc'[p][n] \notin Ended}
<1>3. Pending(p)' = P
  BY DEF Pending, Takes, Ignores, Ended
<1>4. P = Pending(p) \ {o}
  BY <1>1 DEF Pending, Ended
<1>5. next_gcn'[p] = Removed(next_gcn[p], o) /\ next_gcn[p] \in Seq(Ops)
  BY DEF TypeOK
<1>6. /\ InOrder(Removed(next_gcn[p], o))
      /\ Elements(Removed(next_gcn[p], o)) = Pending(p) \ {o}
  BY <1>5, RemoveInOrder DEF ListOK
<1>7. Elements(next_gcn'[p]) = P /\ InOrder(next_gcn'[p])
  BY <1>4, <1>5, <1>6
<1>8. ListOK(p)'
  BY <1>3, <1>7 DEF ListOK, Elements, InOrder, Before
<1> QED
  BY <1>2, <1>8

LEMMA ListNext ==
  ASSUME TypeOK, Participation, ListIsPending, Next
  PROVE  ListIsPending'
<1>0. \A r \in Procs : ListOK(r)
  BY ListByProcess
<1> DEFINE Goal == \A r \in Procs : ListOK(r)'
<1>1. ASSUME UNCHANGED <<next_gcn, first_iter>>,
             \A r \in Procs, n \in Ops : pc'[r][n] \in Ended <=> pc[r][n] \in Ended
      PROVE  Goal
  BY <1>0, <1>1, ListKept
<1>2. ASSUME NEW p \in Procs, NEW o \in Ops, Reserve(p, o)
      PROVE  Goal
  <2>1. \A r \in Procs, n \in Ops : pc'[r][n] \in Ended <=> pc[r][n] \in Ended
    BY <1>2 DEF Reserve, Callable, TypeOK, Ended
  <2> QED
    BY <1>1, <1>2, <2>1 DEF Reserve
<1>3. ASSUME NEW p \in Procs, NEW o \in Ops, Finish(p, o)
      PROVE  Goal
  <2>1. p \in members[o] /\ pc[p][o] = "reduced"
    BY <1>3 DEF Finish, Participation
  <2>2. \/ /\ next_gcn' = [next_gcn EXCEPT ![p] = Removed(@, o)]
           /\ pc' = [pc EXCEPT ![p][o] = "done"] /\ UNCHANGED first_iter
        \/ NoId(p, o)
        \/ /\ pc' = [pc EXCEPT ![p][o] = "yield"]
           /\ UNCHANGED <<next_gcn, first_iter>>
    BY <1>3, Zenon DEF Finish
  <2>3. CASE /\ next_gcn' = [next_gcn EXCEPT ![p] = Removed(@, o)]
             /\ pc' = [pc EXCEPT ![p][o] = "done"] /\ UNCHANGED first_iter
    BY <1>0, <2>3, ListRemoved
  <2>4. CASE NoId(p, o)
    BY <1>0, <2>1, <2>4, ListNoId DEF Ended
  <2>5. CASE pc' = [pc EXCEPT ![p][o] = "yield"] /\ UNCHANGED <<next_gcn, first_iter>>
    <3>1. \A r \in Procs, n \in Ops : pc'[r][n] \in Ended <=> pc[r][n] \in Ended
      BY <2>1, <2>5 DEF TypeOK, Ended
    <3> QED
      BY <1>1, <2>5, <3>1
  <2> QED
    BY <2>2, <2>3, <2>4, <2>5
<1>4. ASSUME NEW p \in Procs, NEW o \in Ops, Retry(p, o)
      PROVE  Goal
  <2>1. p \in members[o] /\ pc[p][o] \notin Ended /\ NoId(p, o)
    BY <1>4 DEF Retry, Participation, Ended
  <2> QED
    BY <1>0, <2>1, ListNoId
<1>5. ASSUME NEW p \in Procs, NEW o \in Ops, fn_fail(p, o)
      PROVE  Goal
  BY <1>0, <1>5, ListRemoved DEF fn_fail
<1>6. ASSUME NEW p \in Procs, NEW o \in Ops, Free_contextid(p, o)
      PROVE  Goal
  <2>1. \A r \in Procs, n \in Ops : pc'[r][n] \in Ended <=> pc[r][n] \in Ended
    BY <1>6 DEF Free_contextid, TypeOK, Ended
  <2> QED
    BY <1>1, <1>6, <2>1 DEF Free_contextid
<1>7. ASSUME NEW o \in Ops, Allreduce(o) \/ ErrorAllreduce(o)
      PROVE  Goal
  <2>1. \A r \in Procs, n \in Ops : pc'[r][n] \in Ended <=> pc[r][n] \in Ended
    BY <1>7 DEF Allreduce, ErrorAllreduce, TypeOK, Ended
  <2> QED
    BY <1>1, <1>7, <2>1 DEF Allreduce, ErrorAllreduce
<1>8. ASSUME UNCHANGED vars
      PROVE  Goal
  BY <1>1, <1>8 DEF vars
<1> HIDE DEF Goal
<1>9. Goal
  BY <1>2, <1>3, <1>4, <1>5, <1>6, <1>7, <1>8 DEF Next
<1> QED
  BY <1>9 DEF Goal, ListIsPending, ListOK, Elements, Pending, InOrder, Before

-----------------------------------------------------------------------------
(* The theorems.                                                           *)

LEMMA IInvInit == Init => IInv
<1> SUFFICES ASSUME Init
             PROVE  IInv
  OBVIOUS
<1>1. \A p \in Procs, o \in Ops : /\ pc[p][o] = "idle" /\ own[p][o] = "none"
                                  /\ first_iter[p][o] = TRUE
  BY DEF Init
<1>2. \A p \in Procs : 0 \notin context_mask[p]
  BY MasksAssumption DEF Init
<1>3. Participation /\ Contributions
  BY <1>1, <1>2 DEF Participation, Contributions
<1>4. Agreement
  BY <1>1, OpsAssumption DEF Agreement
<1>5. \A p \in Procs, w \in {"eager", "mask"} : UsesMask(p, w) = {}
  BY <1>1 DEF UsesMask
<1>6. Flags /\ Segments
  <2>1. \A p \in Procs : eager_in_use[p] = FALSE /\ mask_in_use[p] = FALSE
    BY DEF Init
  <2> QED
    BY <1>5, <2>1 DEF Flags, Exact, Segments
<1>7. IdsAreDistinct /\ AssertOnlyAfterExhaustion
  BY <1>1 DEF Init, IdsAreDistinct, AssertOnlyAfterExhaustion
<1>8. ListIsPending
  <2>1. \A p \in Procs : next_gcn[p] = << >>
    BY DEF Init
  <2>2. \A p \in Procs : DOMAIN next_gcn[p] = {} /\ Pending(p) = {}
    BY <1>1, <2>1 DEF Pending
  <2> QED
    BY <2>2, ListByProcess DEF ListOK, Elements, InOrder
<1> QED
  BY <1>3, <1>4, <1>6, <1>7, <1>8, TypeInit DEF IInv

LEMMA IInvNext == IInv /\ [Next]_vars => IInv'
<1> SUFFICES ASSUME IInv, [Next]_vars
             PROVE  IInv'
  OBVIOUS
<1> USE DEF IInv
<1>1. CASE Next
  BY <1>1, TypeNext, ParticipationNext, ContributionsNext, AgreementNext, FlagsNext,
     SegmentsNext, DistinctNext, AssertNext, ListNext
<1>2. CASE UNCHANGED vars
  <2>1. TypeOK' /\ Participation' /\ Contributions'
    BY <1>2, TypeNext DEF vars, Participation, Contributions, Takes, Ignores
  <2>2. Agreement'
    BY <1>2 DEF vars, Agreement, SameResult, SameId, Takes, Ignores, locate_context_bit
  <2>3. Flags' /\ Segments'
    BY <1>2 DEF vars, Flags, Exact, UsesMask, Segments, Exhausted, EagerIds, Ids, Word
  <2>4. IdsAreDistinct' /\ AssertOnlyAfterExhaustion'
    BY <1>2 DEF vars, IdsAreDistinct, AssertOnlyAfterExhaustion, Exhausted, Takes, Ignores
  <2>5. ListIsPending'
    BY <1>2 DEF vars, ListIsPending, Takes, Ignores, Ended
  <2> QED
    BY <2>1, <2>2, <2>3, <2>4, <2>5
<1> QED
  BY <1>1, <1>2

\* The inductive invariant holds in every state of contextid.c's allocations.
THEOREM Invariance == Spec => []IInv
<1> QED
  BY IInvInit, IInvNext, PTL DEF Spec

\* Type correctness: among others, what is allocated is an id of the mask and
\* the list holds allocations only.
THEOREM TypeCorrect == Spec => []TypeOK
<1>1. IInv => TypeOK
  BY DEF IInv
<1> QED
  BY <1>1, Invariance, PTL

\* Each member scans the result of the Allreduce with locate_context_bit by
\* itself; all who take an id take the same one, whatever failed attempts and
\* failed allocations came before.
THEOREM SameContextId == Spec => []MembersAgree
<1>1. IInv => MembersAgree
  BY OpsAssumption DEF IInv, MembersAgree, Agreement, SameId, Takes
<1> QED
  BY <1>1, Invariance, PTL

\* No two communicators that a process has at a time share a context id, and
\* no id in use is free in context_mask, while no assertion has failed.
THEOREM DistinctContextIds == Spec => []IdsAreDistinct
<1>1. IInv => IdsAreDistinct
  BY DEF IInv
<1> QED
  BY <1>1, Invariance, PTL

\* The assertions of allocate_context_bit and MPIR_Free_contextid hold as long
\* as no allocation has run out of ids.
THEOREM AssertionsHold == Spec => []AssertOnlyAfterExhaustion
<1>1. IInv => AssertOnlyAfterExhaustion
  BY DEF IInv
<1> QED
  BY <1>1, Invariance, PTL

\* eager_in_use tells exactly whether an allocation of the process is using the
\* eager segment, and there is never a second one; the same holds of
\* mask_in_use and the rest of the mask until an allocation runs out of ids.
THEOREM FlagsCorrect == Spec => []FlagsAreExact
<1>1. ASSUME NEW S, NEW f \in BOOLEAN, f <=> S # {}, \A a, b \in S : a = b
      PROVE  Cardinality(S) = IF f THEN 1 ELSE 0
  <2>1. CASE S = {}
    BY <1>1, <2>1, FS_EmptySet
  <2>2. CASE S # {}
    <3>1. PICK a : S = {a}
      BY <1>1, <2>2
    <3> QED
      BY <1>1, <3>1, FS_Singleton
  <2> QED
    BY <2>1, <2>2
<1>2. IInv => FlagsAreExact
  <2> SUFFICES ASSUME IInv, NEW p \in Procs
               PROVE  /\ Cardinality(UsesMask(p, "eager")) = IF eager_in_use[p] THEN 1 ELSE 0
                      /\ \/ Exhausted
                         \/ Cardinality(UsesMask(p, "mask")) = IF mask_in_use[p] THEN 1 ELSE 0
    BY DEF FlagsAreExact
  <2>1. eager_in_use[p] \in BOOLEAN /\ mask_in_use[p] \in BOOLEAN
    BY DEF IInv, TypeOK
  <2>2. /\ Exact(p, "eager", eager_in_use[p])
        /\ Exhausted \/ Exact(p, "mask", mask_in_use[p])
    BY DEF IInv, Flags
  <2> QED
    BY <1>1, <2>1, <2>2 DEF Exact
<1> QED
  BY <1>2, Invariance, PTL

\* next_gcn holds, in the order of parent context and tag, exactly the
\* allocations that have to try again: none is lost when one is inserted or
\* removed, and a failed one does not stay.
THEOREM ListCorrect == Spec => []ListIsPending
<1>1. IInv => ListIsPending
  BY DEF IInv
<1> QED
  BY <1>1, Invariance, PTL
=============================================================================
