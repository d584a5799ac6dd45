------------------------------ MODULE MCSched ------------------------------
(***************************************************************************)
(* The schedules of CollSchedules run by the engine of Sched: every        *)
(* algorithm on powers of two and on other numbers of processes, with      *)
(* different roots, in place and not, and with operations that are not     *)
(* commutative where the algorithm allows them.                            *)
(***************************************************************************)
EXTENDS Sched, CollSchedules, Integers

\* count is the number of elements or blocks of a process.  flag says that the
\* operation is commutative, that the type of a broadcast is contiguous, or that
\* the message of a gather is very small.
Case(alg, n, root, count, in_place, flag) ==
  [alg |-> alg, n |-> n, root |-> root, count |-> count, in_place |-> in_place, flag |-> flag]

RecvCounts(n) == [i \in 0 .. n - 1 |-> IF i = 1 THEN 2 ELSE IF i = 2 THEN 0 ELSE 1]

Build(c, r) ==
  LET n == c.n
  IN  CASE c.alg = "ibarrier" -> Ibarrier_intra(r, n)
        [] c.alg = "ibcast_binomial" -> Ibcast_binomial(r, n, c.root, c.count, "buffer", c.flag)
        [] c.alg = "ibcast_rec_dbl" -> Ibcast_scatter_rec_dbl_allgather(r, n, c.root, c.count)
        [] c.alg = "ibcast_ring" -> Ibcast_scatter_ring_allgather(r, n, c.root, c.count)
        [] c.alg = "iallreduce_rec_dbl" -> Iallreduce_rec_dbl(r, n, c.count, c.in_place, c.flag)
        [] c.alg = "iallreduce_redscat" -> Iallreduce_redscat_allgather(r, n, c.count, c.in_place)
        [] c.alg = "iallreduce_naive" -> Iallreduce_naive(r, n, c.count, c.in_place, c.flag)
        [] c.alg = "ireduce_binomial" ->
             Ireduce_binomial(r, n, c.root, c.count,
                              IF c.in_place /\ r = c.root THEN "recv" ELSE "send", c.flag)
        [] c.alg = "ireduce_redscat" ->
             Ireduce_redscat_gather(r, n, c.root, c.count,
                                    IF c.in_place /\ r = c.root THEN "recv" ELSE "send")
        [] c.alg = "iscan" -> Iscan_rec_dbl(r, n, c.count, c.in_place, c.flag)
        [] c.alg = "iexscan" -> Iexscan(r, n, c.count, c.in_place, c.flag)
        [] c.alg = "ired_scat_rec_hlv" -> Ireduce_scatter_rec_hlv(r, n, RecvCounts(n), c.in_place)
        [] c.alg = "ired_scat_pairwise" -> Ireduce_scatter_pairwise(r, n, RecvCounts(n), c.in_place)
        [] c.alg = "ired_scat_rec_dbl" ->
             Ireduce_scatter_rec_dbl(r, n, RecvCounts(n), c.in_place, c.flag)
        [] c.alg = "ired_scat_noncomm" -> Ireduce_scatter_noncomm(r, n, c.count, c.in_place)
        [] c.alg = "iallgather_rec_dbl" -> Iallgather_rec_dbl(r, n, c.in_place)
        [] c.alg = "iallgather_bruck" -> Iallgather_bruck(r, n, c.in_place)
        [] c.alg = "iallgather_ring" -> Iallgather_ring(r, n, c.in_place)
        [] c.alg = "ialltoall_inplace" -> Ialltoall_inplace(r, n)
        [] c.alg = "ialltoall_bruck" -> Ialltoall_bruck(r, n)
        [] c.alg = "ialltoall_perm_sr" -> Ialltoall_perm_sr(r, n, c.count)
        [] c.alg = "ialltoall_pairwise" -> Ialltoall_pairwise(r, n)
        [] c.alg = "igather" -> Igather_binomial(r, n, c.root, c.in_place, c.flag)
        [] c.alg = "iscatter" -> Iscatter_intra(r, n, c.root, c.in_place /\ r = c.root)

Kind(c) ==
  CASE c.alg = "ibarrier" -> "barrier"
    [] c.alg \in {"ibcast_binomial", "ibcast_rec_dbl", "ibcast_ring"} -> "bcast"
    [] c.alg \in {"iallreduce_rec_dbl", "iallreduce_redscat", "iallreduce_naive"} -> "allreduce"
    [] c.alg \in {"ireduce_binomial", "ireduce_redscat"} -> "reduce"
    [] c.alg \in {"ired_scat_rec_hlv", "ired_scat_pairwise", "ired_scat_rec_dbl",
                  "ired_scat_noncomm"} -> "red_scat"
    [] c.alg \in {"iallgather_rec_dbl", "iallgather_bruck", "iallgather_ring"} -> "allgather"
    [] c.alg \in {"ialltoall_inplace", "ialltoall_bruck", "ialltoall_perm_sr",
                  "ialltoall_pairwise"} -> "alltoall"
    [] OTHER -> c.alg

Cnts(c) == IF c.alg = "ired_scat_noncomm" THEN [i \in 0 .. c.n - 1 |-> c.count]
           ELSE RecvCounts(c.n)

\* The slots of process r that hold its contribution, element <<r, i>>.
Given(c, r) ==
  LET all(b, k) == {<<b, i>> : i \in 0 .. k - 1}
      b == IF c.in_place THEN "recv" ELSE "send"
      k == Kind(c)
  IN  CASE k = "barrier" -> {}
        [] k = "bcast" -> IF r = c.root THEN all("buffer", c.count) ELSE {}
        [] k = "reduce" -> all(IF r = c.root THEN b ELSE "send", c.count)
        [] k = "red_scat" -> all(b, Disp(Cnts(c), c.n))
        [] k = "allgather" -> IF c.in_place THEN {<<"recv", r>>} ELSE {<<"send", 0>>}
        [] k = "alltoall" -> all(b, c.n)
        [] k = "igather" -> IF c.in_place /\ r = c.root THEN {<<"recv", r>>} ELSE {<<"send", 0>>}
        [] k = "iscatter" -> IF r = c.root THEN all("send", c.n) ELSE {}
        [] OTHER -> all(b, c.count)

\* The buffers that process r uses.
Sizes(c, r) ==
  LET n == c.n
      k == Kind(c)
      t == Disp(Cnts(c), n)
      one == c.count
  IN  CASE k = "barrier" -> << >>
        [] k = "bcast" -> [buffer |-> one, tmp |-> one]
        [] k = "allreduce" -> [send |-> one, recv |-> one, tmp |-> one, acc |-> one]
        [] k = "reduce" -> [send |-> one, recv |-> one, tmp |-> one, acc |-> one]
        [] k = "red_scat" -> [send |-> t, recv |-> IF c.in_place THEN t ELSE Cnts(c)[r],
                              tmp |-> t, results |-> t, tmp0 |-> t, tmp1 |-> t]
        [] k = "allgather" -> [send |-> 1, recv |-> n, tmp |-> n]
        [] k = "alltoall" -> [send |-> n, recv |-> n, tmp |-> n, tmp2 |-> n]
        [] k = "igather" ->
             LET rel == (r - c.root + n) % n
             IN  [send |-> 1, recv |-> IF rel = 0 THEN n ELSE 0,
                  tmp |-> Min2(Lowest(rel, n) - 1, n - 1 - rel) + (IF c.flag THEN 1 ELSE 0)]
        [] k = "iscatter" -> [send |-> n, recv |-> 1, tmp |-> ScatterTmp((r - c.root + n) % n, n)]
        [] OTHER -> [send |-> one, recv |-> one, tmp |-> one, partial |-> one]

\* Only slots that are given, wanted or named by the schedule are kept.
Slots(c, r, list) ==
  LET size == Sizes(c, r)
      used == UNION {ToSet(list[i].in) \cup ToSet(list[i].out) : i \in DOMAIN list}
  IN  {s \in used \cup Given(c, r) : s[1] \in DOMAIN size /\ s[2] < size[s[1]]}

\* What process r must have in the end: element i of processes 0 .. p - 1.
All(p, i) == [q \in 1 .. p |-> <<q - 1, i>>]
Wanted(c, r) ==
  LET k == Kind(c)
      Fill(b, m, F(_)) == [s \in {<<b, i>> : i \in 0 .. m - 1} |-> F(s[2])]
  IN  CASE k = "bcast" -> Fill("buffer", c.count, LAMBDA i : << <<c.root, i>> >>)
        [] k = "allreduce" -> Fill("recv", c.count, LAMBDA i : All(c.n, i))
        [] k = "reduce" /\ r = c.root -> Fill("recv", c.count, LAMBDA i : All(c.n, i))
        [] k = "red_scat" -> Fill("recv", Cnts(c)[r], LAMBDA i : All(c.n, Disp(Cnts(c), r) + i))
        [] k = "allgather" -> Fill("recv", c.n, LAMBDA i : << <<i, 0>> >>)
        [] k = "alltoall" -> Fill("recv", c.n, LAMBDA i : << <<i, r>> >>)
        [] k = "igather" /\ r = c.root -> Fill("recv", c.n, LAMBDA i : << <<i, 0>> >>)
        [] k = "iscatter" /\ ~(c.in_place /\ r = c.root) ->
             Fill("recv", 1, LAMBDA i : << <<c.root, r>> >>)
        [] k = "iscan" -> Fill("recv", c.count, LAMBDA i : All(r + 1, i))
        [] k = "iexscan" /\ r > 0 -> Fill("recv", c.count, LAMBDA i : All(r, i))
        [] k = "iexscan" /\ c.in_place -> Fill("recv", c.count, LAMBDA i : All(1, i))
        [] OTHER -> << >>

Setup(c, eager, prompt) ==
  LET ranks == 0 .. c.n - 1
      list == [r \in ranks |-> Sched(Build(c, r))]
      Init0(r, s) == IF s \notin Given(c, r) THEN << >>
                     ELSE << <<r, IF Kind(c) \in {"allgather", "igather"} THEN 0 ELSE s[2]>> >>
  IN  [name |-> c, prompt |-> prompt, eager |-> eager, entries |-> list, match |-> Matches(list),
       buf |-> [r \in ranks |-> [s \in Slots(c, r, list[r]) |-> Init0(r, s)]],
       count |-> [r \in ranks |-> CASE Kind(c) = "allgather" -> 1
                                     [] Kind(c) = "iscatter" /\ r = c.root -> c.n
                                     [] OTHER -> 0],
       want |-> [r \in ranks |-> Wanted(c, r)],
       ordered |-> ~c.flag,
       barrier |-> c.alg = "ibarrier",
       miscounts |->
         {r \in ranks : /\ c.alg \in {"ibcast_rec_dbl", "ibcast_ring"}
                        /\ Pieces(c.n, c.count, (r - c.root + c.n) % c.n, 1) # << >>}]

\* Progress is independent of the steps of other processes, and putting it off is
\* like putting off the messages that it leads to.  Where coll.prompt holds it is
\* taken at once, by one process after the other.
Quiet == coll.prompt => \A p \in P : ~CanProgress(p)

MCNext ==
  \/ \E p \in P : Sched_start(p) /\ Quiet
  \/ \E p \in P : /\ Sched_progress_state(p)
                  /\ coll.prompt => \A q \in P : CanProgress(q) => p <= q
  \/ \E p \in P : \E i \in Indices(p) : Receive(p, i) /\ Quiet
  \/ Done
MCSpec == Init /\ [][MCNext]_vars

\* Three and four processes, with short messages sent at once or not.
Small ==
  LET N == {3, 4}
      C(algs, ns, roots, counts, places, flags) ==
        {Case(a, n, r, k, i, f) : a \in algs, n \in ns, r \in roots, k \in counts,
                                  i \in places, f \in flags}
      any == BOOLEAN
      no == {FALSE}
      yes == {TRUE}
  IN  C({"ibarrier"}, N, {0}, {0}, no, yes)
      \cup C({"ibcast_binomial"}, N, {0, 2}, {1}, no, any)
      \cup C({"ibcast_ring"}, N, {0, 2}, {5}, no, yes)
      \cup C({"ibcast_rec_dbl"}, {4}, {0, 2}, {3, 5}, no, yes)
      \cup C({"iallreduce_rec_dbl", "iallreduce_naive", "iscan", "iexscan"}, N, {0}, {1}, any, any)
      \cup C({"iallreduce_redscat"}, N, {0}, {5}, any, yes)
      \cup C({"ireduce_binomial"}, N, {0, 1}, {1}, any, any)
      \cup C({"ireduce_redscat"}, N, {0, 1, 2}, {5}, any, yes)
      \cup C({"ired_scat_rec_hlv", "ired_scat_pairwise"}, N, {0}, {1}, any, yes)
      \cup C({"ired_scat_rec_dbl"}, N, {0}, {1}, any, any)
      \cup C({"ired_scat_noncomm"}, {4}, {0}, {1}, any, no)
      \cup C({"iallgather_bruck", "iallgather_ring"}, N, {0}, {1}, any, no)
      \cup C({"iallgather_rec_dbl"}, {4}, {0}, {1}, any, no)
      \cup C({"ialltoall_inplace"}, N, {0}, {1}, yes, no)
      \cup C({"ialltoall_bruck", "ialltoall_pairwise"}, N, {0}, {1}, no, no)
      \cup C({"ialltoall_perm_sr"}, {3}, {0}, {2, 3}, no, no)
      \cup C({"igather"}, N, {0, 2}, {1}, any, any)
      \cup C({"iscatter"}, N, {0, 2}, {1}, any, yes)

\* Five and six processes, one or two more than a power of two.
Large ==
  {Case("iallreduce_rec_dbl", n, 0, 1, FALSE, FALSE) : n \in {5, 6}}
  \cup {Case("iallreduce_redscat", 6, 0, 5, TRUE, TRUE)}
  \cup {Case("ireduce_redscat", 6, r, 5, FALSE, TRUE) : r \in {3, 5}}
  \cup {Case(a, n, 0, 1, FALSE, TRUE) : a \in {"ired_scat_rec_hlv", "ired_scat_pairwise"},
                                        n \in {5, 6}}
  \cup {Case("ired_scat_rec_dbl", n, 0, 1, FALSE, FALSE) : n \in {5, 6}}
  \cup {Case("iscan", 6, 0, 1, FALSE, FALSE), Case("iexscan", 6, 0, 1, TRUE, FALSE),
        Case("iallgather_bruck", 6, 0, 1, FALSE, FALSE),
        Case("ialltoall_bruck", 5, 0, 1, FALSE, FALSE),
        Case("ibcast_ring", 5, 1, 7, FALSE, TRUE),
        Case("iscatter", 6, 4, 1, FALSE, TRUE)}
  \cup {Case("igather", n, r, 1, FALSE, v) : n \in {5, 6}, r \in {2, 4}, v \in BOOLEAN}

\* Three processes with every order of their steps.
Tiny == {Case("ibarrier", 3, 0, 0, FALSE, TRUE), Case("ibcast_ring", 3, 1, 5, FALSE, TRUE),
         Case("iallreduce_rec_dbl", 3, 0, 1, FALSE, FALSE),
         Case("iallgather_ring", 3, 0, 1, FALSE, FALSE)}

MCColls ==
  LET jobs == {<<c, e, TRUE>> : c \in Small, e \in {0, 1, 9}}
              \cup {<<c, 0, TRUE>> : c \in Large}
              \cup {<<c, e, FALSE>> : c \in Tiny, e \in {0, 9}}
  IN  {Setup(j[1], j[2], j[3]) : j \in jobs}
=============================================================================
