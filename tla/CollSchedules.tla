--------------------------- MODULE CollSchedules ---------------------------
(***************************************************************************)
(* The algorithms of the nonblocking collectives (src/mpi/coll/i*.c), as   *)
(* the schedules that they build: one operator per algorithm, whose value  *)
(* is the list of entries that process r of n adds.                        *)
(*                                                                         *)
(* Counts are in blocks or, where an algorithm divides a buffer, in        *)
(* elements.  Types are contiguous unless an operator has a parameter that *)
(* says otherwise.                                                         *)
(***************************************************************************)
EXTENDS Integers, Sequences, SequencesExt, Bitwise

\* Slots i .. i + k - 1 of buffer b.
Blk(b, i, k) == [j \in 1 .. k |-> <<b, i + j - 1>>]

\* MPIR_Sched_send, _send_defer, _recv, _reduce, _copy and _cb.
Send(q, S) == [op |-> "SEND", peer |-> q, in |-> S, out |-> <<>>, len |-> "all"]
SendDefer(q, S, c) == [Send(q, S) EXCEPT !.len = c]
Recv(q, S) == [op |-> "RECV", peer |-> q, in |-> <<>>, out |-> S]
Reduce(A, B) == [op |-> "REDUCE", in |-> A, out |-> B]
Copy(A, B) == [op |-> "COPY", in |-> A, out |-> B]
Cb(f, arg) == [op |-> f, in |-> <<>>, out |-> <<>>, arg |-> arg]
BARRIER == [op |-> "BARRIER"]

WithBarrier(e, b) == [f \in DOMAIN e \cup {"barrier"} |-> IF f = "barrier" THEN b ELSE e[f]]

\* MPIDU_Sched_barrier marks the last entry, if there is one.
Sched(list) ==
  FoldLeft(LAMBDA s, e : IF e # BARRIER THEN Append(s, WithBarrier(e, FALSE))
                         ELSE IF s = <<>> THEN s
                         ELSE [s EXCEPT ![Len(s)].barrier = TRUE], <<>>, list)

\* The lists F(x) for the elements x of s, one after the other.
ForEach(s, F(_)) == FlattenSeq([i \in DOMAIN s |-> F(s[i])])

If(b, list) == IF b THEN list ELSE <<>>
Min2(a, b) == IF a < b THEN a ELSE b
Max2(a, b) == IF a < b THEN b ELSE a

\* The powers of two below n, and the greatest one that is not greater than n.
Masks(n) == SelectSeq([i \in 1 .. n |-> i], LAMBDA i : i < n /\ \E k \in 0 .. i : i = 2^k)
Pof2(n) == CHOOSE m \in 1 .. n : (\E k \in 0 .. n : m = 2^k) /\ 2 * m > n
Down(s) == Reverse(s)
Bit(x, m) == (x \div m) % 2 = 1
Upto(a, b) == [i \in 1 .. b - a + 1 |-> a + i - 1]

-----------------------------------------------------------------------------
(* Barrier and broadcast.                                                  *)

\* Mutant: one round too few unless n is a power of two.
Ibarrier_intraShort(r, n) ==
  ForEach(Masks(Pof2(n)), LAMBDA m :
    <<Send((r + m) % n, <<>>), Recv((r - m + n) % n, <<>>), BARRIER>>)

Ibarrier_intra(r, n) ==
  ForEach(Masks(n), LAMBDA m :
    <<Send((r + m) % n, <<>>), Recv((r - m + n) % n, <<>>), BARRIER>>)

\* In a binomial tree the process with relative rank rel has its parent at the
\* lowest bit of rel and its children at the bits below.
Lowest(rel, n) == IF rel = 0 THEN 2 * Pof2(n)
                  ELSE CHOOSE m \in 1 .. rel : (\E k \in 0 .. m : m = 2^k)
                                               /\ Bit(rel, m) /\ rel % m = 0
Below(rel, n) == Down(SelectSeq(Masks(n), LAMBDA m : m < Lowest(rel, n)))

\* Mutant: the length is tested while the message is under way.
RecvTestEarly(q, S) == <<Recv(q, S), Cb("test_length", Len(S)), BARRIER>>

\* recv_status, and the callback that tests the length.
RecvTest(q, S) == <<Recv(q, S), BARRIER, Cb("test_length", Len(S)), BARRIER>>

Ibcast_binomial(r, n, root, count, buffer, is_contig) ==
  LET rel == (r - root + n) % n
      all == Blk(IF is_contig THEN buffer ELSE "tmp", 0, count)
  IN  IF n = 1 THEN <<>> ELSE
      If(~is_contig /\ r = root, <<Copy(Blk(buffer, 0, count), all), BARRIER>>)
      \o If(rel # 0, RecvTest((r - Lowest(rel, n) + n) % n, all))
      \o ForEach(Below(rel, n), LAMBDA m : If(rel + m < n, <<Send((r + m) % n, all)>>))
      \o If(~is_contig /\ r # root,
            <<BARRIER, Copy(all, Blk(buffer, 0, count)), BARRIER>>)

CeilDiv(a, b) == (a + b - 1) \div b

\* curr is curr_size: how much this process believes it has.
Iscatter_for_bcast(r, n, root, nbytes) ==
  LET rel == (r - root + n) % n
      size == CeilDiv(nbytes, n)
      recv_size == Max2(nbytes - rel * size, 0)
      Step(st, m) ==
        LET send_size == st.curr - size * m
        IN  IF rel + m < n /\ send_size > 0
            THEN [curr |-> st.curr - send_size,
                  list |-> Append(st.list, Send((r + m) % n,
                                                Blk("buffer", size * (rel + m), send_size)))]
            ELSE st
  IN  If(rel # 0 /\ recv_size > 0,
         <<Recv((r - Lowest(rel, n) + n) % n, Blk("buffer", rel * size, recv_size)), BARRIER>>)
      \o FoldLeft(Step, [curr |-> IF rel = 0 THEN nbytes ELSE recv_size, list |-> <<>>],
                  Below(rel, n)).list

\* Pieces i .. i + k - 1 of the scattered buffer.
Pieces(n, nbytes, i, k) ==
  LET size == CeilDiv(nbytes, n)
  IN  Blk("buffer", i * size, Max2(Min2(k * size, nbytes - i * size), 0))

\* recv_status, and the callback that adds up the lengths.
RecvCount(q, S) == <<Recv(q, S), BARRIER, Cb("add_curr", 0), BARRIER>>

\* The number of processes is a power of two here: the part for other numbers is
\* never executed.
Ibcast_scatter_rec_dbl_allgather(r, n, root, nbytes) ==
  LET rel == (r - root + n) % n
  IN  IF n = 1 THEN <<>> ELSE
      Iscatter_for_bcast(r, n, root, nbytes)
      \o ForEach(Masks(n), LAMBDA m :
           LET rdst == rel ^^ m
               Tree(x) == Pieces(n, nbytes, (x \div m) * m, m)
           IN  <<Send((rdst + root) % n, Tree(rel))>>
               \o RecvCount((rdst + root) % n, Tree(rdst)))
      \o <<Cb("test_curr_length", nbytes)>>

Ibcast_scatter_ring_allgather(r, n, root, nbytes) ==
  LET Piece(j) == Pieces(n, nbytes, (j - root + 2 * n) % n, 1)
  IN  IF n = 1 THEN <<>> ELSE
      Iscatter_for_bcast(r, n, root, nbytes)
      \o ForEach(Upto(1, n - 1), LAMBDA i :
           <<Send((r + 1) % n, Piece(r - i + 1))>>
           \o RecvCount((n + r - 1) % n, Piece(r - i)))
      \o <<Cb("test_curr_length", nbytes)>>

-----------------------------------------------------------------------------
(* Reductions.                                                             *)

\* Mutant: the order of the operands is ignored.
CombineSwapped(in, acc, inorder) == <<Reduce(in, acc), BARRIER>>

\* acc = in op acc if the order is right, else acc = acc op in.
Combine(in, acc, inorder) ==
  IF inorder THEN <<Reduce(in, acc), BARRIER>>
  ELSE <<Reduce(acc, in), BARRIER, Copy(in, acc), BARRIER>>

\* The first 2 * Rem(n) processes form pairs.  The process of a pair whose parity
\* is odd stands for both, which leaves a power of two; the other is -1.
Rem(n) == n - Pof2(n)
NewRank(r, n, odd) == IF r >= 2 * Rem(n) THEN r - Rem(n)
                      ELSE IF r % 2 = odd THEN r \div 2 ELSE -1
OldRank(v, n, odd) == IF v < Rem(n) THEN 2 * v + odd ELSE v + Rem(n)
Partner(r) == IF r % 2 = 0 THEN r + 1 ELSE r - 1

FoldPair(r, n, odd, acc, tmp) ==
  IF r >= 2 * Rem(n) THEN <<>>
  ELSE IF r % 2 = odd THEN <<Recv(Partner(r), tmp), BARRIER, Reduce(tmp, acc), BARRIER>>
  ELSE <<Send(Partner(r), acc), BARRIER>>

UnfoldPair(r, n, odd, S, R) ==
  IF r >= 2 * Rem(n) THEN <<>>
  ELSE IF r % 2 = odd THEN <<Send(Partner(r), S)>> ELSE <<Recv(Partner(r), R)>>

\* Recursive halving: the sum over the bits of v below m of half of the region
\* that is divided at that bit.  v and its partner at m divide a region of
\* pof2 / m pieces; v keeps the half from Base(v, 2 * m, pof2).
Base(v, m, pof2) ==
  FoldLeft(LAMBDA s, k : s + (IF Bit(v, k) /\ k < m THEN pof2 \div (2 * k) ELSE 0),
           0, Masks(pof2))

\* Elements of the half that v keeps at m.  The last piece takes the rest.
Half(b, count, n, v, m) ==
  LET pof2 == Pof2(n)
      c == count \div pof2
      i == Base(v, 2 * m, pof2)
      k == pof2 \div (2 * m)
  IN  Blk(b, i * c, IF i + k = pof2 THEN count - i * c ELSE k * c)

Iallreduce_rec_dbl(r, n, count, in_place, is_commutative) ==
  LET recv == Blk("recv", 0, count)
      tmp == Blk("tmp", 0, count)
      v == NewRank(r, n, 1)
  IN  If(~in_place, <<Copy(Blk("send", 0, count), recv), BARRIER>>)
      \o FoldPair(r, n, 1, recv, tmp)
      \o If(v # -1, ForEach(Masks(Pof2(n)), LAMBDA m :
              LET dst == OldRank(v ^^ m, n, 1)
              IN  <<Recv(dst, tmp), Send(dst, recv), BARRIER>>
                  \o Combine(tmp, recv, is_commutative \/ dst < r)))
      \o UnfoldPair(r, n, 1, recv, recv)

Iallreduce_redscat_allgather(r, n, count, in_place) ==
  LET recv == Blk("recv", 0, count)
      v == NewRank(r, n, 1)
      Keep(b, m) == Half(b, count, n, v, m)
      Give(b, m) == Half(b, count, n, v ^^ m, m)
  IN  If(~in_place, <<Copy(Blk("send", 0, count), recv), BARRIER>>)
      \o FoldPair(r, n, 1, recv, Blk("tmp", 0, count))
      \o If(v # -1, ForEach(Masks(Pof2(n)), LAMBDA m :
              LET dst == OldRank(v ^^ m, n, 1)
              IN  <<Recv(dst, Keep("tmp", m)), Send(dst, Give("recv", m)), BARRIER,
                    Reduce(Keep("tmp", m), Keep("recv", m)), BARRIER>>))
      \o If(v # -1, ForEach(Down(Masks(Pof2(n))), LAMBDA m :
              LET dst == OldRank(v ^^ m, n, 1)
              IN  <<Recv(dst, Give("recv", m)), Send(dst, Keep("recv", m)), BARRIER>>))
      \o UnfoldPair(r, n, 1, recv, recv)

\* src is the buffer with the contribution: "recv" in place.
Ireduce_binomial(r, n, root, count, src, is_commutative) ==
  LET acc == Blk(IF r = root THEN "recv" ELSE "acc", 0, count)
      tmp == Blk("tmp", 0, count)
      lroot == IF is_commutative THEN root ELSE 0
      rel == (r - lroot + n) % n
  IN  If(r # root \/ src # "recv", <<Copy(Blk(src, 0, count), acc), BARRIER>>)
      \o ForEach(Down(Below(rel, n)), LAMBDA m :
           If(rel + m < n, <<Recv((rel + m + lroot) % n, tmp), BARRIER>>
                           \o Combine(tmp, acc, is_commutative)))
      \o If(rel # 0, <<Send((rel - Lowest(rel, n) + lroot) % n, acc), BARRIER>>)
      \o If(~is_commutative /\ root # 0,
            IF r = 0 THEN <<Send(root, acc), BARRIER>>
            ELSE If(r = root, <<Recv(0, acc), BARRIER>>))

\* The root stands in for process 0 in the gather if it took no part before.
Ireduce_redscat_gather(r, n, root, count, src) ==
  LET acc == IF r = root THEN "recv" ELSE "acc"
      all == Blk(acc, 0, count)
      v == NewRank(r, n, 0)
      swap == root < 2 * Rem(n) /\ root % 2 # 0
      w == IF ~swap THEN v ELSE IF r = root THEN 0 ELSE IF v = 0 THEN -1 ELSE v
      newroot == IF swap THEN 0 ELSE NewRank(root, n, 0)
      Dst(x) == IF x = 0 /\ swap THEN root ELSE OldRank(x, n, 0)
      first == Blk(acc, 0, count \div Pof2(n))
      sends == SelectSeq(Down(Masks(Pof2(n))), LAMBDA m : (w ^^ m) \div m = newroot \div m)
      Before(m) == sends = <<>> \/ m > sends[1]
  IN  If(r # root \/ src # "recv", <<Copy(Blk(src, 0, count), all)>>)
      \o FoldPair(r, n, 0, all, Blk("tmp", 0, count))
      \o If(v # -1, ForEach(Masks(Pof2(n)), LAMBDA m :
              LET dst == OldRank(v ^^ m, n, 0)
              IN  <<Send(dst, Half(acc, count, n, v ^^ m, m)),
                    Recv(dst, Half("tmp", count, n, v, m)), BARRIER,
                    Reduce(Half("tmp", count, n, v, m), Half(acc, count, n, v, m)), BARRIER>>))
      \o If(swap, IF r = root THEN <<Recv(0, first), BARRIER>>
                  ELSE If(v = 0, <<Send(root, first), BARRIER>>))
      \o If(w # -1,
           ForEach(SelectSeq(Down(Masks(Pof2(n))), Before), LAMBDA m :
                     <<Recv(Dst(w ^^ m), Half(acc, count, n, w ^^ m, m)), BARRIER>>)
           \o If(sends # <<>>, <<Send(Dst(w ^^ sends[1]),
                                      Half(acc, count, n, w, sends[1])), BARRIER>>))

Iallreduce_naive(r, n, count, in_place, is_commutative) ==
  Ireduce_binomial(r, n, 0, count, IF in_place THEN "recv" ELSE "send", is_commutative)
  \o <<BARRIER>> \o Ibcast_binomial(r, n, 0, count, "recv", TRUE)

\* One step of a scan: exchange of partial results with r ^^ m.
ScanStep(r, m, count, is_commutative, below) ==
  LET dst == r ^^ m
      partial == Blk("partial", 0, count)
      tmp == Blk("tmp", 0, count)
  IN  <<Send(dst, partial), Recv(dst, tmp), BARRIER>>
      \o IF r > dst THEN below ELSE Combine(tmp, partial, is_commutative)

Iscan_rec_dbl(r, n, count, in_place, is_commutative) ==
  LET src == Blk(IF in_place THEN "recv" ELSE "send", 0, count)
      recv == Blk("recv", 0, count)
      partial == Blk("partial", 0, count)
      tmp == Blk("tmp", 0, count)
  IN  If(~in_place, <<Copy(src, recv)>>) \o <<Copy(src, partial)>>
      \o ForEach(Masks(n), LAMBDA m : If(r ^^ m < n,
           ScanStep(r, m, count, is_commutative,
                    <<Reduce(tmp, partial), Reduce(tmp, recv), BARRIER>>)))

Iexscan(r, n, count, in_place, is_commutative) ==
  LET recv == Blk("recv", 0, count)
      partial == Blk("partial", 0, count)
      tmp == Blk("tmp", 0, count)
  IN  <<Copy(Blk(IF in_place THEN "recv" ELSE "send", 0, count), partial)>>
      \o ForEach(Masks(n), LAMBDA m : If(r ^^ m < n,
           ScanStep(r, m, count, is_commutative,
                    <<Reduce(tmp, partial), BARRIER,
                      IF r % m = 0 THEN Copy(tmp, recv) ELSE Reduce(tmp, recv), BARRIER>>)))

-----------------------------------------------------------------------------
(* Reduce-scatter: process i gets cnts[i] elements of the result.          *)

Disp(cnts, i) == FoldLeft(LAMBDA s, j : s + cnts[j], 0, Upto(0, i - 1))
Seg(b, cnts, i, j) == Blk(b, Disp(cnts, i), Disp(cnts, j) - Disp(cnts, i))
Own(b, cnts, r) == Seg(b, cnts, r, r + 1)
Total(b, cnts, n) == Seg(b, cnts, 0, n)
Result(cnts, r) == Blk("recv", 0, cnts[r])

\* Mutant: only the receives of length 0 are left out.
Unless0Recv(e, S) == If(S # <<>> \/ e.op = "SEND", <<e>>)

\* Messages of length 0 go to MPI_PROC_NULL.
Unless0(e, S) == If(S # <<>>, <<e>>)

\* The piece of a process that stands for two is the pieces of both.
Ireduce_scatter_rec_hlv(r, n, cnts, in_place) ==
  LET v == NewRank(r, n, 1)
      First(x) == IF x < Rem(n) THEN 2 * x ELSE x + Rem(n)
      Region(b, x, m) == LET i == (x \div m) * m IN Seg(b, cnts, First(i), First(i + m))
      back == Own("results", cnts, r - 1)
  IN  <<Copy(Total(IF in_place THEN "recv" ELSE "send", cnts, n), Total("results", cnts, n)),
        BARRIER>>
      \o FoldPair(r, n, 1, Total("results", cnts, n), Total("tmp", cnts, n))
      \o If(v # -1,
           ForEach(Down(Masks(Pof2(n))), LAMBDA m :
             LET dst == OldRank(v ^^ m, n, 1)
                 give == Region("results", v ^^ m, m)
                 keep == Region("tmp", v, m)
             IN  Unless0(Send(dst, give), give) \o Unless0(Recv(dst, keep), keep)
                 \o <<BARRIER>> \o Unless0(Reduce(keep, Region("results", v, m)), keep)
                 \o <<BARRIER>>)
           \o If(cnts[r] # 0, <<Copy(Own("results", cnts, r), Result(cnts, r)), BARRIER>>))
      \o If(r < 2 * Rem(n),
            IF r % 2 = 1 THEN Unless0(Send(r - 1, back), back)
            ELSE If(cnts[r] # 0, <<Recv(r + 1, Result(cnts, r))>>))

Ireduce_scatter_pairwise(r, n, cnts, in_place) ==
  LET src == IF in_place THEN "recv" ELSE "send"
      acc == IF in_place THEN Own("recv", cnts, r) ELSE Result(cnts, r)
      tmp == Blk("tmp", 0, cnts[r])
  IN  If(~in_place, <<Copy(Own("send", cnts, r), acc), BARRIER>>)
      \o ForEach(Upto(1, n - 1), LAMBDA i :
           LET dst == (r + i) % n
           IN  <<Send(dst, Own(src, cnts, dst)), Recv((r - i + n) % n, tmp), BARRIER,
                 Reduce(tmp, acc), BARRIER>>)
      \o If(in_place /\ r # 0, <<Copy(acc, Result(cnts, r)), BARRIER>>)

\* The elements of all processes but those of the subtree of m processes at x.
Others(b, cnts, n, x, m) ==
  Seg(b, cnts, 0, Min2(x, n)) \o Seg(b, cnts, Min2(x + m, n), n)

\* Without a partner a process gets its data from its own subtree, where the
\* first done processes have them and pass them on.
Ireduce_scatter_rec_dbl(r, n, cnts, in_place, is_commutative) ==
  LET Root(x, m) == (x \div m) * m
      InTree(m, R) ==
        LET done == n - Root(r, m) - m
        IN  ForEach(Down(Masks(m)), LAMBDA t :
              LET dst == r ^^ t
                  has == Root(r, 2 * t) + done
              IN  If(r < dst /\ r < has /\ dst >= has, <<Send(dst, R), BARRIER>>)
                  \o If(dst < r /\ dst < has /\ r >= has, <<Recv(dst, R), BARRIER>>))
      Step(m) ==
        LET dst == r ^^ m
            S == Others("results", cnts, n, Root(r, m), m)
            R == Others("tmp", cnts, n, Root(dst, m), m)
            A == Others("results", cnts, n, Root(dst, m), m)
            list == If(dst < n, <<Send(dst, S), Recv(dst, R), BARRIER>>)
                    \o If(Root(dst, m) + m > n, InTree(m, R))
        IN  list \o If(\E i \in DOMAIN list : list[i].op = "RECV",
                       Combine(R, A, is_commutative \/ dst < r))
  IN  <<Copy(Total(IF in_place THEN "recv" ELSE "send", cnts, n), Total("results", cnts, n)),
        BARRIER>>
      \o ForEach(Masks(n), Step)
      \o <<Copy(Own("results", cnts, r), Result(cnts, r)), BARRIER>>

\* n is a power of two and every process gets count elements.  Base reverses the
\* bits of a number (MPIU_Mirror_permutation).  The buffers change roles after
\* every step in which r was the lower of the two.
Ireduce_scatter_noncomm(r, n, count, in_place) ==
  LET clear(m) == Len(SelectSeq(Masks(n), LAMBDA k : k < m /\ ~Bit(r, k)))
      Out(m) == IF clear(m) % 2 = 0 THEN "tmp0" ELSE "tmp1"
      In(m) == IF clear(m) % 2 = 0 THEN "tmp1" ELSE "tmp0"
      Part(b, x, m) == Blk(b, Base(x, 2 * m, n) * count, (n \div (2 * m)) * count)
  IN  ForEach(Upto(0, n - 1), LAMBDA i :
        <<Copy(Blk(IF in_place THEN "recv" ELSE "send", i * count, count),
               Blk("tmp0", Base(i, n, n) * count, count)), BARRIER>>)
      \o ForEach(Masks(n), LAMBDA m :
           <<Send(r ^^ m, Part(Out(m), r ^^ m, m)), Recv(r ^^ m, Part(In(m), r, m)), BARRIER,
             IF Bit(r, m) THEN Reduce(Part(In(m), r, m), Part(Out(m), r, m))
             ELSE Reduce(Part(Out(m), r, m), Part(In(m), r, m)), BARRIER>>)
      \o <<Copy(Blk(Out(n), Base(r, n, n) * count, count), Blk("recv", 0, count))>>

-----------------------------------------------------------------------------
(* Gather, scatter, allgather and alltoall of one block per process.       *)

\* curr_count is what this process has; a deferred send sends that much.
Iallgather_rec_dbl(r, n, in_place) ==
  LET Root(x, m) == (x \div m) * m
  IN  If(~in_place, <<Copy(Blk("send", 0, 1), Blk("recv", r, 1)), BARRIER>>)
      \o ForEach(Masks(n), LAMBDA m :
           LET dst == r ^^ m
           IN  <<SendDefer(dst, Blk("recv", Root(r, m), n - Root(r, m)), "curr")>>
               \o RecvCount(dst, Blk("recv", Root(dst, m), n - Root(dst, m))))

Iallgather_bruck(r, n, in_place) ==
  LET Exchange(m, k) == <<Send((r - m + n) % n, Blk("tmp", 0, k)),
                          Recv((r + m) % n, Blk("tmp", m, k)), BARRIER>>
  IN  <<IF in_place THEN Copy(Blk("recv", r, 1), Blk("tmp", 0, 1))
        ELSE Copy(Blk("send", 0, 1), Blk("tmp", 0, 1)), BARRIER>>
      \o ForEach(Masks(Pof2(n)), LAMBDA m : Exchange(m, m))
      \o If(Rem(n) # 0, Exchange(Pof2(n), Rem(n)))
      \o <<Copy(Blk("tmp", 0, n - r), Blk("recv", r, n - r)), BARRIER>>
      \o If(r # 0, <<Copy(Blk("tmp", n - r, r), Blk("recv", 0, r))>>)

Iallgather_ring(r, n, in_place) ==
  If(~in_place, <<Copy(Blk("send", 0, 1), Blk("recv", r, 1)), BARRIER>>)
  \o ForEach(Upto(1, n - 1), LAMBDA i :
       <<Send((r + 1) % n, Blk("recv", (r - i + 1 + n) % n, 1)),
         Recv((n + r - 1) % n, Blk("recv", (r - i + n) % n, 1)), BARRIER>>)

\* Every pair exchanges its blocks, in the same order everywhere.
Ialltoall_inplace(r, n) ==
  ForEach(Upto(0, n - 1), LAMBDA i : ForEach(Upto(i + 1, n - 1), LAMBDA j :
    If(r \in {i, j},
       LET peer == IF r = i THEN j ELSE i
       IN  <<Copy(Blk("recv", peer, 1), Blk("tmp", 0, 1)), BARRIER,
             Send(peer, Blk("tmp", 0, 1)), Recv(peer, Blk("recv", peer, 1)), BARRIER>>)))

Ialltoall_bruck(r, n) ==
  LET WithBit(m) == ForEach(Upto(1, n - 1), LAMBDA i : If(Bit(i, m), Blk("recv", i, 1)))
  IN  <<Copy(Blk("send", r, n - r), Blk("recv", 0, n - r)),
        Copy(Blk("send", 0, r), Blk("recv", n - r, r)), BARRIER>>
      \o ForEach(Masks(n), LAMBDA m :
           LET tmp == Blk("tmp", 0, Len(WithBit(m)))
           IN  <<Copy(WithBit(m), tmp), BARRIER, Send((r + m) % n, tmp),
                 Recv((r - m + n) % n, WithBit(m)), BARRIER>>)
      \o <<Copy(Blk("recv", r + 1, n - r - 1), Blk("tmp2", 0, n - r - 1)),
           Copy(Blk("recv", 0, r + 1), Blk("tmp2", n - r - 1, r + 1)), BARRIER>>
      \o [i \in 1 .. n |-> Copy(Blk("tmp2", i - 1, 1), Blk("recv", n - i, 1))]

\* Batches of at most bblock receives and as many sends.
Ialltoall_perm_sr(r, n, bblock) ==
  ForEach(SelectSeq(Upto(0, n - 1), LAMBDA ii : ii % bblock = 0), LAMBDA ii :
    LET ss == Min2(n - ii, bblock)
    IN  [i \in 1 .. ss |-> LET dst == (r + i - 1 + ii) % n
                           IN  Recv(dst, Blk("recv", dst, 1))]
        \o [i \in 1 .. ss |-> LET dst == (r - i + 1 - ii + n) % n
                              IN  Send(dst, Blk("send", dst, 1))]
        \o <<BARRIER>>)

Ialltoall_pairwise(r, n) ==
  <<Copy(Blk("send", r, 1), Blk("recv", r, 1))>>
  \o ForEach(Upto(1, n - 1), LAMBDA i :
       LET dst == IF Rem(n) = 0 THEN r ^^ i ELSE (r + i) % n
           src == IF Rem(n) = 0 THEN r ^^ i ELSE (r - i + n) % n
       IN  <<Send(dst, Blk("send", dst, 1)), Recv(src, Blk("recv", src, 1)), BARRIER>>)

\* vsmall: the message is shorter than MPIR_CVAR_GATHER_VSMALL_MSG_SIZE.  The
\* local copies are made while the schedule is built; they are the first entries
\* here, which start at the same time.
Igather_binomial(r, n, root, in_place, vsmall) ==
  LET rel == (r - root + n) % n
      below == SelectSeq(Down(Below(rel, n)), LAMBDA m : rel + m < n)
      Blks(m) == Min2(m, n - rel - m)
      sub == Min2(Lowest(rel, n) - 1, n - 1 - rel)
      Fits(m) == r + m + Blks(m) = n \/ (r + m) % n < (r + m + Blks(m)) % n
      AtRoot(m) ==
        IF Fits(m) THEN Blk("recv", (r + m) % n, Blks(m))
        ELSE IF vsmall THEN Blk("tmp", 0, Blks(m))
        ELSE Blk("recv", root + m, n - root - m)
             \o Blk("recv", 0, Blks(m) - (n - root - m))
      FromTmp(m) ==
        <<Copy(Blk("tmp", 0, n - root - m), Blk("recv", root + m, n - root - m)),
          Copy(Blk("tmp", n - root - m, Blks(m) - n + root + m),
               Blk("recv", 0, Blks(m) - n + root + m))>>
      mine == Blk("send", 0, 1)
  IN  IF r = root
      THEN If(~in_place, <<Copy(mine, Blk("recv", r, 1))>>)
           \o ForEach(below, LAMBDA m : <<Recv((m + root) % n, AtRoot(m)), BARRIER>>)
           \o ForEach(below, LAMBDA m : If(vsmall /\ ~Fits(m), FromTmp(m)))
      ELSE If(vsmall, <<Copy(mine, Blk("tmp", 0, 1))>>)
           \o ForEach(below, LAMBDA m :
                <<Recv((r + m) % n, Blk("tmp", IF vsmall THEN m ELSE m - 1, Blks(m))), BARRIER>>)
           \o <<Send((r - Lowest(rel, n) + n) % n,
                     IF vsmall THEN Blk("tmp", 0, sub + 1) ELSE mine \o Blk("tmp", 0, sub)),
                BARRIER>>

\* Mutant: the buffer is too small by one block if n is even.
ScatterTmpShort(rel, n) == IF rel = 0 THEN n ELSE (n - 1) \div 2

\* The size of the temporary buffer of a process that has some.
ScatterTmp(rel, n) == IF rel = 0 THEN n ELSE n \div 2

Iscatter_intra(r, n, root, in_place) ==
  LET rel == (r - root + n) % n
      b == IF r = root /\ root = 0 THEN "send" ELSE "tmp"
      one == Blk("recv", 0, 1)
      src == (r - Lowest(rel, n) + n) % n
  IN  If(r = root /\ root # 0,
         <<IF in_place THEN Copy(Blk("send", r + 1, n - r - 1), Blk("tmp", 1, n - r - 1))
           ELSE Copy(Blk("send", r, n - r), Blk("tmp", 0, n - r)),
           Copy(Blk("send", 0, r), Blk("tmp", n - r, r)), BARRIER>>)
      \o If(rel # 0,
           IF rel % 2 = 1 THEN <<Recv(src, one), BARRIER>>
           ELSE <<Recv(src, Blk("tmp", 0, ScatterTmp(rel, n))), BARRIER,
                  Cb("set_curr", 0), BARRIER>>)
      \o ForEach(Below(rel, n), LAMBDA m : If(rel + m < n,
           <<Cb("calc_send_count", m), BARRIER,
             SendDefer((r + m) % n, Blk(b, m, ScatterTmp(rel, n) - m), "sub"), BARRIER,
             Cb("calc_curr_count", 0), BARRIER>>))
      \o If(rel % 2 = 0 /\ ~in_place, <<Copy(Blk(b, 0, 1), one), BARRIER>>)
=============================================================================
