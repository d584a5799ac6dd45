-------------------------- MODULE CH3RMAStepProofs --------------------------
(***************************************************************************)
(* The steps of the origins of CH3RMA preserve the invariant, and so does  *)
(* MPIDI_CH3I_Release_lock, whichever step of the target calls it.         *)
(***************************************************************************)
EXTENDS CH3RMAInv, TLAPS, FiniteSetTheorems, WellFoundedInduction

-----------------------------------------------------------------------------
(* Induction over the numbers, for the loops of the target.                *)

\* A nonempty set of naturals has a least element.
LEMMA LeastNat ==
  ASSUME NEW T \in SUBSET Nat, T # {}
  PROVE  \E n \in T : \A m \in T : n <= m
<1>1. PICK R : R = OpToRel(<, Nat)
  OBVIOUS
<1>2. IsWellFoundedOn(R, Nat)
  BY <1>1, NatLessThanWellFounded
<1>3. PICK n \in T : \A m \in T : ~ (<<m, n>> \in R)
  BY <1>2, WFMin
<1>4. \A m \in Nat, k \in Nat : m < k => <<m, k>> \in R
  BY <1>1 DEF OpToRel
<1>5. \A m \in T : n <= m
  <2> TAKE m \in T
  <2>1. m \in Nat /\ n \in Nat /\ ~ (<<m, n>> \in R)
    BY <1>3
  <2>2. ~ (m < n)
    BY <2>1, <1>4
  <2> QED BY <2>1, <2>2
<1> QED BY <1>5

\* Induction over the naturals, for sets.
LEMMA NatSetInduction ==
  ASSUME NEW T \in SUBSET Nat, 0 \in T, \A n \in T : n + 1 \in T
  PROVE  \A n \in Nat : n \in T
<1> SUFFICES ASSUME T # Nat PROVE FALSE
  OBVIOUS
<1>1. PICK n \in Nat \ T : \A m \in Nat \ T : n <= m
  BY LeastNat
<1>2. n # 0 /\ n - 1 \in Nat
  BY <1>1
<1>3. n - 1 \in T
  BY <1>1, <1>2
<1> QED BY <1>3, <1>2, <1>1

\* The largest element of a set of positions.
LEMMA MaxOf ==
  ASSUME NEW n \in Nat, NEW S \in SUBSET (1 .. n), S # {}
  PROVE  /\ Max(S) \in S
         /\ \A y \in S : Max(S) >= y
<1> DEFINE U == {k \in Nat : \A y \in S : k >= y}
<1>1. n \in U
  OBVIOUS
<1>2. PICK k \in U : \A m \in U : k <= m
  BY <1>1, LeastNat
<1>3. k \in S
  <2> SUFFICES ASSUME k \notin S PROVE FALSE
    OBVIOUS
  <2>0. PICK y \in S : y \in 1 .. n
    OBVIOUS
  <2>1. k # 0 /\ k - 1 \in Nat
    BY <1>2, <2>0
  <2>2. k - 1 \in U
    BY <1>2, <2>1
  <2> QED BY <2>1, <2>2, <1>2
<1>4. \E x \in S : \A y \in S : x >= y
  BY <1>2, <1>3
<1> QED BY <1>4 DEF Max

-----------------------------------------------------------------------------
(* Counting packets.                                                       *)

LEMMA PositionsFinite ==
  ASSUME NEW X, NEW q \in Seq(X), NEW S \in SUBSET (DOMAIN q)
  PROVE  IsFiniteSet(S) /\ Cardinality(S) \in Nat
<1>1. IsFiniteSet(1 .. Len(q)) /\ DOMAIN q = 1 .. Len(q)
  BY FS_Interval
<1>2. IsFiniteSet(S)
  BY <1>1, FS_Subset
<1> QED BY <1>2, FS_CardinalityType

LEMMA CountNat ==
  ASSUME NEW ch \in Seq(ToT)
  PROVE  /\ CountWants(ch) \in Nat
         /\ CountWants(ch) = 0 <=> \A i \in DOMAIN ch : ~Wants(ch[i])
<1> DEFINE S == {i \in DOMAIN ch : Wants(ch[i])}
<1>1. IsFiniteSet(S) /\ Cardinality(S) \in Nat
  BY PositionsFinite
<1>2. Cardinality(S) = 0 <=> S = {}
  BY <1>1, FS_EmptySet
<1> QED BY <1>1, <1>2 DEF CountWants, Count

LEMMA CountEmpty == CountWants(<<>>) = 0
<1>1. {i \in DOMAIN (<<>>) : Wants((<<>>)[i])} = {}
  OBVIOUS
<1> QED BY <1>1, FS_EmptySet DEF CountWants, Count

LEMMA CountOne ==
  ASSUME NEW x
  PROVE  CountWants(<<x>>) = Bit(Wants(x))
<1>1. CASE Wants(x)
  <2>1. {i \in DOMAIN (<<x>>) : Wants((<<x>>)[i])} = {1}
    BY <1>1
  <2> QED BY <1>1, <2>1, FS_Singleton DEF CountWants, Count, Bit
<1>2. CASE ~Wants(x)
  <2>1. {i \in DOMAIN (<<x>>) : Wants((<<x>>)[i])} = {}
    BY <1>2
  <2> QED BY <1>2, <2>1, FS_EmptySet DEF CountWants, Count, Bit
<1> QED BY <1>1, <1>2

\* Shifting positions does not change their number.
LEMMA ShiftCount ==
  ASSUME NEW S \in SUBSET Nat, IsFiniteSet(S), NEW k \in Nat
  PROVE  /\ IsFiniteSet({i + k : i \in S})
         /\ Cardinality({i + k : i \in S}) = Cardinality(S)
<1> DEFINE T == {i + k : i \in S}
           f == [i \in S |-> i + k]
<1>1. f \in [S -> T]
  OBVIOUS
<1>2. \A i, j \in S : f[i] = f[j] => i = j
  OBVIOUS
<1>3. \A y \in T : \E i \in S : f[i] = y
  OBVIOUS
<1>4. f \in Bijection(S, T)
  <2> HIDE DEF f, T
  <2> QED BY <1>1, <1>2, <1>3 DEF Bijection, Injection, Surjection, IsInjective
<1>5. ExistsBijection(S, T)
  BY <1>4 DEF ExistsBijection
<1> QED BY <1>5, FS_Bijection

LEMMA CountConcat ==
  ASSUME NEW a \in Seq(ToT), NEW b \in Seq(ToT)
  PROVE  CountWants(a \o b) = CountWants(a) + CountWants(b)
<1> DEFINE A == {i \in DOMAIN a : Wants(a[i])}
           B == {i \in DOMAIN b : Wants(b[i])}
           C == {i \in DOMAIN (a \o b) : Wants((a \o b)[i])}
           D == {i + Len(a) : i \in B}
<1>1. IsFiniteSet(A) /\ Cardinality(A) \in Nat /\ IsFiniteSet(B) /\ Cardinality(B) \in Nat
  BY PositionsFinite
<1>2. IsFiniteSet(D) /\ Cardinality(D) = Cardinality(B)
  <2>1. B \in SUBSET Nat /\ Len(a) \in Nat
    OBVIOUS
  <2> HIDE DEF B
  <2> QED BY <1>1, <2>1, ShiftCount
<1>3. C = A \cup D
  <2>1. ASSUME NEW i \in C PROVE i \in A \cup D
    <3>1. i \in 1 .. Len(a) + Len(b) /\ Wants((a \o b)[i])
      OBVIOUS
    <3>2. CASE i <= Len(a)
      BY <3>1, <3>2
    <3>3. CASE i > Len(a)
      <4>1. i - Len(a) \in DOMAIN b /\ (a \o b)[i] = b[i - Len(a)]
        BY <3>1, <3>3
      <4>2. i - Len(a) \in B /\ i = (i - Len(a)) + Len(a)
        BY <3>1, <4>1
      <4> QED BY <4>2
    <3> QED BY <3>1, <3>2, <3>3
  <2>2. ASSUME NEW i \in A PROVE i \in C
    OBVIOUS
  <2>3. ASSUME NEW i \in B PROVE i + Len(a) \in C
    <3>1. i + Len(a) \in DOMAIN (a \o b) /\ (a \o b)[i + Len(a)] = b[i]
      OBVIOUS
    <3> QED BY <3>1
  <2> QED BY <2>1, <2>2, <2>3
<1>4. A \cap D = {}
  OBVIOUS
<1>5. Cardinality(A \cup D) = Cardinality(A) + Cardinality(D)
  <2> HIDE DEF A, B, D
  <2>1. Cardinality(A \cup D) = Cardinality(A) + Cardinality(D) - Cardinality(A \cap D)
    BY <1>1, <1>2, FS_Union
  <2>2. Cardinality(A \cap D) = 0
    BY <1>4, FS_EmptySet
  <2>3. Cardinality(A) \in Nat /\ Cardinality(D) \in Nat
    BY <1>1, <1>2
  <2> QED BY <2>1, <2>2, <2>3
<1> QED BY <1>2, <1>3, <1>5 DEF CountWants, Count

\* The packet at the head is counted once.
LEMMA CountTail ==
  ASSUME NEW ch \in Seq(ToT), ch # <<>>
  PROVE  CountWants(ch) = Bit(Wants(Head(ch))) + CountWants(Tail(ch))
<1>1. ch = <<Head(ch)>> \o Tail(ch) /\ Tail(ch) \in Seq(ToT) /\ <<Head(ch)>> \in Seq(ToT)
  OBVIOUS
<1> QED BY <1>1, CountConcat, CountOne

-----------------------------------------------------------------------------
(* The entries of the queue.                                               *)

-----------------------------------------------------------------------------
(* Short sequences.                                                        *)

LEMMA OneElement ==
  ASSUME NEW X, NEW q \in Seq(X), Len(q) <= 1, q # <<>>
  PROVE  /\ Len(q) = 1 /\ q = <<q[1]>> /\ q[1] \in X
         /\ Head(q) = q[1] /\ Tail(q) = <<>>
<1>1. PICK l \in Nat : l = Len(q)
  OBVIOUS
<1>2. l # 0
  BY <1>1
<1>3. l = 1
  BY <1>1, <1>2
<1>4. Len(q) = 1
  BY <1>1, <1>3
<1>5. q = <<q[1]>>
  <2>1. DOMAIN q = {1}
    BY <1>4
  <2>2. q = [i \in 1 .. 1 |-> q[i]]
    BY <1>4
  <2> QED BY <2>1, <2>2
<1>6a. Tail(q) \in Seq(X)
  OBVIOUS
<1>6. PICK z \in Seq(X) : z = Tail(q)
  BY <1>6a
<1>7. Len(z) = 0
  BY <1>4, <1>6
<1>8. z = <<>>
  BY <1>6, <1>7
<1> QED BY <1>4, <1>5, <1>6, <1>8

LEMMA AppendFacts ==
  ASSUME NEW X, NEW q \in Seq(X), NEW u \in X
  PROVE  LET w == Append(q, u)
         IN  /\ w \in Seq(X) /\ w # <<>> /\ Len(w) = Len(q) + 1
             /\ \A i \in DOMAIN q : w[i] = q[i]
             /\ w[Len(q) + 1] = u
             /\ DOMAIN w = 1 .. Len(q) + 1
             /\ q # <<>> => Head(w) = Head(q)
             /\ q = <<>> => w = <<u>>
<1>1. PICK w : w = Append(q, u)
  OBVIOUS
<1>2. w \in Seq(X) /\ w # <<>> /\ Len(w) = Len(q) + 1
  BY <1>1
<1>3. \A i \in DOMAIN q : w[i] = q[i]
  BY <1>1
<1>4. w[Len(q) + 1] = u /\ DOMAIN w = 1 .. Len(q) + 1
  BY <1>1
<1>5. q # <<>> => Head(w) = Head(q)
  BY <1>1
<1>6. q = <<>> => w = <<u>>
  BY <1>1
<1> QED BY <1>1, <1>2, <1>3, <1>4, <1>5, <1>6

LEMMA TailFacts ==
  ASSUME NEW X, NEW q \in Seq(X), q # <<>>
  PROVE  /\ Head(q) \in X /\ Head(q) = q[1]
         /\ Tail(q) \in Seq(X) /\ Len(q) \in Nat /\ Len(q) >= 1
         /\ Len(Tail(q)) = Len(q) - 1
         /\ \A i \in 1 .. Len(q) - 1 : Tail(q)[i] = q[i + 1]
<1>1. Tail(q) \in Seq(X) /\ Len(Tail(q)) = Len(q) - 1 /\ Head(q) = q[1] /\ Head(q) \in X
  OBVIOUS
<1>2. \A i \in 1 .. Len(q) - 1 : Tail(q)[i] = q[i + 1]
  OBVIOUS
<1>3. PICK l \in Nat : l = Len(q)
  OBVIOUS
<1>4. l # 0
  BY <1>3
<1>5. l >= 1
  BY <1>4
<1> QED BY <1>1, <1>2, <1>3, <1>5

-----------------------------------------------------------------------------
(* The operators of the origin.                                            *)

Moved(t) == IF t.sync # "NONE" THEN MoveUserOp(t) ELSE t

LEMMA MoveUserOpFacts ==
  ASSUME NEW t \in Targets, Len(t.user) <= 1
  PROVE  LET m == MoveUserOp(t)
         IN  /\ m \in Targets
             /\ m = [t EXCEPT !.net = m.net, !.user = <<>>]
             /\ t.user = <<>> => m = t
             /\ t.net # <<>> => m.net # <<>> /\ Head(m.net) = Head(t.net)
             /\ t.net = <<>> /\ t.user # <<>> => m.net = <<Head(t.user)>>
             /\ \A n \in Nat, b \in Nat : Ids(t, n, b) => Ids(m, n, b)
<1>1. CASE t.user = <<>>
  <2>1. MoveUserOp(t) = t
    BY <1>1 DEF MoveUserOp
  <2>2. t = [t EXCEPT !.net = t.net, !.user = <<>>]
    BY <1>1 DEF Targets
  <2> QED BY <1>1, <2>1, <2>2
<1>2. CASE t.user # <<>>
  <2>1. PICK u \in OpPkt : u = Head(t.user) /\ t.user = <<u>> /\ Tail(t.user) = <<>>
    <3>1. t.user \in Seq(OpPkt)
      BY DEF Targets
    <3> QED BY <1>2, <3>1, OneElement
  <2>2. MoveUserOp(t) = [t EXCEPT !.net = Append(t.net, u), !.user = <<>>]
    BY <1>2, <2>1 DEF MoveUserOp, Targets
  <2>3. PICK w : w = Append(t.net, u)
    OBVIOUS
  <2>4. /\ w \in Seq(OpPkt) /\ w # <<>> /\ Len(w) = Len(t.net) + 1
        /\ \A i \in DOMAIN t.net : w[i] = t.net[i]
        /\ w[Len(t.net) + 1] = u
        /\ t.net # <<>> => Head(w) = Head(t.net)
        /\ t.net = <<>> => w = <<u>>
    <3>1. t.net \in Seq(OpPkt)
      BY DEF Targets
    <3> QED BY <2>3, <3>1, AppendFacts
  <2>5. PICK m : m = MoveUserOp(t)
    OBVIOUS
  <2>6. m = [t EXCEPT !.net = w, !.user = <<>>]
    BY <2>2, <2>3, <2>5
  <2>7. m \in Targets /\ m.net = w /\ m.user = <<>>
    <3>1. w \in Seq(OpPkt) /\ <<>> \in Seq(OpPkt)
      BY <2>4
    <3> QED BY <2>6, <3>1 DEF Targets
  <2>8. ASSUME NEW n \in Nat, NEW b \in Nat, Ids(t, n, b) PROVE Ids(m, n, b)
    <3>1. t.net \in Seq(OpPkt) /\ Len(t.user) = 1 /\ u.id = b + Len(t.net) + 1
          /\ n = b + Len(t.net) + 1
      BY <2>1, <2>8 DEF Ids, Targets
    <3>2. \A i \in DOMAIN w : w[i].id = b + i
      <4> TAKE i \in DOMAIN w
      <4>1. i \in 1 .. Len(t.net) + 1
        BY <2>4
      <4>2. CASE i \in DOMAIN t.net
        BY <4>2, <2>4, <2>8 DEF Ids
      <4>3. CASE i \notin DOMAIN t.net
        <5>1. i = Len(t.net) + 1
          BY <4>1, <4>3, <3>1
        <5> QED BY <5>1, <2>4, <3>1
      <4> QED BY <4>2, <4>3
    <3>3. Len(m.user) = 0 /\ DOMAIN m.user = {} /\ Len(m.net) = Len(t.net) + 1
      BY <2>4, <2>7
    <3>4. n = b + Len(m.net) + Len(m.user)
      <4>1. PICK l \in Nat : l = Len(t.net)
        BY <3>1
      <4> QED BY <3>1, <3>3, <4>1
    <3> QED BY <2>7, <3>2, <3>3, <3>4 DEF Ids
  <2> QED BY <1>2, <2>1, <2>4, <2>5, <2>6, <2>7, <2>8
<1> QED BY <1>1, <1>2

LEMMA MovedFacts ==
  ASSUME NEW t \in Targets, Len(t.user) <= 1
  PROVE  LET m == Moved(t)
         IN  /\ m \in Targets /\ Len(m.user) <= 1
             /\ m.access = t.access /\ m.type = t.type /\ m.sync = t.sync
             /\ m.acks = t.acks /\ m.unflushed = t.unflushed /\ m.active = t.active
             /\ t.user = <<>> => m = t
             /\ t.sync # "NONE" => m.user = <<>>
             /\ t.sync = "NONE" => m = t
             /\ t.net # <<>> => m.net # <<>> /\ Head(m.net) = Head(t.net)
             /\ t.net = <<>> /\ m.net # <<>> => t.user # <<>> /\ m.net = <<Head(t.user)>>
             /\ \A n \in Nat, b \in Nat : Ids(t, n, b) => Ids(m, n, b)
<1>1. CASE t.sync = "NONE"
  BY <1>1 DEF Moved
<1>2. CASE t.sync # "NONE"
  <2>1. PICK m : m = MoveUserOp(t)
    OBVIOUS
  <2>2. Moved(t) = m
    BY <1>2, <2>1 DEF Moved
  <2>3. /\ m \in Targets
        /\ m = [t EXCEPT !.net = m.net, !.user = <<>>]
        /\ t.user = <<>> => m = t
        /\ t.net # <<>> => m.net # <<>> /\ Head(m.net) = Head(t.net)
        /\ t.net = <<>> /\ t.user # <<>> => m.net = <<Head(t.user)>>
        /\ \A n \in Nat, b \in Nat : Ids(t, n, b) => Ids(m, n, b)
    BY <2>1, MoveUserOpFacts
  <2>4. /\ m.access = t.access /\ m.type = t.type /\ m.sync = t.sync
        /\ m.acks = t.acks /\ m.unflushed = t.unflushed /\ m.active = t.active
        /\ m.user = <<>>
    BY <2>3 DEF Targets
  <2> QED BY <1>2, <2>2, <2>3, <2>4
<1> QED BY <1>1, <1>2

\* Result r is x with packets out, without a failed assertion.
Is(r, x, out) == r.t = x /\ r.out = out /\ r.bad \in BOOLEAN /\ ~r.bad

LEMMA Compose ==
  ASSUME NEW t, NEW a, NEW out1, NEW bad1 \in BOOLEAN, NEW c, NEW out2, NEW bad2 \in BOOLEAN,
         check_and_switch_target_state(t) = Result(a, out1, bad1),
         issue_ops_target(a) = Result(c, out2, bad2)
  PROVE  /\ Make_progress_target(t).t = c
         /\ Make_progress_target(t).out = out1 \o out2
         /\ Make_progress_target(t).bad <=> (bad1 \/ bad2)
         /\ Make_progress_target(t).bad \in BOOLEAN
<1> DEFINE s == check_and_switch_target_state(t)
<1>1. s.t = a /\ s.out = out1 /\ s.bad = bad1
  BY DEF Result
<1>2. issue_ops_target(a).t = c /\ issue_ops_target(a).out = out2 /\ issue_ops_target(a).bad = bad2
  BY DEF Result
<1>3. Make_progress_target(t) =
        Result(issue_ops_target(s.t).t, s.out \o issue_ops_target(s.t).out,
               s.bad \/ issue_ops_target(s.t).bad)
  BY Zenon DEF Make_progress_target
<1> HIDE DEF s
<1> QED BY <1>1, <1>2, <1>3 DEF Result

LEMMA ComposeGood ==
  ASSUME NEW t, NEW a, NEW out1, NEW c, NEW out2,
         check_and_switch_target_state(t) = Result(a, out1, FALSE),
         issue_ops_target(a) = Result(c, out2, FALSE)
  PROVE  Is(Make_progress_target(t), c, out1 \o out2)
<1>1. PICK f \in BOOLEAN : f = FALSE
  OBVIOUS
<1>2. check_and_switch_target_state(t) = Result(a, out1, f) /\ issue_ops_target(a) = Result(c, out2, f)
  BY Zenon, <1>1
<1>3. /\ Make_progress_target(t).t = c
      /\ Make_progress_target(t).out = out1 \o out2
      /\ Make_progress_target(t).bad <=> (f \/ f)
      /\ Make_progress_target(t).bad \in BOOLEAN
  BY <1>2, Compose
<1> QED BY <1>1, <1>3 DEF Is

\* Make_progress_target of a target element by its access state.
LEMMA ProgressIssued ==
  ASSUME NEW t \in Targets, Len(t.user) <= 1, t.access = "ISSUED"
  PROVE  Is(Make_progress_target(t), Moved(t), <<>>)
<1>1. PICK m : m = Moved(t)
  OBVIOUS
<1>2. m \in Targets /\ m.access = "ISSUED"
  BY <1>1, MovedFacts
<1>3. check_and_switch_target_state(t) = Result(m, <<>>, FALSE)
  BY <1>1, <1>2 DEF check_and_switch_target_state, Moved
<1>4. issue_ops_target(m) = Result(m, <<>>, FALSE)
  BY <1>2 DEF issue_ops_target
<1>5. Is(Make_progress_target(t), m, <<>> \o <<>>)
  BY <1>3, <1>4, ComposeGood, Zenon
<1> QED BY <1>1, <1>5

\* The operation that carries the request, and the target element after it.
First(m) == Flagged(m, 1)
SentFirst(m) == [m EXCEPT !.access = "ISSUED", !.net[1] = First(m),
                          !.acks = IF WantsAck(First(m)) THEN @ + 1 ELSE @,
                          !.unflushed = IF WantsAck(First(m)) THEN 0 ELSE @ + 1]

\* An origin that is to ask for the lock asks for it alone, has nothing to ask
\* for, asks with its first operation, or waits for another operation.
LEMMA ProgressCalled ==
  ASSUME NEW t \in Targets, Len(t.user) <= 1, t.access = "CALLED", NEW m, m = Moved(t),
         NEW r, r = Make_progress_target(t)
  PROVE  \/ /\ t.sync # "UNLOCK" /\ ~HasCandidate(m.net) /\ ~HasCandidate(m.user)
            /\ Is(r, [m EXCEPT !.access = "ISSUED"], <<[type |-> "lock", lock |-> m.type]>>)
         \/ /\ t.sync = "UNLOCK" /\ m.net = <<>>
            /\ Is(r, [m EXCEPT !.access = "GRANTED", !.sync = "NONE"], <<>>)
         \/ /\ m.net # <<>>
            /\ r.t = SentFirst(m) /\ r.out = <<First(m)>>
            /\ r.bad \in BOOLEAN
            /\ r.bad <=> \/ t.sync = "UNLOCK" /\ ~(conf.delay /\ Len(m.net) = 1 /\ HasCandidate(m.net))
                         \/ ~Candidate(First(m))
         \/ /\ t.sync # "UNLOCK" /\ m.net = <<>> /\ HasCandidate(m.user)
            /\ Is(r, m, <<>>)
<1>1. m \in Targets /\ m.access = "CALLED" /\ m.sync = t.sync
  BY MovedFacts
<1> DEFINE s == check_and_switch_target_state(t)
<1>3. CASE t.sync # "UNLOCK" /\ ~HasCandidate(m.net) /\ ~HasCandidate(m.user)
  <2>1. PICK m2 : m2 = [m EXCEPT !.access = "ISSUED"]
    OBVIOUS
  <2>2. s = Result(m2, <<[type |-> "lock", lock |-> m.type]>>, FALSE)
    BY <1>1, <1>3, <2>1 DEF check_and_switch_target_state, Moved
  <2>3. m2.access = "ISSUED"
    BY <1>1, <2>1 DEF Targets
  <2>4. issue_ops_target(m2) = Result(m2, <<>>, FALSE)
    BY <2>3 DEF issue_ops_target
  <2>5. Is(r, m2, <<[type |-> "lock", lock |-> m.type]>> \o <<>>)
    BY <2>2, <2>4, ComposeGood, Zenon
  <2>5a. <<[type |-> "lock", lock |-> m.type]>> \o <<>> = <<[type |-> "lock", lock |-> m.type]>>
    OBVIOUS
  <2>6. Is(r, m2, <<[type |-> "lock", lock |-> m.type]>>)
    BY <2>5, <2>5a
  <2> QED BY <1>3, <2>1, <2>6
<1>4. CASE t.sync = "UNLOCK" /\ m.net = <<>>
  <2>1. PICK m2 : m2 = [m EXCEPT !.access = "GRANTED", !.sync = "NONE"]
    OBVIOUS
  <2>2. s = Result(m2, <<>>, FALSE)
    BY <1>1, <1>4, <2>1 DEF check_and_switch_target_state, Moved
  <2>3. m2.net = <<>>
    BY <1>1, <1>4, <2>1 DEF Targets
  <2>4. issue_ops_target(m2) = Result(m2, <<>>, FALSE)
    BY <2>3 DEF issue_ops_target
  <2>4a. Is(r, m2, <<>> \o <<>>)
    BY <2>2, <2>4, ComposeGood, Zenon
  <2>5. Is(r, m2, <<>>)
    BY <2>4a
  <2> QED BY <1>4, <2>1, <2>5
<1>5. CASE m.net # <<>> /\ (t.sync = "UNLOCK" \/ HasCandidate(m.net) \/ HasCandidate(m.user))
  <2>1. PICK b \in BOOLEAN : b = (t.sync = "UNLOCK" /\ ~(conf.delay /\ Len(m.net) = 1 /\ HasCandidate(m.net)))
    OBVIOUS
  <2>2. s = Result(m, <<>>, b)
    <3>1. CASE t.sync = "UNLOCK"
      BY <1>1, <1>5, <2>1, <3>1 DEF check_and_switch_target_state, Moved
    <3>2. CASE t.sync # "UNLOCK"
      BY <1>1, <1>5, <2>1, <3>2 DEF check_and_switch_target_state, Moved
    <3> QED BY <3>1, <3>2
  <2>3. PICK f : f = First(m)
    OBVIOUS
  <2>4. issue_ops_target(m) = Result(SentFirst(m), <<f>>, ~Candidate(f))
    BY <1>1, <1>5, <2>3 DEF issue_ops_target, SentFirst, First
  <2>4a. (~Candidate(f)) \in BOOLEAN
    OBVIOUS
  <2>4b. PICK d \in BOOLEAN : d = ~Candidate(f)
    OBVIOUS
  <2>4c. issue_ops_target(m) = Result(SentFirst(m), <<f>>, d)
    BY <2>4, <2>4b, Zenon
  <2>6. r.t = SentFirst(m) /\ r.out = <<>> \o <<f>> /\ (r.bad <=> (b \/ d)) /\ r.bad \in BOOLEAN
    BY <2>2, <2>4c, Compose
  <2>7. <<>> \o <<f>> = <<f>>
    OBVIOUS
  <2> QED BY <1>5, <2>1, <2>3, <2>4b, <2>6, <2>7
<1>6. CASE t.sync # "UNLOCK" /\ m.net = <<>> /\ HasCandidate(m.user)
  <2>1. s = Result(m, <<>>, FALSE)
    BY <1>1, <1>6 DEF check_and_switch_target_state, Moved, HasCandidate
  <2>2. issue_ops_target(m) = Result(m, <<>>, FALSE)
    BY <1>6 DEF issue_ops_target
  <2>2a. Is(r, m, <<>> \o <<>>)
    BY <2>1, <2>2, ComposeGood, Zenon
  <2>3. Is(r, m, <<>>)
    BY <2>2a
  <2> QED BY <1>6, <2>3
<1>7. m.net = <<>> => ~HasCandidate(m.net)
  BY DEF HasCandidate
<1> QED BY <1>3, <1>4, <1>5, <1>6, <1>7

\* All operations of the list as they are sent, and the target element after it.
All(m) == [i \in DOMAIN m.net |-> Flagged(m, i)]
Acked(m) == {i \in DOMAIN All(m) : WantsAck(All(m)[i])}
SentAll(m) ==
  [m EXCEPT !.net = <<>>, !.active = FALSE,
            !.acks = @ + Cardinality(Acked(m)),
            !.unflushed = IF Acked(m) = {} THEN @ + Len(All(m)) ELSE Len(All(m)) - Max(Acked(m)),
            !.sync = IF (m.sync = "FLUSH" /\ Last(All(m)).flush) \/ Last(All(m)).unlock
                     THEN "NONE" ELSE @]
Ended(m) == [m EXCEPT !.sync = "NONE", !.acks = IF m.unflushed > 0 THEN @ + 1 ELSE @,
                      !.unflushed = 0]

LEMMA ProgressGranted ==
  ASSUME NEW t \in Targets, Len(t.user) <= 1, t.access = "GRANTED", NEW m, m = Moved(t)
  PROVE  \/ /\ m.net = <<>> /\ t.sync = "NONE"
            /\ Is(Make_progress_target(t), m, <<>>)
         \/ /\ m.net = <<>> /\ t.sync = "FLUSH"
            /\ Is(Make_progress_target(t), Ended(m),
                  IF m.unflushed > 0 THEN <<[type |-> "flush"]>> ELSE <<>>)
         \/ /\ m.net = <<>> /\ t.sync = "UNLOCK"
            /\ Is(Make_progress_target(t), Ended(m),
                  <<[type |-> "unlock", noack |-> ~(m.unflushed > 0)]>>)
         \/ /\ m.net # <<>>
            /\ Is(Make_progress_target(t), SentAll(m), All(m))
<1>1. m \in Targets /\ m.access = "GRANTED" /\ m.sync = t.sync
  BY MovedFacts
<1> DEFINE s == check_and_switch_target_state(t)
<1>3. CASE m.net = <<>> /\ t.sync = "NONE"
  <2>1. s = Result(m, <<>>, FALSE)
    BY <1>1, <1>3 DEF check_and_switch_target_state, Moved
  <2>2. issue_ops_target(m) = Result(m, <<>>, FALSE)
    BY <1>3 DEF issue_ops_target
  <2>3. Is(Make_progress_target(t), m, <<>> \o <<>>)
    BY <2>1, <2>2, ComposeGood, Zenon
  <2>4. Is(Make_progress_target(t), m, <<>>)
    BY <2>3
  <2> QED BY <1>3, <2>4
<1>4. CASE m.net = <<>> /\ t.sync # "NONE"
  <2>1. PICK out : out = IF t.sync = "FLUSH"
                         THEN IF m.unflushed > 0 THEN <<[type |-> "flush"]>> ELSE <<>>
                         ELSE <<[type |-> "unlock", noack |-> ~(m.unflushed > 0)]>>
    OBVIOUS
  <2>2. s = Result(Ended(m), out, FALSE)
    <3>1. CASE t.sync = "FLUSH"
      BY <1>1, <1>4, <2>1, <3>1 DEF check_and_switch_target_state, Moved, EndSync, Ended
    <3>2. CASE t.sync = "UNLOCK"
      BY <1>1, <1>4, <2>1, <3>2 DEF check_and_switch_target_state, Moved, EndSync, Ended
    <3> QED BY <1>1, <1>4, <3>1, <3>2 DEF Targets
  <2>3. Ended(m).net = <<>>
    BY <1>1, <1>4 DEF Ended, Targets
  <2>4. issue_ops_target(Ended(m)) = Result(Ended(m), <<>>, FALSE)
    BY <2>3 DEF issue_ops_target
  <2>5. out \o <<>> = out
    BY <2>1
  <2>6. Is(Make_progress_target(t), Ended(m), out \o <<>>)
    BY <2>2, <2>4, ComposeGood, Zenon
  <2>7. Is(Make_progress_target(t), Ended(m), out)
    BY <2>5, <2>6
  <2>8. t.sync \in {"FLUSH", "UNLOCK"}
    BY <1>4 DEF Targets
  <2> QED BY <1>4, <2>1, <2>7, <2>8
<1>5. CASE m.net # <<>>
  <2>1. s = Result(m, <<>>, FALSE)
    BY <1>1, <1>5 DEF check_and_switch_target_state, Moved
  <2>2. issue_ops_target(m) = Result(SentAll(m), All(m), FALSE)
    BY <1>1, <1>5 DEF issue_ops_target, SentAll, Acked, All
  <2>3. <<>> \o All(m) = All(m)
    <3>1. m.net \in Seq(OpPkt)
      BY <1>1 DEF Targets
    <3>2. PICK a : a = All(m)
      OBVIOUS
    <3>3. a = [i \in 1 .. Len(m.net) |-> Flagged(m, i)]
      BY <3>1, <3>2 DEF All
    <3>4. a \in Seq({Flagged(m, i) : i \in 1 .. Len(m.net)})
      BY <3>1, <3>3
    <3> QED BY <3>2, <3>4
  <2>4. Is(Make_progress_target(t), SentAll(m), <<>> \o All(m))
    BY <2>1, <2>2, ComposeGood, Zenon
  <2>5. Is(Make_progress_target(t), SentAll(m), All(m))
    BY <2>3, <2>4
  <2> QED BY <1>5, <2>5
<1> QED BY <1>3, <1>4, <1>5

-----------------------------------------------------------------------------
(* The origin and its phases.                                              *)

\* While its lock request is under way an origin may call operations and
\* synchronize: t2, c2 and n2 are its state after that.
Extends(t, c, n, t2, c2, n2, dl) ==
  /\ t2.access = t.access /\ t2.type = t.type /\ t2.acks = t.acks
  /\ t.net # <<>> => t2.net # <<>> /\ Head(t2.net) = Head(t.net)
  /\ \A q : LockOp(t, c, q, dl) => LockOp(t2, c2, q, dl)
  /\ \A b \in Nat : Ids(t, n, b) => Ids(t2, n2, b)

LEMMA IssuedStable ==
  ASSUME NEW o \in Origins, NEW t, NEW c, NEW n, NEW ch, NEW s \in Process, NEW dl,
         NEW t2, NEW c2, NEW n2, Extends(t, c, n, t2, c2, n2, dl),
         t.access = "ISSUED", Phase(o, t, c, n, ch, s, dl)
  PROVE  Phase(o, t2, c2, n2, ch, s, dl)
<1>1. /\ t2.access = "ISSUED" /\ t2.type = t.type /\ t2.acks = t.acks
      /\ t.net # <<>> => t2.net # <<>> /\ Head(t2.net) = Head(t.net)
  BY DEF Extends
<1>2. \A q : LockOp(t, c, q, dl) => LockOp(t2, c2, q, dl)
  BY DEF Extends
<1>3. \A b \in Nat : Ids(t, n, b) => Ids(t2, n2, b)
  BY DEF Extends
<1>4. Len(s.applied[o]) \in Nat
  BY DEF Process
<1>5. CASE Requested(o, t, c, n, ch, s, dl)
  <2>1. Request(t2, c2, ch[Len(ch)], dl)
    BY <1>1, <1>2, <1>5 DEF Requested, Request
  <2>2. Ids(t2, n2, Len(s.applied[o]))
    BY <1>3, <1>4, <1>5 DEF Requested
  <2>3. Requested(o, t2, c2, n2, ch, s, dl)
    BY <1>1, <1>5, <2>1, <2>2 DEF Requested
  <2> QED BY <2>3 DEF Phase
<1>6. CASE Queued(o, t, c, n, ch, s, dl)
  <2>1. PICK i \in DOMAIN s.queue : /\ s.queue[i].o = o
                                    /\ s.queue[i].op.lock = t.type
                                    /\ QueuedEntry(o, t, c, s, s.queue[i], dl)
    BY <1>6 DEF Queued
  <2>2. QueuedEntry(o, t2, c2, s, s.queue[i], dl)
    <3>1. CASE QueuedLock(o, t, s, s.queue[i])
      BY <1>1, <3>1 DEF QueuedLock, QueuedEntry
    <3>2. CASE QueuedOp(o, t, c, s, s.queue[i], dl)
      BY <1>1, <1>2, <3>2 DEF QueuedOp, QueuedEntry
    <3>3. CASE QueuedAlone(o, t, s, s.queue[i])
      BY <1>1, <3>3 DEF QueuedAlone, QueuedEntry
    <3> QED BY <2>1, <3>1, <3>2, <3>3 DEF QueuedEntry
  <2>3. Ids(t2, n2, Len(s.applied[o]))
    BY <1>3, <1>4, <1>6 DEF Queued
  <2>4. Queued(o, t2, c2, n2, ch, s, dl)
    BY <1>1, <1>6, <2>1, <2>2, <2>3 DEF Queued
  <2> QED BY <2>4 DEF Phase
<1>7. CASE Refused(o, t, c, n, ch, s, dl)
  <2>1. Ids(t2, n2, Len(s.applied[o]))
    BY <1>3, <1>4, <1>7 DEF Refused
  <2>2. Refused(o, t2, c2, n2, ch, s, dl)
    BY <1>1, <1>7, <2>1 DEF Refused
  <2> QED BY <2>2 DEF Phase
<1>8. CASE Receiving(o, t, c, n, ch, s, dl)
  <2>1. Ids(t2, n2, Len(s.applied[o])) /\ LockOp(t2, c2, s.recv[o].op, dl)
    BY <1>2, <1>3, <1>4, <1>8 DEF Receiving
  <2>2. Receiving(o, t2, c2, n2, ch, s, dl)
    BY <1>1, <1>8, <2>1 DEF Receiving
  <2> QED BY <2>2 DEF Phase
<1>9. CASE Answered(o, t, c, n, ch, s, dl)
  <2>1. CASE AnsweredLock(o, t, n, s)
    <3>1. Ids(t2, n2, Len(s.applied[o]))
      BY <1>3, <1>4, <2>1 DEF AnsweredLock
    <3>2. AnsweredLock(o, t2, n2, s)
      BY <1>1, <2>1, <3>1 DEF AnsweredLock
    <3> QED BY <1>1, <1>9, <3>2 DEF Phase, Answered
  <2>2. CASE AnsweredOp(o, t, c, n, s, dl)
    <3>1. PICK q : q = Head(t.net)
      OBVIOUS
    <3>2. LockOp(t, c, q, dl)
      BY <2>2, <3>1 DEF AnsweredOp
    <3>3. LockOp(t2, c2, q, dl) /\ Head(t2.net) = q
      BY <1>1, <1>2, <3>1, <3>2 DEF LockOp
    <3>4. Len(s.applied[o]) - 1 \in Nat
      BY <1>4, <2>2 DEF AnsweredOp
    <3>5. Ids(t2, n2, Len(s.applied[o]) - 1)
      BY <1>3, <2>2, <3>4 DEF AnsweredOp
    <3>6. AnsweredOp(o, t2, c2, n2, s, dl)
      BY <1>1, <2>2, <3>1, <3>3, <3>5 DEF AnsweredOp
    <3> QED BY <1>1, <1>9, <3>6 DEF Phase, Answered
  <2> QED BY <1>9, <2>1, <2>2 DEF Answered
<1> QED BY <1>5, <1>6, <1>7, <1>8, <1>9 DEF Phase, Idle, Granted

-----------------------------------------------------------------------------
(* The flags of an operation.                                              *)

LEMMA FlaggedFacts ==
  ASSUME NEW m \in Targets, NEW i \in DOMAIN m.net
  PROVE  LET f == Flagged(m, i)
         IN  /\ f \in OpPkt
             /\ f.id = m.net[i].id /\ f.type = m.net[i].type
             /\ f.lock = IF m.access = "CALLED" THEN m.type ELSE "NONE"
             /\ IsRead(f) => WantsAck(f)
             /\ f.unlock <=> (i = Len(m.net) /\ m.sync = "UNLOCK")
             /\ m.sync = "FLUSH" /\ i = Len(m.net) => f.flush
             /\ m.sync = "UNLOCK" /\ i = Len(m.net) => ~f.flush
<1>1. PICK op \in OpPkt : op = m.net[i]
  BY DEF Targets
<1>2. m.type \in Types
  BY DEF Targets
<1>3. PICK last \in BOOLEAN : last = (i = Len(m.net))
  OBVIOUS
<1>4. Flagged(m, i) =
        [op EXCEPT !.lock = IF m.access = "CALLED" THEN m.type ELSE "NONE",
                   !.flush = (IsRead(op) \/ (last /\ m.sync = "FLUSH")) /\ ~(last /\ m.sync = "UNLOCK"),
                   !.unlock = last /\ m.sync = "UNLOCK"]
  BY <1>1, <1>3 DEF Flagged
<1>5. PICK f : f = Flagged(m, i)
  OBVIOUS
<1>6. "NONE" \in Types
  BY DEF Types
<1>7. f \in OpPkt
  BY <1>2, <1>4, <1>5, <1>6 DEF OpPkt
<1>8. /\ f.id = op.id /\ f.type = op.type
      /\ f.lock = IF m.access = "CALLED" THEN m.type ELSE "NONE"
  BY <1>4, <1>5 DEF OpPkt
<1>9. f.unlock <=> (last /\ m.sync = "UNLOCK")
  BY <1>4, <1>5 DEF OpPkt
<1>10. f.flush <=> ((IsRead(op) \/ (last /\ m.sync = "FLUSH")) /\ ~(last /\ m.sync = "UNLOCK"))
  BY <1>4, <1>5 DEF OpPkt
<1>11. IsRead(f) <=> IsRead(op)
  BY <1>8 DEF IsRead
<1>12. IsRead(f) => WantsAck(f)
  BY <1>9, <1>10, <1>11 DEF WantsAck
<1> QED BY <1>1, <1>3, <1>5, <1>7, <1>8, <1>9, <1>10, <1>12

-----------------------------------------------------------------------------
(* Progress of an origin that has the lock.                                *)

LEMMA PktTypes ==
  /\ \A p \in OpPkt : p.type \in OpKinds
  /\ \A p \in LockReq : p.type = "lock" /\ p.type \notin OpKinds
  /\ \A p \in FlushPkt : p.type = "flush" /\ p.type \notin OpKinds
  /\ \A p \in UnlockPkt : p.type = "unlock" /\ p.type \notin OpKinds
BY DEF OpPkt, LockReq, FlushPkt, UnlockPkt, OpKinds

LEMMA ConcatFacts ==
  ASSUME NEW X, NEW a \in Seq(X), NEW b \in Seq(X)
  PROVE  /\ a \o b \in Seq(X) /\ Len(a) \in Nat /\ Len(b) \in Nat
         /\ Len(a \o b) = Len(a) + Len(b)
         /\ \A i \in 1 .. Len(a) : (a \o b)[i] = a[i]
         /\ \A i \in 1 .. Len(b) : (a \o b)[Len(a) + i] = b[i]
<1>1. a \o b \in Seq(X) /\ Len(a) \in Nat /\ Len(b) \in Nat /\ Len(a \o b) = Len(a) + Len(b)
  OBVIOUS
<1>2. \A i \in 1 .. Len(a) : (a \o b)[i] = a[i]
  OBVIOUS
<1>3. ASSUME NEW i \in 1 .. Len(b) PROVE (a \o b)[Len(a) + i] = b[i]
  <2>1. PICK k \in Nat : k = Len(a)
    OBVIOUS
  <2>2. k + i \in 1 .. Len(a) + Len(b) /\ ~ (k + i <= k) /\ (k + i) - k = i
    BY <2>1
  <2> QED BY <2>1, <2>2
<1> QED BY <1>1, <1>2, <1>3

LEMMA NumOpsNat ==
  ASSUME NEW ch \in Seq(ToT)
  PROVE  /\ NumOps(ch) \in Nat /\ NumOps(ch) <= Len(ch) /\ Len(ch) <= NumOps(ch) + 1
         /\ NumOps(ch) = Len(ch) \/ (ch # <<>> /\ NumOps(ch) = Len(ch) - 1)
<1>1. PICK l \in Nat : l = Len(ch)
  OBVIOUS
<1>2. ch # <<>> => l # 0
  BY <1>1
<1> QED BY <1>1, <1>2 DEF NumOps

\* An origin that has the lock and has not sent its unlock.
LEMMA GrantedQuiet ==
  ASSUME NEW o \in Origins, NEW t \in Targets, NEW c, NEW n \in Nat, NEW ch \in Seq(ToT),
         NEW s \in Process, NEW dl,
         Granted(o, t, c, n, ch, s, dl), c = "none" \/ t.sync # "NONE"
  PROVE  /\ NumOps(ch) = Len(ch)
         /\ \A i \in 1 .. Len(ch) : PlainOp(ch[i]) /\ ~ch[i].unlock /\ ch[i].id = Base(o, s) + i
         /\ RecvOp(o, s) => ~s.recv[o].op.unlock
         /\ \A i \in DOMAIN s.sendq[o] : ~LateRelease(s.sendq[o][i])
         /\ s.holds[o] # "NONE"
         /\ Ids(t, n, Base(o, s) + Len(ch))
<1>1. ~Left(t, c)
  BY DEF Left
<1>2. NumOps(ch) = Len(ch)
  BY NumOpsNat DEF Granted, Pipeline
<1> QED BY <1>1, <1>2 DEF Granted, Pipeline, ReleasesOnce

\* An empty target element after its operations were sent.
LEMMA IdsEmpty ==
  ASSUME NEW t \in Targets, NEW n \in Nat, NEW b \in Nat, t.net = <<>>, t.user = <<>>
  PROVE  Ids(t, n, b) <=> n = b
<1>1. Len(t.net) = 0 /\ Len(t.user) = 0 /\ DOMAIN t.net = {} /\ DOMAIN t.user = {}
  OBVIOUS
<1> QED BY <1>1 DEF Ids

LEMMA BaseNat ==
  ASSUME NEW o \in Origins, NEW s \in Process
  PROVE  Base(o, s) \in Nat /\ Len(s.applied[o]) \in Nat
<1>1. s.applied[o] \in Seq(Nat)
  BY DEF Process
<1>2. PICK k \in Nat : k = Len(s.applied[o])
  BY <1>1
<1>3. PICK b \in Nat : b = Bit(RecvOp(o, s))
  BY DEF Bit
<1>4. Base(o, s) = k + b
  BY <1>2, <1>3 DEF Base
<1> QED BY <1>2, <1>4

\* The last packet of an epoch, or of a flush, is sent.
LEMMA GrantedEnds ==
  ASSUME NEW o \in Origins, NEW t \in Targets, NEW c, NEW n \in Nat, NEW ch \in Seq(ToT),
         NEW s \in Process, NEW dl,
         Granted(o, t, c, n, ch, s, dl), t.sync # "NONE", t.net = <<>>, t.user = <<>>,
         t.sync = "FLUSH" => c = "flush", t.sync = "UNLOCK" => c = "unlock",
         NEW p \in FlushPkt \cup UnlockPkt,
         t.sync = "FLUSH" => p \in FlushPkt /\ t.unflushed > 0,
         t.sync = "UNLOCK" => p \in UnlockPkt /\ (p.noack <=> ~(t.unflushed > 0))
  PROVE  Ended(t) \in Targets /\ Granted(o, Ended(t), c, n, ch \o <<p>>, s, dl)
<1>1. /\ NumOps(ch) = Len(ch)
      /\ \A i \in 1 .. Len(ch) : PlainOp(ch[i]) /\ ~ch[i].unlock /\ ch[i].id = Base(o, s) + i
      /\ RecvOp(o, s) => ~s.recv[o].op.unlock
      /\ \A i \in DOMAIN s.sendq[o] : ~LateRelease(s.sendq[o][i])
      /\ s.holds[o] # "NONE"
      /\ Ids(t, n, Base(o, s) + Len(ch))
  BY GrantedQuiet
<1>2. PICK l \in Nat : l = Len(ch)
  OBVIOUS
<1>3. PICK e : e = Ended(t)
  OBVIOUS
<1>4. /\ e \in Targets /\ e.access = "GRANTED" /\ e.sync = "NONE" /\ e.net = <<>> /\ e.user = <<>>
      /\ e.unflushed = 0 /\ e.acks = t.acks + Bit(t.unflushed > 0)
  <2>1. t.access = "GRANTED"
    BY DEF Granted
  <2>2. PICK a \in Nat : a = IF t.unflushed > 0 THEN t.acks + 1 ELSE t.acks
    BY DEF Targets
  <2>3. e = [t EXCEPT !.sync = "NONE", !.acks = a, !.unflushed = 0]
    BY <1>3, <2>2 DEF Ended, Targets
  <2>4. e \in Targets /\ e.access = t.access /\ e.sync = "NONE" /\ e.net = t.net
        /\ e.user = t.user /\ e.unflushed = 0 /\ e.acks = a
    BY <2>3 DEF Targets
  <2>5. t.acks \in Nat
    BY DEF Targets
  <2>6. a = t.acks + Bit(t.unflushed > 0)
    BY <2>2, <2>5 DEF Bit
  <2> QED BY <2>1, <2>4, <2>6
<1>5. p \in ToT /\ p.type \notin OpKinds /\ <<p>> \in Seq(ToT)
  BY PktTypes DEF ToT
<1>6. PICK h : h = ch \o <<p>>
  OBVIOUS
<1>7. /\ h \in Seq(ToT) /\ Len(h) = l + 1 /\ h # <<>>
      /\ \A i \in 1 .. l : h[i] = ch[i]
      /\ h[l + 1] = p
  BY <1>2, <1>5, <1>6
<1>8. NumOps(h) = l
  BY <1>5, <1>7 DEF NumOps
<1>9. n = Base(o, s) + l /\ Ids(e, n, Base(o, s) + l)
  <2>1. PICK b \in Nat : b = Base(o, s)
    BY BaseNat
  <2>2. Ids(t, n, b + l) /\ b + l \in Nat
    BY <1>1, <1>2, <2>1
  <2>3. n = b + l
    BY <2>2, IdsEmpty
  <2>4. Ids(e, n, b + l)
    BY <1>4, <2>2, <2>3, IdsEmpty
  <2> QED BY <2>1, <2>3, <2>4
<1>10. t.sync \in {"FLUSH", "UNLOCK"} /\ t.unflushed \in Nat
  BY DEF Targets
<1>11. Wants(p) <=> t.unflushed > 0
  <2>1. CASE t.sync = "FLUSH"
    BY <2>1, PktTypes DEF Wants
  <2>2. CASE t.sync = "UNLOCK"
    BY <2>2, PktTypes DEF Wants
  <2> QED BY <1>10, <2>1, <2>2
<1>12. Pipeline(o, e, c, n, h, s)
  <2>1. \A i \in 1 .. NumOps(h) : PlainOp(h[i]) /\ h[i].id = Base(o, s) + i
    BY <1>1, <1>2, <1>7, <1>8
  <2>2. c # "none" /\ (p \in FlushPkt \/ (p \in UnlockPkt /\ c = "unlock"))
    BY <1>10
  <2>3. RecvOp(o, s) => PlainOp(s.recv[o].op) /\ s.recv[o].op.id = Base(o, s)
    BY DEF Granted, Pipeline
  <2>4. s.recv[o].what = "entry" => NumOps(h) > 0
    BY <1>1, <1>2, <1>8 DEF Granted, Pipeline
  <2> QED BY <1>4, <1>7, <1>8, <1>9, <2>1, <2>2, <2>3, <2>4 DEF Pipeline
<1>13. Flushed(o, e, h, s)
  <2>1. SUFFICES ASSUME p = OldUnlock PROVE LastOpWants(o, h, s)
    BY <1>2, <1>7, <1>8 DEF Flushed
  <2>2. p.noack /\ p.type = "unlock"
    BY <2>1 DEF OldUnlock
  <2>3. t.unflushed = 0
    BY <1>10, <2>2, PktTypes
  <2>4. LastOpWants(o, ch, s)
    BY <1>1, <2>3 DEF Granted, Flushed
  <2>5. l > 0 => h[l] = ch[l]
    BY <1>2, <1>7
  <2> QED BY <1>1, <1>2, <1>8, <2>4, <2>5 DEF LastOpWants
<1>14. ReleasesOnce(o, e, c, h, s)
  <2>1. \A i \in 1 .. NumOps(h) : ~h[i].unlock
    BY <1>1, <1>2, <1>7, <1>8
  <2>2. ~Left(e, c) \/ ReleasePending(o, h, s)
    <3>1. CASE t.sync = "FLUSH"
      BY <3>1 DEF Left
    <3>2. CASE t.sync = "UNLOCK"
      <4>1. Releasing(p)
        BY <3>2, PktTypes DEF Releasing
      <4> QED BY <1>7, <4>1 DEF ReleasePending
    <3> QED BY <1>10, <3>1, <3>2
  <2> QED BY <1>1, <2>1, <2>2 DEF ReleasesOnce
<1>15. e.acks = s.dup[o] + Len(s.toO[o]) + Len(s.sendq[o]) + CountWants(h)
                + Bit(RecvOp(o, s) /\ WantsAck(s.recv[o].op))
  <2>1. CountWants(h) = CountWants(ch) + Bit(t.unflushed > 0)
    <3>1. CountWants(h) = CountWants(ch) + CountWants(<<p>>)
      BY <1>5, <1>6, CountConcat
    <3>2. CountWants(<<p>>) = Bit(Wants(p))
      BY CountOne
    <3>3. Bit(Wants(p)) = Bit(t.unflushed > 0)
      BY <1>11 DEF Bit
    <3> QED BY <3>1, <3>2, <3>3
  <2>2. PICK k \in Nat : k = CountWants(ch)
    BY CountNat
  <2>3. PICK d \in Nat, x \in Nat, y \in Nat : d = s.dup[o] /\ x = Len(s.toO[o]) /\ y = Len(s.sendq[o])
    <3>1. s.dup[o] \in Nat /\ s.toO[o] \in Seq(ToO) /\ s.sendq[o] \in Seq(ToO)
      BY DEF Process
    <3> QED BY <3>1
  <2>4. PICK z \in Nat : z = Bit(RecvOp(o, s) /\ WantsAck(s.recv[o].op))
    BY DEF Bit
  <2>5. PICK w \in Nat : w = Bit(t.unflushed > 0)
    BY DEF Bit
  <2>6. t.acks = d + x + y + k + z
    BY <2>2, <2>3, <2>4 DEF Granted
  <2>7. e.acks = d + x + y + (k + w) + z
    BY <1>4, <2>5, <2>6
  <2> QED BY <2>1, <2>2, <2>3, <2>4, <2>5, <2>7
<1>16. Granted(o, e, c, n, h, s, dl)
  BY <1>4, <1>12, <1>13, <1>14, <1>15 DEF Granted
<1> QED BY <1>3, <1>4, <1>6, <1>16

\* What an origin that has the lock may do to its target element before it
\* sends anything.
LEMMA GrantedStable ==
  ASSUME NEW o \in Origins, NEW t \in Targets, NEW c, NEW n \in Nat, NEW ch \in Seq(ToT),
         NEW s \in Process, NEW dl, NEW t2 \in Targets, NEW c2, NEW n2 \in Nat,
         Granted(o, t, c, n, ch, s, dl), c = "none" \/ t.sync # "NONE",
         ~Left(t2, c2),
         t2.access = "GRANTED", t2.acks = t.acks, t2.unflushed = t.unflushed,
         t.net # <<>> => t2.net # <<>>,
         \A b \in Nat : Ids(t, n, b) => Ids(t2, n2, b)
  PROVE  Granted(o, t2, c2, n2, ch, s, dl)
<1>1. /\ NumOps(ch) = Len(ch)
      /\ \A i \in 1 .. Len(ch) : PlainOp(ch[i]) /\ ~ch[i].unlock /\ ch[i].id = Base(o, s) + i
      /\ RecvOp(o, s) => ~s.recv[o].op.unlock
      /\ \A i \in DOMAIN s.sendq[o] : ~LateRelease(s.sendq[o][i])
      /\ s.holds[o] # "NONE"
      /\ Ids(t, n, Base(o, s) + Len(ch))
  BY GrantedQuiet
<1>2. PICK l \in Nat : l = Len(ch)
  OBVIOUS
<1>3. ~Left(t2, c2)
  OBVIOUS
<1>4. Ids(t2, n2, Base(o, s) + NumOps(ch))
  <2>1. PICK b \in Nat : b = Base(o, s)
    BY BaseNat
  <2> QED BY <1>1, <1>2, <2>1
<1>5. Pipeline(o, t2, c2, n2, ch, s)
  BY <1>1, <1>2, <1>4 DEF Granted, Pipeline
<1>6. Flushed(o, t2, ch, s)
  BY DEF Granted, Flushed
<1>7. ReleasesOnce(o, t2, c2, ch, s)
  BY <1>1, <1>3 DEF ReleasesOnce
<1> QED BY <1>5, <1>6, <1>7 DEF Granted

LEMMA AllFacts ==
  ASSUME NEW m \in Targets, m.net # <<>>, m.access = "GRANTED"
  PROVE  LET a == All(m)
             k == Len(m.net)
         IN  /\ a \in Seq(ToT) /\ Len(a) = k /\ k \in Nat /\ k > 0 /\ a # <<>>
             /\ DOMAIN m.net = 1 .. k /\ DOMAIN a = 1 .. k
             /\ \A i \in 1 .. k : a[i] \in OpPkt /\ PlainOp(a[i]) /\ a[i].id = m.net[i].id
             /\ \A i \in 1 .. k : a[i].unlock <=> (i = k /\ m.sync = "UNLOCK")
             /\ m.sync = "FLUSH" => a[k].flush
             /\ Last(a) = a[k]
<1>1. m.net \in Seq(OpPkt)
  BY DEF Targets
<1>2. PICK k \in Nat : k = Len(m.net)
  BY <1>1
<1>3. DOMAIN m.net = 1 .. k /\ k > 0
  BY <1>1, <1>2
<1>4. PICK a : a = All(m)
  OBVIOUS
<1>5. a = [i \in 1 .. k |-> Flagged(m, i)]
  BY <1>3, <1>4 DEF All
<1>6. ASSUME NEW i \in 1 .. k
      PROVE  /\ a[i] \in OpPkt /\ PlainOp(a[i]) /\ a[i].id = m.net[i].id
             /\ a[i].unlock <=> (i = k /\ m.sync = "UNLOCK")
             /\ m.sync = "FLUSH" /\ i = k => a[i].flush
  <2>1. PICK f : f = Flagged(m, i)
    OBVIOUS
  <2>2. a[i] = f /\ i \in DOMAIN m.net
    BY <1>3, <1>5, <2>1
  <2>3. /\ f \in OpPkt
        /\ f.id = m.net[i].id /\ f.type = m.net[i].type
        /\ f.lock = "NONE"
        /\ IsRead(f) => WantsAck(f)
        /\ f.unlock <=> (i = Len(m.net) /\ m.sync = "UNLOCK")
        /\ m.sync = "FLUSH" /\ i = Len(m.net) => f.flush
    BY <2>1, <2>2, FlaggedFacts
  <2> QED BY <1>2, <2>2, <2>3 DEF PlainOp
<1>7. a \in Seq(ToT)
  <2>1. \A i \in 1 .. k : a[i] \in ToT
    BY <1>6 DEF ToT
  <2> QED BY <1>5, <2>1
<1>8. Len(a) = k /\ a # <<>> /\ DOMAIN a = 1 .. k
  BY <1>3, <1>5, <1>7
<1>9. Last(a) = a[k]
  BY <1>8 DEF Last
<1>10. k \in 1 .. k
  BY <1>3
<1> HIDE DEF All
<1> QED BY <1>2, <1>3, <1>4, <1>6, <1>7, <1>8, <1>9, <1>10

LEMMA AckedFacts ==
  ASSUME NEW m \in Targets, m.net # <<>>, m.access = "GRANTED"
  PROVE  /\ Cardinality(Acked(m)) \in Nat
         /\ Cardinality(Acked(m)) = CountWants(All(m))
         /\ Acked(m) \in SUBSET (1 .. Len(m.net))
<1>1. PICK a, k : a = All(m) /\ k = Len(m.net)
  OBVIOUS
<1>2. /\ a \in Seq(ToT) /\ DOMAIN a = 1 .. k
      /\ \A i \in 1 .. k : a[i] \in OpPkt
  BY <1>1, AllFacts, Zenon
<1>3. \A i \in DOMAIN a : Wants(a[i]) <=> WantsAck(a[i])
  <2> TAKE i \in DOMAIN a
  <2>1. a[i].type \in OpKinds
    BY <1>2, PktTypes
  <2> QED BY <2>1 DEF Wants, OpKinds
<1>4. Acked(m) = {i \in DOMAIN a : Wants(a[i])}
  BY <1>1, <1>3 DEF Acked
<1>5. Cardinality(Acked(m)) = CountWants(a)
  BY <1>4 DEF CountWants, Count
<1>6. CountWants(a) \in Nat
  BY <1>2, CountNat
<1>7. Acked(m) \in SUBSET (1 .. k)
  BY <1>2, <1>4
<1> QED BY <1>1, <1>5, <1>6, <1>7

LEMMA SentAllFacts ==
  ASSUME NEW m \in Targets, m.net # <<>>, m.access = "GRANTED"
  PROVE  LET e == SentAll(m)
             k == Len(m.net)
         IN  /\ e \in Targets /\ e.access = "GRANTED" /\ e.net = <<>> /\ e.user = m.user
             /\ e.type = m.type
             /\ e.sync = "NONE"
             /\ e.acks = m.acks + CountWants(All(m))
             /\ e.unflushed = 0 => WantsAck(All(m)[k])
<1>1. PICK a : a = All(m)
  OBVIOUS
<1>2. PICK k \in Nat : k = Len(m.net)
  BY AllFacts
<1>3. /\ a \in Seq(ToT) /\ Len(a) = k /\ k > 0 /\ DOMAIN a = 1 .. k
      /\ \A i \in 1 .. k : a[i].unlock <=> (i = k /\ m.sync = "UNLOCK")
      /\ m.sync = "FLUSH" => a[k].flush
      /\ Last(a) = a[k]
  BY <1>1, <1>2, AllFacts, Zenon
<1>4. PICK x \in Nat : x = Cardinality(Acked(m)) /\ x = CountWants(a)
  BY <1>1, AckedFacts
<1>5. PICK u : u = IF Acked(m) = {} THEN m.unflushed + Len(a) ELSE Len(a) - Max(Acked(m))
  OBVIOUS
<1>6. m.unflushed \in Nat /\ m.acks \in Nat /\ m.sync \in {"NONE", "FLUSH", "UNLOCK"}
  BY DEF Targets
<1>7. u \in Nat /\ (u = 0 => WantsAck(a[k]))
  <2>1. CASE Acked(m) = {}
    <3>1. u = m.unflushed + k
      BY <1>3, <1>5, <2>1
    <3> QED BY <1>3, <1>6, <3>1
  <2>2. CASE Acked(m) # {}
    <3>1. Max(Acked(m)) \in Acked(m) /\ Acked(m) \in SUBSET (1 .. k)
      BY <1>2, <2>2, AckedFacts, MaxOf
    <3>2. PICK y \in 1 .. k : y = Max(Acked(m)) /\ y \in Acked(m)
      BY <3>1
    <3>3. u = k - y
      BY <1>3, <1>5, <2>2, <3>2
    <3>4. WantsAck(a[y])
      BY <1>1, <3>2 DEF Acked
    <3> QED BY <3>2, <3>3, <3>4
  <2> QED BY <2>1, <2>2
<1>8. k \in 1 .. k
  BY <1>3
<1>9. (m.sync = "FLUSH" /\ Last(a).flush) \/ Last(a).unlock <=> m.sync # "NONE"
  BY <1>3, <1>6, <1>8
<1>10. PICK e : e = SentAll(m)
  OBVIOUS
<1>11. e = [m EXCEPT !.net = <<>>, !.active = FALSE, !.acks = m.acks + x, !.unflushed = u,
                     !.sync = "NONE"]
  <2>1. (IF (m.sync = "FLUSH" /\ Last(a).flush) \/ Last(a).unlock THEN "NONE" ELSE m.sync) = "NONE"
    BY <1>9
  <2> QED BY <1>1, <1>4, <1>5, <1>10, <2>1 DEF SentAll, Targets
<1>12. <<>> \in Seq(OpPkt) /\ m.acks + x \in Nat
  BY <1>4, <1>6
<1>13. e \in Targets
  BY <1>7, <1>11, <1>12 DEF Targets
<1>14. /\ e.access = m.access /\ e.net = <<>> /\ e.user = m.user /\ e.type = m.type
       /\ e.sync = "NONE" /\ e.acks = m.acks + x /\ e.unflushed = u
  BY <1>11 DEF Targets
<1> QED BY <1>1, <1>2, <1>4, <1>7, <1>10, <1>13, <1>14

\* All operations of the list are sent.
LEMMA GrantedSends ==
  ASSUME NEW o \in Origins, NEW t \in Targets, NEW c, NEW n \in Nat, NEW ch \in Seq(ToT),
         NEW s \in Process, NEW dl,
         Granted(o, t, c, n, ch, s, dl), c = "none" \/ t.sync # "NONE", t.net # <<>>,
         t.sync = "FLUSH" => c = "flush", t.sync = "UNLOCK" => c = "unlock"
  PROVE  Granted(o, SentAll(t), c, n, ch \o All(t), s, dl)
<1>1. /\ NumOps(ch) = Len(ch)
      /\ \A i \in 1 .. Len(ch) : PlainOp(ch[i]) /\ ~ch[i].unlock /\ ch[i].id = Base(o, s) + i
      /\ RecvOp(o, s) => ~s.recv[o].op.unlock
      /\ \A i \in DOMAIN s.sendq[o] : ~LateRelease(s.sendq[o][i])
      /\ s.holds[o] # "NONE"
      /\ Ids(t, n, Base(o, s) + Len(ch))
  BY GrantedQuiet
<1>2. PICK l \in Nat : l = Len(ch)
  OBVIOUS
<1>3. PICK e : e = SentAll(t)
  OBVIOUS
<1>4. PICK a : a = All(t)
  OBVIOUS
<1>5. t.access = "GRANTED"
  BY DEF Granted
<1>6. PICK k \in Nat : k = Len(t.net)
  BY <1>5, AllFacts
<1>7. /\ a \in Seq(ToT) /\ Len(a) = k /\ k > 0
      /\ DOMAIN t.net = 1 .. k
      /\ \A i \in 1 .. k : a[i] \in OpPkt /\ PlainOp(a[i]) /\ a[i].id = t.net[i].id
      /\ \A i \in 1 .. k : a[i].unlock <=> (i = k /\ t.sync = "UNLOCK")
  BY <1>4, <1>5, <1>6, AllFacts, Zenon
<1>8. /\ e \in Targets /\ e.access = "GRANTED" /\ e.net = <<>> /\ e.user = t.user
      /\ e.sync = "NONE"
      /\ e.acks = t.acks + CountWants(a)
      /\ e.unflushed = 0 => WantsAck(a[k])
  BY <1>3, <1>4, <1>5, <1>6, SentAllFacts, Zenon
<1>9. PICK h : h = ch \o a
  OBVIOUS
<1>10. /\ h \in Seq(ToT) /\ Len(h) = l + k
       /\ \A i \in 1 .. l : h[i] = ch[i]
       /\ \A i \in 1 .. k : h[l + i] = a[i]
  <2>1. /\ h \in Seq(ToT) /\ Len(h) = Len(ch) + Len(a)
        /\ \A i \in 1 .. Len(ch) : h[i] = ch[i]
        /\ \A i \in 1 .. Len(a) : h[Len(ch) + i] = a[i]
    <3>1. ch \in Seq(ToT) /\ a \in Seq(ToT)
      BY <1>7
    <3>2. /\ ch \o a \in Seq(ToT) /\ Len(ch \o a) = Len(ch) + Len(a)
          /\ \A i \in 1 .. Len(ch) : (ch \o a)[i] = ch[i]
          /\ \A i \in 1 .. Len(a) : (ch \o a)[Len(ch) + i] = a[i]
      BY ONLY <3>1, ConcatFacts
    <3> QED BY <1>9, <3>2
  <2> QED BY <1>2, <1>7, <2>1
<1>11. h # <<>> /\ h[l + k] = a[k] /\ k \in 1 .. k
  BY <1>7, <1>10
<1>12. a[k].type \in OpKinds /\ a[k].type # "unlock"
  BY <1>7, <1>11, PktTypes DEF OpKinds
<1>13. NumOps(h) = l + k
  BY <1>10, <1>11, <1>12 DEF NumOps
<1>14. PICK b \in Nat : b = Base(o, s)
  BY BaseNat
<1>15. \A i \in 1 .. k : t.net[i].id = (b + l) + i
  BY <1>1, <1>2, <1>7, <1>14 DEF Ids
<1>16. ASSUME NEW i \in 1 .. l + k
       PROVE  /\ PlainOp(h[i]) /\ h[i].id = b + i
              /\ h[i].unlock => i = l + k /\ t.sync = "UNLOCK"
  <2>1. CASE i \in 1 .. l
    BY <1>1, <1>2, <1>10, <1>14, <2>1
  <2>2. CASE i \notin 1 .. l
    <3>1. PICK j \in 1 .. k : i = l + j
      <4>1. i - l \in 1 .. k /\ i = l + (i - l)
        BY <2>2
      <4> QED BY <4>1
    <3>2. h[i] = a[j] /\ h[i].id = (b + l) + j
      BY <1>7, <1>10, <1>15, <3>1
    <3>3. (b + l) + j = b + i
      BY <3>1
    <3> QED BY <1>7, <3>1, <3>2, <3>3
  <2> QED BY <2>1, <2>2
<1>17. Ids(e, n, b + (l + k))
  <2>1. PICK z \in Nat : z = Len(t.user)
    <3>1. t.user \in Seq(OpPkt)
      BY DEF Targets
    <3> QED BY <3>1
  <2>2. Ids(t, n, b + l)
    BY <1>1, <1>2, <1>14
  <2>3. n = (b + l) + k + z
    BY <1>6, <2>1, <2>2 DEF Ids
  <2>4. \A i \in DOMAIN e.user : e.user[i].id = (b + l) + k + i
    BY <1>6, <1>8, <2>2 DEF Ids
  <2>5. DOMAIN e.user = 1 .. z
    <3>1. t.user \in Seq(OpPkt)
      BY DEF Targets
    <3> QED BY <1>8, <2>1, <3>1
  <2>6. Len(e.net) = 0 /\ DOMAIN e.net = {}
    BY <1>8
  <2>7. \A i \in DOMAIN e.user : e.user[i].id = (b + (l + k)) + 0 + i
    BY <2>4, <2>5
  <2>8. n = (b + (l + k)) + 0 + z
    BY <2>3
  <2> QED BY <1>8, <2>1, <2>6, <2>7, <2>8 DEF Ids
<1>18. Pipeline(o, e, c, n, h, s)
  <2>1. RecvOp(o, s) => PlainOp(s.recv[o].op) /\ s.recv[o].op.id = Base(o, s)
    BY DEF Granted, Pipeline
  <2>2. NumOps(h) > 0
    BY <1>7, <1>13
  <2> QED BY <1>10, <1>13, <1>14, <1>16, <1>17, <2>1, <2>2 DEF Pipeline
<1>19. Flushed(o, e, h, s)
  <2>1. h[Len(h)] # OldUnlock
    BY <1>10, <1>11, <1>12 DEF OldUnlock
  <2>2. NumOps(h) > 0
    BY <1>7, <1>13
  <2>3. e.unflushed = 0 => WantsAck(h[NumOps(h)])
    BY <1>8, <1>11, <1>13
  <2> QED BY <2>1, <2>2, <2>3 DEF Flushed, LastOpWants
<1>20. ReleasesOnce(o, e, c, h, s)
  <2>1. ASSUME NEW i \in 1 .. NumOps(h), h[i].unlock PROVE i = Len(h) /\ Left(e, c)
    BY <1>8, <1>10, <1>13, <1>16, <2>1 DEF Left
  <2>2. ~Left(e, c) \/ ReleasePending(o, h, s)
    <3>1. SUFFICES ASSUME Left(e, c) PROVE ReleasePending(o, h, s)
      OBVIOUS
    <3>2. t.sync = "UNLOCK"
      <4>1. c = "unlock" /\ t.sync \in {"NONE", "FLUSH", "UNLOCK"}
        BY <3>1 DEF Left, Targets
      <4> QED BY <4>1
    <3>3. a[k].unlock
      BY <1>7, <1>11, <3>2
    <3>4. Releasing(h[Len(h)])
      BY <1>10, <1>11, <1>12, <3>3 DEF Releasing
    <3> QED BY <1>11, <3>4 DEF ReleasePending
  <2> QED BY <1>1, <2>1, <2>2 DEF ReleasesOnce
<1>21. e.acks = s.dup[o] + Len(s.toO[o]) + Len(s.sendq[o]) + CountWants(h)
                + Bit(RecvOp(o, s) /\ WantsAck(s.recv[o].op))
  <2>1. CountWants(h) = CountWants(ch) + CountWants(a)
    BY <1>7, <1>9, CountConcat
  <2>2. PICK i \in Nat, j \in Nat : i = CountWants(ch) /\ j = CountWants(a)
    BY <1>7, CountNat
  <2>3. PICK d \in Nat, x \in Nat, y \in Nat : d = s.dup[o] /\ x = Len(s.toO[o]) /\ y = Len(s.sendq[o])
    <3>1. s.dup[o] \in Nat /\ s.toO[o] \in Seq(ToO) /\ s.sendq[o] \in Seq(ToO)
      BY DEF Process
    <3> QED BY <3>1
  <2>4. PICK z \in Nat : z = Bit(RecvOp(o, s) /\ WantsAck(s.recv[o].op))
    BY DEF Bit
  <2>6. t.acks = d + x + y + i + z
    BY <2>2, <2>3, <2>4 DEF Granted
  <2>7. e.acks = d + x + y + (i + j) + z
    BY <1>8, <2>2, <2>6
  <2> QED BY <2>1, <2>2, <2>3, <2>4, <2>7
<1>22. Granted(o, e, c, n, h, s, dl)
  BY <1>8, <1>18, <1>19, <1>20, <1>21 DEF Granted
<1> QED BY <1>3, <1>4, <1>9, <1>22

LEMMA EndedFacts ==
  ASSUME NEW t \in Targets
  PROVE  LET e == Ended(t)
         IN  /\ e \in Targets /\ e.access = t.access /\ e.sync = "NONE" /\ e.net = t.net
             /\ e.user = t.user /\ e.type = t.type
             /\ e.unflushed = 0 /\ (t.unflushed = 0 => e.acks = t.acks)
<1>1. PICK a \in Nat : a = IF t.unflushed > 0 THEN t.acks + 1 ELSE t.acks
  BY DEF Targets
<1>2. PICK e : e = Ended(t)
  OBVIOUS
<1>3. e = [t EXCEPT !.sync = "NONE", !.acks = a, !.unflushed = 0]
  BY <1>1, <1>2 DEF Ended, Targets
<1>4. e \in Targets /\ e.access = t.access /\ e.sync = "NONE" /\ e.net = t.net
      /\ e.user = t.user /\ e.unflushed = 0 /\ e.acks = a /\ e.type = t.type
  BY <1>3 DEF Targets
<1>5. t.unflushed = 0 => a = t.acks
  BY <1>1
<1> QED BY <1>2, <1>4, <1>5

\* Make_progress_target for an origin that has the lock.
LEMMA GrantedProgress ==
  ASSUME NEW o \in Origins, NEW t \in Targets, NEW c, NEW n \in Nat, NEW ch \in Seq(ToT),
         NEW s \in Process, NEW dl,
         Granted(o, t, c, n, ch, s, dl), Len(t.user) <= 1,
         c = "none" \/ t.sync # "NONE" \/ (t.net = <<>> /\ t.user = <<>>),
         t.sync = "FLUSH" => c = "flush", t.sync = "UNLOCK" => c = "unlock",
         NEW r, r = Make_progress_target(t)
  PROVE  /\ r.t \in Targets /\ r.out \in Seq(ToT) /\ r.bad \in BOOLEAN /\ ~r.bad
         /\ Granted(o, r.t, c, n, ch \o r.out, s, dl)
         /\ r.t.type = t.type /\ r.t.access = "GRANTED" /\ r.t.sync = "NONE" /\ r.t.net = <<>>
         /\ Len(r.t.user) <= 1 /\ (t.user = <<>> \/ t.sync # "NONE" => r.t.user = <<>>)
<1>1. t.access = "GRANTED"
  BY DEF Granted
<1>2. PICK m : m = Moved(t)
  OBVIOUS
<1>3. /\ m \in Targets /\ Len(m.user) <= 1
      /\ m.access = t.access /\ m.type = t.type /\ m.sync = t.sync
      /\ m.acks = t.acks /\ m.unflushed = t.unflushed
      /\ t.user = <<>> => m = t
      /\ t.sync # "NONE" => m.user = <<>>
      /\ t.sync = "NONE" => m = t
      /\ t.net # <<>> => m.net # <<>>
      /\ t.net = <<>> /\ m.net # <<>> => t.user # <<>>
      /\ \A b \in Nat : Ids(t, n, b) => Ids(m, n, b)
  BY <1>2, MovedFacts, Zenon
<1>4. t.user = <<>> => m.user = <<>>
  BY <1>3
<1>5. Granted(o, m, c, n, ch, s, dl)
  <2>1. CASE t.sync = "NONE"
    BY <1>3, <2>1
  <2>2. CASE t.sync # "NONE"
    <3>1. ~Left(m, c)
      BY <1>3, <2>2 DEF Left
    <3> QED BY <1>1, <1>3, <2>2, <3>1, GrantedStable
  <2> QED BY <2>1, <2>2
<1>6. CASE m.net = <<>> /\ t.sync = "NONE" /\ Is(r, m, <<>>)
  <2>1. r.t = m /\ r.out = <<>> /\ r.bad \in BOOLEAN /\ ~r.bad
    BY <1>6 DEF Is
  <2>2. ch \o <<>> = ch /\ <<>> \in Seq(ToT)
    OBVIOUS
  <2>3. Granted(o, r.t, c, n, ch \o r.out, s, dl)
    BY <1>5, <2>1, <2>2
  <2> QED BY <1>1, <1>3, <1>4, <1>6, <2>1, <2>2, <2>3
<1>7. CASE m.net = <<>> /\ t.sync # "NONE"
  <2>1. PICK e : e = Ended(m)
    OBVIOUS
  <2>2. /\ e \in Targets /\ e.access = m.access /\ e.sync = "NONE" /\ e.net = m.net
        /\ e.user = m.user /\ e.type = m.type
        /\ e.unflushed = 0 /\ (m.unflushed = 0 => e.acks = m.acks)
    BY <1>3, <2>1, EndedFacts, Zenon
  <2>3. m.user = <<>> /\ m.unflushed \in Nat /\ t.sync \in {"FLUSH", "UNLOCK"}
    BY <1>3, <1>7 DEF Targets
  <2>4. CASE t.sync = "FLUSH" /\ m.unflushed = 0
    <3>1. Is(r, e, <<>>)
      <4>1. Is(r, e, IF m.unflushed > 0 THEN <<[type |-> "flush"]>> ELSE <<>>)
        BY <1>1, <1>2, <1>7, <2>1, <2>4, ProgressGranted
      <4>2. ~(m.unflushed > 0)
        BY <2>4
      <4> QED BY <4>1, <4>2
    <3>2. r.t = e /\ r.out = <<>> /\ r.bad \in BOOLEAN /\ ~r.bad
      BY <3>1 DEF Is
    <3>3. ch \o <<>> = ch /\ <<>> \in Seq(ToT)
      OBVIOUS
    <3>4. ~Left(e, c) /\ m.sync # "NONE"
      BY <1>3, <2>4 DEF Left
    <3>5. ASSUME NEW b \in Nat, Ids(m, n, b) PROVE Ids(e, n, b)
      BY <2>2, <3>5 DEF Ids
    <3>6. Granted(o, e, c, n, ch, s, dl)
      BY <1>1, <1>3, <1>5, <2>2, <2>4, <3>4, <3>5, GrantedStable
    <3>7. Granted(o, r.t, c, n, ch \o r.out, s, dl)
      BY <3>2, <3>3, <3>6
    <3>8. Len(r.t.user) <= 1 /\ r.t.user = <<>>
      BY <1>3, <2>2, <2>3, <3>2
    <3> QED BY <1>1, <1>3, <1>7, <2>2, <3>2, <3>3, <3>7, <3>8
  <2>5. CASE ~(t.sync = "FLUSH" /\ m.unflushed = 0)
    <3>1. PICK p : p = IF t.sync = "FLUSH" THEN [type |-> "flush"]
                       ELSE [type |-> "unlock", noack |-> ~(m.unflushed > 0)]
      OBVIOUS
    <3>2. Is(r, e, <<p>>)
      <4>1. CASE t.sync = "FLUSH"
        <5>1. m.unflushed > 0
          BY <2>3, <2>5, <4>1
        <5> QED BY <1>1, <1>2, <1>7, <2>1, <3>1, <4>1, <5>1, ProgressGranted
      <4>2. CASE t.sync = "UNLOCK"
        <5>1. Is(r, e, <<[type |-> "unlock", noack |-> ~(m.unflushed > 0)]>>)
          BY <1>1, <1>2, <1>7, <2>1, <4>2, ProgressGranted
        <5>2. p = [type |-> "unlock", noack |-> ~(m.unflushed > 0)]
          BY <3>1, <4>2
        <5> QED BY <5>1, <5>2, Zenon
      <4> QED BY <2>3, <4>1, <4>2
    <3>3. r.t = e /\ r.out = <<p>> /\ r.bad \in BOOLEAN /\ ~r.bad
      BY <3>2 DEF Is
    <3>4. PICK f \in BOOLEAN : f <=> ~(m.unflushed > 0)
      OBVIOUS
    <3>5. t.sync = "UNLOCK" => p = [type |-> "unlock", noack |-> f]
      BY <3>1, <3>4
    <3>6. /\ t.sync = "FLUSH" => p \in FlushPkt /\ m.unflushed > 0
          /\ t.sync = "UNLOCK" => p \in UnlockPkt /\ (p.noack <=> f)
      <4>1. CASE t.sync = "FLUSH"
        BY <2>3, <2>5, <3>1, <4>1 DEF FlushPkt
      <4>2. CASE t.sync = "UNLOCK"
        BY <3>5, <4>2 DEF UnlockPkt
      <4> QED BY <2>3, <4>1, <4>2
    <3>7. p \in FlushPkt \cup UnlockPkt
      BY <2>3, <3>6
    <3>8. Granted(o, e, c, n, ch \o <<p>>, s, dl)
      BY <1>3, <1>5, <1>7, <2>1, <2>3, <3>4, <3>6, <3>7, GrantedEnds
    <3>9. <<p>> \in Seq(ToT)
      BY <3>7 DEF ToT
    <3>10. Len(r.t.user) <= 1 /\ r.t.user = <<>>
      BY <1>3, <2>2, <2>3, <3>3
    <3> QED BY <1>1, <1>3, <1>7, <2>2, <3>3, <3>8, <3>9, <3>10
  <2> QED BY <2>4, <2>5
<1>8. CASE m.net # <<>> /\ Is(r, SentAll(m), All(m))
  <2>1. r.t = SentAll(m) /\ r.out = All(m) /\ r.bad \in BOOLEAN /\ ~r.bad
    BY <1>8 DEF Is
  <2>2. m.access = "GRANTED"
    BY <1>1, <1>3
  <2>3. /\ r.t \in Targets /\ r.t.access = "GRANTED" /\ r.t.net = <<>> /\ r.t.user = m.user
        /\ r.t.type = m.type /\ r.t.sync = "NONE"
    BY <1>3, <1>8, <2>1, <2>2, SentAllFacts, Zenon
  <2>4. r.out \in Seq(ToT)
    BY <1>3, <1>8, <2>1, <2>2, AllFacts, Zenon
  <2>5. c = "none" \/ m.sync # "NONE"
    BY <1>3, <1>8
  <2>6. Granted(o, SentAll(m), c, n, ch \o All(m), s, dl)
    BY <1>3, <1>5, <1>8, <2>5, GrantedSends
  <2>7. Granted(o, r.t, c, n, ch \o r.out, s, dl)
    BY <2>1, <2>6
  <2> QED BY <1>3, <1>4, <2>1, <2>3, <2>4, <2>7
<1>9. \/ m.net = <<>> /\ t.sync = "NONE" /\ Is(r, m, <<>>)
      \/ m.net = <<>> /\ t.sync # "NONE"
      \/ m.net # <<>> /\ Is(r, SentAll(m), All(m))
  BY <1>1, <1>2, ProgressGranted
<1> QED BY <1>6, <1>7, <1>8, <1>9

-----------------------------------------------------------------------------
(* Progress of an origin that has called for the lock.                     *)

\* An origin before it makes progress.
Ready(o, t, c, s, dl) ==
  /\ t.access # "NONE" /\ t.type # "NONE"
  /\ Len(t.user) <= 1 /\ (~dl => t.user = <<>>)
  /\ t.sync = "FLUSH" => c = "flush"
  /\ t.sync = "UNLOCK" => c = "unlock"
  /\ c # "none" /\ t.sync = "NONE" => t.access = "GRANTED" /\ t.net = <<>> /\ t.user = <<>>
  /\ t.access = "CALLED" /\ o \notin s.discarded =>
       /\ Moved(t).net # <<>> => HasCandidate(Moved(t).net)
       /\ t.sync = "UNLOCK" /\ Moved(t).net # <<>> => dl /\ Len(Moved(t).net) = 1

\* It has the result r.
Progressed(o, r, c, n, ch, s, dl) ==
  /\ r.t \in Targets /\ r.out \in Seq(ToT) /\ r.bad \in BOOLEAN
  /\ r.bad => o \in s.discarded
  /\ r.t.access # "NONE"
  /\ Settled(o, r.t, c, s, dl)
  /\ \/ Phase(o, r.t, c, n, ch \o r.out, s, dl)
     \/ r.bad /\ Failed(o, r.t, c, n, ch \o r.out, s, dl)

LEMMA TwoElements ==
  ASSUME NEW a, NEW b
  PROVE  /\ <<a>> \o <<b>> = <<a, b>>
         /\ Head(<<a, b>>) = a /\ Tail(<<a, b>>) = <<b>> /\ Len(<<a, b>>) = 2
<1>1. PICK c : c = <<a>> \o <<b>>
  OBVIOUS
<1>2. <<a>> \in Seq({a, b}) /\ <<b>> \in Seq({a, b}) /\ <<a, b>> \in Seq({a, b})
  OBVIOUS
<1>3. c \in Seq({a, b}) /\ Len(c) = 2 /\ c[1] = a /\ c[2] = b
  <2>1. Len(<<a>>) = 1 /\ Len(<<b>>) = 1 /\ (<<a>>)[1] = a /\ (<<b>>)[1] = b
    OBVIOUS
  <2> QED BY <1>1, <1>2, <2>1
<1>4. c = <<a, b>>
  BY <1>2, <1>3
<1>5. Head(<<a, b>>) = a /\ Len(<<a, b>>) = 2
  OBVIOUS
<1>6. Tail(<<a, b>>) = <<b>>
  <2>1. PICK d : d = Tail(<<a, b>>)
    OBVIOUS
  <2>2. d \in Seq({a, b}) /\ Len(d) = 1 /\ d[1] = b
    BY <1>2, <2>1
  <2> QED BY <2>1, <2>2
<1> QED BY <1>1, <1>4, <1>5, <1>6

LEMMA IdleChannel ==
  ASSUME NEW o, NEW t, NEW c, NEW n, NEW ch, NEW s, NEW dl,
         Idle(o, t, c, n, ch, s, dl), NEW p, NEW h, h = ch \o <<p>>
  PROVE  /\ \/ Len(h) = 1 /\ s.holds[o] = "NONE" /\ s.recv[o].what \in {"none", "drop"}
            \/ Len(h) = 2 /\ s.holds[o] # "NONE" /\ s.recv[o].what = "none" /\ h[1] = OldUnlock
         /\ h[Len(h)] = p
         /\ \A i \in DOMAIN h : h[i] = OldUnlock \/ h[i] = p
<1>1. CASE ch = <<>> /\ s.holds[o] = "NONE"
  <2>1. h = <<p>>
    BY <1>1
  <2>2. s.recv[o].what \in {"none", "drop"}
    BY DEF Idle
  <2> QED BY <1>1, <2>1, <2>2
<1>2. CASE ch = <<OldUnlock>> /\ s.holds[o] # "NONE"
  <2>1. h = <<OldUnlock, p>>
    BY <1>2, TwoElements
  <2>2. s.recv[o].what = "none"
    <3>1. ch # <<>>
      BY <1>2
    <3> QED BY <3>1 DEF Idle
  <2> QED BY <1>2, <2>1, <2>2
<1> QED BY <1>1, <1>2 DEF Idle

LEMMA BitWants ==
  /\ \A p \in OpPkt : (Wants(p) <=> WantsAck(p)) /\ Bit(Wants(p)) = Bit(WantsAck(p))
  /\ \A p \in LockReq : ~Wants(p) /\ Bit(Wants(p)) = 0
  /\ ~Wants(OldUnlock) /\ Bit(Wants(OldUnlock)) = 0
<1>1. ASSUME NEW p \in OpPkt PROVE (Wants(p) <=> WantsAck(p)) /\ Bit(Wants(p)) = Bit(WantsAck(p))
  <2>1. p.type \in OpKinds
    BY PktTypes
  <2>2. Wants(p) <=> WantsAck(p)
    BY <2>1 DEF Wants, OpKinds
  <2> QED BY <2>2 DEF Bit
<1>2. ASSUME NEW p \in LockReq PROVE ~Wants(p) /\ Bit(Wants(p)) = 0
  <2>1. ~Wants(p)
    BY PktTypes DEF Wants
  <2> QED BY <2>1 DEF Bit
<1>3. ~Wants(OldUnlock)
  BY DEF Wants, OldUnlock, OpKinds
<1>4. Bit(Wants(OldUnlock)) = 0
  BY <1>3 DEF Bit
<1> QED BY <1>1, <1>2, <1>3, <1>4

LEMMA SentFirstFacts ==
  ASSUME NEW m \in Targets, m.net # <<>>, m.access = "CALLED",
         NEW e, e = SentFirst(m), NEW f, f = First(m)
  PROVE  /\ e \in Targets /\ e.access = "ISSUED" /\ e.type = m.type /\ e.sync = m.sync
         /\ e.user = m.user /\ e.net # <<>> /\ Head(e.net) = f /\ Len(e.net) = Len(m.net)
         /\ f \in OpPkt /\ f.type = m.net[1].type /\ f.lock = m.type
         /\ IsRead(f) => WantsAck(f)
         /\ f.unlock <=> (1 = Len(m.net) /\ m.sync = "UNLOCK")
         /\ e.acks = m.acks + Bit(WantsAck(f))
         /\ \A n, b : Ids(m, n, b) => Ids(e, n, b)
<1>1. m.net \in Seq(OpPkt) /\ 1 \in DOMAIN m.net
  BY DEF Targets
<1>3. /\ f \in OpPkt
      /\ f.id = m.net[1].id /\ f.type = m.net[1].type
      /\ f.lock = m.type
      /\ IsRead(f) => WantsAck(f)
      /\ f.unlock <=> (1 = Len(m.net) /\ m.sync = "UNLOCK")
  BY <1>1, FlaggedFacts DEF First
<1>4. PICK w : w = [m.net EXCEPT ![1] = f]
  OBVIOUS
<1>5. /\ w \in Seq(OpPkt) /\ Len(w) = Len(m.net) /\ w # <<>> /\ Head(w) = f
      /\ DOMAIN w = DOMAIN m.net /\ \A i \in DOMAIN m.net : w[i].id = m.net[i].id
  <2>1. w \in Seq(OpPkt) /\ Len(w) = Len(m.net) /\ DOMAIN w = DOMAIN m.net
    BY <1>1, <1>3, <1>4
  <2>2. w[1] = f /\ \A i \in DOMAIN m.net : i # 1 => w[i] = m.net[i]
    BY <1>1, <1>4
  <2>3. w # <<>>
    BY <1>1, <2>1
  <2>4. Head(w) = w[1]
    BY <2>1, <2>3
  <2> QED BY <1>3, <2>1, <2>2, <2>3, <2>4
<1>6. PICK a \in Nat : a = IF WantsAck(f) THEN m.acks + 1 ELSE m.acks
  BY DEF Targets
<1>7. PICK u \in Nat : u = IF WantsAck(f) THEN 0 ELSE m.unflushed + 1
  BY DEF Targets
<1>9. e = [m EXCEPT !.access = "ISSUED", !.net = w, !.acks = a, !.unflushed = u]
  BY <1>4, <1>6, <1>7 DEF SentFirst, Targets
<1>10. e \in Targets
  BY <1>5, <1>9 DEF Targets
<1>11. /\ e.access = "ISSUED" /\ e.type = m.type /\ e.sync = m.sync /\ e.user = m.user
       /\ e.net = w /\ e.acks = a
  BY <1>9 DEF Targets
<1>12. a = m.acks + Bit(WantsAck(f))
  <2>1. m.acks \in Nat
    BY DEF Targets
  <2> QED BY <1>6, <2>1 DEF Bit
<1>13. ASSUME NEW n, NEW b, Ids(m, n, b) PROVE Ids(e, n, b)
  BY <1>5, <1>11, <1>13 DEF Ids
<1> QED BY <1>3, <1>5, <1>10, <1>11, <1>12, <1>13

\* Whichever it does, it is in a phase afterwards or an assertion has failed.
LEMMA CalledProgress ==
  ASSUME NEW o \in Origins, NEW t \in Targets, NEW c, NEW n \in Nat, NEW ch \in Seq(ToT),
         NEW s \in Process, NEW dl, dl = conf.delay, dl \in BOOLEAN,
         t.access = "CALLED", Idle(o, t, c, n, ch, s, dl), Ready(o, t, c, s, dl),
         NEW r, r = Make_progress_target(t)
  PROVE  Progressed(o, r, c, n, ch, s, dl)
<1>1. PICK m : m = Moved(t)
  OBVIOUS
<1>2. Len(t.user) <= 1
  BY DEF Ready
<1>3. /\ m \in Targets /\ Len(m.user) <= 1
      /\ m.access = t.access /\ m.type = t.type /\ m.sync = t.sync
      /\ m.acks = t.acks /\ m.unflushed = t.unflushed
      /\ t.user = <<>> => m = t
      /\ t.sync # "NONE" => m.user = <<>>
      /\ t.sync = "NONE" => m = t
      /\ t.net # <<>> => m.net # <<>>
      /\ \A b \in Nat : Ids(t, n, b) => Ids(m, n, b)
  BY <1>1, <1>2, MovedFacts, Zenon
<1>4. PICK b \in Nat : b = Len(s.applied[o]) /\ Ids(m, n, b)
  <2>1. Len(s.applied[o]) \in Nat
    BY BaseNat
  <2> QED BY <1>3, <2>1 DEF Idle
<1>5. /\ t.type # "NONE" /\ m.type \in Locks /\ (~dl => m.user = <<>>)
      /\ t.sync = "FLUSH" => c = "flush"
      /\ t.sync = "UNLOCK" => c = "unlock"
      /\ c # "none" => t.sync # "NONE"
      /\ t.sync \in {"NONE", "FLUSH", "UNLOCK"}
  BY <1>3 DEF Ready, Targets, Types
<1>6. CASE /\ t.sync # "UNLOCK" /\ ~HasCandidate(m.net) /\ ~HasCandidate(m.user)
           /\ Is(r, [m EXCEPT !.access = "ISSUED"], <<[type |-> "lock", lock |-> m.type]>>)
  <2>1. PICK p : p = [type |-> "lock", lock |-> m.type]
    OBVIOUS
  <2>2. r.out = <<p>> /\ r.t = [m EXCEPT !.access = "ISSUED"] /\ r.bad \in BOOLEAN /\ ~r.bad
    BY <1>6, <2>1 DEF Is
  <2>3. p \in LockReq /\ p.lock = m.type /\ p \in ToT
    BY <1>5, <2>1 DEF LockReq, ToT
  <2>4. PICK e : e = r.t
    OBVIOUS
  <2>5. /\ e \in Targets /\ e.access = "ISSUED" /\ e.type = m.type /\ e.sync = m.sync /\ e.net = m.net
        /\ e.user = m.user /\ e.acks = m.acks
    BY <1>3, <2>2, <2>4 DEF Targets
  <2>6. Ids(e, n, b)
    BY <1>4, <2>5 DEF Ids
  <2>7. PICK h : h = ch \o <<p>>
    OBVIOUS
  <2>8. /\ \/ Len(h) = 1 /\ s.holds[o] = "NONE" /\ s.recv[o].what \in {"none", "drop"}
           \/ Len(h) = 2 /\ s.holds[o] # "NONE" /\ s.recv[o].what = "none" /\ h[1] = OldUnlock
        /\ h[Len(h)] = p
        /\ \A i \in DOMAIN h : h[i] = OldUnlock \/ h[i] = p
    <3>1. Idle(o, t, c, n, ch, s, dl)
      OBVIOUS
    <3> QED BY ONLY <2>7, <3>1, IdleChannel
  <2>9. e.acks = s.dup[o] + Bit(Wants(p))
    <3>1. PICK d \in Nat : d = s.dup[o]
      BY DEF Process
    <3>2. t.acks = d /\ Bit(Wants(p)) = 0
      BY <2>3, <3>1, BitWants DEF Idle
    <3> QED BY <1>3, <2>5, <3>1, <3>2
  <2>10. Requested(o, e, c, n, h, s, dl)
    BY <1>4, <2>3, <2>5, <2>6, <2>8, <2>9 DEF Requested, Request, Idle
  <2>11. <<p>> \in Seq(ToT)
    BY <2>3
  <2>12. Settled(o, e, c, s, dl)
    BY <1>3, <1>5, <2>5 DEF Settled
  <2> QED BY <2>2, <2>4, <2>5, <2>7, <2>10, <2>11, <2>12 DEF Progressed, Phase
<1>7. CASE /\ t.sync = "UNLOCK" /\ m.net = <<>>
           /\ Is(r, [m EXCEPT !.access = "GRANTED", !.sync = "NONE"], <<>>)
  <2>1. r.out = <<>> /\ r.t = [m EXCEPT !.access = "GRANTED", !.sync = "NONE"]
        /\ r.bad \in BOOLEAN /\ ~r.bad
    BY <1>7 DEF Is
  <2>2. PICK e : e = r.t
    OBVIOUS
  <2>3. /\ e \in Targets /\ e.access = "GRANTED" /\ e.type = m.type /\ e.sync = "NONE" /\ e.net = <<>>
        /\ e.user = <<>> /\ e.acks = m.acks
    BY <1>3, <1>7, <2>1, <2>2 DEF Targets
  <2>4. Ids(e, n, b)
    BY <1>3, <1>4, <1>7, <2>3, IdsEmpty
  <2>5. s.recv[o].what = "none" /\ ~RecvOp(o, s)
    BY <1>3, <1>7 DEF Idle, RecvOp
  <2>6. ch \o <<>> = ch /\ <<>> \in Seq(ToT)
    OBVIOUS
  <2>7. \/ ch = <<>> /\ s.holds[o] = "NONE"
        \/ Len(ch) = 1 /\ ch # <<>> /\ ch[1] = OldUnlock /\ s.holds[o] # "NONE" /\ ch = <<OldUnlock>>
    BY DEF Idle
  <2>8. OldUnlock \in UnlockPkt /\ OldUnlock.type = "unlock" /\ OldUnlock.type \notin OpKinds
    BY DEF OldUnlock, UnlockPkt, OpKinds
  <2>9. NumOps(ch) = 0
    BY <2>7, <2>8 DEF NumOps
  <2>10. Base(o, s) = b
    <3>1. Bit(RecvOp(o, s)) = 0
      BY <2>5 DEF Bit
    <3> QED BY <1>4, <3>1 DEF Base
  <2>11. Pipeline(o, e, c, n, ch, s)
    <3>1. Ids(e, n, Base(o, s) + NumOps(ch))
      BY <1>4, <2>4, <2>9, <2>10
    <3> QED BY <1>5, <1>7, <2>3, <2>5, <2>7, <2>8, <2>9, <3>1 DEF Pipeline
  <2>12. Flushed(o, e, ch, s)
    BY <2>5, <2>9 DEF Flushed, LastOpWants
  <2>13. s.sendq[o] = <<>> /\ s.toO[o] = <<>> /\ DOMAIN s.sendq[o] = {} /\ DOMAIN s.toO[o] = {}
    BY DEF Idle
  <2>14. ReleasesOnce(o, e, c, ch, s)
    <3>1. Left(e, c)
      BY <1>5, <1>7, <2>3 DEF Left
    <3>2. s.holds[o] # "NONE" <=> ReleasePending(o, ch, s)
      <4>1. CASE ch = <<>> /\ s.holds[o] = "NONE"
        BY <4>1, <2>5, <2>13 DEF ReleasePending
      <4>2. CASE Len(ch) = 1 /\ ch # <<>> /\ ch[1] = OldUnlock /\ s.holds[o] # "NONE"
        BY <4>2, <2>8 DEF ReleasePending, Releasing
      <4> QED BY <2>7, <4>1, <4>2
    <3>3. s.holds[o] = "NONE" => ch = <<>> /\ ~RecvOp(o, s)
      BY <2>5, <2>7
    <3> QED BY <2>5, <2>9, <2>13, <3>1, <3>2, <3>3 DEF ReleasesOnce
  <2>15. CountWants(ch) = 0
    <3>1. CountWants(<<OldUnlock>>) = Bit(Wants(OldUnlock))
      BY CountOne
    <3> QED BY <2>7, <3>1, BitWants, CountEmpty
  <2>16. e.acks = s.dup[o] + Len(s.toO[o]) + Len(s.sendq[o]) + CountWants(ch)
                  + Bit(RecvOp(o, s) /\ WantsAck(s.recv[o].op))
    <3>1. PICK d \in Nat : d = s.dup[o]
      BY DEF Process
    <3>2. Bit(RecvOp(o, s) /\ WantsAck(s.recv[o].op)) = 0
      BY <2>5 DEF Bit
    <3>3. Len(s.toO[o]) = 0 /\ Len(s.sendq[o]) = 0
      BY <2>13
    <3>4. e.acks = d
      BY <1>3, <2>3, <3>1 DEF Idle
    <3> QED BY <2>15, <3>1, <3>2, <3>3, <3>4
  <2>17. Granted(o, e, c, n, ch, s, dl)
    BY <2>3, <2>5, <2>11, <2>12, <2>13, <2>14, <2>16 DEF Granted, Plain, Idle
  <2>18. Settled(o, e, c, s, dl)
    <3>1. Len(e.user) <= 1
      BY <2>3
    <3> QED BY <1>3, <1>5, <2>3, <3>1 DEF Settled
  <2> QED BY <2>1, <2>2, <2>3, <2>6, <2>17, <2>18 DEF Progressed, Phase
<1>8. CASE /\ m.net # <<>>
           /\ r.t = SentFirst(m) /\ r.out = <<First(m)>>
           /\ r.bad \in BOOLEAN
           /\ r.bad <=> \/ t.sync = "UNLOCK" /\ ~(conf.delay /\ Len(m.net) = 1 /\ HasCandidate(m.net))
                        \/ ~Candidate(First(m))
  <2>1. PICK e : e = r.t
    OBVIOUS
  <2>2. PICK f : f = First(m)
    OBVIOUS
  <2>3. /\ e \in Targets /\ e.access = "ISSUED" /\ e.type = m.type /\ e.sync = m.sync
        /\ e.user = m.user /\ e.net # <<>> /\ Head(e.net) = f /\ Len(e.net) = Len(m.net)
        /\ f \in OpPkt /\ f.type = m.net[1].type /\ f.lock = m.type
        /\ IsRead(f) => WantsAck(f)
        /\ f.unlock <=> (1 = Len(m.net) /\ m.sync = "UNLOCK")
        /\ e.acks = m.acks + Bit(WantsAck(f))
        /\ Ids(e, n, b)
    <3>1. m.access = "CALLED"
      BY <1>3
    <3> QED BY <1>3, <1>4, <1>8, <2>1, <2>2, <3>1, SentFirstFacts
  <2>4. f \in ToT /\ <<f>> \in Seq(ToT) /\ r.out = <<f>>
    BY <1>8, <2>2, <2>3 DEF ToT
  <2>5. PICK h : h = ch \o <<f>>
    OBVIOUS
  <2>6. /\ \/ Len(h) = 1 /\ s.holds[o] = "NONE" /\ s.recv[o].what \in {"none", "drop"}
           \/ Len(h) = 2 /\ s.holds[o] # "NONE" /\ s.recv[o].what = "none" /\ h[1] = OldUnlock
        /\ h[Len(h)] = f
        /\ \A i \in DOMAIN h : h[i] = OldUnlock \/ h[i] = f
    <3>1. Idle(o, t, c, n, ch, s, dl)
      OBVIOUS
    <3> QED BY ONLY <2>5, <3>1, IdleChannel
  <2>7. Settled(o, e, c, s, dl)
    BY <1>3, <1>5, <2>3 DEF Settled
  <2>8. m.net[1] = Head(m.net)
    <3>1. m.net \in Seq(OpPkt)
      BY <1>3 DEF Targets
    <3> QED BY <1>8, <3>1
  <2>9. Candidate(f) <=> HasCandidate(m.net)
    BY <1>8, <2>3, <2>8 DEF Candidate, HasCandidate
  <2>10. r.bad => o \in s.discarded
    <3>1. SUFFICES ASSUME r.bad, o \notin s.discarded PROVE FALSE
      OBVIOUS
    <3>2. HasCandidate(m.net) /\ (t.sync = "UNLOCK" => dl /\ Len(m.net) = 1)
      BY <1>1, <1>8, <3>1 DEF Ready
    <3> QED BY <1>8, <2>2, <2>9, <3>1, <3>2
  <2>11. CASE r.bad
    <3>1. \A i \in DOMAIN h : h[i].type \in OpKinds => h[i].lock # "NONE"
      <4>1. OldUnlock.type \notin OpKinds
        BY DEF OldUnlock, OpKinds
      <4> QED BY <1>3, <1>5, <2>3, <2>6, <4>1
    <3>2. Failed(o, e, c, n, h, s, dl)
      BY <2>3, <2>10, <2>11, <3>1 DEF Failed
    <3> QED BY <1>8, <2>1, <2>3, <2>4, <2>5, <2>7, <2>10, <2>11, <3>2 DEF Progressed
  <2>12. CASE ~r.bad
    <3>1. Candidate(f) /\ (t.sync = "UNLOCK" => dl)
      BY <1>8, <2>2, <2>12
    <3>2. LockOp(e, c, f, dl)
      BY <1>3, <1>5, <2>3, <3>1 DEF LockOp, Candidate
    <3>3. e.acks = s.dup[o] + Bit(Wants(f))
      BY <1>3, <2>3, BitWants DEF Idle
    <3>4. Requested(o, e, c, n, h, s, dl)
      BY <1>4, <2>3, <2>6, <3>2, <3>3 DEF Requested, Request, Idle
    <3> QED BY <1>8, <2>1, <2>3, <2>4, <2>5, <2>7, <2>12, <3>4 DEF Progressed, Phase
  <2> QED BY <1>8, <2>11, <2>12
<1>9. CASE /\ t.sync # "UNLOCK" /\ m.net = <<>> /\ HasCandidate(m.user)
           /\ Is(r, m, <<>>)
  <2>1. r.out = <<>> /\ r.t = m /\ r.bad \in BOOLEAN /\ ~r.bad
    BY <1>9 DEF Is
  <2>2. m.user # <<>> /\ Candidate(Head(m.user))
    BY <1>9 DEF HasCandidate
  <2>3. t.sync = "NONE" /\ m = t /\ c = "none" /\ dl
    BY <1>3, <1>5, <2>2
  <2>4. ch \o <<>> = ch /\ <<>> \in Seq(ToT)
    OBVIOUS
  <2>5. Settled(o, m, c, s, dl)
    BY <1>3, <1>5, <1>9, <2>2, <2>3 DEF Settled
  <2> QED BY <1>3, <2>1, <2>3, <2>4, <2>5 DEF Progressed, Phase
<1> QED BY <1>1, <1>2, <1>6, <1>7, <1>8, <1>9, ProgressCalled

-----------------------------------------------------------------------------
(* The calls of an origin.                                                 *)

\* Make_progress_target in any access state.
LEMMA Progress ==
  ASSUME NEW o \in Origins, NEW t \in Targets, NEW c, NEW n \in Nat, NEW ch \in Seq(ToT),
         NEW s \in Process, NEW dl, dl = conf.delay, dl \in BOOLEAN,
         Ready(o, t, c, s, dl),
         t.access # "ISSUED" => Phase(o, t, c, n, ch, s, dl),
         t.access = "ISSUED" => Phase(o, Moved(t), c, n, ch, s, dl),
         NEW r, r = Make_progress_target(t)
  PROVE  Progressed(o, r, c, n, ch, s, dl)
<1>1. t.access \in {"CALLED", "ISSUED", "GRANTED"} /\ t.sync \in {"NONE", "FLUSH", "UNLOCK"}
  BY DEF Ready, Targets
<1>2. Len(t.user) <= 1
  BY DEF Ready
<1>3. CASE t.access = "CALLED"
  <2>1. Idle(o, t, c, n, ch, s, dl)
    BY <1>3 DEF Phase, Requested, Queued, Refused, Receiving, Answered, Granted
  <2> QED BY <1>3, <2>1, CalledProgress
<1>4. CASE t.access = "ISSUED"
  <2>1. Is(r, Moved(t), <<>>)
    BY <1>2, <1>4, ProgressIssued
  <2>2. r.t = Moved(t) /\ r.out = <<>> /\ r.bad \in BOOLEAN /\ ~r.bad
    BY <2>1 DEF Is
  <2>3. ch \o <<>> = ch /\ <<>> \in Seq(ToT)
    OBVIOUS
  <2>4. PICK m : m = Moved(t)
    OBVIOUS
  <2>5. /\ m \in Targets /\ Len(m.user) <= 1
        /\ m.access = t.access /\ m.type = t.type /\ m.sync = t.sync
        /\ t.user = <<>> => m = t
        /\ t.sync # "NONE" => m.user = <<>>
        /\ t.sync = "NONE" => m = t
    BY <1>2, <2>4, MovedFacts, Zenon
  <2>6. Settled(o, m, c, s, dl)
    BY <1>4, <2>5 DEF Settled, Ready
  <2> QED BY <1>4, <2>2, <2>3, <2>4, <2>5, <2>6 DEF Progressed
<1>5. CASE t.access = "GRANTED"
  <2>1. Granted(o, t, c, n, ch, s, dl)
    BY <1>5 DEF Phase, Idle, Requested, Queued, Refused, Receiving, Answered
  <2>2. /\ c = "none" \/ t.sync # "NONE" \/ (t.net = <<>> /\ t.user = <<>>)
        /\ t.sync = "FLUSH" => c = "flush"
        /\ t.sync = "UNLOCK" => c = "unlock"
        /\ (~dl => t.user = <<>>) /\ t.type # "NONE"
        /\ c # "none" /\ t.sync = "NONE" => t.user = <<>>
    BY DEF Ready
  <2>3. /\ r.t \in Targets /\ r.out \in Seq(ToT) /\ r.bad \in BOOLEAN /\ ~r.bad
        /\ Granted(o, r.t, c, n, ch \o r.out, s, dl)
        /\ r.t.type = t.type /\ r.t.access = "GRANTED" /\ r.t.sync = "NONE" /\ r.t.net = <<>>
        /\ Len(r.t.user) <= 1 /\ (t.user = <<>> \/ t.sync # "NONE" => r.t.user = <<>>)
    BY <1>2, <2>1, <2>2, GrantedProgress
  <2>4. Settled(o, r.t, c, s, dl)
    BY <2>2, <2>3 DEF Settled
  <2> QED BY <2>3, <2>4 DEF Progressed, Phase
<1> QED BY <1>1, <1>3, <1>4, <1>5

\* A call changes the target element from t to t2 and makes progress.
LEMMA CallProgress ==
  ASSUME NEW o \in Origins, NEW t \in Targets, NEW n \in Nat, NEW ch \in Seq(ToT),
         NEW s \in Process, NEW dl, dl = conf.delay, dl \in BOOLEAN,
         Settled(o, t, "none", s, dl), Phase(o, t, "none", n, ch, s, dl), t.access # "NONE",
         NEW t2 \in Targets, NEW c2, NEW n2 \in Nat,
         t2.access = t.access, t2.type = t.type, t2.acks = t.acks, t2.unflushed = t.unflushed,
         t.net # <<>> => t2.net # <<>> /\ Head(t2.net) = Head(t.net),
         \A b \in Nat : Ids(t, n, b) => Ids(t2, n2, b),
         Len(t2.user) <= 1, ~dl => t2.user = <<>>,
         \/ c2 = "none" /\ t2.sync = "NONE"
         \/ c2 = "flush" /\ t2.sync = "FLUSH"
         \/ c2 = "unlock" /\ t2.sync = "UNLOCK",
         t.access = "CALLED" /\ o \notin s.discarded =>
           /\ Moved(t2).net # <<>> => HasCandidate(Moved(t2).net)
           /\ t2.sync = "UNLOCK" /\ Moved(t2).net # <<>> => dl /\ Len(Moved(t2).net) = 1
  PROVE  Progressed(o, Make_progress_target(t2), c2, n2, ch, s, dl)
<1>1. t.sync = "NONE" /\ t.type # "NONE"
  BY DEF Settled, Targets
<1>2. Ready(o, t2, c2, s, dl)
  BY <1>1 DEF Ready
<1>3. CASE t.access = "CALLED"
  <2>1. Idle(o, t, "none", n, ch, s, dl)
    BY <1>3 DEF Phase, Requested, Queued, Refused, Receiving, Answered, Granted
  <2>2. Ids(t2, n2, Len(s.applied[o]))
    BY <2>1, BaseNat DEF Idle
  <2>3. Idle(o, t2, c2, n2, ch, s, dl)
    BY <2>1, <2>2 DEF Idle
  <2>4. Phase(o, t2, c2, n2, ch, s, dl)
    BY <2>3 DEF Phase
  <2> QED BY <1>2, <1>3, <2>4, Progress
<1>4. CASE t.access = "ISSUED"
  <2>1. PICK m : m = Moved(t2)
    OBVIOUS
  <2>2. /\ m.access = t2.access /\ m.type = t2.type /\ m.acks = t2.acks
        /\ t2.net # <<>> => m.net # <<>> /\ Head(m.net) = Head(t2.net)
        /\ \A b \in Nat : Ids(t2, n2, b) => Ids(m, n2, b)
    BY <2>1, MovedFacts, Zenon
  <2>3. ASSUME NEW q, LockOp(t, "none", q, dl) PROVE LockOp(m, c2, q, dl)
    BY <2>2, <2>3 DEF LockOp
  <2>4. Extends(t, "none", n, m, c2, n2, dl)
    BY <2>2, <2>3 DEF Extends
  <2>5. Phase(o, m, c2, n2, ch, s, dl)
    BY <1>4, <2>4, IssuedStable
  <2> QED BY <1>2, <1>4, <2>1, <2>5, Progress
<1>5. CASE t.access = "GRANTED"
  <2>1. Granted(o, t, "none", n, ch, s, dl)
    BY <1>5 DEF Phase, Idle, Requested, Queued, Refused, Receiving, Answered
  <2>2. ~Left(t2, c2)
    BY DEF Left
  <2>3. Granted(o, t2, c2, n2, ch, s, dl)
    BY <1>5, <2>1, <2>2, GrantedStable
  <2>4. Phase(o, t2, c2, n2, ch, s, dl)
    BY <2>3 DEF Phase
  <2> QED BY <1>2, <1>5, <2>4, Progress
<1>6. t.access \in {"CALLED", "ISSUED", "GRANTED"}
  BY DEF Targets
<1> QED BY <1>3, <1>4, <1>5, <1>6

-----------------------------------------------------------------------------
(* A step of one process leaves the others alone.                          *)

\* Nothing that concerns origin p changes from s to s2.
Same(p, s, s2) ==
  /\ s2.toO[p] = s.toO[p] /\ s2.sendq[p] = s.sendq[p] /\ s2.recv[p] = s.recv[p]
  /\ s2.holds[p] = s.holds[p] /\ s2.applied[p] = s.applied[p] /\ s2.dup[p] = s.dup[p]
  /\ p \in s.discarded => p \in s2.discarded
  /\ NoEntry(p, s) => NoEntry(p, s2)
  /\ \A i \in DOMAIN s.queue : s.queue[i].o = p =>
       \E j \in DOMAIN s2.queue : s2.queue[j] = s.queue[i]

\* A phase depends only on these parts of the target.
LEMMA PhaseFrame ==
  ASSUME NEW o \in Origins, NEW t, NEW c, NEW n, NEW ch, NEW s, NEW s2, NEW dl,
         Same(o, s, s2), Phase(o, t, c, n, ch, s, dl)
  PROVE  Phase(o, t, c, n, ch, s2, dl)
<1>1. /\ s2.toO[o] = s.toO[o] /\ s2.sendq[o] = s.sendq[o] /\ s2.recv[o] = s.recv[o]
      /\ s2.holds[o] = s.holds[o] /\ s2.applied[o] = s.applied[o] /\ s2.dup[o] = s.dup[o]
  BY DEF Same
<1>2. NoEntry(o, s) => NoEntry(o, s2)
  BY DEF Same
<1>3. o \in s.discarded => o \in s2.discarded
  BY DEF Same
<1>4. CASE Idle(o, t, c, n, ch, s, dl)
  <2>1. Idle(o, t, c, n, ch, s2, dl)
    BY <1>1, <1>2, <1>4 DEF Idle
  <2> QED BY <2>1 DEF Phase
<1>5. CASE Requested(o, t, c, n, ch, s, dl)
  <2>1. Requested(o, t, c, n, ch, s2, dl)
    BY <1>1, <1>2, <1>5 DEF Requested
  <2> QED BY <2>1 DEF Phase
<1>6. CASE Queued(o, t, c, n, ch, s, dl)
  <2>1. PICK i \in DOMAIN s.queue : /\ s.queue[i].o = o
                                    /\ s.queue[i].op.lock = t.type
                                    /\ QueuedEntry(o, t, c, s, s.queue[i], dl)
    BY <1>6 DEF Queued
  <2>2. PICK j \in DOMAIN s2.queue : s2.queue[j] = s.queue[i]
    BY <2>1 DEF Same
  <2>3. PICK e : e = s.queue[i]
    OBVIOUS
  <2>4. QueuedEntry(o, t, c, s2, e, dl)
    BY <1>1, <2>1, <2>3 DEF QueuedEntry, QueuedLock, QueuedOp, QueuedAlone
  <2>5. Queued(o, t, c, n, ch, s2, dl)
    BY <1>1, <1>6, <2>1, <2>2, <2>3, <2>4 DEF Queued
  <2> QED BY <2>5 DEF Phase
<1>7. CASE Refused(o, t, c, n, ch, s, dl)
  <2>1. Refused(o, t, c, n, ch, s2, dl)
    BY <1>1, <1>2, <1>3, <1>7 DEF Refused
  <2> QED BY <2>1 DEF Phase
<1>8. CASE Receiving(o, t, c, n, ch, s, dl)
  <2>1. Receiving(o, t, c, n, ch, s2, dl)
    BY <1>1, <1>2, <1>8 DEF Receiving
  <2> QED BY <2>1 DEF Phase
<1>9. CASE Answered(o, t, c, n, ch, s, dl)
  <2>1. AnsweredLock(o, t, n, s) => AnsweredLock(o, t, n, s2)
    BY <1>1 DEF AnsweredLock
  <2>2. AnsweredOp(o, t, c, n, s, dl) => AnsweredOp(o, t, c, n, s2, dl)
    BY <1>1 DEF AnsweredOp
  <2>3. Answered(o, t, c, n, ch, s2, dl)
    BY <1>2, <1>9, <2>1, <2>2 DEF Answered
  <2> QED BY <2>3 DEF Phase
<1>10. CASE Granted(o, t, c, n, ch, s, dl)
  <2>1. Base(o, s2) = Base(o, s) /\ (RecvOp(o, s2) <=> RecvOp(o, s))
    BY <1>1 DEF Base, RecvOp
  <2>2. Pipeline(o, t, c, n, ch, s2)
    BY <1>1, <1>10, <2>1 DEF Granted, Pipeline
  <2>3. Flushed(o, t, ch, s2)
    BY <1>1, <1>10, <2>1 DEF Granted, Flushed, LastOpWants
  <2>4. ReleasesOnce(o, t, c, ch, s2)
    BY <1>1, <1>10, <2>1 DEF Granted, ReleasesOnce, ReleasePending
  <2>5. Bit(RecvOp(o, s2) /\ WantsAck(s2.recv[o].op)) = Bit(RecvOp(o, s) /\ WantsAck(s.recv[o].op))
    BY <1>1, <2>1 DEF Bit
  <2>6. Granted(o, t, c, n, ch, s2, dl)
    BY <1>1, <1>2, <1>10, <2>2, <2>3, <2>4, <2>5 DEF Granted
  <2> QED BY <2>6 DEF Phase
<1> QED BY <1>4, <1>5, <1>6, <1>7, <1>8, <1>9, <1>10 DEF Phase

LEMMA SameRefl ==
  ASSUME NEW o, NEW s
  PROVE  Same(o, s, s)
BY DEF Same

\* The part of the invariant that is about one origin.
OriginInv(o, t, c, p, n, ch, s, dl, bad) ==
  /\ Origin(o, t, c, p, s, dl)
  /\ \/ Phase(o, t, c, n, ch, s, dl)
     \/ bad /\ Failed(o, t, c, n, ch, s, dl)

LEMMA OriginFrame ==
  ASSUME NEW o \in Origins, NEW t, NEW c, NEW p, NEW n, NEW ch, NEW s, NEW s2, NEW dl,
         NEW bad, NEW bad2, bad => bad2, Same(o, s, s2), OriginInv(o, t, c, p, n, ch, s, dl, bad)
  PROVE  OriginInv(o, t, c, p, n, ch, s2, dl, bad2)
<1>1. o \in s.discarded => o \in s2.discarded
  BY DEF Same
<1>2. Origin(o, t, c, p, s2, dl)
  BY <1>1 DEF OriginInv, Origin, Settled
<1>3. Phase(o, t, c, n, ch, s, dl) => Phase(o, t, c, n, ch, s2, dl)
  BY PhaseFrame
<1>4. Failed(o, t, c, n, ch, s, dl) => Failed(o, t, c, n, ch, s2, dl)
  BY <1>1 DEF Failed
<1> QED BY <1>2, <1>3, <1>4 DEF OriginInv

\* What the invariant says of o.
LEMMA InvOrigin ==
  ASSUME Inv, NEW o \in Origins
  PROVE  /\ OriginInv(o, target[o], call[o], prog[o], nops[o], toT[o], tgt, conf.delay, aborted)
         /\ target[o] \in Targets /\ call[o] \in {"none", "flush", "unlock"} /\ prog[o] \in Seq(Calls)
         /\ nops[o] \in Nat /\ toT[o] \in Seq(ToT) /\ tgt \in Process
         /\ conf \in Confs /\ conf.delay \in BOOLEAN /\ conf.pool \in Nat
<1>1. OriginInv(o, target[o], call[o], prog[o], nops[o], toT[o], tgt, conf.delay, aborted)
  BY DEF Inv, OriginInv
<1>2. /\ target[o] \in Targets /\ call[o] \in {"none", "flush", "unlock"} /\ prog[o] \in Seq(Calls)
      /\ nops[o] \in Nat /\ toT[o] \in Seq(ToT) /\ tgt \in Process /\ conf \in Confs
  BY DEF Inv, Shape
<1>3. conf.delay \in BOOLEAN /\ conf.pool \in Nat
  BY <1>2, ConfsAssumption
<1> QED BY <1>1, <1>2, <1>3

\* A step of origin o, or of the target on behalf of o.
LEMMA OriginStep ==
  ASSUME Inv, NEW o \in Origins, Shape', conf' = conf, TargetInv(tgt'),
         Len(tgt'.queue) <= conf.pool, tgt'.lost => conf.delay,
         aborted' => tgt'.discarded # {}, aborted => aborted',
         \A p \in Origins \ {o} :
           /\ target'[p] = target[p] /\ call'[p] = call[p] /\ prog'[p] = prog[p]
           /\ nops'[p] = nops[p] /\ toT'[p] = toT[p] /\ Same(p, tgt, tgt'),
         OriginInv(o, target'[o], call'[o], prog'[o], nops'[o], toT'[o], tgt', conf.delay, aborted')
  PROVE  Inv'
<1>1. ASSUME NEW p \in Origins
      PROVE  OriginInv(p, target'[p], call'[p], prog'[p], nops'[p], toT'[p], tgt', conf.delay, aborted')
  <2>1. CASE p = o
    BY <2>1
  <2>2. CASE p # o
    <3>1. OriginInv(p, target[p], call[p], prog[p], nops[p], toT[p], tgt, conf.delay, aborted)
      BY InvOrigin
    <3>2. p \in Origins \ {o}
      BY <2>2
    <3>3. OriginInv(p, target[p], call[p], prog[p], nops[p], toT[p], tgt', conf.delay, aborted')
      BY <3>1, <3>2, OriginFrame
    <3> QED BY <3>2, <3>3
  <2> QED BY <2>1, <2>2
<1>2. \A p \in Origins :
       /\ Origin(p, target'[p], call'[p], prog'[p], tgt', conf.delay)
       /\ \/ Phase(p, target'[p], call'[p], nops'[p], toT'[p], tgt', conf.delay)
          \/ aborted' /\ Failed(p, target'[p], call'[p], nops'[p], toT'[p], tgt', conf.delay)
  BY <1>1 DEF OriginInv
<1>3. Len(tgt'.queue) <= conf'.pool /\ (tgt'.lost => conf'.delay)
  OBVIOUS
<1>4. \A p \in Origins :
       /\ Origin(p, target'[p], call'[p], prog'[p], tgt', conf'.delay)
       /\ \/ Phase(p, target'[p], call'[p], nops'[p], toT'[p], tgt', conf'.delay)
          \/ aborted' /\ Failed(p, target'[p], call'[p], nops'[p], toT'[p], tgt', conf'.delay)
  BY <1>2
<1>5. Shape' /\ TargetInv(tgt)' /\ (aborted' => tgt'.discarded # {})
  OBVIOUS
<1> QED BY ONLY <1>3, <1>4, <1>5 DEF Inv

\* A step of origin o that ends with result r.
LEMMA ResultStep ==
  ASSUME Inv, ~aborted, NEW o \in Origins, NEW r, Become(o, r), conf' = conf, tgt' = tgt,
         NEW c \in {"none", "flush", "unlock"}, call' = [call EXCEPT ![o] = c],
         NEW p \in Seq(Calls), prog' = [prog EXCEPT ![o] = p],
         NEW n \in Nat, nops' = [nops EXCEPT ![o] = n],
         Progressed(o, r, c, n, toT[o], tgt, conf.delay), Follows(r.t, c, p)
  PROVE  Inv'
<1>1. /\ r.t \in Targets /\ r.out \in Seq(ToT) /\ r.bad \in BOOLEAN
      /\ r.bad => o \in tgt.discarded
      /\ Settled(o, r.t, c, tgt, conf.delay)
      /\ \/ Phase(o, r.t, c, n, toT[o] \o r.out, tgt, conf.delay)
         \/ r.bad /\ Failed(o, r.t, c, n, toT[o] \o r.out, tgt, conf.delay)
  BY DEF Progressed
<1>2. /\ target' = [target EXCEPT ![o] = r.t] /\ toT' = [toT EXCEPT ![o] = toT[o] \o r.out]
      /\ aborted' = r.bad
  BY DEF Become
<1>3. Shape
  BY DEF Inv
<1>4. toT[o] \o r.out \in Seq(ToT)
  <2>1. toT[o] \in Seq(ToT)
    BY <1>3 DEF Shape
  <2> QED BY <1>1, <2>1
<1>5. Shape'
  <2>1. target' \in [Origins -> Targets] /\ toT' \in [Origins -> Seq(ToT)]
    BY <1>1, <1>2, <1>3, <1>4 DEF Shape
  <2>2. /\ call' \in [Origins -> {"none", "flush", "unlock"}]
        /\ prog' \in [Origins -> Seq(Calls)] /\ nops' \in [Origins -> Nat]
    BY <1>3 DEF Shape
  <2> QED BY <1>1, <1>2, <1>3, <2>1, <2>2 DEF Shape
<1>6. /\ target'[o] = r.t /\ toT'[o] = toT[o] \o r.out /\ call'[o] = c /\ prog'[o] = p /\ nops'[o] = n
  BY <1>2, <1>3 DEF Shape
<1>7. \A q \in Origins \ {o} :
        /\ target'[q] = target[q] /\ call'[q] = call[q] /\ prog'[q] = prog[q]
        /\ nops'[q] = nops[q] /\ toT'[q] = toT[q] /\ Same(q, tgt, tgt')
  BY <1>2, <1>3, SameRefl DEF Shape
<1>8. OriginInv(o, target'[o], call'[o], prog'[o], nops'[o], toT'[o], tgt', conf.delay, aborted')
  BY <1>1, <1>2, <1>6 DEF OriginInv, Origin
<1>9. TargetInv(tgt') /\ Len(tgt'.queue) <= conf.pool /\ (tgt'.lost => conf.delay)
  BY DEF Inv
<1>10. aborted' => tgt'.discarded # {}
  BY <1>1, <1>2
<1> QED BY <1>5, <1>7, <1>8, <1>9, <1>10, OriginStep

LEMMA FollowsTail ==
  ASSUME NEW X, NEW p \in Seq(X), p # <<>>, NEW t, NEW c, NEW t2, NEW c2, Follows(t, c, p),
         (t2.access = "NONE" \/ c2 = "unlock") <=> Head(p) = "unlock"
  PROVE  /\ Follows(t2, c2, Tail(p))
         /\ Head(p) \in Locks <=> (t.access = "NONE" \/ c = "unlock")
<1>1. PICK l \in Nat : l = Len(p)
  OBVIOUS
<1>2. PICK z : z = Tail(p)
  OBVIOUS
<1>3. l >= 1 /\ DOMAIN z = 1 .. l - 1 /\ Head(p) = p[1] /\ \A i \in 1 .. l - 1 : z[i] = p[i + 1]
  <2>1. l # 0
    BY <1>1
  <2>2. Len(z) = l - 1 /\ z \in Seq(X) /\ Head(p) = p[1]
    BY <1>1, <1>2
  <2>3. \A i \in 1 .. l - 1 : z[i] = p[i + 1]
    BY <1>1, <1>2, <2>1
  <2> QED BY <2>1, <2>2, <2>3
<1>4. DOMAIN p = 1 .. l
  BY <1>1
<1>5. ASSUME NEW i \in DOMAIN z
      PROVE  z[i] \in Locks <=> IF i = 1 THEN t2.access = "NONE" \/ c2 = "unlock" ELSE z[i - 1] = "unlock"
  <2>1. i \in 1 .. l - 1 /\ i + 1 \in DOMAIN p /\ i + 1 # 1 /\ (i + 1) - 1 = i
    BY <1>3, <1>4
  <2>2. z[i] \in Locks <=> p[i] = "unlock"
    <3>1. p[i + 1] \in Locks <=> p[(i + 1) - 1] = "unlock"
      BY <2>1 DEF Follows
    <3> QED BY <1>3, <2>1, <3>1
  <2>3. CASE i = 1
    BY <1>3, <2>2, <2>3
  <2>4. CASE i # 1
    <3>1. i - 1 \in 1 .. l - 1 /\ (i - 1) + 1 = i
      BY <2>1, <2>4
    <3>2. z[i - 1] = p[i]
      BY <1>3, <3>1
    <3> QED BY <2>2, <2>4, <3>2
  <2> QED BY <2>3, <2>4
<1>6. 1 \in DOMAIN p
  BY <1>3, <1>4
<1>7. Head(p) \in Locks <=> (t.access = "NONE" \/ c = "unlock")
  BY <1>3, <1>6 DEF Follows
<1> QED BY <1>2, <1>5, <1>7 DEF Follows

-----------------------------------------------------------------------------
(* The calls.                                                              *)

LEMMA NewTargetFacts ==
  /\ NewTarget \in Targets
  /\ NewTarget.access = "NONE" /\ NewTarget.type = "NONE" /\ NewTarget.sync = "NONE"
  /\ NewTarget.net = <<>> /\ NewTarget.user = <<>> /\ NewTarget.acks = 0
  /\ NewTarget.unflushed = 0 /\ ~NewTarget.active
  /\ Len(NewTarget.user) = 0
<1>1. <<>> \in Seq(OpPkt)
  OBVIOUS
<1>2. NewTarget \in Targets
  BY <1>1 DEF NewTarget, Targets, Types
<1>3. Len(<<>>) = 0
  OBVIOUS
<1> QED BY <1>2, <1>3 DEF NewTarget

\* What a call finds.
LEMMA CallingFacts ==
  ASSUME Inv, NEW o \in Origins, NEW k, Calling(o, k)
  PROVE  /\ ~aborted /\ call[o] = "none" /\ call = [call EXCEPT ![o] = "none"]
         /\ Tail(prog[o]) \in Seq(Calls) /\ prog' = [prog EXCEPT ![o] = Tail(prog[o])]
         /\ k \in Locks <=> target[o].access = "NONE"
         /\ \A t2, c2 : ((t2.access = "NONE" \/ c2 = "unlock") <=> k = "unlock")
                          => Follows(t2, c2, Tail(prog[o]))
         /\ Settled(o, target[o], "none", tgt, conf.delay)
         /\ Phase(o, target[o], "none", nops[o], toT[o], tgt, conf.delay)
<1>1. ~aborted /\ call[o] = "none" /\ prog[o] # <<>> /\ k = Head(prog[o])
      /\ prog' = [prog EXCEPT ![o] = Tail(prog[o])]
  BY DEF Calling
<1>2. OriginInv(o, target[o], call[o], prog[o], nops[o], toT[o], tgt, conf.delay, aborted)
      /\ prog[o] \in Seq(Calls)
  BY InvOrigin
<1>3. /\ Settled(o, target[o], "none", tgt, conf.delay) /\ Follows(target[o], "none", prog[o])
      /\ Phase(o, target[o], "none", nops[o], toT[o], tgt, conf.delay)
  BY <1>1, <1>2 DEF OriginInv, Origin
<1>4. Tail(prog[o]) \in Seq(Calls)
  BY <1>1, <1>2
<1>5. call = [call EXCEPT ![o] = "none"]
  BY <1>1 DEF Inv, Shape
<1>6. ASSUME NEW t2, NEW c2, (t2.access = "NONE" \/ c2 = "unlock") <=> k = "unlock"
      PROVE  /\ Follows(t2, c2, Tail(prog[o]))
             /\ k \in Locks <=> target[o].access = "NONE"
  <2>1. PICK p \in Seq(Calls) : p = prog[o]
    BY <1>2
  <2>2. PICK t : t = target[o]
    OBVIOUS
  <2>3. /\ p # <<>> /\ Follows(t, "none", p)
        /\ (t2.access = "NONE" \/ c2 = "unlock") <=> Head(p) = "unlock"
    BY <1>1, <1>3, <1>6, <2>1, <2>2
  <2>4. /\ Follows(t2, c2, Tail(p))
        /\ Head(p) \in Locks <=> (t.access = "NONE" \/ "none" = "unlock")
    BY ONLY <2>3, p \in Seq(Calls), FollowsTail
  <2> QED BY <1>1, <2>1, <2>2, <2>4
<1>7. k \in Locks <=> target[o].access = "NONE"
  <2>1. PICK c2 : c2 = k
    OBVIOUS
  <2>2. PICK t2 : t2 = [access |-> "CALLED"]
    OBVIOUS
  <2>3. (t2.access = "NONE" \/ c2 = "unlock") <=> k = "unlock"
    BY <2>1, <2>2
  <2> QED BY <1>6, <2>3
<1> QED BY <1>1, <1>3, <1>4, <1>5, <1>6, <1>7

LEMMA IdleIfNone ==
  ASSUME NEW o, NEW t, NEW c, NEW n, NEW ch, NEW s, NEW dl, Phase(o, t, c, n, ch, s, dl),
         t.access \in {"NONE", "CALLED"}
  PROVE  Idle(o, t, c, n, ch, s, dl)
BY DEF Phase, Requested, Queued, Refused, Receiving, Answered, Granted

\* MPID_Win_lock keeps the invariant.
LEMMA WinLockInv ==
  ASSUME Inv, NEW o \in Origins, Win_lock(o)
  PROVE  Inv'
<1>1. PICK type \in Locks :
        LET t == [NewTarget EXCEPT !.access = "CALLED", !.type = type]
        IN /\ Calling(o, type)
           /\ Become(o, IF conf.delay THEN Result(t, <<>>, FALSE) ELSE Make_progress_target(t))
           /\ UNCHANGED <<conf, call, nops, tgt>>
  BY DEF Win_lock
<1>2. PICK t : t = [NewTarget EXCEPT !.access = "CALLED", !.type = type]
  OBVIOUS
<1>3. PICK r : r = IF conf.delay THEN Result(t, <<>>, FALSE) ELSE Make_progress_target(t)
  OBVIOUS
<1>4. Calling(o, type) /\ Become(o, r) /\ conf' = conf /\ call' = call /\ nops' = nops /\ tgt' = tgt
  BY <1>1, <1>2, <1>3
<1>5. /\ ~aborted /\ call[o] = "none" /\ call = [call EXCEPT ![o] = "none"]
      /\ Tail(prog[o]) \in Seq(Calls) /\ prog' = [prog EXCEPT ![o] = Tail(prog[o])]
      /\ type \in Locks <=> target[o].access = "NONE"
      /\ \A t2, c2 : ((t2.access = "NONE" \/ c2 = "unlock") <=> type = "unlock")
                       => Follows(t2, c2, Tail(prog[o]))
      /\ Settled(o, target[o], "none", tgt, conf.delay)
      /\ Phase(o, target[o], "none", nops[o], toT[o], tgt, conf.delay)
  BY <1>4, CallingFacts
<1>6. target[o] = NewTarget /\ target[o].access = "NONE"
  BY <1>5 DEF Settled
<1>7. Idle(o, NewTarget, "none", nops[o], toT[o], tgt, conf.delay)
  BY <1>5, <1>6, IdleIfNone
<1>8. /\ t \in Targets /\ t.access = "CALLED" /\ t.type = type /\ t.sync = "NONE"
      /\ t.net = <<>> /\ t.user = <<>> /\ t.acks = 0
  <2>1. <<>> \in Seq(OpPkt)
    OBVIOUS
  <2>2. t = [access |-> "CALLED", type |-> type, sync |-> "NONE", net |-> <<>>,
              user |-> <<>>, acks |-> 0, unflushed |-> 0, active |-> FALSE]
    BY <1>2 DEF NewTarget
  <2> QED BY <2>1, <2>2 DEF Targets, Types
<1>9. type # "NONE" /\ type # "unlock"
  BY DEF Locks
<1>10. Idle(o, t, "none", nops[o], toT[o], tgt, conf.delay)
  <2>1. Ids(NewTarget, nops[o], Len(tgt.applied[o])) => Ids(t, nops[o], Len(tgt.applied[o]))
    BY <1>8, NewTargetFacts DEF Ids
  <2> QED BY <1>7, <1>8, <2>1, NewTargetFacts DEF Idle
<1>11. Phase(o, t, "none", nops[o], toT[o], tgt, conf.delay)
  BY <1>10 DEF Phase
<1>12. Moved(t) = t /\ Len(t.user) <= 1
  <2>1. Len(<<>>) = 0
    OBVIOUS
  <2> QED BY <1>8, <2>1 DEF Moved
<1>13. /\ nops[o] \in Nat /\ toT[o] \in Seq(ToT) /\ tgt \in Process /\ conf.delay \in BOOLEAN
  BY InvOrigin
<1>14. Progressed(o, r, "none", nops[o], toT[o], tgt, conf.delay)
  <2>1. CASE conf.delay
    <3>1. r = Result(t, <<>>, FALSE)
      BY <1>3, <2>1
    <3>2. r.t = t /\ r.out = <<>> /\ r.bad \in BOOLEAN /\ ~r.bad
      BY <3>1 DEF Result
    <3>3. toT[o] \o <<>> = toT[o] /\ <<>> \in Seq(ToT)
      BY <1>13
    <3>4. Settled(o, t, "none", tgt, conf.delay)
      BY <1>8, <1>9, <1>12, <2>1 DEF Settled
    <3> QED BY <1>8, <1>11, <3>2, <3>3, <3>4 DEF Progressed
  <2>2. CASE ~conf.delay
    <3>1. r = Make_progress_target(t)
      BY <1>3, <2>2
    <3>2. Ready(o, t, "none", tgt, conf.delay)
      BY <1>8, <1>9, <1>12 DEF Ready
    <3> QED BY <1>8, <1>11, <1>13, <3>1, <3>2, Progress
  <2> QED BY <2>1, <2>2
<1>15. Follows(r.t, "none", Tail(prog[o]))
  <2>1. r.t.access # "NONE"
    BY <1>14 DEF Progressed
  <2> QED BY <1>5, <1>9, <2>1
<1>16. nops' = [nops EXCEPT ![o] = nops[o]] /\ call' = [call EXCEPT ![o] = "none"]
  BY <1>4, <1>5 DEF Inv, Shape
<1> QED BY <1>4, <1>5, <1>13, <1>14, <1>15, <1>16, ResultStep

\* MPIDI_CH3I_Win_enqueue_op keeps the operations in order.
LEMMA EnqueueFacts ==
  ASSUME NEW t \in Targets, Len(t.user) <= 1, NEW op \in OpPkt, NEW n \in Nat, op.id = n + 1,
         NEW w, w = Win_enqueue_op(t, op), ~conf.delay => t.user = <<>>
  PROVE  /\ w \in Targets /\ w.access = t.access /\ w.type = t.type /\ w.sync = t.sync
         /\ w.acks = t.acks /\ w.unflushed = t.unflushed
         /\ t.net # <<>> => w.net # <<>> /\ Head(w.net) = Head(t.net)
         /\ \A b \in Nat : Ids(t, n, b) => Ids(w, n + 1, b)
         /\ Len(w.user) <= 1 /\ (~conf.delay => w.user = <<>>)
         /\ conf.delay /\ t.net = <<>> => w.net = <<>> \/ (t.user # <<>> /\ w.net = <<Head(t.user)>>)
<1>1. t.net \in Seq(OpPkt) /\ t.user \in Seq(OpPkt) /\ t.active \in BOOLEAN
  BY DEF Targets
<1>2. PICK net \in Seq(OpPkt), user \in Seq(OpPkt) :
        /\ Len(user) <= 1 /\ (~conf.delay => user = <<>>)
        /\ t.net # <<>> => net # <<>> /\ Head(net) = Head(t.net)
        /\ conf.delay /\ t.net = <<>> => net = <<>> \/ (t.user # <<>> /\ net = <<Head(t.user)>>)
        /\ w = LET q == [t EXCEPT !.net = net, !.user = user]
               IN  [q EXCEPT !.active = @ \/ (q.net # <<>> /\ q.access = "GRANTED")]
        /\ \A b \in Nat : Ids(t, n, b) =>
             /\ \A i \in DOMAIN net : net[i].id = b + i
             /\ \A i \in DOMAIN user : user[i].id = b + Len(net) + i
             /\ n + 1 = b + Len(net) + Len(user)
  <2>1. CASE conf.delay
    <3>1. PICK m : m = MoveUserOp(t)
      OBVIOUS
    <3>2. /\ m \in Targets
          /\ m = [t EXCEPT !.net = m.net, !.user = <<>>]
          /\ t.user = <<>> => m = t
          /\ t.net # <<>> => m.net # <<>> /\ Head(m.net) = Head(t.net)
          /\ t.net = <<>> /\ t.user # <<>> => m.net = <<Head(t.user)>>
          /\ \A b \in Nat : Ids(t, n, b) => Ids(m, n, b)
      BY <3>1, MoveUserOpFacts, Zenon
    <3>3. m.net \in Seq(OpPkt) /\ <<op>> \in Seq(OpPkt) /\ Len(<<op>>) = 1 /\ m.user = <<>>
          /\ <<op>> # <<>>
      <4>1. m.net \in Seq(OpPkt) /\ m.user = <<>>
        BY <3>2 DEF Targets
      <4>2. <<op>> \in Seq(OpPkt) /\ Len(<<op>>) = 1 /\ <<op>> # <<>>
        OBVIOUS
      <4> QED BY <4>1, <4>2
    <3>4. [m EXCEPT !.user = <<op>>] = [t EXCEPT !.net = m.net, !.user = <<op>>]
      BY <3>2, <3>3 DEF Targets
    <3>5. w = LET q == [m EXCEPT !.user = <<op>>]
              IN  [q EXCEPT !.active = @ \/ (q.net # <<>> /\ q.access = "GRANTED")]
      BY <2>1, <3>1 DEF Win_enqueue_op
    <3>6. ASSUME NEW b \in Nat, Ids(t, n, b)
          PROVE  /\ \A i \in DOMAIN m.net : m.net[i].id = b + i
                 /\ \A i \in DOMAIN (<<op>>) : (<<op>>)[i].id = b + Len(m.net) + i
                 /\ n + 1 = b + Len(m.net) + Len(<<op>>)
      <4>1. Ids(m, n, b)
        BY <3>2, <3>6
      <4>2. PICK l \in Nat : l = Len(m.net)
        BY <3>3
      <4>3. n = b + l
        <5>1. Len(m.user) = 0
          BY <3>3
        <5> QED BY <4>1, <4>2, <5>1 DEF Ids
      <4>4. \A i \in DOMAIN (<<op>>) : i = 1 /\ (<<op>>)[i] = op
        OBVIOUS
      <4> QED BY <3>3, <4>1, <4>2, <4>3, <4>4 DEF Ids
    <3>7. PICK u \in Seq(OpPkt) : u = <<op>>
      BY <3>3
    <3>8. PICK v \in Seq(OpPkt) : v = m.net
      BY <3>3
    <3>9. Len(u) <= 1
      BY <3>3, <3>7
    <3>10. t.net = <<>> => v = <<>> \/ (t.user # <<>> /\ v = <<Head(t.user)>>)
      BY <3>2, <3>8
    <3>11. w = LET q == [t EXCEPT !.net = v, !.user = u]
               IN  [q EXCEPT !.active = @ \/ (q.net # <<>> /\ q.access = "GRANTED")]
      BY <3>4, <3>5, <3>7, <3>8
    <3>12. \A b \in Nat : Ids(t, n, b) =>
             /\ \A i \in DOMAIN v : v[i].id = b + i
             /\ \A i \in DOMAIN u : u[i].id = b + Len(v) + i
             /\ n + 1 = b + Len(v) + Len(u)
      BY <3>6, <3>7, <3>8
    <3>13. t.net # <<>> => v # <<>> /\ Head(v) = Head(t.net)
      BY <3>2, <3>8
    <3> WITNESS v \in Seq(OpPkt), u \in Seq(OpPkt)
    <3> QED BY <2>1, <3>9, <3>10, <3>11, <3>12, <3>13
  <2>2. CASE ~conf.delay
    <3>1. PICK net : net = Append(t.net, op)
      OBVIOUS
    <3>2. /\ net \in Seq(OpPkt) /\ net # <<>> /\ Len(net) = Len(t.net) + 1
          /\ \A i \in DOMAIN t.net : net[i] = t.net[i]
          /\ net[Len(t.net) + 1] = op
          /\ DOMAIN net = 1 .. Len(t.net) + 1
          /\ t.net # <<>> => Head(net) = Head(t.net)
      BY <1>1, <3>1, AppendFacts
    <3>3. t.user = <<>> /\ <<>> \in Seq(OpPkt) /\ Len(<<>>) = 0 /\ DOMAIN (<<>>) = {}
      BY <2>2
    <3>4. w = LET q == [t EXCEPT !.net = net, !.user = <<>>]
              IN  [q EXCEPT !.active = @ \/ (q.net # <<>> /\ q.access = "GRANTED")]
      <4>1. [t EXCEPT !.net = net, !.user = <<>>] = [t EXCEPT !.net = net]
        BY <3>3 DEF Targets
      <4>2. [t EXCEPT !.net = net] = [t EXCEPT !.net = Append(@, op)]
        BY <3>1 DEF Targets
      <4> QED BY <2>2, <4>1, <4>2 DEF Win_enqueue_op
    <3>5. ASSUME NEW b \in Nat, Ids(t, n, b)
          PROVE  (\A i \in DOMAIN net : net[i].id = b + i) /\ n + 1 = b + Len(net) + 0
      <4>1. PICK l \in Nat : l = Len(t.net)
        BY <1>1
      <4>2. n = b + l
        BY <3>3, <3>5, <4>1 DEF Ids
      <4>3. ASSUME NEW i \in DOMAIN net PROVE net[i].id = b + i
        <5>1. CASE i \in DOMAIN t.net
          BY <3>2, <3>5, <5>1 DEF Ids
        <5>2. CASE i \notin DOMAIN t.net
          <6>1. i = l + 1
            BY <1>1, <3>2, <4>1, <5>2
          <6> QED BY <3>2, <4>1, <4>2, <6>1
        <5> QED BY <5>1, <5>2
      <4> QED BY <3>2, <4>1, <4>2, <4>3
    <3> USE <3>2, <3>3
    <3> WITNESS net \in Seq(OpPkt), <<>> \in Seq(OpPkt)
    <3> QED BY <2>2, <3>2, <3>3, <3>4, <3>5
  <2> QED BY <2>1, <2>2
<1>3. PICK a \in BOOLEAN : a = (t.active \/ (net # <<>> /\ t.access = "GRANTED"))
  BY <1>1
<1>4. w = [t EXCEPT !.net = net, !.user = user, !.active = a]
  BY <1>2, <1>3 DEF Targets
<1>5. /\ w \in Targets /\ w.access = t.access /\ w.type = t.type /\ w.sync = t.sync
      /\ w.acks = t.acks /\ w.unflushed = t.unflushed /\ w.net = net /\ w.user = user
  BY <1>4 DEF Targets
<1>6. ASSUME NEW b \in Nat, Ids(t, n, b) PROVE Ids(w, n + 1, b)
  <2>1. /\ \A i \in DOMAIN net : net[i].id = b + i
        /\ \A i \in DOMAIN user : user[i].id = b + Len(net) + i
        /\ n + 1 = b + Len(net) + Len(user)
    BY <1>2, <1>6, Zenon
  <2> QED BY ONLY <1>5, <2>1 DEF Ids
<1> QED BY <1>2, <1>5, <1>6

LEMMA OpFacts ==
  ASSUME NEW kind \in OpKinds, NEW id \in Nat
  PROVE  Op(kind, id) \in OpPkt /\ Op(kind, id).id = id
BY DEF Op, OpPkt, Types

LEMMA PutOrGetInv ==
  ASSUME Inv, NEW o \in Origins, PutOrGet(o)
  PROVE  Inv'
<1>1. PICK kind \in OpKinds :
        /\ Calling(o, kind)
        /\ nops' = [nops EXCEPT ![o] = @ + 1]
        /\ Become(o, Make_progress_target(Win_enqueue_op(target[o], Op(kind, nops[o] + 1))))
        /\ UNCHANGED <<conf, call, tgt>>
  BY DEF PutOrGet
<1>2. PICK t \in Targets : t = target[o]
  BY InvOrigin
<1>3. PICK n \in Nat : n = nops[o]
  BY InvOrigin
<1>4. PICK op \in OpPkt : op = Op(kind, n + 1) /\ op.id = n + 1
  BY OpFacts
<1>5. PICK w : w = Win_enqueue_op(t, op)
  OBVIOUS
<1>6. PICK r : r = Make_progress_target(w)
  OBVIOUS
<1>7. /\ Calling(o, kind) /\ Become(o, r) /\ conf' = conf /\ call' = call /\ tgt' = tgt
      /\ nops' = [nops EXCEPT ![o] = n + 1]
  BY <1>1, <1>2, <1>3, <1>4, <1>5, <1>6
<1>8. /\ ~aborted /\ call[o] = "none" /\ call = [call EXCEPT ![o] = "none"]
      /\ Tail(prog[o]) \in Seq(Calls) /\ prog' = [prog EXCEPT ![o] = Tail(prog[o])]
      /\ kind \in Locks <=> target[o].access = "NONE"
      /\ \A t2, c2 : ((t2.access = "NONE" \/ c2 = "unlock") <=> kind = "unlock")
                       => Follows(t2, c2, Tail(prog[o]))
      /\ Settled(o, t, "none", tgt, conf.delay)
      /\ Phase(o, t, "none", n, toT[o], tgt, conf.delay)
  BY <1>2, <1>3, <1>7, CallingFacts
<1>9. kind \notin Locks /\ kind # "unlock"
  BY DEF OpKinds, Locks
<1>10. Len(t.user) <= 1 /\ (~conf.delay => t.user = <<>>) /\ t.access # "NONE" /\ t.sync = "NONE"
  BY <1>2, <1>8, <1>9 DEF Settled, Targets
<1>11. /\ w \in Targets /\ w.access = t.access /\ w.type = t.type /\ w.sync = t.sync
       /\ w.acks = t.acks /\ w.unflushed = t.unflushed
       /\ t.net # <<>> => w.net # <<>> /\ Head(w.net) = Head(t.net)
       /\ \A b \in Nat : Ids(t, n, b) => Ids(w, n + 1, b)
       /\ Len(w.user) <= 1 /\ (~conf.delay => w.user = <<>>)
       /\ conf.delay /\ t.net = <<>> => w.net = <<>> \/ (t.user # <<>> /\ w.net = <<Head(t.user)>>)
  BY <1>4, <1>5, <1>10, EnqueueFacts
<1>12. Moved(w) = w
  BY <1>10, <1>11 DEF Moved
<1>13. t.access = "CALLED" /\ o \notin tgt.discarded =>
         /\ Moved(w).net # <<>> => HasCandidate(Moved(w).net)
         /\ w.sync = "UNLOCK" /\ Moved(w).net # <<>> => conf.delay /\ Len(Moved(w).net) = 1
  <2>1. SUFFICES ASSUME t.access = "CALLED", o \notin tgt.discarded, w.net # <<>>
                 PROVE  HasCandidate(w.net)
    BY <1>10, <1>11, <1>12
  <2>2. conf.delay /\ t.net = <<>> /\ (t.user = <<>> \/ Candidate(Head(t.user)))
    BY <1>8, <2>1 DEF Settled
  <2>3. w.net = <<Head(t.user)>> /\ Candidate(Head(t.user))
    BY <1>11, <2>1, <2>2
  <2>4. Head(<<Head(t.user)>>) = Head(t.user)
    OBVIOUS
  <2> QED BY <2>1, <2>3, <2>4 DEF HasCandidate
<1>14. toT[o] \in Seq(ToT) /\ tgt \in Process /\ conf.delay \in BOOLEAN
  BY InvOrigin
<1>15. n + 1 \in Nat
  OBVIOUS
<1>16. Progressed(o, r, "none", n + 1, toT[o], tgt, conf.delay)
  BY <1>6, <1>8, <1>10, <1>11, <1>13, <1>14, <1>15, CallProgress
<1>17. Follows(r.t, "none", Tail(prog[o]))
  <2>1. r.t.access # "NONE"
    BY <1>16 DEF Progressed
  <2> QED BY <1>8, <1>9, <2>1
<1>18. call' = [call EXCEPT ![o] = "none"]
  BY <1>7, <1>8
<1> QED BY <1>7, <1>8, <1>15, <1>16, <1>17, <1>18, ResultStep

\* MPID_Win_flush and MPID_Win_unlock.
LEMMA SyncInv ==
  ASSUME Inv, NEW o \in Origins, NEW c, NEW k,
         (c = "flush" /\ k = "FLUSH") \/ (c = "unlock" /\ k = "UNLOCK"),
         Calling(o, c), call' = [call EXCEPT ![o] = c],
         Become(o, Make_progress_target([target[o] EXCEPT !.sync = k])),
         conf' = conf, nops' = nops, tgt' = tgt
  PROVE  Inv'
<1>1. PICK t \in Targets : t = target[o]
  BY InvOrigin
<1>2. PICK w : w = [t EXCEPT !.sync = k]
  OBVIOUS
<1>3. PICK r : r = Make_progress_target(w)
  OBVIOUS
<1>4. /\ ~aborted
      /\ Tail(prog[o]) \in Seq(Calls) /\ prog' = [prog EXCEPT ![o] = Tail(prog[o])]
      /\ c \in Locks <=> target[o].access = "NONE"
      /\ \A t2, c2 : ((t2.access = "NONE" \/ c2 = "unlock") <=> c = "unlock")
                       => Follows(t2, c2, Tail(prog[o]))
      /\ Settled(o, t, "none", tgt, conf.delay)
      /\ Phase(o, t, "none", nops[o], toT[o], tgt, conf.delay)
  BY <1>1, CallingFacts
<1>5. c \notin Locks /\ c \in {"none", "flush", "unlock"} /\ c # "none" /\ k # "NONE"
  BY DEF Locks
<1>6. Len(t.user) <= 1 /\ (~conf.delay => t.user = <<>>) /\ t.access # "NONE"
  BY <1>1, <1>4, <1>5 DEF Settled
<1>7. /\ w \in Targets /\ w.access = t.access /\ w.type = t.type /\ w.sync = k
      /\ w.acks = t.acks /\ w.unflushed = t.unflushed /\ w.net = t.net /\ w.user = t.user
  BY <1>2 DEF Targets
<1>8. \A b \in Nat : Ids(t, nops[o], b) => Ids(w, nops[o], b)
  BY <1>7 DEF Ids
<1>9. t.access = "CALLED" /\ o \notin tgt.discarded =>
         /\ Moved(w).net # <<>> => HasCandidate(Moved(w).net)
         /\ w.sync = "UNLOCK" /\ Moved(w).net # <<>> => conf.delay /\ Len(Moved(w).net) = 1
  <2>1. SUFFICES ASSUME t.access = "CALLED", o \notin tgt.discarded, Moved(w).net # <<>>
                 PROVE  HasCandidate(Moved(w).net) /\ conf.delay /\ Len(Moved(w).net) = 1
    OBVIOUS
  <2>2. conf.delay /\ t.net = <<>> /\ (t.user = <<>> \/ Candidate(Head(t.user)))
    BY <1>4, <2>1 DEF Settled
  <2>3. t.user # <<>> /\ Moved(w).net = <<Head(t.user)>>
    <3>1. PICK m : m = Moved(w)
      OBVIOUS
    <3>2. w.net = <<>> /\ m.net # <<>> => w.user # <<>> /\ m.net = <<Head(w.user)>>
      BY <1>6, <1>7, <3>1, MovedFacts, Zenon
    <3> QED BY <1>7, <2>1, <2>2, <3>1, <3>2
  <2>4. Head(<<Head(t.user)>>) = Head(t.user) /\ Len(<<Head(t.user)>>) = 1
    OBVIOUS
  <2> QED BY <2>1, <2>2, <2>3, <2>4 DEF HasCandidate
<1>10. toT[o] \in Seq(ToT) /\ tgt \in Process /\ conf.delay \in BOOLEAN /\ nops[o] \in Nat
  BY InvOrigin
<1>11. Progressed(o, r, c, nops[o], toT[o], tgt, conf.delay)
  BY <1>3, <1>4, <1>6, <1>7, <1>8, <1>9, <1>10, CallProgress
<1>12. Follows(r.t, c, Tail(prog[o]))
  <2>1. r.t.access # "NONE"
    BY <1>11 DEF Progressed
  <2> QED BY <1>4, <2>1
<1>13. nops' = [nops EXCEPT ![o] = nops[o]]
  BY DEF Inv, Shape
<1>14. Become(o, r)
  BY <1>1, <1>2, <1>3
<1>15. PICK n \in Nat : n = nops[o]
  BY <1>10
<1>16. PICK p \in Seq(Calls) : p = Tail(prog[o])
  BY <1>4
<1>17. Progressed(o, r, c, n, toT[o], tgt, conf.delay) /\ Follows(r.t, c, p)
  BY <1>11, <1>12, <1>15, <1>16
<1>18. nops' = [nops EXCEPT ![o] = n] /\ prog' = [prog EXCEPT ![o] = p]
  BY <1>4, <1>13, <1>15, <1>16
<1>19. /\ Inv /\ ~aborted /\ o \in Origins /\ conf' = conf /\ tgt' = tgt
       /\ call' = [call EXCEPT ![o] = c] /\ c \in {"none", "flush", "unlock"}
  BY <1>4, <1>5
<1> QED BY ONLY <1>14, <1>17, <1>18, <1>19, n \in Nat, p \in Seq(Calls), ResultStep

LEMMA WinFlushInv ==
  ASSUME Inv, NEW o \in Origins, Win_flush(o)
  PROVE  Inv'
<1>1. /\ Calling(o, "flush") /\ call' = [call EXCEPT ![o] = "flush"]
      /\ Become(o, Make_progress_target([target[o] EXCEPT !.sync = "FLUSH"]))
      /\ conf' = conf /\ nops' = nops /\ tgt' = tgt
  BY DEF Win_flush
<1>2. PICK c, k : c = "flush" /\ k = "FLUSH"
  OBVIOUS
<1>3. /\ Calling(o, c) /\ call' = [call EXCEPT ![o] = c]
      /\ Become(o, Make_progress_target([target[o] EXCEPT !.sync = k]))
  BY <1>1, <1>2
<1> QED BY <1>1, <1>2, <1>3, SyncInv

LEMMA WinUnlockInv ==
  ASSUME Inv, NEW o \in Origins, Win_unlock(o)
  PROVE  Inv'
<1>1. /\ Calling(o, "unlock") /\ call' = [call EXCEPT ![o] = "unlock"]
      /\ Become(o, Make_progress_target([target[o] EXCEPT !.sync = "UNLOCK"]))
      /\ conf' = conf /\ nops' = nops /\ tgt' = tgt
  BY DEF Win_unlock
<1>2. PICK c, k : c = "unlock" /\ k = "UNLOCK"
  OBVIOUS
<1>3. /\ Calling(o, c) /\ call' = [call EXCEPT ![o] = c]
      /\ Become(o, Make_progress_target([target[o] EXCEPT !.sync = k]))
  BY <1>1, <1>2
<1> QED BY <1>1, <1>2, <1>3, SyncInv

LEMMA SettledReady ==
  ASSUME NEW o \in Origins, NEW t \in Targets, NEW c, NEW s, NEW dl,
         Settled(o, t, c, s, dl), t.access # "NONE"
  PROVE  Ready(o, t, c, s, dl) /\ Moved(t) = t
<1>1. Moved(t) = t
  BY DEF Moved, MoveUserOp, Settled
<1>2. t.sync \in {"NONE", "FLUSH", "UNLOCK"}
  BY DEF Targets
<1> QED BY <1>1, <1>2 DEF Settled, Ready

LEMMA MakeProgressGlobalInv ==
  ASSUME Inv, NEW o \in Origins, Make_progress_global(o)
  PROVE  Inv'
<1>1. /\ ~aborted /\ target[o].active
      /\ Become(o, Make_progress_target(target[o]))
      /\ conf' = conf /\ call' = call /\ prog' = prog /\ nops' = nops /\ tgt' = tgt
  BY DEF Make_progress_global
<1>2. PICK t \in Targets : t = target[o]
  BY InvOrigin
<1>3. PICK r : r = Make_progress_target(t)
  OBVIOUS
<1>4. PICK c \in {"none", "flush", "unlock"} : c = call[o]
  BY InvOrigin
<1>5. /\ toT[o] \in Seq(ToT) /\ tgt \in Process /\ conf.delay \in BOOLEAN /\ nops[o] \in Nat
      /\ prog[o] \in Seq(Calls)
      /\ OriginInv(o, t, c, prog[o], nops[o], toT[o], tgt, conf.delay, aborted)
  BY <1>2, <1>4, InvOrigin
<1>6. /\ Settled(o, t, c, tgt, conf.delay) /\ Follows(t, c, prog[o])
      /\ Phase(o, t, c, nops[o], toT[o], tgt, conf.delay)
  BY <1>1, <1>5 DEF OriginInv, Origin
<1>7. t.access # "NONE"
  BY <1>1, <1>2, <1>6, NewTargetFacts DEF Settled
<1>8. Ready(o, t, c, tgt, conf.delay) /\ Moved(t) = t
  BY <1>6, <1>7, SettledReady
<1>9. Progressed(o, r, c, nops[o], toT[o], tgt, conf.delay)
  BY <1>3, <1>5, <1>6, <1>8, Progress
<1>10. Follows(r.t, c, prog[o])
  <2>1. r.t.access # "NONE"
    BY <1>9 DEF Progressed
  <2> QED BY <1>6, <1>7, <2>1 DEF Follows
<1>11. /\ nops' = [nops EXCEPT ![o] = nops[o]] /\ prog' = [prog EXCEPT ![o] = prog[o]]
       /\ call' = [call EXCEPT ![o] = c]
  BY <1>1, <1>4 DEF Inv, Shape
<1>12. Become(o, r)
  BY <1>1, <1>2, <1>3
<1>13. PICK n \in Nat : n = nops[o]
  BY <1>5
<1>14. PICK p \in Seq(Calls) : p = prog[o]
  BY <1>5
<1>15. Progressed(o, r, c, n, toT[o], tgt, conf.delay) /\ Follows(r.t, c, p)
  BY <1>9, <1>10, <1>13, <1>14
<1>16. /\ nops' = [nops EXCEPT ![o] = n] /\ prog' = [prog EXCEPT ![o] = p]
       /\ call' = [call EXCEPT ![o] = c]
  BY <1>11, <1>13, <1>14
<1>17. Inv /\ ~aborted /\ o \in Origins /\ conf' = conf /\ tgt' = tgt
  BY <1>1
<1> QED BY ONLY <1>12, <1>15, <1>16, <1>17, n \in Nat, p \in Seq(Calls),
                c \in {"none", "flush", "unlock"}, ResultStep

\* What is left when a synchronization may return.
LEMMA Completed ==
  ASSUME NEW o \in Origins, NEW t \in Targets, NEW c, NEW n \in Nat, NEW ch \in Seq(ToT),
         NEW s \in Process, NEW dl, Granted(o, t, c, n, ch, s, dl), ops_completion(t)
  PROVE  /\ s.dup[o] = 0 /\ s.toO[o] = <<>> /\ s.sendq[o] = <<>> /\ s.recv[o].what = "none"
         /\ n = Len(s.applied[o])
         /\ ch = <<>> \/ (ch = <<OldUnlock>> /\ c = "unlock")
         /\ CountWants(ch) = 0
<1>1. t.net = <<>> /\ t.user = <<>> /\ t.sync = "NONE" /\ t.unflushed = 0 /\ t.acks = 0
  BY DEF ops_completion
<1>2. PICK k \in Nat : k = CountWants(ch)
  BY CountNat
<1>3. s.dup[o] \in Nat /\ s.toO[o] \in Seq(ToO) /\ s.sendq[o] \in Seq(ToO)
  BY DEF Process
<1>4. PICK d \in Nat, x \in Nat, y \in Nat : d = s.dup[o] /\ x = Len(s.toO[o]) /\ y = Len(s.sendq[o])
  BY <1>3
<1>5. PICK z \in Nat : z = Bit(RecvOp(o, s) /\ WantsAck(s.recv[o].op))
  BY DEF Bit
<1>6. 0 = d + x + y + k + z
  BY <1>1, <1>2, <1>4, <1>5 DEF Granted
<1>7. d = 0 /\ x = 0 /\ y = 0 /\ k = 0 /\ z = 0
  BY <1>6
<1>8. s.toO[o] = <<>> /\ s.sendq[o] = <<>>
  <2>1. Len(s.toO[o]) = 0 /\ Len(s.sendq[o]) = 0
    BY <1>4, <1>7
  <2> QED BY ONLY <1>3, <2>1
<1>9. \A i \in DOMAIN ch : ~Wants(ch[i])
  BY <1>2, <1>7, CountNat
<1>10. RecvOp(o, s) => ~WantsAck(s.recv[o].op)
  BY <1>5, <1>7 DEF Bit
<1>11. PICK l \in Nat : l = Len(ch) /\ DOMAIN ch = 1 .. l
  OBVIOUS
<1>12. PICK m \in Nat : m = NumOps(ch) /\ m <= l /\ l <= m + 1
  BY <1>11, NumOpsNat
<1>13. m > 0 => ~WantsAck(ch[m])
  <2>1. SUFFICES ASSUME m > 0 PROVE ~WantsAck(ch[m])
    OBVIOUS
  <2>2. m \in 1 .. m /\ m \in DOMAIN ch
    BY <1>11, <1>12, <2>1
  <2>3. ch[m] \in OpPkt /\ ~Wants(ch[m])
    BY <1>9, <1>12, <2>2 DEF Granted, Pipeline, PlainOp
  <2> QED BY <2>3, BitWants
<1>14. m < l => l > 0 /\ l \in DOMAIN ch /\ ch[l] = OldUnlock /\ c = "unlock"
  <2>1. SUFFICES ASSUME m < l PROVE l > 0 /\ l \in DOMAIN ch /\ ch[l] = OldUnlock /\ c = "unlock"
    OBVIOUS
  <2>2. l > 0 /\ l \in DOMAIN ch
    BY <1>11, <2>1
  <2>3. ~Wants(ch[l])
    BY <1>9, <2>2
  <2>4. ch[l] \in FlushPkt \/ (ch[l] \in UnlockPkt /\ c = "unlock")
    BY <1>11, <1>12, <2>1 DEF Granted, Pipeline
  <2>5. ch[l] \notin FlushPkt
    BY <2>3, PktTypes DEF Wants
  <2>6. ch[l] \in UnlockPkt /\ ch[l].noack
    BY <2>3, <2>4, <2>5, PktTypes DEF Wants
  <2>7. ch[l] = OldUnlock
    BY <2>6 DEF UnlockPkt, OldUnlock
  <2> QED BY <2>2, <2>4, <2>5, <2>7
<1>15. LastOpWants(o, ch, s)
  <2>1. CASE m = l
    BY <1>1, <1>11, <1>12, <2>1 DEF Granted, Flushed
  <2>2. CASE m < l
    <3>1. ch # <<>> /\ ch[Len(ch)] = OldUnlock
      BY <1>11, <1>14, <2>2
    <3> QED BY <3>1 DEF Granted, Flushed
  <2> QED BY <1>12, <2>1, <2>2
<1>16. m = 0 /\ ~RecvOp(o, s)
  BY <1>10, <1>12, <1>13, <1>15 DEF LastOpWants
<1>17. s.recv[o].what = "none"
  <2>1. s.recv[o] \in Recvs
    BY DEF Process
  <2>2. s.recv[o].what \in {"none", "op", "entry", "drop"}
    BY <2>1 DEF Recvs, RecvRec, NoData
  <2>3. s.recv[o].what # "entry"
    BY <1>1, <1>12, <1>16 DEF Granted, Pipeline
  <2> QED BY <1>16, <2>2, <2>3 DEF RecvOp, Granted
<1>18. n = Len(s.applied[o])
  <2>1. PICK a \in Nat : a = Len(s.applied[o])
    BY BaseNat
  <2>2. Bit(RecvOp(o, s)) = 0
    BY <1>16 DEF Bit
  <2>3. Base(o, s) = a
    BY <2>1, <2>2 DEF Base
  <2>4. Ids(t, n, a)
    BY <1>12, <1>16, <2>3 DEF Granted, Pipeline
  <2> QED BY <1>1, <2>1, <2>4, IdsEmpty
<1>19. ch = <<>> \/ (ch = <<OldUnlock>> /\ c = "unlock")
  <2>1. CASE l = 0
    BY <1>11, <2>1
  <2>2. CASE l # 0
    <3>1. l = 1 /\ ch[1] = OldUnlock /\ c = "unlock"
      BY <1>12, <1>14, <1>16, <2>2
    <3>2. ch = <<ch[1]>>
      BY <1>11, <2>2, <3>1, OneElement
    <3> QED BY <3>1, <3>2
  <2> QED BY <2>1, <2>2
<1> QED BY <1>2, <1>4, <1>7, <1>8, <1>17, <1>18, <1>19

LEMMA ReturnInv ==
  ASSUME Inv, NEW o \in Origins, Return(o)
  PROVE  Inv'
<1>1. /\ ~aborted /\ call[o] # "none" /\ ops_completion(target[o])
      /\ call' = [call EXCEPT ![o] = "none"]
      /\ target' = [target EXCEPT ![o] = IF call[o] = "unlock" THEN NewTarget ELSE target[o]]
      /\ conf' = conf /\ prog' = prog /\ nops' = nops /\ toT' = toT /\ tgt' = tgt /\ aborted' = aborted
  BY DEF Return
<1>2. PICK t \in Targets : t = target[o]
  BY InvOrigin
<1>3. PICK c \in {"flush", "unlock"} : c = call[o]
  BY <1>1, InvOrigin
<1>4. PICK n \in Nat : n = nops[o]
  BY InvOrigin
<1>5. PICK ch \in Seq(ToT) : ch = toT[o]
  BY InvOrigin
<1>6. /\ tgt \in Process /\ conf.delay \in BOOLEAN
      /\ OriginInv(o, t, c, prog[o], n, ch, tgt, conf.delay, aborted)
  BY <1>2, <1>3, <1>4, <1>5, InvOrigin
<1>7. /\ Settled(o, t, c, tgt, conf.delay) /\ Follows(t, c, prog[o])
      /\ Phase(o, t, c, n, ch, tgt, conf.delay)
  BY <1>1, <1>6 DEF OriginInv, Origin
<1>8. /\ t.access = "GRANTED" /\ ops_completion(t) /\ t.net = <<>> /\ t.user = <<>>
      /\ t.sync = "NONE" /\ t.unflushed = 0 /\ t.acks = 0
  BY <1>1, <1>2, <1>3, <1>7 DEF ops_completion, Settled
<1>9. Granted(o, t, c, n, ch, tgt, conf.delay)
  BY <1>7, <1>8 DEF Phase, Idle, Requested, Queued, Refused, Receiving, Answered
<1>10. /\ tgt.dup[o] = 0 /\ tgt.toO[o] = <<>> /\ tgt.sendq[o] = <<>> /\ tgt.recv[o].what = "none"
       /\ n = Len(tgt.applied[o])
       /\ ch = <<>> \/ (ch = <<OldUnlock>> /\ c = "unlock")
  BY <1>6, <1>8, <1>9, Completed
<1>11. PICK t2 : t2 = IF c = "unlock" THEN NewTarget ELSE t
  OBVIOUS
<1>12. OriginInv(o, t2, "none", prog[o], n, ch, tgt, conf.delay, aborted)
  <2>1. CASE c = "unlock"
    <3>1. t2 = NewTarget
      BY <1>11, <2>1
    <3>2. \/ ch = <<>> /\ tgt.holds[o] = "NONE"
          \/ ch = <<OldUnlock>> /\ tgt.holds[o] # "NONE"
      <4>1. Left(t, c)
        BY <1>8, <2>1 DEF Left
      <4>2. tgt.holds[o] # "NONE" <=> ReleasePending(o, ch, tgt)
        BY <1>9, <4>1 DEF Granted, ReleasesOnce
      <4>3. CASE ch = <<>>
        <5>1. DOMAIN tgt.sendq[o] = {}
          BY <1>10
        <5> QED BY <1>10, <4>2, <4>3, <5>1 DEF ReleasePending, RecvOp
      <4>4. CASE ch = <<OldUnlock>>
        <5>1. ch # <<>> /\ ch[Len(ch)] = OldUnlock /\ Releasing(OldUnlock)
          BY <4>4 DEF Releasing, OldUnlock
        <5> QED BY <4>2, <4>4, <5>1 DEF ReleasePending
      <4> QED BY <1>10, <4>3, <4>4
    <3>3. Ids(NewTarget, n, Len(tgt.applied[o]))
      BY <1>10, NewTargetFacts, IdsEmpty
    <3>4. NoEntry(o, tgt)
      BY <1>9 DEF Granted
    <3>5. Idle(o, NewTarget, "none", n, ch, tgt, conf.delay)
      BY <1>10, <3>2, <3>3, <3>4, NewTargetFacts DEF Idle
    <3>6. Settled(o, NewTarget, "none", tgt, conf.delay)
      BY NewTargetFacts DEF Settled
    <3>7. Follows(NewTarget, "none", prog[o])
      BY <1>7, <2>1, NewTargetFacts DEF Follows
    <3> QED BY <3>1, <3>5, <3>6, <3>7 DEF OriginInv, Origin, Phase
  <2>2. CASE c = "flush"
    <3>1. t2 = t
      BY <1>11, <2>2
    <3>2. ch = <<>> /\ NumOps(ch) = 0 /\ Len(ch) = 0
      <4>1. ch = <<>>
        BY <1>10, <2>2
      <4> QED BY <4>1 DEF NumOps
    <3>3. Pipeline(o, t, "none", n, ch, tgt)
      BY <1>9, <3>2 DEF Granted, Pipeline
    <3>4. ReleasesOnce(o, t, "none", ch, tgt)
      <4>1. ~Left(t, c) /\ ~Left(t, "none")
        BY <2>2 DEF Left
      <4> QED BY <1>9, <4>1 DEF Granted, ReleasesOnce
    <3>5. Granted(o, t, "none", n, ch, tgt, conf.delay)
      BY <1>9, <3>3, <3>4 DEF Granted
    <3>6. Settled(o, t, "none", tgt, conf.delay)
      BY <1>7, <1>8 DEF Settled
    <3>7. Follows(t, "none", prog[o])
      BY <1>7, <1>8, <2>2 DEF Follows
    <3> QED BY <3>1, <3>5, <3>6, <3>7 DEF OriginInv, Origin, Phase
  <2> QED BY <2>1, <2>2
<1>13. t2 \in Targets
  BY <1>11, NewTargetFacts
<1>14. target' = [target EXCEPT ![o] = t2]
  BY <1>1, <1>2, <1>3, <1>11
<1>15. Shape' /\ target'[o] = t2 /\ call'[o] = "none"
  BY <1>1, <1>13, <1>14 DEF Inv, Shape
<1>16. \A q \in Origins \ {o} :
         /\ target'[q] = target[q] /\ call'[q] = call[q] /\ prog'[q] = prog[q]
         /\ nops'[q] = nops[q] /\ toT'[q] = toT[q] /\ Same(q, tgt, tgt')
  BY <1>1, <1>14, SameRefl DEF Inv, Shape
<1>17. /\ TargetInv(tgt') /\ Len(tgt'.queue) <= conf.pool /\ (tgt'.lost => conf.delay)
       /\ (aborted' => tgt'.discarded # {}) /\ (aborted => aborted') /\ conf' = conf
  BY <1>1 DEF Inv
<1>18. OriginInv(o, target'[o], call'[o], prog'[o], nops'[o], toT'[o], tgt', conf.delay, aborted')
  BY <1>1, <1>4, <1>5, <1>12, <1>15
<1> QED BY <1>15, <1>16, <1>17, <1>18, OriginStep

-----------------------------------------------------------------------------
(* Packets that an origin receives.                                        *)

\* An origin that has the lock and nothing under way but answers.
LEMMA FreshGranted ==
  ASSUME NEW o \in Origins, NEW t \in Targets, NEW c, NEW n \in Nat, NEW s \in Process, NEW dl,
         t.access = "GRANTED", NoEntry(o, s), s.sendq[o] = <<>>, Plain(s.toO[o]),
         s.recv[o].what = "none" \/ (s.recv[o].what = "entry" /\ t.net # <<>>),
         s.holds[o] # "NONE" <=> ~Left(t, c),
         t.acks = s.dup[o] + Len(s.toO[o]),
         Ids(t, n, Len(s.applied[o]))
  PROVE  Granted(o, t, c, n, <<>>, s, dl)
<1>1. ~RecvOp(o, s) /\ s.recv[o].what # "drop"
  BY DEF RecvOp
<1>2. PICK a \in Nat : a = Len(s.applied[o])
  BY BaseNat
<1>3. Bit(RecvOp(o, s)) = 0 /\ Bit(RecvOp(o, s) /\ WantsAck(s.recv[o].op)) = 0
  BY <1>1 DEF Bit
<1>4. Base(o, s) = a
  BY <1>2, <1>3 DEF Base
<1>5. PICK ch : ch = <<>>
  OBVIOUS
<1>6. NumOps(ch) = 0 /\ Len(ch) = 0 /\ CountWants(ch) = 0
  <2>1. Len(ch) = 0
    BY <1>5
  <2> QED BY <1>5, <2>1, CountEmpty DEF NumOps
<1>7. Pipeline(o, t, c, n, ch, s)
  <2>1. Ids(t, n, Base(o, s) + NumOps(ch))
    BY <1>2, <1>4, <1>6
  <2> QED BY <1>1, <1>6, <2>1 DEF Pipeline
<1>8. Flushed(o, t, ch, s)
  BY <1>1, <1>6 DEF Flushed, LastOpWants
<1>9. DOMAIN s.sendq[o] = {}
  OBVIOUS
<1>10. ReleasesOnce(o, t, c, ch, s)
  <2>1. ~ReleasePending(o, ch, s)
    BY <1>1, <1>5, <1>9 DEF ReleasePending
  <2> QED BY <1>1, <1>6, <1>9, <2>1 DEF ReleasesOnce
<1>11. t.acks = s.dup[o] + Len(s.toO[o]) + Len(s.sendq[o]) + CountWants(ch)
                + Bit(RecvOp(o, s) /\ WantsAck(s.recv[o].op))
  <2>1. s.dup[o] \in Nat /\ s.toO[o] \in Seq(ToO)
    BY DEF Process
  <2>2. PICK d \in Nat, x \in Nat : d = s.dup[o] /\ x = Len(s.toO[o])
    BY <2>1
  <2>3. Len(s.sendq[o]) = 0
    OBVIOUS
  <2> QED BY <1>3, <1>6, <2>2, <2>3
<1>12. Plain(s.sendq[o])
  BY <1>9 DEF Plain
<1> QED BY <1>1, <1>5, <1>7, <1>8, <1>10, <1>11, <1>12 DEF Granted

\* The first packet for o is taken.
Pops(o, s, s2) ==
  /\ s.toO[o] # <<>> /\ s2.toO[o] = Tail(s.toO[o])
  /\ s2.sendq[o] = s.sendq[o] /\ s2.recv[o] = s.recv[o]
  /\ s2.holds[o] = s.holds[o] /\ s2.applied[o] = s.applied[o] /\ s2.dup[o] = s.dup[o]
  /\ s2.discarded = s.discarded /\ s2.queue = s.queue

LEMMA GrantedAck ==
  ASSUME NEW o \in Origins, NEW t \in Targets, NEW c, NEW n \in Nat, NEW ch \in Seq(ToT),
         NEW s \in Process, NEW s2 \in Process, NEW dl,
         Granted(o, t, c, n, ch, s, dl), Pops(o, s, s2),
         NEW u, u = [t EXCEPT !.acks = IF @ = 0 THEN 0 ELSE @ - 1]
  PROVE  /\ t.acks # 0 /\ u \in Targets /\ Granted(o, u, c, n, ch, s2, dl)
         /\ u.access = t.access /\ u.type = t.type /\ u.sync = t.sync /\ u.net = t.net /\ u.user = t.user
<1>1. s.dup[o] \in Nat /\ s.toO[o] \in Seq(ToO) /\ s.sendq[o] \in Seq(ToO)
  BY DEF Process
<1>2. PICK k \in Nat : k = CountWants(ch)
  BY CountNat
<1>3. PICK z \in Nat : z = Bit(RecvOp(o, s) /\ WantsAck(s.recv[o].op))
  BY DEF Bit
<1>4. PICK d \in Nat, x \in Nat, y \in Nat : d = s.dup[o] /\ x = Len(s.toO[o]) /\ y = Len(s.sendq[o])
  BY ONLY <1>1
<1>5. x >= 1 /\ Len(s2.toO[o]) = x - 1
  BY <1>1, <1>4, TailFacts DEF Pops
<1>6. t.acks = d + x + y + k + z
  BY <1>2, <1>3, <1>4 DEF Granted
<1>7. t.acks # 0 /\ t.acks - 1 \in Nat /\ t.acks - 1 = d + (x - 1) + y + k + z
  <2>1. PICK a : a = t.acks
    OBVIOUS
  <2>2. a = d + x + y + k + z
    BY <1>6, <2>1
  <2>3. a # 0 /\ a - 1 \in Nat /\ a - 1 = d + (x - 1) + y + k + z
    BY ONLY <1>5, <2>2, d \in Nat, x \in Nat, y \in Nat, k \in Nat, z \in Nat
  <2> QED BY <2>1, <2>3
<1>8. u = [t EXCEPT !.acks = t.acks - 1]
  BY <1>7 DEF Targets
<1>9. /\ u \in Targets /\ u.acks = t.acks - 1 /\ u.unflushed = t.unflushed
      /\ u.access = t.access /\ u.type = t.type /\ u.sync = t.sync /\ u.net = t.net /\ u.user = t.user
  BY <1>7, <1>8 DEF Targets
<1>10. /\ s2.sendq[o] = s.sendq[o] /\ s2.recv[o] = s.recv[o]
       /\ s2.holds[o] = s.holds[o] /\ s2.applied[o] = s.applied[o] /\ s2.dup[o] = s.dup[o]
  BY DEF Pops
<1>11. Base(o, s2) = Base(o, s) /\ (RecvOp(o, s2) <=> RecvOp(o, s))
  BY <1>10 DEF Base, RecvOp
<1>12. \A b : Ids(t, n, b) => Ids(u, n, b)
  BY <1>9 DEF Ids
<1>13. Pipeline(o, u, c, n, ch, s2)
  BY <1>9, <1>10, <1>11, <1>12 DEF Granted, Pipeline
<1>14. Flushed(o, u, ch, s2)
  BY <1>9, <1>10, <1>11 DEF Granted, Flushed, LastOpWants
<1>15. ReleasesOnce(o, u, c, ch, s2)
  <2>1. Left(u, c) <=> Left(t, c)
    BY <1>9 DEF Left
  <2>2. ReleasePending(o, ch, s2) <=> ReleasePending(o, ch, s)
    BY <1>10, <1>11 DEF ReleasePending
  <2> QED BY <1>10, <1>11, <2>1, <2>2 DEF Granted, ReleasesOnce
<1>16. Plain(s2.toO[o]) /\ Plain(s2.sendq[o])
  <2>1. \A i \in DOMAIN s2.toO[o] : i + 1 \in DOMAIN s.toO[o] /\ s2.toO[o][i] = s.toO[o][i + 1]
    <3>1. s2.toO[o] \in Seq(ToO)
      BY DEF Process
    <3>2. \A i \in 1 .. x - 1 : s2.toO[o][i] = s.toO[o][i + 1]
      BY <1>1, <1>4, TailFacts DEF Pops
    <3>3. DOMAIN s2.toO[o] = 1 .. x - 1 /\ DOMAIN s.toO[o] = 1 .. x
      BY <1>1, <1>4, <1>5, <3>1
    <3> QED BY <3>2, <3>3
  <2> QED BY <1>10, <2>1 DEF Granted, Plain
<1>17. NoEntry(o, s2) /\ s2.recv[o].what # "drop"
  BY <1>10 DEF Granted, Pops, NoEntry
<1>18. u.acks = s2.dup[o] + Len(s2.toO[o]) + Len(s2.sendq[o]) + CountWants(ch)
                + Bit(RecvOp(o, s2) /\ WantsAck(s2.recv[o].op))
  <2>1. Bit(RecvOp(o, s2) /\ WantsAck(s2.recv[o].op)) = z
    BY <1>3, <1>10, <1>11 DEF Bit
  <2> QED BY <1>2, <1>4, <1>5, <1>7, <1>9, <1>10, <2>1
<1>19. Granted(o, u, c, n, ch, s2, dl)
  BY <1>9, <1>13, <1>14, <1>15, <1>16, <1>17, <1>18 DEF Granted
<1> QED BY <1>7, <1>9, <1>19

\* The parts of PktHandler_origin.
OnOp(p) == p.type = "lock_op_ack" \/ (p.type = "get_resp" /\ p.flag = "GRANTED")
Unmatched(t, p) == OnOp(p) /\ (t.net = <<>> \/ Head(t.net).lock = "NONE")
Handled(t, p) ==
  LET u == IF OnOp(p) /\ ~Unmatched(t, p) THEN handle_lock_ack_with_op(t, p.flag) ELSE t
  IN IF OnOp(p) \/ p.type = "lock_ack" THEN handle_lock_ack(u, p.flag) ELSE Result(u, <<>>, FALSE)

LEMMA HandlerParts ==
  ASSUME NEW t, NEW p, NEW x, NEW out, NEW f \in BOOLEAN, ~f,
         Handled(t, p) = Result(x, out, f), ~Unmatched(t, p)
  PROVE  \E b \in BOOLEAN :
           /\ ~b
           /\ PktHandler_origin(t, p) =
                [(IF p.ack THEN Handle_ack([t |-> x, out |-> out, bad |-> f])
                           ELSE [t |-> x, out |-> out, bad |-> f]) EXCEPT !.bad = @ \/ b]
<1>1. PICK h : h = Handled(t, p)
  OBVIOUS
<1>2. h = [t |-> x, out |-> out, bad |-> f]
  BY <1>1 DEF Result
<1>3. PICK b \in BOOLEAN : b = Unmatched(t, p)
  BY DEF Unmatched, OnOp
<1>4. PktHandler_origin(t, p) = [(IF p.ack THEN Handle_ack(h) ELSE h) EXCEPT !.bad = @ \/ b]
  BY <1>1, <1>3 DEF PktHandler_origin, Handled, Unmatched, OnOp
<1> QED BY <1>2, <1>3, <1>4

LEMMA HandlerNoAck ==
  ASSUME NEW t, NEW p, NEW x, NEW out, NEW f \in BOOLEAN, ~f,
         Handled(t, p) = Result(x, out, f), ~Unmatched(t, p), ~p.ack
  PROVE  Is(PktHandler_origin(t, p), x, out)
<1>1. PICK b \in BOOLEAN :
           /\ ~b
           /\ PktHandler_origin(t, p) =
                [(IF p.ack THEN Handle_ack([t |-> x, out |-> out, bad |-> f])
                           ELSE [t |-> x, out |-> out, bad |-> f]) EXCEPT !.bad = @ \/ b]
  BY HandlerParts
<1>2. PktHandler_origin(t, p) = [t |-> x, out |-> out, bad |-> f \/ b]
  BY <1>1
<1> QED BY <1>1, <1>2 DEF Is

LEMMA HandlerAck ==
  ASSUME NEW t, NEW p, NEW x \in Targets, NEW out, NEW f \in BOOLEAN, ~f,
         Handled(t, p) = Result(x, out, f), ~Unmatched(t, p), p.ack, x.acks # 0
  PROVE  Is(PktHandler_origin(t, p), [x EXCEPT !.acks = IF @ = 0 THEN 0 ELSE @ - 1], out)
<1>1. PICK b \in BOOLEAN :
           /\ ~b
           /\ PktHandler_origin(t, p) =
                [(IF p.ack THEN Handle_ack([t |-> x, out |-> out, bad |-> f])
                           ELSE [t |-> x, out |-> out, bad |-> f]) EXCEPT !.bad = @ \/ b]
  BY HandlerParts
<1>2. PICK y : y = [x EXCEPT !.acks = IF @ = 0 THEN 0 ELSE @ - 1]
  OBVIOUS
<1>3. PICK g \in BOOLEAN : g = (f \/ x.acks = 0)
  OBVIOUS
<1>4. Handle_ack([t |-> x, out |-> out, bad |-> f]) = [t |-> y, out |-> out, bad |-> g]
  <2>1. PICK h : h = [t |-> x, out |-> out, bad |-> f]
    OBVIOUS
  <2>2. PICK a : a = Handle_ack(h)
    OBVIOUS
  <2>3. a = [t |-> y, out |-> out, bad |-> g]
    BY <1>2, <1>3, <2>1, <2>2 DEF Handle_ack
  <2> QED BY <2>1, <2>2, <2>3
<1>5. PktHandler_origin(t, p) = [t |-> y, out |-> out, bad |-> g \/ b]
  BY <1>1, <1>4
<1>6. ~(g \/ b)
  BY <1>1, <1>3
<1> QED BY <1>2, <1>5, <1>6 DEF Is

\* The operation that carried the request has to be sent again.
Cleared(t) == [t EXCEPT !.net[1] = Op(Head(t.net).type, Head(t.net).id)]

LEMMA ClearedFacts ==
  ASSUME NEW t \in Targets, t.net # <<>>, NEW u, u = Cleared(t)
  PROVE  /\ u \in Targets /\ u.access = t.access /\ u.type = t.type /\ u.sync = t.sync
         /\ u.user = t.user /\ u.acks = t.acks /\ u.unflushed = t.unflushed
         /\ u.net # <<>> /\ \A n, b : Ids(t, n, b) => Ids(u, n, b)
<1>1. t.net \in Seq(OpPkt) /\ 1 \in DOMAIN t.net /\ Head(t.net) = t.net[1]
  BY DEF Targets
<1>2. PICK op \in OpPkt : op = t.net[1]
  BY <1>1
<1>3. op.type \in OpKinds /\ op.id \in Nat
  BY DEF OpPkt
<1>4. PICK f \in OpPkt : f = Op(op.type, op.id) /\ f.id = op.id
  BY <1>3, OpFacts
<1>5. PICK w : w = [t.net EXCEPT ![1] = f]
  OBVIOUS
<1>6. w \in Seq(OpPkt) /\ Len(w) = Len(t.net) /\ DOMAIN w = DOMAIN t.net
  BY <1>1, <1>5
<1>7. w[1] = f /\ \A i \in DOMAIN t.net : i # 1 => w[i] = t.net[i]
  BY <1>1, <1>5
<1>8. w # <<>>
  BY <1>1, <1>6
<1>9. u = [t EXCEPT !.net = w]
  BY <1>1, <1>2, <1>4, <1>5 DEF Cleared, Targets
<1>10. /\ u \in Targets /\ u.access = t.access /\ u.type = t.type /\ u.sync = t.sync
       /\ u.user = t.user /\ u.acks = t.acks /\ u.unflushed = t.unflushed /\ u.net = w
  BY <1>6, <1>9 DEF Targets
<1>11. ASSUME NEW n, NEW b, Ids(t, n, b) PROVE Ids(u, n, b)
  <2>1. \A i \in DOMAIN t.net : w[i].id = t.net[i].id
    BY <1>2, <1>4, <1>7
  <2> QED BY <1>6, <1>10, <1>11, <2>1 DEF Ids
<1> QED BY <1>8, <1>10, <1>11

\* Answers that leave the lock request where it is, or throw it away.
LEMMA HandlerNote ==
  ASSUME NEW t \in Targets, t.access = "ISSUED", NEW p, NEW r, r = PktHandler_origin(t, p)
  PROVE  /\ p = LockAck("QUEUED") => Is(r, t, <<>>)
         /\ p = LockOpAck("QUEUED", FALSE) /\ t.net # <<>> /\ Head(t.net).lock # "NONE"
              => Is(r, t, <<>>)
         /\ p = LockOpAck("DATA_DISCARDED", FALSE) /\ t.net # <<>> /\ Head(t.net).lock # "NONE"
              => Is(r, Cleared(t), <<>>)
         /\ p = LockAck("DISCARDED") => Is(r, [t EXCEPT !.access = "CALLED"], <<>>)
         /\ p = LockOpAck("DISCARDED", FALSE) /\ t.net # <<>> /\ Head(t.net).lock # "NONE"
              => Is(r, [Cleared(t) EXCEPT !.access = "CALLED"], <<>>)
<1>1. PICK f \in BOOLEAN : f = FALSE
  OBVIOUS
<1>2. ASSUME NEW x \in Targets, Handled(t, p) = Result(x, <<>>, f), p.ack = FALSE, ~Unmatched(t, p)
      PROVE  Is(r, x, <<>>)
  <2>1. ~p.ack /\ ~f
    BY <1>1, <1>2
  <2> QED BY <1>2, <2>1, HandlerNoAck
<1>3. ASSUME p = LockAck("QUEUED") PROVE Is(r, t, <<>>)
  <2>1. p.type = "lock_ack" /\ p.flag = "QUEUED" /\ p.ack = FALSE
    BY <1>3 DEF LockAck
  <2>2. ~OnOp(p) /\ ~Unmatched(t, p)
    BY <2>1 DEF OnOp, Unmatched
  <2>3. Handled(t, p) = Result(t, <<>>, f)
    BY <1>1, <2>1, <2>2 DEF Handled, handle_lock_ack
  <2> QED BY <1>2, <2>1, <2>2, <2>3
<1>4. ASSUME p = LockOpAck("QUEUED", FALSE), t.net # <<>>, Head(t.net).lock # "NONE"
      PROVE  Is(r, t, <<>>)
  <2>1. p.type = "lock_op_ack" /\ p.flag = "QUEUED" /\ p.ack = FALSE
    BY <1>4 DEF LockOpAck
  <2>2. OnOp(p) /\ ~Unmatched(t, p)
    BY <1>4, <2>1 DEF OnOp, Unmatched
  <2>3. handle_lock_ack_with_op(t, "QUEUED") = t
    BY DEF handle_lock_ack_with_op
  <2>4. Handled(t, p) = Result(t, <<>>, f)
    BY <1>1, <2>1, <2>2, <2>3 DEF Handled, handle_lock_ack
  <2> QED BY <1>2, <2>1, <2>2, <2>4
<1>5. ASSUME p = LockOpAck("DATA_DISCARDED", FALSE), t.net # <<>>, Head(t.net).lock # "NONE"
      PROVE  Is(r, Cleared(t), <<>>)
  <2>1. p.type = "lock_op_ack" /\ p.flag = "DATA_DISCARDED" /\ p.ack = FALSE
    BY <1>5 DEF LockOpAck
  <2>2. OnOp(p) /\ ~Unmatched(t, p)
    BY <1>5, <2>1 DEF OnOp, Unmatched
  <2>3. PICK u : u = Cleared(t)
    OBVIOUS
  <2>4. handle_lock_ack_with_op(t, "DATA_DISCARDED") = u
    BY <2>3 DEF handle_lock_ack_with_op, Cleared
  <2>5. u \in Targets /\ u.access = "ISSUED"
    BY <1>5, <2>3, ClearedFacts
  <2>6. Handled(t, p) = Result(u, <<>>, f)
    BY <1>1, <2>1, <2>2, <2>4, <2>5 DEF Handled, handle_lock_ack
  <2> QED BY <1>2, <2>1, <2>2, <2>3, <2>5, <2>6
<1>6. ASSUME NEW u \in Targets, u.access = "ISSUED"
      PROVE  /\ handle_lock_ack(u, "DISCARDED") = Result([u EXCEPT !.access = "CALLED"], <<>>, f)
             /\ [u EXCEPT !.access = "CALLED"] \in Targets
  <2>1. handle_lock_ack(u, "DISCARDED") = [Result(u, <<>>, f) EXCEPT !.t.access = "CALLED"]
    BY <1>1, <1>6 DEF handle_lock_ack
  <2>2. [Result(u, <<>>, f) EXCEPT !.t.access = "CALLED"] = Result([u EXCEPT !.access = "CALLED"], <<>>, f)
    BY DEF Result
  <2>3. [u EXCEPT !.access = "CALLED"] \in Targets
    BY DEF Targets
  <2> QED BY <2>1, <2>2, <2>3
<1>7. ASSUME p = LockAck("DISCARDED") PROVE Is(r, [t EXCEPT !.access = "CALLED"], <<>>)
  <2>1. p.type = "lock_ack" /\ p.flag = "DISCARDED" /\ p.ack = FALSE
    BY <1>7 DEF LockAck
  <2>2. ~OnOp(p) /\ ~Unmatched(t, p)
    BY <2>1 DEF OnOp, Unmatched
  <2>3. Handled(t, p) = handle_lock_ack(t, "DISCARDED")
    BY <2>1, <2>2 DEF Handled
  <2> QED BY <1>2, <1>6, <2>1, <2>2, <2>3
<1>8. ASSUME p = LockOpAck("DISCARDED", FALSE), t.net # <<>>, Head(t.net).lock # "NONE"
      PROVE  Is(r, [Cleared(t) EXCEPT !.access = "CALLED"], <<>>)
  <2>1. p.type = "lock_op_ack" /\ p.flag = "DISCARDED" /\ p.ack = FALSE
    BY <1>8 DEF LockOpAck
  <2>2. OnOp(p) /\ ~Unmatched(t, p)
    BY <1>8, <2>1 DEF OnOp, Unmatched
  <2>3. PICK u : u = Cleared(t)
    OBVIOUS
  <2>4. handle_lock_ack_with_op(t, "DISCARDED") = u
    BY <2>3 DEF handle_lock_ack_with_op, Cleared
  <2>5. u \in Targets /\ u.access = "ISSUED"
    BY <1>8, <2>3, ClearedFacts
  <2>6. Handled(t, p) = handle_lock_ack(u, "DISCARDED")
    BY <2>1, <2>2, <2>4 DEF Handled
  <2> QED BY <1>2, <1>6, <2>1, <2>2, <2>3, <2>5, <2>6
<1> QED BY <1>3, <1>4, <1>5, <1>7, <1>8

\* The target element when the lock is granted, alone or with its operation.
Locked(u) == [u EXCEPT !.access = "GRANTED", !.active = @ \/ u.net # <<>>]
OpDone(t) == handle_lock_ack_with_op(t, "GRANTED")

LEMMA LockedFacts ==
  ASSUME NEW u \in Targets, NEW g, g = Locked(u)
  PROVE  /\ g \in Targets /\ g.access = "GRANTED" /\ g.type = u.type /\ g.sync = u.sync
         /\ g.net = u.net /\ g.user = u.user /\ g.acks = u.acks /\ g.unflushed = u.unflushed
         /\ \A n, b : Ids(u, n, b) => Ids(g, n, b)
<1>1. PICK a \in BOOLEAN : a = (u.active \/ u.net # <<>>)
  BY DEF Targets
<1>2. g = [u EXCEPT !.access = "GRANTED", !.active = a]
  BY <1>1 DEF Locked, Targets
<1>3. /\ g \in Targets /\ g.access = "GRANTED" /\ g.type = u.type /\ g.sync = u.sync
      /\ g.net = u.net /\ g.user = u.user /\ g.acks = u.acks /\ g.unflushed = u.unflushed
  BY <1>2 DEF Targets
<1> QED BY <1>3 DEF Ids

LEMMA OpDoneFacts ==
  ASSUME NEW t \in Targets, t.net # <<>>, NEW q, q = Head(t.net), NEW u, u = OpDone(t)
  PROVE  /\ u \in Targets /\ u.access = t.access /\ u.type = t.type /\ u.user = t.user
         /\ u.acks = t.acks /\ u.net = Tail(t.net)
         /\ u.sync = IF /\ Len(t.net) = 1
                        /\ (t.sync = "FLUSH" /\ q.flush) \/ (t.sync = "UNLOCK" /\ q.unlock)
                     THEN "NONE" ELSE t.sync
         /\ \A n \in Nat, b \in Nat : Ids(t, n, b) => Ids(u, n, b + 1)
<1>1. t.net \in Seq(OpPkt)
  BY DEF Targets
<1>2. PICK l \in Nat : l = Len(t.net) /\ l >= 1 /\ DOMAIN t.net = 1 .. l
  BY <1>1, TailFacts
<1>3. PICK z : z = Tail(t.net)
  OBVIOUS
<1>4. z \in Seq(OpPkt) /\ Len(z) = l - 1 /\ \A i \in 1 .. l - 1 : z[i] = t.net[i + 1]
  BY <1>1, <1>2, <1>3, TailFacts
<1>5. PICK y : y = IF /\ Len(t.net) = 1
                      /\ (t.sync = "FLUSH" /\ q.flush) \/ (t.sync = "UNLOCK" /\ q.unlock)
                   THEN "NONE" ELSE t.sync
  OBVIOUS
<1>6. y \in {"NONE", "FLUSH", "UNLOCK"}
  BY <1>5 DEF Targets
<1>7. PICK a \in BOOLEAN : a = (t.active /\ Len(t.net) > 1)
  BY DEF Targets
<1>8. u = [t EXCEPT !.net = z, !.sync = y, !.active = a]
  BY <1>3, <1>5, <1>7 DEF OpDone, handle_lock_ack_with_op, Targets
<1>9. /\ u \in Targets /\ u.access = t.access /\ u.type = t.type /\ u.user = t.user
      /\ u.acks = t.acks /\ u.net = z /\ u.sync = y
  BY <1>4, <1>6, <1>8 DEF Targets
<1>10. ASSUME NEW n \in Nat, NEW b \in Nat, Ids(t, n, b) PROVE Ids(u, n, b + 1)
  <2>1. DOMAIN z = 1 .. l - 1
    BY <1>2, <1>4
  <2>2. \A i \in DOMAIN z : z[i].id = (b + 1) + i
    <3> TAKE i \in DOMAIN z
    <3>1. i \in 1 .. l - 1 /\ i + 1 \in DOMAIN t.net
      BY <1>2, <2>1
    <3>2. z[i].id = b + (i + 1)
      BY <1>4, <1>10, <3>1 DEF Ids
    <3> QED BY <3>1, <3>2
  <2>3. t.user \in Seq(OpPkt)
    BY DEF Targets
  <2>4. PICK k \in Nat : k = Len(t.user) /\ DOMAIN t.user = 1 .. k
    BY <2>3
  <2>5. n = b + l + k /\ \A i \in DOMAIN t.user : t.user[i].id = b + l + i
    BY <1>2, <1>10, <2>4 DEF Ids
  <2>6. \A i \in DOMAIN t.user : t.user[i].id = (b + 1) + (l - 1) + i
    BY <2>4, <2>5
  <2>7. n = (b + 1) + (l - 1) + k
    BY <2>5
  <2> QED BY <1>4, <1>9, <2>2, <2>4, <2>6, <2>7 DEF Ids
<1> QED BY <1>3, <1>5, <1>9, <1>10

LEMMA HandledGranted ==
  ASSUME NEW t \in Targets, NEW p, p.flag = "GRANTED", NEW u \in Targets,
         \/ p.type = "lock_ack" /\ u = t
         \/ OnOp(p) /\ ~Unmatched(t, p) /\ u = OpDone(t)
  PROVE  /\ ~Unmatched(t, p)
         /\ Handled(t, p) = IF u.net = <<>> THEN Make_progress_target(Locked(u))
                            ELSE Result(Locked(u), <<>>, FALSE)
<1>1. ~Unmatched(t, p)
  BY DEF Unmatched, OnOp
<1>2. Handled(t, p) = handle_lock_ack(u, "GRANTED")
  BY <1>1 DEF Handled, OpDone, OnOp
<1>3. PICK g : g = Locked(u)
  OBVIOUS
<1>4. g.access = "GRANTED" /\ g.net = u.net
  BY <1>3, LockedFacts
<1>5. handle_lock_ack(u, "GRANTED") = IF g.net = <<>> THEN Make_progress_target(g) ELSE Result(g, <<>>, FALSE)
  BY <1>3, <1>4 DEF handle_lock_ack, Locked
<1> QED BY <1>1, <1>2, <1>3, <1>4, <1>5

LEMMA EmptyToT == <<>> \in Seq(ToT)
OBVIOUS

\* The origin goes on when it has the lock.
LEMMA GrantProgress ==
  ASSUME NEW o \in Origins, NEW g \in Targets, NEW c, NEW n \in Nat, NEW s \in Process, NEW dl,
         Granted(o, g, c, n, <<>>, s, dl), Settled(o, g, c, s, dl),
         NEW h, h = IF g.net = <<>> THEN Make_progress_target(g) ELSE Result(g, <<>>, FALSE)
  PROVE  \E x \in Targets, out \in Seq(ToT), f \in BOOLEAN :
           /\ h = Result(x, out, f) /\ ~f
           /\ x.access = "GRANTED"
           /\ Granted(o, x, c, n, out, s, dl) /\ Settled(o, x, c, s, dl)
<1>1. PICK ch \in Seq(ToT) : ch = <<>>
  BY ONLY EmptyToT
<1>2. g.access = "GRANTED"
  BY DEF Granted
<1>3. CASE g.net = <<>>
  <2>1. PICK r : r = Make_progress_target(g)
    OBVIOUS
  <2>2. /\ c = "none" \/ g.sync # "NONE" \/ (g.net = <<>> /\ g.user = <<>>)
        /\ g.sync = "FLUSH" => c = "flush"
        /\ g.sync = "UNLOCK" => c = "unlock"
        /\ (~dl => g.user = <<>>) /\ g.type # "NONE" /\ Len(g.user) <= 1
        /\ c # "none" /\ g.sync = "NONE" => g.user = <<>>
    BY <1>2 DEF Settled
  <2>3. Granted(o, g, c, n, ch, s, dl)
    BY <1>1
  <2>4. /\ r.t \in Targets /\ r.out \in Seq(ToT) /\ r.bad \in BOOLEAN /\ ~r.bad
        /\ Granted(o, r.t, c, n, ch \o r.out, s, dl)
        /\ r.t.type = g.type /\ r.t.access = "GRANTED" /\ r.t.sync = "NONE" /\ r.t.net = <<>>
        /\ Len(r.t.user) <= 1 /\ (g.user = <<>> \/ g.sync # "NONE" => r.t.user = <<>>)
    BY <2>1, <2>2, <2>3, GrantedProgress
  <2>5. Settled(o, r.t, c, s, dl)
    BY <2>2, <2>4 DEF Settled
  <2>6. ch \o r.out = r.out
    BY <1>1, <2>4
  <2>7. r = Result(r.t, r.out, r.bad)
    BY <2>1 DEF Make_progress_target, Result
  <2>8. h = r
    BY <1>3, <2>1
  <2> QED BY <2>4, <2>5, <2>6, <2>7, <2>8
<1>4. CASE g.net # <<>>
  <2>1. PICK f \in BOOLEAN : f = FALSE
    OBVIOUS
  <2>2. h = Result(g, <<>>, f)
    BY <1>4, <2>1
  <2> QED BY <1>1, <1>2, <2>1, <2>2
<1> QED BY <1>3, <1>4

LEMMA NoteProgressed ==
  ASSUME NEW o, NEW r, NEW x \in Targets, Is(r, x, <<>>), x.access # "NONE", NEW c, NEW n,
         NEW ch \in Seq(ToT), NEW s2, NEW dl, Settled(o, x, c, s2, dl), Phase(o, x, c, n, ch, s2, dl)
  PROVE  Progressed(o, r, c, n, ch, s2, dl)
<1>1. r.t = x /\ r.out = <<>> /\ r.bad \in BOOLEAN /\ ~r.bad
  BY DEF Is
<1>2. ch \o <<>> = ch /\ <<>> \in Seq(ToT)
  OBVIOUS
<1> QED BY <1>1, <1>2 DEF Progressed

LEMMA SettledPops ==
  ASSUME NEW o, NEW t, NEW c, NEW s, NEW s2, NEW dl, Settled(o, t, c, s, dl), Pops(o, s, s2)
  PROVE  Settled(o, t, c, s2, dl)
BY DEF Settled, Pops

LEMMA OnePacket ==
  ASSUME NEW a
  PROVE  <<a>> # <<>> /\ Head(<<a>>) = a /\ Tail(<<a>>) = <<>> /\ Len(<<a>>) = 1
OBVIOUS

LEMMA LockOpHead ==
  ASSUME NEW t, NEW c, NEW q, NEW dl, LockOp(t, c, q, dl)
  PROVE  t.net # <<>> /\ Head(t.net).lock # "NONE" /\ q = Head(t.net)
BY DEF LockOp

\* The origin is told that its request waits.
LEMMA ReceiveQueued ==
  ASSUME NEW o \in Origins, NEW t \in Targets, NEW c, NEW n \in Nat, NEW ch \in Seq(ToT),
         NEW s \in Process, NEW s2 \in Process, NEW dl, Pops(o, s, s2),
         Settled(o, t, c, s, dl), Queued(o, t, c, n, ch, s, dl)
  PROVE  Progressed(o, PktHandler_origin(t, Head(s.toO[o])), c, n, ch, s2, dl)
<1>1. PICK i \in DOMAIN s.queue : /\ s.queue[i].o = o
                                  /\ s.queue[i].op.lock = t.type
                                  /\ QueuedEntry(o, t, c, s, s.queue[i], dl)
  BY DEF Queued
<1>2. PICK e : e = s.queue[i]
  OBVIOUS
<1>3. t.access = "ISSUED" /\ ch = <<>> /\ s.holds[o] = "NONE" /\ s.sendq[o] = <<>>
      /\ Ids(t, n, Len(s.applied[o]))
  BY DEF Queued
<1>4. /\ s.toO[o] # <<>> /\ s2.toO[o] = Tail(s.toO[o])
      /\ s2.sendq[o] = s.sendq[o] /\ s2.recv[o] = s.recv[o]
      /\ s2.holds[o] = s.holds[o] /\ s2.applied[o] = s.applied[o] /\ s2.dup[o] = s.dup[o]
      /\ s2.discarded = s.discarded /\ s2.queue = s.queue
  BY DEF Pops
<1>5. PICK p, r : p = Head(s.toO[o]) /\ r = PktHandler_origin(t, p)
  OBVIOUS
<1>6. ASSUME NEW x \in Targets, x.access = "ISSUED", x.type = t.type, Ids(x, n, Len(s.applied[o])),
             QueuedEntry(o, x, c, s2, e, dl)
      PROVE  Phase(o, x, c, n, ch, s2, dl)
  <2>1. Queued(o, x, c, n, ch, s2, dl)
    BY <1>1, <1>2, <1>3, <1>4, <1>6 DEF Queued
  <2> QED BY <2>1 DEF Phase
<1>7. Settled(o, t, c, s2, dl)
  BY SettledPops
<1>8. CASE QueuedLock(o, t, s, e)
  <2>1. p = LockAck("QUEUED") /\ s2.toO[o] = <<>>
    BY <1>4, <1>5, <1>8, OnePacket DEF QueuedLock
  <2>2. Is(r, t, <<>>)
    BY <1>3, <1>5, <2>1, HandlerNote
  <2>3. QueuedLock(o, t, s2, e)
    BY <1>4, <1>8, <2>1 DEF QueuedLock
  <2>4. Phase(o, t, c, n, ch, s2, dl)
    BY <1>3, <1>6, <2>3 DEF QueuedEntry
  <2> QED BY <1>3, <1>5, <1>7, <2>2, <2>4, NoteProgressed
<1>9. CASE QueuedOp(o, t, c, s, e, dl)
  <2>1. p = LockOpAck("QUEUED", FALSE) /\ s2.toO[o] = <<>>
    BY <1>4, <1>5, <1>9, OnePacket DEF QueuedOp
  <2>2. t.net # <<>> /\ Head(t.net).lock # "NONE"
    BY <1>9, LockOpHead DEF QueuedOp
  <2>3. Is(r, t, <<>>)
    BY <1>3, <1>5, <2>1, <2>2, HandlerNote
  <2>4. QueuedOp(o, t, c, s2, e, dl)
    BY <1>4, <1>9, <2>1 DEF QueuedOp
  <2>5. Phase(o, t, c, n, ch, s2, dl)
    BY <1>3, <1>6, <2>4 DEF QueuedEntry
  <2> QED BY <1>3, <1>5, <1>7, <2>3, <2>5, NoteProgressed
<1>10. CASE QueuedAlone(o, t, s, e)
  <2>1. s.toO[o] = <<LockOpAck("DATA_DISCARDED", FALSE)>> /\ Head(t.net).lock # "NONE" /\ t.net # <<>>
    BY <1>4, <1>10 DEF QueuedAlone
  <2>2. p = LockOpAck("DATA_DISCARDED", FALSE) /\ s2.toO[o] = <<>>
    BY <1>4, <1>5, <2>1, OnePacket
  <2>3. PICK u : u = Cleared(t)
    OBVIOUS
  <2>4. Is(r, u, <<>>)
    BY <1>3, <1>5, <2>1, <2>2, <2>3, HandlerNote
  <2>5. /\ u \in Targets /\ u.access = t.access /\ u.type = t.type /\ u.sync = t.sync
        /\ u.user = t.user /\ u.acks = t.acks
        /\ u.net # <<>> /\ Ids(u, n, Len(s.applied[o]))
    BY <1>3, <2>1, <2>3, ClearedFacts
  <2>6. QueuedAlone(o, u, s2, e)
    BY <1>4, <1>10, <2>2, <2>5 DEF QueuedAlone
  <2>7. Phase(o, u, c, n, ch, s2, dl)
    BY <1>3, <1>6, <2>5, <2>6 DEF QueuedEntry
  <2>8. Settled(o, u, c, s2, dl)
    BY <1>3, <1>7, <2>5 DEF Settled
  <2> QED BY <1>3, <1>5, <2>4, <2>5, <2>7, <2>8, NoteProgressed
<1> QED BY <1>1, <1>2, <1>8, <1>9, <1>10 DEF QueuedEntry

\* The origin is told that its request was thrown away.
LEMMA ReceiveRefused ==
  ASSUME NEW o \in Origins, NEW t \in Targets, NEW c, NEW n \in Nat, NEW ch \in Seq(ToT),
         NEW s \in Process, NEW s2 \in Process, NEW dl, Pops(o, s, s2),
         Settled(o, t, c, s, dl), Refused(o, t, c, n, ch, s, dl)
  PROVE  Progressed(o, PktHandler_origin(t, Head(s.toO[o])), c, n, ch, s2, dl)
<1>1. /\ t.access = "ISSUED" /\ ch = <<>> /\ o \in s.discarded
      /\ s.holds[o] = "NONE" /\ s.sendq[o] = <<>> /\ NoEntry(o, s) /\ t.acks = s.dup[o]
      /\ Ids(t, n, Len(s.applied[o]))
  BY DEF Refused
<1>2. /\ s.toO[o] # <<>> /\ s2.toO[o] = Tail(s.toO[o])
      /\ s2.sendq[o] = s.sendq[o] /\ s2.recv[o] = s.recv[o]
      /\ s2.holds[o] = s.holds[o] /\ s2.applied[o] = s.applied[o] /\ s2.dup[o] = s.dup[o]
      /\ s2.discarded = s.discarded /\ s2.queue = s.queue
  BY DEF Pops
<1>3. PICK p, r : p = Head(s.toO[o]) /\ r = PktHandler_origin(t, p)
  OBVIOUS
<1>4. NoEntry(o, s2)
  BY <1>1, <1>2 DEF NoEntry
<1>5. ASSUME NEW u \in Targets, u.access = t.access, u.type = t.type, u.sync = t.sync,
             u.user = t.user, u.acks = t.acks, Ids(u, n, Len(s.applied[o])), s2.toO[o] = <<>>,
             s.recv[o].what = "none" \/ (s.recv[o].what = "drop" /\ u.net # <<>>),
             Is(r, [u EXCEPT !.access = "CALLED"], <<>>)
      PROVE  Progressed(o, r, c, n, ch, s2, dl)
  <2>1. PICK x : x = [u EXCEPT !.access = "CALLED"]
    OBVIOUS
  <2>2. /\ x \in Targets /\ x.access = "CALLED" /\ x.type = t.type /\ x.sync = t.sync
        /\ x.user = t.user /\ x.acks = t.acks /\ x.net = u.net
    BY <1>5, <2>1 DEF Targets
  <2>3. Ids(x, n, Len(s.applied[o]))
    BY <1>5, <2>2 DEF Ids
  <2>4. Idle(o, x, c, n, ch, s2, dl)
    BY <1>1, <1>2, <1>4, <1>5, <2>2, <2>3 DEF Idle
  <2>5. Settled(o, x, c, s2, dl)
    BY <1>1, <1>2, <2>2 DEF Settled
  <2>6. Phase(o, x, c, n, ch, s2, dl)
    BY <2>4 DEF Phase
  <2> QED BY <1>5, <2>1, <2>2, <2>5, <2>6, NoteProgressed
<1>6. CASE s.toO[o] = <<LockAck("DISCARDED")>> /\ s.recv[o].what = "none"
  <2>1. p = LockAck("DISCARDED") /\ s2.toO[o] = <<>>
    BY <1>2, <1>3, <1>6, OnePacket
  <2>2. Is(r, [t EXCEPT !.access = "CALLED"], <<>>)
    BY <1>1, <1>3, <2>1, HandlerNote
  <2> QED BY <1>1, <1>3, <1>5, <1>6, <2>1, <2>2
<1>7. CASE /\ s.toO[o] = <<LockOpAck("DISCARDED", FALSE)>>
           /\ t.net # <<>> /\ Head(t.net).lock # "NONE"
           /\ s.recv[o].what \in {"none", "drop"}
  <2>1. p = LockOpAck("DISCARDED", FALSE) /\ s2.toO[o] = <<>>
    BY <1>2, <1>3, <1>7, OnePacket
  <2>2. PICK u : u = Cleared(t)
    OBVIOUS
  <2>3. Is(r, [u EXCEPT !.access = "CALLED"], <<>>)
    BY <1>1, <1>3, <1>7, <2>1, <2>2, HandlerNote
  <2>4. /\ u \in Targets /\ u.access = t.access /\ u.type = t.type /\ u.sync = t.sync
        /\ u.user = t.user /\ u.acks = t.acks
        /\ u.net # <<>> /\ Ids(u, n, Len(s.applied[o]))
    BY <1>1, <1>7, <2>2, ClearedFacts
  <2> QED BY <1>3, <1>5, <1>7, <2>1, <2>3, <2>4
<1> QED BY <1>6, <1>7 DEF Refused

\* The answer to a lock request that came alone, or lost its operation.
LEMMA ReceiveAnsweredLock ==
  ASSUME NEW o \in Origins, NEW t \in Targets, NEW c, NEW n \in Nat, NEW ch \in Seq(ToT),
         NEW s \in Process, NEW s2 \in Process, NEW dl, Pops(o, s, s2),
         Settled(o, t, c, s, dl), t.access = "ISSUED", ch = <<>>, NoEntry(o, s),
         AnsweredLock(o, t, n, s)
  PROVE  Progressed(o, PktHandler_origin(t, Head(s.toO[o])), c, n, ch, s2, dl)
<1>1. /\ s.holds[o] # "NONE" /\ s.sendq[o] = <<>> /\ t.acks = s.dup[o]
      /\ s.recv[o].what = "none" \/ (s.recv[o].what = "entry" /\ t.net # <<>>)
      /\ Ids(t, n, Len(s.applied[o]))
  BY DEF AnsweredLock
<1>2. /\ s.toO[o] # <<>> /\ s2.toO[o] = Tail(s.toO[o])
      /\ s2.sendq[o] = s.sendq[o] /\ s2.recv[o] = s.recv[o]
      /\ s2.holds[o] = s.holds[o] /\ s2.applied[o] = s.applied[o] /\ s2.dup[o] = s.dup[o]
      /\ s2.discarded = s.discarded /\ s2.queue = s.queue
  BY DEF Pops
<1>3. PICK p, r : p = Head(s.toO[o]) /\ r = PktHandler_origin(t, p)
  OBVIOUS
<1>4. NoEntry(o, s2) /\ Settled(o, t, c, s2, dl)
  BY <1>2, SettledPops DEF NoEntry
<1>5. ASSUME NEW u \in Targets, u.access = t.access, u.type = t.type, u.sync = t.sync,
             u.user = t.user, u.acks = t.acks, t.net # <<>> => u.net # <<>>,
             Ids(u, n, Len(s.applied[o])), s2.toO[o] = <<LockAck("GRANTED")>>, Is(r, u, <<>>)
      PROVE  Progressed(o, r, c, n, ch, s2, dl)
  <2>1. AnsweredLock(o, u, n, s2)
    BY <1>1, <1>2, <1>5 DEF AnsweredLock
  <2>2. Answered(o, u, c, n, ch, s2, dl)
    BY <1>4, <1>5, <2>1 DEF Answered
  <2>3. Settled(o, u, c, s2, dl)
    BY <1>4, <1>5 DEF Settled
  <2>4. Phase(o, u, c, n, ch, s2, dl)
    BY <2>2 DEF Phase
  <2> QED BY <1>5, <2>3, <2>4, NoteProgressed
<1>6. CASE s.toO[o] = <<LockAck("QUEUED"), LockAck("GRANTED")>>
  <2>1. p = LockAck("QUEUED") /\ s2.toO[o] = <<LockAck("GRANTED")>>
    BY <1>2, <1>3, <1>6, TwoElements
  <2>2. Is(r, t, <<>>)
    BY <1>3, <2>1, HandlerNote
  <2> QED BY <1>1, <1>3, <1>5, <2>1, <2>2
<1>7. CASE /\ s.toO[o] = <<LockOpAck("DATA_DISCARDED", FALSE), LockAck("GRANTED")>>
           /\ t.net # <<>> /\ Head(t.net).lock # "NONE"
  <2>1. p = LockOpAck("DATA_DISCARDED", FALSE) /\ s2.toO[o] = <<LockAck("GRANTED")>>
    BY <1>2, <1>3, <1>7, TwoElements
  <2>2. PICK u : u = Cleared(t)
    OBVIOUS
  <2>3. Is(r, u, <<>>)
    BY <1>3, <1>7, <2>1, <2>2, HandlerNote
  <2>4. /\ u \in Targets /\ u.access = t.access /\ u.type = t.type /\ u.sync = t.sync
        /\ u.user = t.user /\ u.acks = t.acks
        /\ u.net # <<>> /\ Ids(u, n, Len(s.applied[o]))
    BY <1>1, <1>7, <2>2, ClearedFacts
  <2> QED BY <1>3, <1>5, <2>1, <2>3, <2>4
<1>8. CASE s.toO[o] = <<LockAck("GRANTED")>>
  <2>1. p = LockAck("GRANTED") /\ s2.toO[o] = <<>>
    BY <1>2, <1>3, <1>8, OnePacket
  <2>2. p.type = "lock_ack" /\ p.flag = "GRANTED" /\ ~p.ack
    BY <2>1 DEF LockAck
  <2>3. PICK g : g = Locked(t)
    OBVIOUS
  <2>4. /\ g \in Targets /\ g.access = "GRANTED" /\ g.type = t.type /\ g.sync = t.sync
        /\ g.net = t.net /\ g.user = t.user /\ g.acks = t.acks
        /\ Ids(g, n, Len(s.applied[o]))
    BY <1>1, <2>3, LockedFacts
  <2>5. ~Left(g, c)
    BY <2>4 DEF Left, Settled
  <2>6. Plain(s2.toO[o]) /\ Len(s2.toO[o]) = 0
    BY <2>1 DEF Plain
  <2>7. g.acks = s2.dup[o] + Len(s2.toO[o])
    <3>1. PICK d \in Nat : d = s.dup[o]
      BY DEF Process
    <3>2. g.acks = d /\ s2.dup[o] = d
      BY <1>1, <1>2, <2>4, <3>1
    <3> QED BY ONLY <2>6, <3>1, <3>2
  <2>8. Granted(o, g, c, n, <<>>, s2, dl)
    BY <1>1, <1>2, <1>4, <2>4, <2>5, <2>6, <2>7, FreshGranted
  <2>9. Settled(o, g, c, s2, dl)
    BY <1>4, <2>4 DEF Settled
  <2>10. /\ ~Unmatched(t, p)
         /\ Handled(t, p) = IF g.net = <<>> THEN Make_progress_target(g) ELSE Result(g, <<>>, FALSE)
    BY <2>2, <2>3, <2>4, HandledGranted
  <2>11. PICK x \in Targets, out \in Seq(ToT), f \in BOOLEAN :
           /\ Handled(t, p) = Result(x, out, f) /\ ~f
           /\ x.access = "GRANTED"
           /\ Granted(o, x, c, n, out, s2, dl) /\ Settled(o, x, c, s2, dl)
    BY <2>4, <2>8, <2>9, <2>10, GrantProgress
  <2>12. Is(r, x, out)
    BY <1>3, <2>2, <2>10, <2>11, HandlerNoAck
  <2>13. ch \o out = out
    BY <2>11
  <2> QED BY <1>3, <2>11, <2>12, <2>13 DEF Progressed, Phase, Is
<1> QED BY <1>6, <1>7, <1>8 DEF AnsweredLock

\* The operation that carried the lock request has been performed.
LEMMA OpDoneFresh ==
  ASSUME NEW o \in Origins, NEW t \in Targets, NEW c, NEW n \in Nat, NEW s \in Process, NEW dl,
         NEW q, NEW b \in Nat,
         Settled(o, t, c, s, dl), t.access = "ISSUED", q = Head(t.net), LockOp(t, c, q, dl),
         Ids(t, n, b), NEW u, u = OpDone(t), NEW g, g = Locked(u)
  PROVE  /\ u \in Targets /\ g \in Targets /\ g.access = "GRANTED" /\ g.acks = t.acks
         /\ u.net = g.net
         /\ Ids(g, n, b + 1)
         /\ Left(g, c) <=> q.unlock
         /\ Settled(o, g, c, s, dl)
<1>1. /\ t.net # <<>> /\ q \in OpPkt
      /\ q.unlock => dl /\ Len(t.net) = 1 /\ c = "unlock" /\ t.sync = "UNLOCK"
  BY DEF LockOp
<1>5. /\ u \in Targets /\ u.access = t.access /\ u.type = t.type /\ u.user = t.user
      /\ u.acks = t.acks /\ u.net = Tail(t.net)
      /\ u.sync = IF /\ Len(t.net) = 1
                     /\ (t.sync = "FLUSH" /\ q.flush) \/ (t.sync = "UNLOCK" /\ q.unlock)
                  THEN "NONE" ELSE t.sync
      /\ \A nn \in Nat, bb \in Nat : Ids(t, nn, bb) => Ids(u, nn, bb + 1)
  BY <1>1, OpDoneFacts
<1>8. Ids(u, n, b + 1)
  BY <1>5
<1>9. /\ g \in Targets /\ g.access = "GRANTED" /\ g.type = u.type /\ g.sync = u.sync
      /\ g.net = u.net /\ g.user = u.user /\ g.acks = u.acks
      /\ Ids(g, n, b + 1)
  BY <1>5, <1>8, LockedFacts
<1>10. /\ t.type # "NONE" /\ Len(t.user) <= 1 /\ (~dl => t.user = <<>>)
       /\ t.sync = "FLUSH" => c = "flush"
       /\ t.sync = "UNLOCK" => c = "unlock"
       /\ t.sync # "NONE" => t.user = <<>>
       /\ ~(c # "none" /\ t.sync = "NONE")
  BY DEF Settled
<1>11. u.sync = "NONE" /\ t.sync # "NONE" => u.net = <<>> /\ u.user = <<>>
  <2>1. SUFFICES ASSUME u.sync = "NONE", t.sync # "NONE" PROVE u.net = <<>> /\ u.user = <<>>
    OBVIOUS
  <2>2. Len(t.net) = 1
    BY <1>5, <2>1
  <2>3. t.net \in Seq(OpPkt)
    BY DEF Targets
  <2>4. PICK z : z = Tail(t.net)
    OBVIOUS
  <2>5. z \in Seq(OpPkt) /\ Len(z) = 0
    BY ONLY <1>1, <2>2, <2>3, <2>4
  <2>6. z = <<>>
    BY ONLY <2>5
  <2> QED BY <1>5, <1>10, <2>1, <2>4, <2>6
<1>12. t.sync \in {"NONE", "FLUSH", "UNLOCK"}
  BY DEF Targets
<1>13. Left(g, c) <=> q.unlock
  <2>1. ASSUME q.unlock PROVE Left(g, c)
    BY <1>1, <1>5, <1>9, <2>1 DEF Left
  <2>2. ASSUME ~q.unlock PROVE ~Left(g, c)
    <3>1. SUFFICES ASSUME c = "unlock", g.sync = "NONE" PROVE FALSE
      BY DEF Left
    <3>2. t.sync = "UNLOCK"
      BY <1>10, <1>12, <3>1
    <3> QED BY <1>5, <1>9, <2>2, <3>1, <3>2
  <2> QED BY <2>1, <2>2
<1>14. Settled(o, g, c, s, dl)
  <2>1. g.sync \in {"NONE", t.sync}
    BY <1>5, <1>9
  <2>2. c # "none" /\ g.sync = "NONE" => g.net = <<>> /\ g.user = <<>>
    BY <1>9, <1>10, <1>11
  <2> QED BY <1>5, <1>9, <1>10, <2>1, <2>2 DEF Settled
<1> QED BY <1>5, <1>9, <1>13, <1>14

LEMMA AnswerFacts ==
  ASSUME NEW q \in OpPkt, q.lock # "NONE", IsRead(q) => WantsAck(q), NEW a, a = Answer(q)
  PROVE  /\ a \in ToO /\ a.flag = "GRANTED" /\ OnOp(a) /\ (a.ack <=> WantsAck(q))
         /\ a.type \in {"get_resp", "lock_op_ack"}
         /\ LateRelease(a) <=> (IsRead(q) /\ q.unlock)
<1>1. PICK w \in BOOLEAN : w = WantsAck(q)
  BY DEF WantsAck, OpPkt
<1>2. q.unlock \in BOOLEAN
  BY DEF OpPkt
<1>3. CASE IsRead(q)
  <2>1. a = [type |-> "get_resp", flag |-> "GRANTED", ack |-> w, unlock |-> q.unlock]
    BY <1>1, <1>3 DEF Answer, GetResp
  <2> QED BY <1>1, <1>2, <1>3, <2>1 DEF ToO, RespPkt, Flags, OnOp, LateRelease
<1>4. CASE ~IsRead(q)
  <2>1. a = [type |-> "lock_op_ack", flag |-> "GRANTED", ack |-> w]
    BY <1>1, <1>4 DEF Answer, LockOpAck
  <2> QED BY <1>1, <1>2, <1>4, <2>1 DEF ToO, AckPkt, Flags, OnOp, LateRelease
<1> QED BY <1>3, <1>4

\* The answer to the operation that carried the lock request.
LEMMA ReceiveAnsweredOp ==
  ASSUME NEW o \in Origins, NEW t \in Targets, NEW c, NEW n \in Nat, NEW ch \in Seq(ToT),
         NEW s \in Process, NEW s2 \in Process, NEW dl, Pops(o, s, s2),
         Settled(o, t, c, s, dl), t.access = "ISSUED", ch = <<>>, NoEntry(o, s),
         AnsweredOp(o, t, c, n, s, dl)
  PROVE  Progressed(o, PktHandler_origin(t, Head(s.toO[o])), c, n, ch, s2, dl)
<1>1. PICK q : q = Head(t.net)
  OBVIOUS
<1>2. PICK a : a = Answer(q)
  OBVIOUS
<1>3. PICK w : w = LockOpAck("QUEUED", FALSE)
  OBVIOUS
<1>4. /\ LockOp(t, c, q, dl)
      /\ \/ s.sendq[o] = <<>> /\ s.toO[o] \in {<<a>>, <<w, a>>}
         \/ s.sendq[o] = <<a>> /\ s.toO[o] \in {<<>>, <<w>>} /\ IsRead(q)
      /\ s.holds[o] = "NONE" <=> (q.unlock /\ s.sendq[o] = <<>>)
      /\ s.recv[o].what = "none"
      /\ t.acks = s.dup[o] + Bit(WantsAck(q))
      /\ Len(s.applied[o]) > 0 /\ Ids(t, n, Len(s.applied[o]) - 1)
  BY <1>1, <1>2, <1>3 DEF AnsweredOp
<1>5. /\ s.toO[o] # <<>> /\ s2.toO[o] = Tail(s.toO[o])
      /\ s2.sendq[o] = s.sendq[o] /\ s2.recv[o] = s.recv[o]
      /\ s2.holds[o] = s.holds[o] /\ s2.applied[o] = s.applied[o] /\ s2.dup[o] = s.dup[o]
      /\ s2.discarded = s.discarded /\ s2.queue = s.queue
  BY DEF Pops
<1>6. PICK p, r : p = Head(s.toO[o]) /\ r = PktHandler_origin(t, p)
  OBVIOUS
<1>7. NoEntry(o, s2) /\ Settled(o, t, c, s2, dl)
  BY <1>5, SettledPops DEF NoEntry
<1>8. t.net # <<>> /\ q.lock # "NONE" /\ q \in OpPkt /\ (IsRead(q) => WantsAck(q))
  BY <1>4 DEF LockOp
<1>9. ASSUME p = w,
             \/ s2.sendq[o] = <<>> /\ s2.toO[o] = <<a>>
             \/ s2.sendq[o] = <<a>> /\ s2.toO[o] = <<>> /\ IsRead(q)
      PROVE  Progressed(o, r, c, n, ch, s2, dl)
  <2>1. Is(r, t, <<>>)
    BY <1>1, <1>3, <1>6, <1>8, <1>9, HandlerNote
  <2>2. AnsweredOp(o, t, c, n, s2, dl)
    BY <1>1, <1>2, <1>3, <1>4, <1>5, <1>9 DEF AnsweredOp
  <2>3. Answered(o, t, c, n, ch, s2, dl)
    BY <1>7, <2>2 DEF Answered
  <2>4. Phase(o, t, c, n, ch, s2, dl)
    BY <2>3 DEF Phase
  <2> QED BY <1>7, <2>1, <2>4, NoteProgressed
<1>10. CASE s.toO[o] = <<w, a>> /\ s.sendq[o] = <<>>
  <2>1. p = w /\ s2.toO[o] = <<a>>
    BY <1>5, <1>6, <1>10, TwoElements
  <2>2. Progressed(o, r, c, n, ch, s2, dl)
    BY <1>5, <1>9, <1>10, <2>1
  <2> QED BY <1>6, <2>2
<1>11. CASE s.toO[o] = <<w>> /\ s.sendq[o] = <<a>> /\ IsRead(q)
  <2>1. p = w /\ s2.toO[o] = <<>>
    BY <1>5, <1>6, <1>11, OnePacket
  <2>2. Progressed(o, r, c, n, ch, s2, dl)
    BY <1>5, <1>9, <1>11, <2>1
  <2> QED BY <1>6, <2>2
<1>12. CASE s.toO[o] = <<a>> /\ s.sendq[o] = <<>>
  <2>1. p = a /\ s2.toO[o] = <<>>
    BY <1>5, <1>6, <1>12, OnePacket
  <2>2. a.flag = "GRANTED" /\ OnOp(a) /\ (a.ack <=> WantsAck(q))
    BY <1>2, <1>8, AnswerFacts
  <2>3. PICK u : u = OpDone(t)
    OBVIOUS
  <2>4. PICK g : g = Locked(u)
    OBVIOUS
  <2>11. PICK b \in Nat : b = Len(s.applied[o]) - 1 /\ b + 1 = Len(s.applied[o])
    <3>1. PICK l \in Nat : l = Len(s.applied[o])
      BY BaseNat
    <3>2. l - 1 \in Nat /\ (l - 1) + 1 = l
      BY <1>4, <3>1
    <3> QED BY <3>1, <3>2
  <2>13. Ids(t, n, b)
    BY <1>4, <2>11
  <2>5. /\ u \in Targets /\ g \in Targets /\ g.access = "GRANTED" /\ g.acks = t.acks
        /\ u.net = g.net /\ Ids(g, n, b + 1)
        /\ Left(g, c) <=> q.unlock
        /\ Settled(o, g, c, s, dl)
    <3>1. /\ Settled(o, t, c, s, dl) /\ t.access = "ISSUED" /\ q = Head(t.net) /\ LockOp(t, c, q, dl)
          /\ Ids(t, n, b) /\ u = OpDone(t) /\ g = Locked(u)
      BY <1>1, <1>4, <2>3, <2>4, <2>13
    <3> QED BY <3>1, OpDoneFresh
  <2>12. Settled(o, g, c, s2, dl)
    BY <2>5, SettledPops
  <2>6. /\ ~Unmatched(t, p)
        /\ Handled(t, p) = IF g.net = <<>> THEN Make_progress_target(g) ELSE Result(g, <<>>, FALSE)
    <3>1. ~Unmatched(t, p)
      BY <1>1, <1>8 DEF Unmatched
    <3> QED BY <2>1, <2>2, <2>3, <2>4, <2>5, <3>1, HandledGranted
  <2>7. PICK d \in Nat : d = s.dup[o] /\ d = s2.dup[o]
    BY <1>5 DEF Process
  <2>8. CASE ~WantsAck(q)
    <3>1. Plain(s2.toO[o]) /\ Len(s2.toO[o]) = 0
      BY <2>1 DEF Plain
    <3>2. g.acks = s2.dup[o] + Len(s2.toO[o])
      <4>1. Bit(WantsAck(q)) = 0
        BY <2>8 DEF Bit
      <4>2. g.acks = d
        BY <1>4, <2>5, <2>7, <4>1
      <4> QED BY ONLY <2>7, <3>1, <4>2
    <3>3. Granted(o, g, c, n, <<>>, s2, dl)
      BY <1>4, <1>5, <1>7, <1>12, <2>5, <2>11, <3>1, <3>2, FreshGranted
    <3>4. PICK x \in Targets, out \in Seq(ToT), f \in BOOLEAN :
             /\ Handled(t, p) = Result(x, out, f) /\ ~f
             /\ x.access = "GRANTED"
             /\ Granted(o, x, c, n, out, s2, dl) /\ Settled(o, x, c, s2, dl)
      BY <2>5, <2>6, <2>12, <3>3, GrantProgress
    <3>5. Is(r, x, out)
      BY <1>6, <2>1, <2>2, <2>6, <2>8, <3>4, HandlerNoAck
    <3>6. ch \o out = out
      BY <3>4
    <3> QED BY <1>6, <3>4, <3>5, <3>6 DEF Progressed, Phase, Is
  <2>9. CASE WantsAck(q)
    <3>1. PICK s3 : s3 = [s EXCEPT !.toO[o] = <<Ack>>]
      OBVIOUS
    <3>2. Ack \in ToO /\ Ack.type = "ack" /\ Ack.flag = "NONE" /\ Ack.ack
      BY DEF Ack, ToO, AckPkt, Flags
    <3>3. PICK k : k = Ack
      OBVIOUS
    <3>4. <<k>> \in Seq(ToO) /\ Len(<<k>>) = 1 /\ <<k>>[1] = k /\ DOMAIN <<k>> = {1} /\ <<k>> # <<>>
          /\ Tail(<<k>>) = <<>>
      BY <3>2, <3>3
    <3>5. [s.toO EXCEPT ![o] = <<k>>] \in [Origins -> Seq(ToO)]
      BY <3>4 DEF Process
    <3>6. /\ s3 \in Process /\ s3.toO[o] = <<k>>
          /\ s3.sendq = s.sendq /\ s3.recv = s.recv /\ s3.holds = s.holds
          /\ s3.applied = s.applied /\ s3.dup = s.dup /\ s3.discarded = s.discarded /\ s3.queue = s.queue
      BY <3>1, <3>3, <3>5 DEF Process
    <3>7. Plain(s3.toO[o]) /\ Len(s3.toO[o]) = 1
      BY <3>2, <3>3, <3>4, <3>6 DEF Plain
    <3>8. g.acks = s3.dup[o] + Len(s3.toO[o])
      <4>1. Bit(WantsAck(q)) = 1
        BY <2>9 DEF Bit
      <4>2. g.acks = d + 1 /\ s3.dup[o] = d
        BY <1>4, <2>5, <2>7, <3>6, <4>1
      <4> QED BY ONLY <3>7, <4>2, d \in Nat
    <3>9. NoEntry(o, s3)
      BY <3>6 DEF NoEntry
    <3>10. Granted(o, g, c, n, <<>>, s3, dl)
      BY <1>4, <1>12, <2>5, <2>11, <3>6, <3>7, <3>8, <3>9, FreshGranted
    <3>11. Settled(o, g, c, s3, dl)
      BY <1>5, <2>5, <3>6 DEF Settled
    <3>12. PICK x \in Targets, out \in Seq(ToT), f \in BOOLEAN :
             /\ Handled(t, p) = Result(x, out, f) /\ ~f
             /\ x.access = "GRANTED"
             /\ Granted(o, x, c, n, out, s3, dl) /\ Settled(o, x, c, s3, dl)
      BY ONLY <2>5, <2>6, <3>6, <3>10, <3>11, GrantProgress, o \in Origins, n \in Nat
    <3>13. Pops(o, s3, s2)
      BY <1>5, <2>1, <3>4, <3>6 DEF Pops
    <3>14. PICK y : y = [x EXCEPT !.acks = IF @ = 0 THEN 0 ELSE @ - 1]
      OBVIOUS
    <3>15. /\ x.acks # 0 /\ y \in Targets /\ Granted(o, y, c, n, out, s2, dl)
           /\ y.access = x.access /\ y.type = x.type /\ y.sync = x.sync /\ y.net = x.net /\ y.user = x.user
      BY <3>6, <3>12, <3>13, <3>14, GrantedAck
    <3>16. Is(r, y, out)
      BY <1>6, <2>1, <2>2, <2>6, <2>9, <3>12, <3>14, <3>15, HandlerAck
    <3>17. Settled(o, y, c, s2, dl)
      BY <1>5, <3>6, <3>12, <3>15 DEF Settled
    <3>18. ch \o out = out
      BY <3>12
    <3> QED BY <1>6, <3>12, <3>15, <3>16, <3>17, <3>18 DEF Progressed, Phase, Is
  <2> QED BY <2>8, <2>9
<1> QED BY <1>4, <1>5, <1>10, <1>11, <1>12

\* An origin that has the lock receives acknowledgements and answers to gets.
LEMMA ReceiveGranted ==
  ASSUME NEW o \in Origins, NEW t \in Targets, NEW c, NEW n \in Nat, NEW ch \in Seq(ToT),
         NEW s \in Process, NEW s2 \in Process, NEW dl, Pops(o, s, s2),
         Settled(o, t, c, s, dl), Granted(o, t, c, n, ch, s, dl)
  PROVE  Progressed(o, PktHandler_origin(t, Head(s.toO[o])), c, n, ch, s2, dl)
<1>1. PICK p, r : p = Head(s.toO[o]) /\ r = PktHandler_origin(t, p)
  OBVIOUS
<1>2. p.type \in {"ack", "get_resp"} /\ p.flag = "NONE" /\ p.ack
  <2>1. s.toO[o] \in Seq(ToO) /\ s.toO[o] # <<>>
    BY DEF Process, Pops
  <2>2. 1 \in DOMAIN s.toO[o] /\ p = s.toO[o][1]
    BY <1>1, <2>1
  <2> QED BY <2>2 DEF Granted, Plain
<1>3. ~OnOp(p) /\ p.type # "lock_ack" /\ ~Unmatched(t, p)
  BY <1>2 DEF OnOp, Unmatched
<1>4. PICK f \in BOOLEAN : f = FALSE
  OBVIOUS
<1>5. Handled(t, p) = Result(t, <<>>, f)
  BY <1>3, <1>4 DEF Handled
<1>6. PICK u : u = [t EXCEPT !.acks = IF @ = 0 THEN 0 ELSE @ - 1]
  OBVIOUS
<1>7. /\ t.acks # 0 /\ u \in Targets /\ Granted(o, u, c, n, ch, s2, dl)
      /\ u.access = t.access /\ u.type = t.type /\ u.sync = t.sync /\ u.net = t.net /\ u.user = t.user
  BY <1>6, GrantedAck
<1>8. Is(r, u, <<>>)
  BY <1>1, <1>2, <1>3, <1>4, <1>5, <1>6, <1>7, HandlerAck
<1>9. t.access = "GRANTED"
  BY DEF Granted
<1>10. Settled(o, u, c, s2, dl)
  BY <1>7, <1>9 DEF Settled, Pops
<1>11. Phase(o, u, c, n, ch, s2, dl)
  BY <1>7 DEF Phase
<1> QED BY <1>1, <1>7, <1>8, <1>9, <1>10, <1>11, NoteProgressed

LEMMA OriginReceives ==
  ASSUME NEW o \in Origins, NEW t \in Targets, NEW c, NEW n \in Nat, NEW ch \in Seq(ToT),
         NEW s \in Process, NEW s2 \in Process, NEW dl, Pops(o, s, s2),
         Settled(o, t, c, s, dl), Phase(o, t, c, n, ch, s, dl)
  PROVE  /\ Progressed(o, PktHandler_origin(t, Head(s.toO[o])), c, n, ch, s2, dl)
         /\ t.access # "NONE"
<1>1. s.toO[o] # <<>>
  BY DEF Pops
<1>2. CASE Queued(o, t, c, n, ch, s, dl)
  <2>1. t.access = "ISSUED"
    BY <1>2 DEF Queued
  <2> QED BY <1>2, <2>1, ReceiveQueued
<1>3. CASE Refused(o, t, c, n, ch, s, dl)
  <2>1. t.access = "ISSUED"
    BY <1>3 DEF Refused
  <2> QED BY <1>3, <2>1, ReceiveRefused
<1>4. CASE Answered(o, t, c, n, ch, s, dl)
  <2>1. t.access = "ISSUED" /\ ch = <<>> /\ NoEntry(o, s)
        /\ (AnsweredLock(o, t, n, s) \/ AnsweredOp(o, t, c, n, s, dl))
    BY <1>4 DEF Answered
  <2>2. CASE AnsweredLock(o, t, n, s)
    BY <2>1, <2>2, ReceiveAnsweredLock
  <2>3. CASE AnsweredOp(o, t, c, n, s, dl)
    BY <2>1, <2>3, ReceiveAnsweredOp
  <2> QED BY <2>1, <2>2, <2>3
<1>5. CASE Granted(o, t, c, n, ch, s, dl)
  <2>1. t.access = "GRANTED"
    BY <1>5 DEF Granted
  <2> QED BY <1>5, <2>1, ReceiveGranted
<1>6. ~Idle(o, t, c, n, ch, s, dl) /\ ~Requested(o, t, c, n, ch, s, dl) /\ ~Receiving(o, t, c, n, ch, s, dl)
  BY <1>1 DEF Idle, Requested, Receiving
<1> QED BY <1>2, <1>3, <1>4, <1>5, <1>6 DEF Phase

LEMMA OriginReceiveInv ==
  ASSUME Inv, NEW o \in Origins, OriginReceive(o)
  PROVE  Inv'
<1>1. /\ ~aborted /\ tgt.toO[o] # <<>>
      /\ tgt' = [tgt EXCEPT !.toO[o] = Tail(@)]
      /\ conf' = conf /\ call' = call /\ prog' = prog /\ nops' = nops
  BY DEF OriginReceive
<1>2. PICK r : r = PktHandler_origin(target[o], Head(tgt.toO[o])) /\ Become(o, r)
  BY DEF OriginReceive
<1>3. /\ OriginInv(o, target[o], call[o], prog[o], nops[o], toT[o], tgt, conf.delay, aborted)
      /\ target[o] \in Targets /\ call[o] \in {"none", "flush", "unlock"} /\ prog[o] \in Seq(Calls)
      /\ nops[o] \in Nat /\ toT[o] \in Seq(ToT) /\ tgt \in Process
  BY InvOrigin
<1>4. /\ Settled(o, target[o], call[o], tgt, conf.delay) /\ Follows(target[o], call[o], prog[o])
      /\ Phase(o, target[o], call[o], nops[o], toT[o], tgt, conf.delay)
  BY <1>1, <1>3 DEF OriginInv, Origin
<1>5. PICK q : q = Tail(tgt.toO[o])
  OBVIOUS
<1>6. tgt.toO \in [Origins -> Seq(ToO)] /\ q \in Seq(ToO)
  <2>1. tgt.toO \in [Origins -> Seq(ToO)]
    BY <1>3 DEF Process
  <2>2. tgt.toO[o] \in Seq(ToO)
    BY <2>1
  <2> QED BY <1>1, <1>5, <2>1, <2>2
<1>7. [tgt.toO EXCEPT ![o] = q] \in [Origins -> Seq(ToO)]
  BY <1>6
<1>8. tgt' = [tgt EXCEPT !.toO = [tgt.toO EXCEPT ![o] = q]]
  BY <1>1, <1>3, <1>5 DEF Process
<1>9. /\ tgt' \in Process /\ tgt'.toO = [tgt.toO EXCEPT ![o] = q]
      /\ tgt'.sendq = tgt.sendq /\ tgt'.recv = tgt.recv /\ tgt'.holds = tgt.holds
      /\ tgt'.applied = tgt.applied /\ tgt'.dup = tgt.dup /\ tgt'.discarded = tgt.discarded
      /\ tgt'.queue = tgt.queue /\ tgt'.lock = tgt.lock /\ tgt'.ref = tgt.ref
      /\ tgt'.entered = tgt.entered /\ tgt'.lost = tgt.lost
  BY <1>3, <1>7, <1>8 DEF Process
<1>10. Pops(o, tgt, tgt')
  BY <1>1, <1>5, <1>6, <1>9 DEF Pops
<1>11. /\ Progressed(o, r, call[o], nops[o], toT[o], tgt', conf.delay) /\ target[o].access # "NONE"
  <2>1. PICK s2 : s2 = tgt'
    OBVIOUS
  <2>2. Pops(o, tgt, s2) /\ s2 \in Process
    BY <1>9, <1>10, <2>1
  <2>3. Progressed(o, r, call[o], nops[o], toT[o], s2, conf.delay) /\ target[o].access # "NONE"
    BY <1>2, <1>3, <1>4, <2>2, OriginReceives
  <2> QED BY <2>1, <2>3
<1>12. /\ r.t \in Targets /\ r.out \in Seq(ToT) /\ r.bad \in BOOLEAN
       /\ r.bad => o \in tgt'.discarded
       /\ r.t.access # "NONE"
       /\ Settled(o, r.t, call[o], tgt', conf.delay)
       /\ \/ Phase(o, r.t, call[o], nops[o], toT[o] \o r.out, tgt', conf.delay)
          \/ r.bad /\ Failed(o, r.t, call[o], nops[o], toT[o] \o r.out, tgt', conf.delay)
  BY <1>11 DEF Progressed
<1>13. /\ target' = [target EXCEPT ![o] = r.t] /\ toT' = [toT EXCEPT ![o] = toT[o] \o r.out]
       /\ aborted' = r.bad
  BY <1>2 DEF Become
<1>14. Shape
  BY DEF Inv
<1>15. Shape'
  <2>1. toT[o] \o r.out \in Seq(ToT)
    BY <1>3, <1>12
  <2>2. target' \in [Origins -> Targets] /\ toT' \in [Origins -> Seq(ToT)]
    BY <1>12, <1>13, <1>14, <2>1 DEF Shape
  <2> QED BY <1>1, <1>9, <1>12, <1>13, <1>14, <2>2 DEF Shape
<1>16. /\ target'[o] = r.t /\ toT'[o] = toT[o] \o r.out
  BY <1>13, <1>14 DEF Shape
<1>17. \A p \in Origins \ {o} :
         /\ target'[p] = target[p] /\ call'[p] = call[p] /\ prog'[p] = prog[p]
         /\ nops'[p] = nops[p] /\ toT'[p] = toT[p] /\ Same(p, tgt, tgt')
  <2>1. SUFFICES ASSUME NEW p \in Origins \ {o}
                 PROVE  /\ target'[p] = target[p] /\ toT'[p] = toT[p] /\ Same(p, tgt, tgt')
    BY <1>1
  <2>2. tgt'.toO[p] = tgt.toO[p]
    BY <1>6, <1>9
  <2>3. Same(p, tgt, tgt')
    BY <1>9, <2>2 DEF Same, NoEntry
  <2> QED BY <1>13, <1>14, <2>3 DEF Shape
<1>18. Follows(r.t, call[o], prog[o])
  BY <1>4, <1>11, <1>12 DEF Follows
<1>19. OriginInv(o, target'[o], call'[o], prog'[o], nops'[o], toT'[o], tgt', conf.delay, aborted')
  BY <1>1, <1>12, <1>13, <1>16, <1>18 DEF OriginInv, Origin
<1>20. TargetInv(tgt')
  <2>1. TargetInv(tgt)
    BY DEF Inv
  <2>2. Exact(tgt') <=> Exact(tgt)
    BY <1>9 DEF Exact, Alone, HoldersIn
  <2> QED BY <1>9, <2>1, <2>2 DEF TargetInv, OneEntry, Blocked, CanAcquire
<1>21. Len(tgt'.queue) <= conf.pool /\ (tgt'.lost => conf.delay)
  BY <1>9 DEF Inv
<1>22. aborted' => tgt'.discarded # {}
  BY <1>12, <1>13
<1> QED BY <1>1, <1>15, <1>17, <1>19, <1>20, <1>21, <1>22, OriginStep

-----------------------------------------------------------------------------
(* The target.                                                             *)

PhaseOf(p, s) == Phase(p, target[p], call[p], nops[p], toT[p], s, conf.delay)

\* The invariant but for what is about origin o.
Rest(o, s) ==
  /\ s \in Process /\ TargetInv(s)
  /\ Len(s.queue) <= conf.pool
  /\ s.lost => conf.delay
  /\ \A p \in Origins \ {o} : PhaseOf(p, s)

\* The steps of the target between which Rest holds change, but for what is
\* about o, none of these.
Global(s, s2) ==
  /\ s2.lock = s.lock /\ s2.ref = s.ref /\ s2.queue = s.queue /\ s2.entered = s.entered
  /\ s2.holds = s.holds /\ s2.lost = s.lost /\ s.discarded \subseteq s2.discarded

Others(o, s, s2) ==
  \A p \in Origins \ {o} :
    /\ s2.toO[p] = s.toO[p] /\ s2.sendq[p] = s.sendq[p] /\ s2.recv[p] = s.recv[p]
    /\ s2.applied[p] = s.applied[p] /\ s2.dup[p] = s.dup[p]

Numbered(q) == \A i \in DOMAIN q : q[i] = i

\* What holds of the target and the others is kept if no lock and no queue entry
\* changes.
LEMMA RestFrame ==
  ASSUME NEW o \in Origins, NEW s, NEW s2, Rest(o, s), s2 \in Process, Global(s, s2),
         Others(o, s, s2), Numbered(s2.applied[o])
  PROVE  Rest(o, s2)
<1>1. TargetInv(s) /\ Len(s.queue) <= conf.pool /\ (s.lost => conf.delay)
      /\ \A p \in Origins \ {o} : PhaseOf(p, s)
  BY DEF Rest
<1>2. /\ s2.lock = s.lock /\ s2.ref = s.ref /\ s2.queue = s.queue /\ s2.entered = s.entered
      /\ s2.holds = s.holds /\ s2.lost = s.lost /\ s.discarded \subseteq s2.discarded
  BY DEF Global
<1>3. ASSUME NEW p \in Origins \ {o}
      PROVE  PhaseOf(p, s2)
  <2>1. Same(p, s, s2)
    BY <1>2, <1>3 DEF Same, Others, NoEntry
  <2>2. PhaseOf(p, s)
    BY <1>1, <1>3
  <2> QED BY <1>3, <2>1, <2>2, PhaseFrame DEF PhaseOf
<1>4. TargetInv(s2)
  <2>1. Exact(s2) <=> Exact(s)
    BY <1>2 DEF Exact, Alone, HoldersIn
  <2>2. OneEntry(s2) /\ Blocked(s2)
    BY <1>1, <1>2 DEF TargetInv, OneEntry, Blocked, CanAcquire
  <2>3. ASSUME NEW p \in Origins
        PROVE  \A i \in DOMAIN s2.applied[p] : s2.applied[p][i] = i
    <3>1. CASE p = o
      BY <3>1 DEF Numbered
    <3>2. CASE p # o
      BY <1>1, <3>2 DEF Others, TargetInv
    <3> QED BY <3>1, <3>2
  <2> QED BY <1>1, <1>2, <2>1, <2>2, <2>3 DEF TargetInv
<1> QED BY <1>1, <1>2, <1>3, <1>4 DEF Rest

\* What concerns origin o changes from s to s2 as given.
Fields(o, s2, x, y, v, h, a, d) ==
  /\ s2.toO[o] = x /\ s2.sendq[o] = y /\ s2.recv[o] = v
  /\ s2.holds[o] = h /\ s2.applied[o] = a /\ s2.dup[o] = d

\* A packet is sent to o, or waits for the channel.
LEMMA SendEffect ==
  ASSUME NEW o \in Origins, NEW s \in Process, NEW pkt \in ToO, NEW s2, s2 = Send(s, o, pkt)
  PROVE  /\ s2 \in Process /\ Global(s, s2) /\ Others(o, s, s2)
         /\ s2.discarded = s.discarded /\ s2.stale = s.stale
         /\ s2.recv[o] = s.recv[o] /\ s2.applied[o] = s.applied[o] /\ s2.dup[o] = s.dup[o]
         /\ s.sendq[o] = <<>> => s2.toO[o] = Append(s.toO[o], pkt) /\ s2.sendq[o] = <<>>
         /\ s.sendq[o] # <<>> => s2.toO[o] = s.toO[o] /\ s2.sendq[o] = Append(s.sendq[o], pkt)
<1>1. /\ s.toO \in [Origins -> Seq(ToO)] /\ s.sendq \in [Origins -> Seq(ToO)]
  BY DEF Process
<1>2. CASE s.sendq[o] = <<>>
  <2>1. PICK x : x = Append(s.toO[o], pkt)
    OBVIOUS
  <2>2. x \in Seq(ToO)
    BY <1>1, <2>1
  <2>3. PICK f : f = [s.toO EXCEPT ![o] = x]
    OBVIOUS
  <2>4. f \in [Origins -> Seq(ToO)] /\ f[o] = x /\ \A p \in Origins \ {o} : f[p] = s.toO[p]
    BY <1>1, <2>2, <2>3
  <2>5. s2 = [s EXCEPT !.toO = f]
    BY <1>2, <2>1, <2>3 DEF Send, Process
  <2>6. /\ s2 \in Process /\ s2.toO = f /\ s2.sendq = s.sendq /\ s2.recv = s.recv
        /\ s2.applied = s.applied /\ s2.dup = s.dup /\ s2.discarded = s.discarded /\ s2.stale = s.stale
        /\ s2.lock = s.lock /\ s2.ref = s.ref /\ s2.queue = s.queue /\ s2.entered = s.entered
        /\ s2.holds = s.holds /\ s2.lost = s.lost
    BY <2>4, <2>5 DEF Process
  <2> QED BY <1>2, <2>1, <2>4, <2>6 DEF Global, Others
<1>3. CASE s.sendq[o] # <<>>
  <2>1. PICK x : x = Append(s.sendq[o], pkt)
    OBVIOUS
  <2>2. x \in Seq(ToO)
    BY <1>1, <2>1
  <2>3. PICK f : f = [s.sendq EXCEPT ![o] = x]
    OBVIOUS
  <2>4. f \in [Origins -> Seq(ToO)] /\ f[o] = x /\ \A p \in Origins \ {o} : f[p] = s.sendq[p]
    BY <1>1, <2>2, <2>3
  <2>5. s2 = [s EXCEPT !.sendq = f]
    BY <1>3, <2>1, <2>3 DEF Send, Process
  <2>6. /\ s2 \in Process /\ s2.toO = s.toO /\ s2.sendq = f /\ s2.recv = s.recv
        /\ s2.applied = s.applied /\ s2.dup = s.dup /\ s2.discarded = s.discarded /\ s2.stale = s.stale
        /\ s2.lock = s.lock /\ s2.ref = s.ref /\ s2.queue = s.queue /\ s2.entered = s.entered
        /\ s2.holds = s.holds /\ s2.lost = s.lost
    BY <2>4, <2>5 DEF Process
  <2> QED BY <1>3, <2>1, <2>4, <2>6 DEF Global, Others
<1> QED BY <1>2, <1>3

LEMMA SendLateEffect ==
  ASSUME NEW o \in Origins, NEW s \in Process, NEW pkt \in ToO, NEW s2, s2 = SendLate(s, o, pkt)
  PROVE  /\ s2 \in Process /\ Global(s, s2) /\ Others(o, s, s2)
         /\ s2.discarded = s.discarded /\ s2.stale = s.stale
         /\ s2.recv[o] = s.recv[o] /\ s2.applied[o] = s.applied[o] /\ s2.dup[o] = s.dup[o]
         /\ s2.toO[o] = s.toO[o] /\ s2.sendq[o] = Append(s.sendq[o], pkt)
<1>1. s.sendq \in [Origins -> Seq(ToO)]
  BY DEF Process
<1>2. PICK x : x = Append(s.sendq[o], pkt)
  OBVIOUS
<1>3. x \in Seq(ToO)
  BY <1>1, <1>2
<1>4. PICK f : f = [s.sendq EXCEPT ![o] = x]
  OBVIOUS
<1>5. f \in [Origins -> Seq(ToO)] /\ f[o] = x /\ \A p \in Origins \ {o} : f[p] = s.sendq[p]
  BY <1>1, <1>3, <1>4
<1>6. s2 = [s EXCEPT !.sendq = f]
  BY <1>2, <1>4 DEF SendLate, Process
<1>7. /\ s2 \in Process /\ s2.toO = s.toO /\ s2.sendq = f /\ s2.recv = s.recv
      /\ s2.applied = s.applied /\ s2.dup = s.dup /\ s2.discarded = s.discarded /\ s2.stale = s.stale
      /\ s2.lock = s.lock /\ s2.ref = s.ref /\ s2.queue = s.queue /\ s2.entered = s.entered
      /\ s2.holds = s.holds /\ s2.lost = s.lost
  BY <1>5, <1>6 DEF Process
<1> QED BY <1>2, <1>5, <1>7 DEF Global, Others

\* The answer to an operation.
Replies(op) == IsRead(op) \/ op.lock # "NONE" \/ WantsAck(op)
Reply(op) == IF IsRead(op) \/ op.lock # "NONE" THEN Answer(op) ELSE Ack
Delivered(s, o, op, late) == s.sendq[o] = <<>> /\ ~(IsRead(op) /\ late)

LEMMA ReplyType ==
  ASSUME NEW op \in OpPkt
  PROVE  Reply(op) \in ToO /\ GetResp(op) \in ToO /\ LockOpAck("GRANTED", WantsAck(op)) \in ToO /\ Ack \in ToO
<1>1. PICK w \in BOOLEAN : w = WantsAck(op)
  BY DEF WantsAck, OpPkt
<1>2. op.unlock \in BOOLEAN
  BY DEF OpPkt
<1>3. PICK f : f = (IF op.lock # "NONE" THEN "GRANTED" ELSE "NONE") /\ f \in Flags
  BY DEF Flags
<1>4. GetResp(op) \in ToO
  <2>1. GetResp(op) = [type |-> "get_resp", flag |-> f, ack |-> w, unlock |-> op.unlock]
    BY <1>1, <1>3 DEF GetResp
  <2> QED BY <1>1, <1>2, <1>3, <2>1 DEF ToO, RespPkt
<1>5. LockOpAck("GRANTED", WantsAck(op)) \in ToO
  <2>1. LockOpAck("GRANTED", WantsAck(op)) = [type |-> "lock_op_ack", flag |-> "GRANTED", ack |-> w]
    BY <1>1 DEF LockOpAck
  <2> QED BY <1>1, <2>1 DEF ToO, AckPkt, Flags
<1>6. Ack \in ToO
  BY DEF Ack, ToO, AckPkt, Flags
<1> QED BY <1>4, <1>5, <1>6 DEF Reply, Answer

\* An operation takes effect and is answered.
LEMMA PerformEffect ==
  ASSUME NEW o \in Origins, NEW s \in Process, NEW op \in OpPkt, NEW late, NEW s2,
         s2 = Perform(s, o, op, late)
  PROVE  /\ s2 \in Process /\ Global(s, s2) /\ Others(o, s, s2)
         /\ s2.discarded = s.discarded /\ s2.stale = s.stale
         /\ s2.recv[o] = s.recv[o] /\ s2.dup[o] = s.dup[o]
         /\ s2.applied[o] = Append(s.applied[o], op.id)
         /\ ~Replies(op) => s2.toO[o] = s.toO[o] /\ s2.sendq[o] = s.sendq[o]
         /\ Replies(op) /\ Delivered(s, o, op, late) =>
              s2.toO[o] = Append(s.toO[o], Reply(op)) /\ s2.sendq[o] = <<>>
         /\ Replies(op) /\ ~Delivered(s, o, op, late) =>
              s2.toO[o] = s.toO[o] /\ s2.sendq[o] = Append(s.sendq[o], Reply(op))
<1>1. s.applied \in [Origins -> Seq(Nat)] /\ op.id \in Nat
  BY DEF Process, OpPkt
<1>2. PICK z : z = Append(s.applied[o], op.id)
  OBVIOUS
<1>3. z \in Seq(Nat)
  BY <1>1, <1>2
<1>4. PICK f : f = [s.applied EXCEPT ![o] = z]
  OBVIOUS
<1>5. f \in [Origins -> Seq(Nat)] /\ f[o] = z /\ \A p \in Origins \ {o} : f[p] = s.applied[p]
  BY <1>1, <1>3, <1>4
<1>6. PICK a : a = [s EXCEPT !.applied[o] = Append(@, op.id)]
  OBVIOUS
<1>7. a = [s EXCEPT !.applied = f]
  BY <1>2, <1>4, <1>6 DEF Process
<1>8. /\ a \in Process /\ a.toO = s.toO /\ a.sendq = s.sendq /\ a.recv = s.recv
      /\ a.applied = f /\ a.dup = s.dup /\ a.discarded = s.discarded /\ a.stale = s.stale
      /\ a.lock = s.lock /\ a.ref = s.ref /\ a.queue = s.queue /\ a.entered = s.entered
      /\ a.holds = s.holds /\ a.lost = s.lost
  BY <1>5, <1>7 DEF Process
<1>9. Global(s, a) /\ Others(o, s, a) /\ a.applied[o] = z
  BY <1>5, <1>8 DEF Global, Others
<1>10. PICK k \in ToO : k = Reply(op)
  BY ReplyType
<1>11. ASSUME Global(a, s2), Others(o, a, s2)
       PROVE  Global(s, s2) /\ Others(o, s, s2)
  BY <1>9, <1>11 DEF Global, Others
<1>15. a \in Process
  BY <1>8
<1>12. CASE ~Replies(op)
  <2>1. s2 = a
    BY <1>6, <1>12 DEF Perform, Replies
  <2> QED BY <1>2, <1>8, <1>9, <1>12, <2>1
<1>13. CASE Replies(op) /\ IsRead(op) /\ late
  <2>1. s2 = SendLate(a, o, k)
    BY <1>6, <1>10, <1>13 DEF Perform, Reply, Answer
  <2>2. /\ s2 \in Process /\ Global(a, s2) /\ Others(o, a, s2)
        /\ s2.discarded = a.discarded /\ s2.stale = a.stale
        /\ s2.recv[o] = a.recv[o] /\ s2.applied[o] = a.applied[o] /\ s2.dup[o] = a.dup[o]
        /\ s2.toO[o] = a.toO[o] /\ s2.sendq[o] = Append(a.sendq[o], k)
    BY ONLY <1>15, <2>1, SendLateEffect, o \in Origins, k \in ToO
  <2> QED BY <1>2, <1>8, <1>9, <1>10, <1>11, <1>13, <2>2 DEF Delivered
<1>14. CASE Replies(op) /\ ~(IsRead(op) /\ late)
  <2>1. s2 = Send(a, o, k)
    BY <1>6, <1>10, <1>14 DEF Perform, Reply, Answer, Replies
  <2>2. /\ s2 \in Process /\ Global(a, s2) /\ Others(o, a, s2)
        /\ s2.discarded = a.discarded /\ s2.stale = a.stale
        /\ s2.recv[o] = a.recv[o] /\ s2.applied[o] = a.applied[o] /\ s2.dup[o] = a.dup[o]
        /\ a.sendq[o] = <<>> => s2.toO[o] = Append(a.toO[o], k) /\ s2.sendq[o] = <<>>
        /\ a.sendq[o] # <<>> => s2.toO[o] = a.toO[o] /\ s2.sendq[o] = Append(a.sendq[o], k)
    BY ONLY <1>15, <2>1, SendEffect, o \in Origins, k \in ToO
  <2> QED BY <1>2, <1>8, <1>9, <1>10, <1>11, <1>14, <2>2 DEF Delivered
<1> QED BY <1>12, <1>13, <1>14

LEMMA NumberedAppend ==
  ASSUME NEW a \in Seq(Nat), Numbered(a), NEW k, k = Len(a) + 1, NEW b, b = Append(a, k)
  PROVE  Numbered(b) /\ b \in Seq(Nat) /\ Len(b) = Len(a) + 1
<1>1. PICK l \in Nat : l = Len(a) /\ DOMAIN a = 1 .. l
  OBVIOUS
<1>2. k \in Nat /\ k = l + 1
  BY <1>1
<1>3. b \in Seq(Nat) /\ Len(b) = l + 1 /\ b[l + 1] = k /\ \A i \in 1 .. l : b[i] = a[i]
  BY <1>1, <1>2
<1>4. DOMAIN b = 1 .. l + 1
  BY <1>1, <1>3
<1>5. ASSUME NEW i \in DOMAIN b PROVE b[i] = i
  BY <1>1, <1>2, <1>3, <1>4, <1>5 DEF Numbered
<1> QED BY <1>1, <1>3, <1>5 DEF Numbered

\* The lock is given to o.
LEMMA AcquireEffect ==
  ASSUME NEW o \in Origins, NEW s \in Process, NEW type \in Locks, NEW s2, s2 = Acquire(s, o, type)
  PROVE  /\ s2 \in Process /\ Others(o, s, s2)
         /\ s2.lock = type /\ s2.ref = (IF type = "SHARED" THEN s.ref + 1 ELSE s.ref)
         /\ s2.holds = [s.holds EXCEPT ![o] = type] /\ s2.holds[o] = type
         /\ s2.queue = s.queue /\ s2.entered = s.entered /\ s2.lost = s.lost
         /\ s2.discarded = s.discarded /\ s2.stale = s.stale
         /\ s2.toO = s.toO /\ s2.sendq = s.sendq /\ s2.recv = s.recv
         /\ s2.applied = s.applied /\ s2.dup = s.dup
<1>1. s.holds \in [Origins -> Types] /\ s.ref \in Int /\ type \in Types
  BY DEF Process, Types
<1>2. PICK f : f = [s.holds EXCEPT ![o] = type]
  OBVIOUS
<1>3. f \in [Origins -> Types] /\ f[o] = type
  BY <1>1, <1>2
<1>4. PICK r : r = IF type = "SHARED" THEN s.ref + 1 ELSE s.ref
  OBVIOUS
<1>5. r \in Int
  BY <1>1, <1>4
<1>6. s2 = [s EXCEPT !.lock = type, !.holds = f, !.ref = r]
  BY <1>2, <1>4 DEF Acquire, Process
<1>7. /\ s2 \in Process /\ s2.toO = s.toO /\ s2.sendq = s.sendq /\ s2.recv = s.recv
      /\ s2.applied = s.applied /\ s2.dup = s.dup /\ s2.discarded = s.discarded /\ s2.stale = s.stale
      /\ s2.lock = type /\ s2.ref = r /\ s2.queue = s.queue /\ s2.entered = s.entered
      /\ s2.holds = f /\ s2.lost = s.lost
  BY <1>1, <1>3, <1>5, <1>6 DEF Process
<1> QED BY <1>2, <1>3, <1>4, <1>7 DEF Others

LEMMA HoldersFinite ==
  ASSUME NEW s, NEW type
  PROVE  IsFiniteSet(HoldersIn(s, type)) /\ Cardinality(HoldersIn(s, type)) \in Nat
<1>1. HoldersIn(s, type) \subseteq Origins
  BY DEF HoldersIn
<1>2. IsFiniteSet(HoldersIn(s, type))
  BY <1>1, OriginsAssumption, FS_Subset
<1> QED BY <1>2, FS_CardinalityType

\* How the holders change when o gets a lock or gives it back.
LEMMA HoldersAcquire ==
  ASSUME NEW o \in Origins, NEW s \in Process, NEW s2, NEW type \in Locks, s.holds[o] = "NONE",
         s2.holds = [s.holds EXCEPT ![o] = type]
  PROVE  /\ HoldersIn(s2, type) = HoldersIn(s, type) \cup {o}
         /\ Cardinality(HoldersIn(s2, type)) = Cardinality(HoldersIn(s, type)) + 1
         /\ \A x \in Locks : x # type => HoldersIn(s2, x) = HoldersIn(s, x)
<1>1. s.holds \in [Origins -> Types]
  BY DEF Process
<1>2. \A p \in Origins : s2.holds[p] = IF p = o THEN type ELSE s.holds[p]
  BY <1>1
<1>3. HoldersIn(s2, type) = HoldersIn(s, type) \cup {o}
  BY <1>2 DEF HoldersIn
<1>4. o \notin HoldersIn(s, type)
  BY DEF HoldersIn, Locks
<1>5. Cardinality(HoldersIn(s, type) \cup {o}) = Cardinality(HoldersIn(s, type)) + 1
  BY <1>4, HoldersFinite, FS_AddElement
<1>6. \A x \in Locks : x # type => HoldersIn(s2, x) = HoldersIn(s, x)
  BY <1>2 DEF HoldersIn, Locks
<1> QED BY <1>3, <1>5, <1>6

\* The set of holders after a release.
LEMMA HoldersRelease ==
  ASSUME NEW o \in Origins, NEW s \in Process, NEW s2, NEW type \in Locks, s.holds[o] = type,
         s2.holds = [s.holds EXCEPT ![o] = "NONE"]
  PROVE  /\ HoldersIn(s2, type) = HoldersIn(s, type) \ {o}
         /\ Cardinality(HoldersIn(s2, type)) = Cardinality(HoldersIn(s, type)) - 1
         /\ \A x \in Locks : x # type => HoldersIn(s2, x) = HoldersIn(s, x)
<1>1. s.holds \in [Origins -> Types]
  BY DEF Process
<1>2. \A p \in Origins : s2.holds[p] = IF p = o THEN "NONE" ELSE s.holds[p]
  BY <1>1
<1>3. HoldersIn(s2, type) = HoldersIn(s, type) \ {o}
  BY <1>2 DEF HoldersIn, Locks
<1>4. o \in HoldersIn(s, type)
  BY DEF HoldersIn
<1>5. Cardinality(HoldersIn(s, type) \ {o}) = Cardinality(HoldersIn(s, type)) - 1
  BY <1>4, HoldersFinite, FS_RemoveElement
<1>6. \A x \in Locks : x # type => HoldersIn(s2, x) = HoldersIn(s, x)
  BY <1>2 DEF HoldersIn, Locks
<1> QED BY <1>3, <1>5, <1>6

\* A set of holders of which the lock type of the target is a true account; part
\* of the account may be late while the target goes over its queue.
Near(s) ==
  /\ HoldersIn(s, "EXCLUSIVE") # {} => s.lock = "EXCLUSIVE"
  /\ HoldersIn(s, "SHARED") # {} => s.lock = "SHARED"
  /\ Alone(s)

LEMMA NearExact ==
  ASSUME NEW s \in Process
  PROVE  Exact(s) <=> /\ s.ref = Cardinality(HoldersIn(s, "SHARED")) /\ Near(s)
                      /\ s.lock = "EXCLUSIVE" => HoldersIn(s, "EXCLUSIVE") # {}
                      /\ s.lock = "SHARED" => HoldersIn(s, "SHARED") # {}
<1>1. s.lock \in {"NONE", "SHARED", "EXCLUSIVE"}
  BY DEF Process, Types, Locks
<1>2. Alone(s) /\ HoldersIn(s, "EXCLUSIVE") # {} => HoldersIn(s, "SHARED") = {}
  <2>1. SUFFICES ASSUME Alone(s), NEW p \in HoldersIn(s, "EXCLUSIVE"), NEW r \in HoldersIn(s, "SHARED")
                 PROVE  FALSE
    OBVIOUS
  <2>2. p # r /\ r \in Origins
    BY DEF HoldersIn
  <2>3. s.holds[r] = "NONE"
    BY <2>1, <2>2 DEF Alone
  <2> QED BY <2>3 DEF HoldersIn
<1> QED BY <1>1, <1>2 DEF Exact, Near

LEMMA AcquireNear ==
  ASSUME NEW o \in Origins, NEW s \in Process, NEW type \in Locks, s.holds[o] = "NONE",
         NEW s2 \in Process, s2.holds = [s.holds EXCEPT ![o] = type], s2.lock = type,
         CanAcquire(s, type), Near(s)
  PROVE  /\ Near(s2)
         /\ HoldersIn(s2, type) # {}
<1>1. /\ HoldersIn(s2, type) = HoldersIn(s, type) \cup {o}
      /\ \A x \in Locks : x # type => HoldersIn(s2, x) = HoldersIn(s, x)
  BY HoldersAcquire
<1>2. type \in {"SHARED", "EXCLUSIVE"} /\ s.lock \in {"NONE", "SHARED"}
  BY DEF Locks, CanAcquire
<1>3. HoldersIn(s, "EXCLUSIVE") = {}
  BY <1>2 DEF Near
<1>4. CASE type = "SHARED"
  <2>1. HoldersIn(s2, "EXCLUSIVE") = {}
    BY <1>1, <1>3, <1>4 DEF Locks
  <2> QED BY <1>1, <1>4, <2>1 DEF Near, Alone
<1>5. CASE type = "EXCLUSIVE"
  <2>1. s.lock = "NONE" /\ HoldersIn(s, "SHARED") = {}
    BY <1>5 DEF CanAcquire, Near
  <2>2. HoldersIn(s2, "SHARED") = {} /\ HoldersIn(s2, "EXCLUSIVE") = {o}
    BY <1>1, <1>3, <1>5, <2>1 DEF Locks
  <2>3. ASSUME NEW p \in Origins \ {o} PROVE s2.holds[p] = "NONE"
    <3>1. s2.holds[p] \in {"NONE", "SHARED", "EXCLUSIVE"}
      BY DEF Process, Types, Locks
    <3> QED BY <2>2, <3>1 DEF HoldersIn
  <2>4. Alone(s2)
    BY <2>2, <2>3 DEF Alone
  <2> QED BY <1>1, <1>5, <2>2, <2>4 DEF Near
<1> QED BY <1>2, <1>4, <1>5

LEMMA AcquireBlocks ==
  ASSUME NEW s, NEW type \in Locks, CanAcquire(s, type), NEW s2, s2.lock = type, NEW x,
         CanAcquire(s2, x)
  PROVE  CanAcquire(s, x)
BY DEF CanAcquire, Locks

-----------------------------------------------------------------------------
(* The lock queue.                                                         *)

\* What is in a sequence after an element is removed, and where.
LEMMA RemoveAtFacts ==
  ASSUME NEW X, NEW q \in Seq(X), NEW i \in DOMAIN q, NEW r, r = RemoveAt(q, i)
  PROVE  /\ r \in Seq(X) /\ Len(r) = Len(q) - 1 /\ Len(q) \in Nat
         /\ DOMAIN r = 1 .. Len(q) - 1
         /\ \A j \in DOMAIN r : r[j] = IF j < i THEN q[j] ELSE q[j + 1]
<1>1. PICK l \in Nat : l = Len(q) /\ DOMAIN q = 1 .. l
  OBVIOUS
<1>2. i \in 1 .. l
  BY <1>1
<1>3. PICK a, b : a = SubSeq(q, 1, i - 1) /\ b = SubSeq(q, i + 1, l)
  OBVIOUS
<1>4. a \in Seq(X) /\ Len(a) = i - 1 /\ \A j \in 1 .. i - 1 : a[j] = q[j]
  <2>1. \A j \in 1 .. i - 1 : j \in DOMAIN q
    BY <1>1, <1>2
  <2>2. a \in Seq(X)
    BY <1>1, <1>2, <1>3, <2>1
  <2>3. Len(a) = i - 1
    BY <1>1, <1>2, <1>3
  <2> QED BY <1>1, <1>2, <1>3, <2>2, <2>3
<1>5. b \in Seq(X) /\ Len(b) = l - i /\ \A j \in 1 .. l - i : b[j] = q[i + j]
  <2>1. \A j \in i + 1 .. l : j \in DOMAIN q
    BY <1>1, <1>2
  <2>2. b \in Seq(X)
    BY <1>1, <1>2, <1>3, <2>1
  <2>3. Len(b) = l - i
    BY <1>1, <1>2, <1>3
  <2>4. ASSUME NEW j \in 1 .. l - i PROVE b[j] = q[i + j]
    <3>1. b[j] = q[(i + 1) + j - 1]
      BY <1>1, <1>2, <1>3
    <3>2. (i + 1) + j - 1 = i + j
      BY <1>1, <1>2
    <3> QED BY <3>1, <3>2
  <2> QED BY <2>2, <2>3, <2>4
<1>6. r = a \o b
  BY <1>1, <1>3 DEF RemoveAt
<1>10. PICK u \in Nat, v \in Nat : u = i - 1 /\ v = l - i /\ u + v = l - 1
  <2>1. i - 1 \in Nat /\ l - i \in Nat /\ (i - 1) + (l - i) = l - 1
    BY <1>1, <1>2
  <2> QED BY <2>1
<1>11. /\ r \in Seq(X) /\ Len(r) = u + v
       /\ \A j \in 1 .. u : r[j] = a[j]
       /\ \A j \in 1 .. v : r[u + j] = b[j]
  <2>1. Len(a) = u /\ Len(b) = v
    BY <1>4, <1>5, <1>10
  <2>2. a \in Seq(X) /\ b \in Seq(X)
    BY <1>4, <1>5
  <2>3. /\ a \o b \in Seq(X) /\ Len(a \o b) = Len(a) + Len(b)
        /\ \A j \in 1 .. Len(a) : (a \o b)[j] = a[j]
        /\ \A j \in 1 .. Len(b) : (a \o b)[Len(a) + j] = b[j]
    BY ONLY <2>2, ConcatFacts
  <2> QED BY ONLY <1>6, <2>1, <2>3
<1>7. r \in Seq(X) /\ Len(r) = l - 1
  BY <1>10, <1>11
<1>8. DOMAIN r = 1 .. l - 1
  BY <1>7
<1>9. ASSUME NEW j \in 1 .. l - 1
      PROVE  r[j] = IF j < i THEN q[j] ELSE q[j + 1]
  <2>1. CASE j < i
    <3>1. j \in 1 .. u /\ j \in 1 .. i - 1
      BY ONLY <1>2, <1>10, <2>1, l \in Nat, j \in 1 .. l - 1, u \in Nat
    <3> QED BY <1>4, <1>11, <2>1, <3>1
  <2>2. CASE ~(j < i)
    <3>1. PICK m : m = j - u
      OBVIOUS
    <3>2. m \in 1 .. v /\ m \in 1 .. l - i /\ i + m = j + 1 /\ u + m = j
      <4>1. i \in Nat /\ j \in Nat /\ i <= j /\ j <= l - 1 /\ i >= 1
        BY <1>1, <1>2, <2>2
      <4>2. m \in Int /\ m >= 1 /\ m <= v /\ v = l - i /\ i + m = j + 1 /\ u + m = j
        <5>1. u = i - 1 /\ v = l - i /\ m = j - u
          BY <1>10, <3>1
        <5>2. m = j - (i - 1)
          BY ONLY <5>1
        <5>3. m \in Int
          BY ONLY <4>1, <5>2
        <5>4. m >= 1 /\ m <= l - i /\ i + m = j + 1
          BY ONLY <4>1, <5>2, <5>3, l \in Nat
        <5>5. u + m = j
          BY ONLY <4>1, <5>1, <5>3, u \in Nat
        <5> QED BY <5>1, <5>3, <5>4, <5>5
      <4> QED BY ONLY <4>2, v \in Nat
    <3>3. r[j] = b[m]
      BY ONLY <1>11, <3>2
    <3> QED BY <1>5, <2>2, <3>2, <3>3
  <2> QED BY <2>1, <2>2
<1> QED BY <1>1, <1>7, <1>8, <1>9

\* The entry of origin p leaves the queue.
Dequeued(p, s, s2) ==
  /\ s2 \in Process /\ s2.toO = s.toO /\ s2.sendq = s.sendq /\ s2.recv = s.recv
  /\ s2.applied = s.applied /\ s2.dup = s.dup /\ s2.discarded = s.discarded /\ s2.stale = s.stale
  /\ s2.lock = s.lock /\ s2.ref = s.ref /\ s2.entered = s.entered
  /\ s2.holds = s.holds /\ s2.lost = s.lost
  /\ Len(s2.queue) = Len(s.queue) - 1
  /\ NoEntry(p, s2) /\ OneEntry(s2)
  /\ \A k \in DOMAIN s2.queue : \E j \in DOMAIN s.queue : s2.queue[k] = s.queue[j]
  /\ \A j \in DOMAIN s.queue : s.queue[j].o # p =>
       \E k \in DOMAIN s2.queue : s2.queue[k] = s.queue[j]

LEMMA DequeueEffect ==
  ASSUME NEW s \in Process, OneEntry(s), NEW e, NEW m \in DOMAIN s.queue, s.queue[m].o = e.o,
         NEW s2, s2 = Dequeue(s, e)
  PROVE  Dequeued(e.o, s, s2)
<1>1. s.queue \in Seq(Entries)
  BY DEF Process
<1>2. PICK i \in DOMAIN s.queue :
           s.queue[i].o = e.o /\ i = CHOOSE z \in DOMAIN s.queue : s.queue[z].o = e.o
  OBVIOUS
<1>3. PICK r : r = RemoveAt(s.queue, i)
  OBVIOUS
<1>4. PICK q : q = s.queue
  OBVIOUS
<1>5. PICK l \in Nat : l = Len(q) /\ DOMAIN q = 1 .. l
  BY <1>1, <1>4
<1>6. /\ r \in Seq(Entries) /\ Len(r) = l - 1 /\ DOMAIN r = 1 .. l - 1
      /\ \A j \in DOMAIN r : r[j] = IF j < i THEN q[j] ELSE q[j + 1]
  <2>1. q \in Seq(Entries) /\ i \in DOMAIN q /\ r = RemoveAt(q, i)
    BY <1>1, <1>3, <1>4
  <2>2. /\ r \in Seq(Entries) /\ Len(r) = Len(q) - 1 /\ DOMAIN r = 1 .. Len(q) - 1
        /\ \A j \in DOMAIN r : r[j] = IF j < i THEN q[j] ELSE q[j + 1]
    BY ONLY <2>1, RemoveAtFacts
  <2> QED BY ONLY <1>5, <2>2
<1>7. s2 = [s EXCEPT !.queue = r]
  BY <1>2, <1>3 DEF Dequeue, Process
<1>8. /\ s2 \in Process /\ s2.toO = s.toO /\ s2.sendq = s.sendq /\ s2.recv = s.recv
      /\ s2.applied = s.applied /\ s2.dup = s.dup /\ s2.discarded = s.discarded /\ s2.stale = s.stale
      /\ s2.lock = s.lock /\ s2.ref = s.ref /\ s2.entered = s.entered
      /\ s2.holds = s.holds /\ s2.lost = s.lost /\ s2.queue = r
  BY <1>6, <1>7 DEF Process
<1>9. i \in 1 .. l
  BY <1>2, <1>4, <1>5
<1>10. ASSUME NEW k \in DOMAIN r
       PROVE  /\ r[k] = q[IF k < i THEN k ELSE k + 1]
              /\ (IF k < i THEN k ELSE k + 1) \in DOMAIN q \ {i}
  <2>1. k \in 1 .. l - 1
    BY <1>6
  <2>2. (IF k < i THEN k ELSE k + 1) \in 1 .. l /\ (IF k < i THEN k ELSE k + 1) # i
    BY <1>9, <2>1
  <2> QED BY <1>5, <1>6, <2>2
<1>11. ASSUME NEW j \in DOMAIN q, j # i
       PROVE  \E k \in DOMAIN r : r[k] = q[j]
  <2>1. PICK k : k = IF j < i THEN j ELSE j - 1
    OBVIOUS
  <2>2. k \in 1 .. l - 1 /\ (IF k < i THEN k ELSE k + 1) = j
    BY <1>5, <1>9, <1>11, <2>1
  <2> QED BY <1>6, <1>10, <2>2
<1>12. \A j \in DOMAIN q : q[j].o = e.o => j = i
  BY <1>2, <1>4 DEF OneEntry
<1>13. NoEntry(e.o, s2)
  BY <1>8, <1>10, <1>12 DEF NoEntry
<1>14. OneEntry(s2)
  <2>1. SUFFICES ASSUME NEW j \in DOMAIN r, NEW k \in DOMAIN r, r[j].o = r[k].o
                 PROVE  j = k
    BY <1>8 DEF OneEntry
  <2>2. PICK x, y : /\ x = IF j < i THEN j ELSE j + 1
                    /\ y = IF k < i THEN k ELSE k + 1
    OBVIOUS
  <2>3. x \in DOMAIN q /\ y \in DOMAIN q /\ q[x].o = q[y].o
    BY <1>10, <2>1, <2>2
  <2>4. x = y
    BY <1>4, <2>3 DEF OneEntry
  <2>5. j \in 1 .. l - 1 /\ k \in 1 .. l - 1
    BY <1>6
  <2> QED BY ONLY <1>9, <2>2, <2>4, <2>5, l \in Nat
<1>15. \A k \in DOMAIN s2.queue : \E j \in DOMAIN s.queue : s2.queue[k] = s.queue[j]
  BY <1>4, <1>8, <1>10
<1>16. \A j \in DOMAIN s.queue : s.queue[j].o # e.o =>
          \E k \in DOMAIN s2.queue : s2.queue[k] = s.queue[j]
  BY <1>2, <1>4, <1>8, <1>11
<1>17. Len(s2.queue) = Len(s.queue) - 1
  BY <1>4, <1>5, <1>6, <1>8
<1> QED BY <1>8, <1>13, <1>14, <1>15, <1>16, <1>17 DEF Dequeued

\* What concerns o is the same in b2 but for the lock.
Alike(o, b, b2) ==
  /\ b2.toO[o] = b.toO[o] /\ b2.sendq[o] = b.sendq[o] /\ b2.recv[o] = b.recv[o]
  /\ b2.applied[o] = b.applied[o] /\ b2.dup[o] = b.dup[o]

\* When the target has done what led to b, and has given back the lock if rel
\* holds, o is in a phase of the protocol.
Answers(o, t, c, n, ch, dl, b, rel) ==
  \A b2 : /\ Alike(o, b, b2) /\ NoEntry(o, b2) /\ (b2.holds[o] = "NONE" <=> rel)
         => Phase(o, t, c, n, ch, b2, dl)

LEMMA AppendOne ==
  ASSUME NEW a, NEW w
  PROVE  Append(<<>>, a) = <<a>> /\ Append(<<w>>, a) = <<w, a>>
<1>1. Append(<<>>, a) = <<a>>
  <2>1. PICK z : z = Append(<<>>, a)
    OBVIOUS
  <2>2. <<>> \in Seq({a}) /\ Len(<<>>) = 0
    OBVIOUS
  <2>3. z \in Seq({a}) /\ Len(z) = 1 /\ z[1] = a
    BY <2>1, <2>2
  <2> QED BY <2>1, <2>3
<1>2. Append(<<w>>, a) = <<w, a>>
  <2>1. PICK z, y : z = Append(<<w>>, a) /\ y = <<w, a>>
    OBVIOUS
  <2>2. <<w>> \in Seq({w, a}) /\ Len(<<w>>) = 1 /\ <<w>>[1] = w
    OBVIOUS
  <2>3. z \in Seq({w, a}) /\ Len(z) = 2 /\ z[1] = w /\ z[2] = a
    BY <2>1, <2>2
  <2>4. y \in Seq({w, a}) /\ Len(y) = 2 /\ y[1] = w /\ y[2] = a
    BY <2>1
  <2>5. z = y
    BY ONLY <2>3, <2>4
  <2> QED BY <2>1, <2>5
<1> QED BY <1>1, <1>2

LEMMA NextId ==
  ASSUME NEW t \in Targets, t.net # <<>>, NEW n, NEW b \in Nat, Ids(t, n, b)
  PROVE  Head(t.net).id = b + 1
<1>1. t.net \in Seq(OpPkt)
  BY DEF Targets
<1>2. 1 \in DOMAIN t.net /\ Head(t.net) = t.net[1]
  BY <1>1
<1> QED BY <1>2 DEF Ids

\* The target performs the operation that carried the lock request.
LEMMA LockOpAnswered ==
  ASSUME NEW o \in Origins, NEW t \in Targets, NEW c, NEW n \in Nat, NEW dl, NEW s \in Process,
         NEW late, NEW q, t.access = "ISSUED", LockOp(t, c, q, dl),
         s.toO[o] \in {<<>>, <<LockOpAck("QUEUED", FALSE)>>}, s.sendq[o] = <<>>,
         s.recv[o].what = "none", t.acks = s.dup[o] + Bit(WantsAck(q)),
         Ids(t, n, Len(s.applied[o])), Numbered(s.applied[o]),
         NEW s2, s2 = Perform(s, o, q, late)
  PROVE  /\ Numbered(s2.applied[o])
         /\ Answers(o, t, c, n, <<>>, dl, s2, Releases(s, o, q, late))
<1>1. q \in OpPkt /\ q = Head(t.net) /\ t.net # <<>> /\ q.lock # "NONE"
  BY DEF LockOp
<1>2. PICK l \in Nat : l = Len(s.applied[o]) /\ s.applied[o] \in Seq(Nat)
  BY BaseNat DEF Process
<1>3. q.id = l + 1
  BY <1>1, <1>2, NextId
<1>4. PICK z : z = Append(s.applied[o], q.id)
  OBVIOUS
<1>5. Numbered(z) /\ Len(z) = l + 1
  <2>1. q.id = Len(s.applied[o]) + 1
    BY <1>2, <1>3
  <2>2. Numbered(z) /\ Len(z) = Len(s.applied[o]) + 1
    BY ONLY <1>2, <1>4, <2>1, NumberedAppend, Numbered(s.applied[o])
  <2> QED BY <1>2, <2>2
<1>6. PICK a : a = Answer(q)
  OBVIOUS
<1>7. PICK w : w = LockOpAck("QUEUED", FALSE)
  OBVIOUS
<1>8. Replies(q) /\ Reply(q) = a
  BY <1>1, <1>6 DEF Replies, Reply
<1>9. /\ s2.recv[o] = s.recv[o] /\ s2.dup[o] = s.dup[o] /\ s2.applied[o] = z
      /\ Delivered(s, o, q, late) => s2.toO[o] = Append(s.toO[o], a) /\ s2.sendq[o] = <<>>
      /\ ~Delivered(s, o, q, late) => s2.toO[o] = s.toO[o] /\ s2.sendq[o] = Append(s.sendq[o], a)
  <2>2. q \in OpPkt
    BY <1>1
  <2>1. /\ s2 \in Process /\ Global(s, s2) /\ Others(o, s, s2)
        /\ s2.discarded = s.discarded /\ s2.stale = s.stale
        /\ s2.recv[o] = s.recv[o] /\ s2.dup[o] = s.dup[o]
        /\ s2.applied[o] = Append(s.applied[o], q.id)
        /\ ~Replies(q) => s2.toO[o] = s.toO[o] /\ s2.sendq[o] = s.sendq[o]
        /\ Replies(q) /\ Delivered(s, o, q, late) =>
             s2.toO[o] = Append(s.toO[o], Reply(q)) /\ s2.sendq[o] = <<>>
        /\ Replies(q) /\ ~Delivered(s, o, q, late) =>
             s2.toO[o] = s.toO[o] /\ s2.sendq[o] = Append(s.sendq[o], Reply(q))
    BY ONLY <2>2, PerformEffect, o \in Origins, s \in Process, s2 = Perform(s, o, q, late)
  <2> QED BY <1>4, <1>8, <2>1
<1>10. Append(<<>>, a) = <<a>> /\ Append(<<w>>, a) = <<w, a>>
  BY AppendOne
<1>11. \/ s2.sendq[o] = <<>> /\ s2.toO[o] \in {<<a>>, <<w, a>>}
       \/ s2.sendq[o] = <<a>> /\ s2.toO[o] \in {<<>>, <<w>>} /\ IsRead(q)
  BY <1>7, <1>9, <1>10 DEF Delivered
<1>12. <<a>> # <<>>
  OBVIOUS
<1>13. Releases(s, o, q, late) <=> (q.unlock /\ s2.sendq[o] = <<>>)
  BY <1>9, <1>10, <1>12 DEF Releases, Delivered
<1>14. Len(z) > 0 /\ Len(z) - 1 = Len(s.applied[o])
  BY <1>2, <1>5
<1>15. ASSUME NEW b, Alike(o, s2, b), NoEntry(o, b),
              b.holds[o] = "NONE" <=> Releases(s, o, q, late)
       PROVE  Phase(o, t, c, n, <<>>, b, dl)
  <2>1. /\ b.toO[o] = s2.toO[o] /\ b.sendq[o] = s2.sendq[o] /\ b.recv[o] = s.recv[o]
        /\ b.applied[o] = z /\ b.dup[o] = s.dup[o]
    BY <1>9, <1>15 DEF Alike
  <2>2. b.holds[o] = "NONE" <=> (q.unlock /\ b.sendq[o] = <<>>)
    BY <1>13, <1>15, <2>1
  <2>3. \/ b.sendq[o] = <<>> /\ b.toO[o] \in {<<a>>, <<w, a>>}
        \/ b.sendq[o] = <<a>> /\ b.toO[o] \in {<<>>, <<w>>} /\ IsRead(q)
    BY <1>11, <2>1
  <2>4. Len(b.applied[o]) > 0 /\ Ids(t, n, Len(b.applied[o]) - 1)
    BY <1>14, <2>1
  <2>5. AnsweredOp(o, t, c, n, b, dl)
    BY <1>1, <1>6, <1>7, <2>1, <2>2, <2>3, <2>4 DEF AnsweredOp
  <2>6. Answered(o, t, c, n, <<>>, b, dl)
    BY <1>15, <2>5 DEF Answered
  <2> QED BY <2>6 DEF Phase
<1>16. Answers(o, t, c, n, <<>>, dl, s2, Releases(s, o, q, late))
  BY <1>15 DEF Answers
<1> QED BY <1>5, <1>9, <1>16

\* An origin with an entry in the queue waits for the lock.
LEMMA EntryQueued ==
  ASSUME NEW p, NEW t, NEW c, NEW n, NEW ch, NEW s, NEW dl, Phase(p, t, c, n, ch, s, dl), OneEntry(s),
         NEW m \in DOMAIN s.queue, NEW e, e = s.queue[m], e.o = p
  PROVE  /\ Queued(p, t, c, n, ch, s, dl)
         /\ e.op.lock = t.type /\ QueuedEntry(p, t, c, s, e, dl)
<1>1. ~NoEntry(p, s)
  BY DEF NoEntry
<1>2. Queued(p, t, c, n, ch, s, dl)
  BY <1>1 DEF Phase, Idle, Requested, Refused, Receiving, Answered, Granted
<1>3. PICK i \in DOMAIN s.queue : /\ s.queue[i].o = p
                                  /\ s.queue[i].op.lock = t.type
                                  /\ QueuedEntry(p, t, c, s, s.queue[i], dl)
  BY <1>2 DEF Queued
<1>4. i = m
  BY <1>3 DEF OneEntry
<1> QED BY <1>2, <1>3, <1>4

LEMMA LockAckType ==
  /\ LockAck("GRANTED") \in ToO /\ LockAck("QUEUED") \in ToO /\ LockAck("DISCARDED") \in ToO
  /\ LockOpAck("QUEUED", FALSE) \in ToO /\ LockOpAck("DISCARDED", FALSE) \in ToO
  /\ LockOpAck("DATA_DISCARDED", FALSE) \in ToO
BY DEF LockAck, LockOpAck, ToO, AckPkt, Flags

\* The origin p of an entry of the queue gets a lock of type y.
Gives(p, s, y, b) ==
  /\ y \in Locks /\ s.holds[p] = "NONE"
  /\ b \in Process /\ Others(p, s, b)
  /\ b.lock = y /\ b.ref = (IF y = "SHARED" THEN s.ref + 1 ELSE s.ref)
  /\ b.holds = [s.holds EXCEPT ![p] = y]
  /\ b.entered = s.entered /\ b.lost = s.lost /\ b.discarded = s.discarded /\ b.stale = s.stale
  /\ Len(b.queue) = Len(s.queue) - 1 /\ NoEntry(p, b) /\ OneEntry(b)
  /\ \A k \in DOMAIN b.queue : \E j \in DOMAIN s.queue : b.queue[k] = s.queue[j]
  /\ \A j \in DOMAIN s.queue : s.queue[j].o # p =>
       \E k \in DOMAIN b.queue : b.queue[k] = s.queue[j]
  /\ Numbered(b.applied[p])

\* What perform_op_in_lock_queue has done for p and its entry e.
EntryGiven(p, t, c, n, ch, s, dl, late, e, a, b) ==
  /\ Gives(p, s, e.op.lock, b)
  /\ EntryReleases(a, e, late) => dl = TRUE
  /\ Answers(p, t, c, n, ch, dl, b, EntryReleases(a, e, late))

\* perform_op_in_lock_queue gives the lock to the origin p of entry e.
LEMMA GrantEntry ==
  ASSUME NEW p \in Origins, NEW t \in Targets, NEW c, NEW n \in Nat, NEW ch, NEW s \in Process, NEW dl \in BOOLEAN,
         NEW late, Phase(p, t, c, n, ch, s, dl), OneEntry(s), Numbered(s.applied[p]),
         NEW m \in DOMAIN s.queue, NEW e, e = s.queue[m], e.o = p, e.data,
         NEW a, a = Dequeue(Acquire(s, p, e.op.lock), e), NEW b, b = PerformEntry(a, e, late)
  PROVE  EntryGiven(p, t, c, n, ch, s, dl, late, e, a, b)
<1> SUFFICES /\ Gives(p, s, e.op.lock, b)
             /\ EntryReleases(a, e, late) => dl = TRUE
             /\ Answers(p, t, c, n, ch, dl, b, EntryReleases(a, e, late))
  BY DEF EntryGiven
<1>1. /\ Queued(p, t, c, n, ch, s, dl)
      /\ e.op.lock = t.type /\ QueuedEntry(p, t, c, s, e, dl)
  BY EntryQueued
<1>2. /\ t.access = "ISSUED" /\ ch = <<>>
      /\ s.holds[p] = "NONE" /\ s.sendq[p] = <<>> /\ Ids(t, n, Len(s.applied[p]))
  BY <1>1 DEF Queued
<1>3. e.op.lock \in Locks
  BY <1>1 DEF QueuedEntry, QueuedLock, QueuedOp, QueuedAlone, LockReq, LockOnly, LockOp, OpPkt, Types
<1>4. PICK g : g = Acquire(s, p, e.op.lock)
  OBVIOUS
<1>5. PICK y : y = e.op.lock
  OBVIOUS
<1>6. /\ g \in Process
      /\ g.lock = y /\ g.ref = (IF y = "SHARED" THEN s.ref + 1 ELSE s.ref)
      /\ g.holds = [s.holds EXCEPT ![p] = y] /\ g.holds[p] = y
      /\ g.queue = s.queue /\ g.entered = s.entered /\ g.lost = s.lost
      /\ g.discarded = s.discarded /\ g.stale = s.stale
      /\ g.toO = s.toO /\ g.sendq = s.sendq /\ g.recv = s.recv
      /\ g.applied = s.applied /\ g.dup = s.dup
  BY ONLY <1>3, <1>4, <1>5, AcquireEffect, p \in Origins, s \in Process
<1>13. g \in Process
  BY ONLY <1>6
<1>14. /\ g.queue = s.queue /\ g.entered = s.entered /\ g.lost = s.lost
       /\ g.discarded = s.discarded /\ g.stale = s.stale
  BY ONLY <1>6
<1>15. /\ g.toO = s.toO /\ g.sendq = s.sendq /\ g.recv = s.recv
       /\ g.applied = s.applied /\ g.dup = s.dup
  BY ONLY <1>6
<1>7. OneEntry(g) /\ m \in DOMAIN g.queue /\ g.queue[m].o = e.o /\ a = Dequeue(g, e)
  BY <1>4, <1>14 DEF OneEntry
<1>8. Dequeued(p, g, a)
  <2>1. OneEntry(g)
    BY <1>7
  <2>2. m \in DOMAIN g.queue
    BY <1>7
  <2>3. g.queue[m].o = e.o
    BY <1>7
  <2>4. a = Dequeue(g, e)
    BY <1>7
  <2> QED BY ONLY <1>13, <2>1, <2>2, <2>3, <2>4, DequeueEffect, e.o = p
<1>16. a \in Process
  BY ONLY <1>8 DEF Dequeued
<1>17. /\ a.toO = s.toO /\ a.sendq = s.sendq /\ a.recv = s.recv
       /\ a.applied = s.applied /\ a.dup = s.dup
  BY ONLY <1>8, <1>15 DEF Dequeued
<1>18. /\ a.lock = g.lock /\ a.ref = g.ref /\ a.entered = s.entered
       /\ a.holds = g.holds /\ a.lost = s.lost /\ a.discarded = s.discarded /\ a.stale = s.stale
  BY ONLY <1>8, <1>14 DEF Dequeued
<1>19. /\ Len(a.queue) = Len(s.queue) - 1
       /\ NoEntry(p, a) /\ OneEntry(a)
       /\ \A k \in DOMAIN a.queue : \E j \in DOMAIN s.queue : a.queue[k] = s.queue[j]
       /\ \A j \in DOMAIN s.queue : s.queue[j].o # p =>
            \E k \in DOMAIN a.queue : a.queue[k] = s.queue[j]
  BY ONLY <1>8, <1>14 DEF Dequeued
<1>20. a.holds[p] = y /\ y # "NONE"
  BY ONLY <1>3, <1>5, <1>6, <1>18 DEF Locks
<1>9. /\ a.toO[p] = s.toO[p] /\ a.sendq[p] = <<>> /\ a.recv[p] = s.recv[p]
      /\ a.applied[p] = s.applied[p] /\ a.dup[p] = s.dup[p]
  BY ONLY <1>2, <1>17
<1>10. ASSUME b \in Process, Global(a, b), Others(p, a, b), b.discarded = a.discarded, b.stale = a.stale,
              Numbered(b.applied[p])
       PROVE  Gives(p, s, e.op.lock, b)
  <2>1. /\ b.lock = a.lock /\ b.ref = a.ref /\ b.queue = a.queue /\ b.entered = a.entered
        /\ b.holds = a.holds /\ b.lost = a.lost
    BY <1>10 DEF Global
  <2>2. Others(p, s, b)
    BY ONLY <1>10, <1>17 DEF Others
  <2>3. NoEntry(p, b) /\ OneEntry(b)
    BY ONLY <1>19, <2>1 DEF NoEntry, OneEntry
  <2>4. /\ Len(b.queue) = Len(s.queue) - 1
        /\ \A k \in DOMAIN b.queue : \E j \in DOMAIN s.queue : b.queue[k] = s.queue[j]
        /\ \A j \in DOMAIN s.queue : s.queue[j].o # p =>
             \E k \in DOMAIN b.queue : b.queue[k] = s.queue[j]
    BY ONLY <1>19, <2>1
  <2>5. /\ b.lock = e.op.lock /\ b.ref = (IF e.op.lock = "SHARED" THEN s.ref + 1 ELSE s.ref)
        /\ b.holds = [s.holds EXCEPT ![p] = e.op.lock]
    BY ONLY <1>5, <1>6, <1>18, <2>1
  <2>6. b.entered = s.entered /\ b.lost = s.lost /\ b.discarded = s.discarded /\ b.stale = s.stale
    BY ONLY <1>10, <1>18, <2>1
  <2> QED BY ONLY <1>2, <1>3, <1>10, <2>2, <2>3, <2>4, <2>5, <2>6 DEF Gives
<1>11. CASE e.op.type = "lock"
  <2>1. PICK k \in ToO : k = LockAck("GRANTED")
    BY LockAckType
  <2>2. b = Send(a, p, k)
    BY <1>11, <2>1 DEF PerformEntry
  <2>3. /\ b \in Process /\ Global(a, b) /\ Others(p, a, b)
        /\ b.discarded = a.discarded /\ b.stale = a.stale
        /\ b.recv[p] = a.recv[p] /\ b.applied[p] = a.applied[p] /\ b.dup[p] = a.dup[p]
        /\ a.sendq[p] = <<>> => b.toO[p] = Append(a.toO[p], k) /\ b.sendq[p] = <<>>
    BY ONLY <1>16, <2>2, SendEffect, p \in Origins, k \in ToO
  <2>4. ~EntryReleases(a, e, late)
    BY <1>11 DEF EntryReleases
  <2>5. ~LockOp(t, c, e.op, dl)
    BY <1>11 DEF LockOp, OpPkt, OpKinds
  <2>6. QueuedLock(p, t, s, e) \/ QueuedAlone(p, t, s, e)
    BY <1>1, <2>5 DEF QueuedEntry, QueuedOp
  <2>7. ASSUME NEW b2, Alike(p, b, b2), NoEntry(p, b2), b2.holds[p] # "NONE"
        PROVE  Phase(p, t, c, n, ch, b2, dl)
    <3>1. /\ b2.toO[p] = Append(s.toO[p], k) /\ b2.sendq[p] = <<>> /\ b2.recv[p] = s.recv[p]
          /\ b2.applied[p] = s.applied[p] /\ b2.dup[p] = s.dup[p]
      BY ONLY <1>9, <2>3, <2>7 DEF Alike
    <3>2. \A w : Append(<<>>, k) = <<k>> /\ Append(<<w>>, k) = <<w, k>>
      BY AppendOne
    <3>3. CASE QueuedLock(p, t, s, e)
      <4>1. s.toO[p] \in {<<>>, <<LockAck("QUEUED")>>} /\ s.recv[p].what = "none" /\ t.acks = s.dup[p]
        BY <3>3 DEF QueuedLock
      <4>2. b2.toO[p] \in {<<k>>, <<LockAck("QUEUED"), k>>}
        BY <3>1, <3>2, <4>1
      <4>3. AnsweredLock(p, t, n, b2)
        BY <1>2, <2>1, <2>7, <3>1, <4>1, <4>2 DEF AnsweredLock
      <4>4. Answered(p, t, c, n, ch, b2, dl)
        BY <1>2, <2>7, <4>3 DEF Answered
      <4> QED BY <4>4 DEF Phase
    <3>4. CASE QueuedAlone(p, t, s, e)
      <4>1. /\ t.net # <<>> /\ s.recv[p].what \in {"none", "entry"} /\ t.acks = s.dup[p]
            /\ \/ s.toO[p] = <<>>
               \/ s.toO[p] = <<LockOpAck("DATA_DISCARDED", FALSE)>> /\ Head(t.net).lock # "NONE"
        BY <3>4 DEF QueuedAlone
      <4>2. \/ b2.toO[p] = <<k>>
            \/ /\ b2.toO[p] = <<LockOpAck("DATA_DISCARDED", FALSE), k>>
               /\ Head(t.net).lock # "NONE"
        BY <3>1, <3>2, <4>1
      <4>3. AnsweredLock(p, t, n, b2)
        BY <1>2, <2>1, <2>7, <3>1, <4>1, <4>2 DEF AnsweredLock
      <4>4. Answered(p, t, c, n, ch, b2, dl)
        BY <1>2, <2>7, <4>3 DEF Answered
      <4> QED BY <4>4 DEF Phase
    <3> QED BY <2>6, <3>3, <3>4
  <2>8. Numbered(b.applied[p])
    BY ONLY <1>9, <2>3, Numbered(s.applied[p])
  <2>9. Answers(p, t, c, n, ch, dl, b, EntryReleases(a, e, late))
    BY <2>4, <2>7 DEF Answers
  <2> QED BY <1>10, <2>3, <2>4, <2>8, <2>9
<1>12. CASE e.op.type # "lock"
  <2>1. QueuedOp(p, t, c, s, e, dl)
    BY <1>1, <1>12 DEF QueuedEntry, QueuedLock, QueuedAlone, LockReq, LockOnly
  <2>2. PICK q : q = e.op
    OBVIOUS
  <2>3. /\ LockOp(t, c, q, dl)
        /\ s.toO[p] \in {<<>>, <<LockOpAck("QUEUED", FALSE)>>}
        /\ s.recv[p].what = "none"
        /\ t.acks = s.dup[p] + Bit(WantsAck(q))
    BY <2>1, <2>2 DEF QueuedOp
  <2>4. b = Perform(a, p, q, late)
    BY <1>12, <2>2 DEF PerformEntry
  <2>5. q \in OpPkt
    BY <2>3 DEF LockOp
  <2>6. /\ b \in Process /\ Global(a, b) /\ Others(p, a, b)
        /\ b.discarded = a.discarded /\ b.stale = a.stale
    BY ONLY <1>16, <2>4, <2>5, PerformEffect, p \in Origins
  <2>7. /\ a.toO[p] \in {<<>>, <<LockOpAck("QUEUED", FALSE)>>}
        /\ a.sendq[p] = <<>> /\ a.recv[p].what = "none"
        /\ t.acks = a.dup[p] + Bit(WantsAck(q))
        /\ Ids(t, n, Len(a.applied[p])) /\ Numbered(a.applied[p])
    BY <1>2, <1>9, <2>3
  <2>8. EntryReleases(a, e, late) <=> Releases(a, p, q, late)
    BY <1>12, <2>2 DEF EntryReleases
  <2>9. /\ Numbered(b.applied[p])
        /\ Answers(p, t, c, n, <<>>, dl, b, Releases(a, p, q, late))
    <3>1. t.access = "ISSUED" /\ LockOp(t, c, q, dl)
      BY ONLY <1>2, <2>3
    <3> QED BY ONLY <1>16, <2>4, <2>7, <3>1, LockOpAnswered, p \in Origins, t \in Targets, n \in Nat
  <2>10. EntryReleases(a, e, late) => dl = TRUE
    BY <2>3, <2>8 DEF Releases, LockOp
  <2>11. Answers(p, t, c, n, ch, dl, b, EntryReleases(a, e, late))
    BY <1>2, <2>8, <2>9 DEF Answers
  <2> QED BY <1>10, <2>6, <2>9, <2>10, <2>11
<1> QED BY <1>11, <1>12

-----------------------------------------------------------------------------
(* The loop of MPIDI_CH3I_Release_lock.                                    *)

\* Origin p gives its lock back.
Gone(p, s, s2) ==
  /\ s2 \in Process /\ s2.toO = s.toO /\ s2.sendq = s.sendq /\ s2.recv = s.recv
  /\ s2.applied = s.applied /\ s2.dup = s.dup /\ s2.discarded = s.discarded /\ s2.stale = s.stale
  /\ s2.lock = s.lock /\ s2.queue = s.queue /\ s2.lost = s.lost
  /\ s2.holds = [s.holds EXCEPT ![p] = "NONE"] /\ s2.holds[p] = "NONE"
  /\ s2.ref = IF s.lock = "SHARED" THEN s.ref - 1 ELSE s.ref

LEMMA DecrementEffect ==
  ASSUME NEW p \in Origins, NEW s \in Process, NEW s2, s2 = Decrement(s, p)
  PROVE  Gone(p, s, s2) /\ s2.entered = s.entered
<1>1. s.holds \in [Origins -> Types] /\ s.ref \in Int /\ "NONE" \in Types
  BY DEF Process, Types
<1>2. PICK f : f = [s.holds EXCEPT ![p] = "NONE"]
  OBVIOUS
<1>3. f \in [Origins -> Types] /\ f[p] = "NONE"
  BY <1>1, <1>2
<1>4. PICK r : r = IF s.lock = "SHARED" THEN s.ref - 1 ELSE s.ref
  OBVIOUS
<1>5. r \in Int
  BY <1>1, <1>4
<1>6. s2 = [s EXCEPT !.holds = f, !.ref = r]
  BY <1>2, <1>4 DEF Decrement, Process
<1>7. /\ s2 \in Process /\ s2.toO = s.toO /\ s2.sendq = s.sendq /\ s2.recv = s.recv
      /\ s2.applied = s.applied /\ s2.dup = s.dup /\ s2.discarded = s.discarded /\ s2.stale = s.stale
      /\ s2.lock = s.lock /\ s2.ref = r /\ s2.queue = s.queue /\ s2.entered = s.entered
      /\ s2.holds = f /\ s2.lost = s.lost
  BY <1>3, <1>5, <1>6 DEF Process
<1> QED BY <1>2, <1>3, <1>4, <1>7 DEF Gone

LEMMA ReenterEffect ==
  ASSUME NEW p \in Origins, NEW s \in Process, NEW s2, s2 = Reenter(s, p)
  PROVE  /\ Gone(p, s, s2)
         /\ s2.entered = IF s2.ref = 0 THEN s.entered + 1 ELSE s.entered
<1>1. PICK d : d = Decrement(s, p)
  OBVIOUS
<1>2. Gone(p, s, d) /\ d.entered = s.entered
  BY <1>1, DecrementEffect
<1>3. d \in Process /\ d.entered \in Nat
  BY <1>2 DEF Gone, Process
<1>4. CASE d.ref = 0
  <2>1. PICK k \in Nat : k = d.entered + 1
    BY <1>3
  <2>2. s2 = [d EXCEPT !.entered = k]
    BY <1>1, <1>4, <2>1 DEF Reenter
  <2>3. /\ s2 \in Process /\ s2.toO = d.toO /\ s2.sendq = d.sendq /\ s2.recv = d.recv
        /\ s2.applied = d.applied /\ s2.dup = d.dup /\ s2.discarded = d.discarded /\ s2.stale = d.stale
        /\ s2.lock = d.lock /\ s2.ref = d.ref /\ s2.queue = d.queue /\ s2.entered = k
        /\ s2.holds = d.holds /\ s2.lost = d.lost
    BY <1>3, <2>2 DEF Process
  <2> QED BY <1>2, <1>4, <2>1, <2>3 DEF Gone
<1>5. CASE d.ref # 0
  <2>1. s2 = d
    BY <1>1, <1>5 DEF Reenter
  <2> QED BY <1>2, <1>5, <2>1
<1> QED BY <1>4, <1>5

\* The state x of the target while it gives up the lock of o; it was d before.
During(o, d, x) ==
  /\ x \in Process /\ Alike(o, d, x) /\ x.holds[o] = "NONE" /\ NoEntry(o, x)
  /\ x.discarded = d.discarded /\ x.stale = d.stale
  /\ OneEntry(x)
  /\ \A p \in Origins \ {o} : PhaseOf(p, x)
  /\ \A p \in Origins : Numbered(x.applied[p])
  /\ x.ref >= 0 /\ (x.lost \/ x.ref = Cardinality(HoldersIn(x, "SHARED")))
  /\ x.entered > 0 => conf.delay
  /\ x.lost => conf.delay
  /\ x.entered + Len(x.queue) <= Len(d.queue)

\* The lock type is held by somebody.
Told(s) ==
  s.lost \/ /\ s.lock = "EXCLUSIVE" => HoldersIn(s, "EXCLUSIVE") # {}
            /\ s.lock = "SHARED" => HoldersIn(s, "SHARED") # {}

\* The pass that began in state x has tried the first i entries.
Tried(x, s, i) ==
  /\ \A k \in DOMAIN s.queue : \E j \in DOMAIN x.queue :
       /\ s.queue[k] = x.queue[j]
       /\ j <= i /\ s.queue[k].data => ~CanAcquire(s, s.queue[k].op.lock)
  /\ \A j \in DOMAIN x.queue : j > i => \E k \in DOMAIN s.queue : s.queue[k] = x.queue[j]

Account(x, s) ==
  /\ s.entered >= x.entered
  /\ s.lost \/ Near(s)
  /\ s.entered = x.entered => Told(s)
  /\ s.lock = "SHARED" /\ s.ref = 0 => s.entered > x.entered

Passing(o, d, x, y, i) ==
  /\ During(o, d, y.s)
  /\ Account(x, y.s)
  /\ y.stop => y.s.lock = "EXCLUSIVE"
  /\ Tried(x, y.s, i)

\* An entry is taken out of the queue, and its lock kept or given back at once.
Takes(p, s, y, rel, z) ==
  /\ z \in Process /\ Others(p, s, z) /\ z.lock = y
  /\ z.lost = s.lost /\ z.discarded = s.discarded /\ z.stale = s.stale
  /\ z.holds = IF rel THEN s.holds ELSE [s.holds EXCEPT ![p] = y]
  /\ z.ref = IF y = "SHARED" /\ ~rel THEN s.ref + 1 ELSE s.ref
  /\ z.entered = IF rel /\ s.ref = 0 THEN s.entered + 1 ELSE s.entered
  /\ Len(z.queue) = Len(s.queue) - 1 /\ NoEntry(p, z) /\ OneEntry(z)
  /\ \A k \in DOMAIN z.queue : \E j \in DOMAIN s.queue : z.queue[k] = s.queue[j]
  /\ \A j \in DOMAIN s.queue : s.queue[j].o # p =>
       \E k \in DOMAIN z.queue : z.queue[k] = s.queue[j]
  /\ Numbered(z.applied[p])

LEMMA TakesKept ==
  ASSUME NEW p \in Origins, NEW s, NEW y, NEW b, Gives(p, s, y, b)
  PROVE  Takes(p, s, y, FALSE, b)
<1>1. PICK rel \in BOOLEAN : rel = FALSE
  OBVIOUS
<1>2. Takes(p, s, y, rel, b)
  BY <1>1 DEF Gives, Takes
<1> QED BY <1>1, <1>2

LEMMA TakesGone ==
  ASSUME NEW p \in Origins, NEW s \in Process, NEW y, NEW b, Gives(p, s, y, b), NEW z, z = Reenter(b, p)
  PROVE  Takes(p, s, y, TRUE, z) /\ Alike(p, b, z) /\ z.holds[p] = "NONE"
<1>1. PICK rel \in BOOLEAN : rel = TRUE
  OBVIOUS
<1>2. b \in Process
  BY DEF Gives
<1>3. /\ Gone(p, b, z)
      /\ z.entered = IF z.ref = 0 THEN b.entered + 1 ELSE b.entered
  BY ONLY <1>2, ReenterEffect, p \in Origins, z = Reenter(b, p)
<1>4. /\ y \in Locks /\ s.holds[p] = "NONE" /\ Others(p, s, b)
      /\ b.lock = y /\ b.ref = (IF y = "SHARED" THEN s.ref + 1 ELSE s.ref)
      /\ b.holds = [s.holds EXCEPT ![p] = y]
      /\ b.entered = s.entered /\ b.lost = s.lost /\ b.discarded = s.discarded /\ b.stale = s.stale
  BY DEF Gives
<1>5. /\ Len(b.queue) = Len(s.queue) - 1 /\ NoEntry(p, b) /\ OneEntry(b)
      /\ \A k \in DOMAIN b.queue : \E j \in DOMAIN s.queue : b.queue[k] = s.queue[j]
      /\ \A j \in DOMAIN s.queue : s.queue[j].o # p =>
           \E k \in DOMAIN b.queue : b.queue[k] = s.queue[j]
      /\ Numbered(b.applied[p])
  BY DEF Gives
<1>6. /\ z \in Process /\ z.toO = b.toO /\ z.sendq = b.sendq /\ z.recv = b.recv
      /\ z.applied = b.applied /\ z.dup = b.dup /\ z.discarded = b.discarded /\ z.stale = b.stale
      /\ z.lock = b.lock /\ z.queue = b.queue /\ z.lost = b.lost
  BY ONLY <1>3 DEF Gone
<1>7. /\ z.holds = [b.holds EXCEPT ![p] = "NONE"] /\ z.holds[p] = "NONE"
      /\ z.ref = IF b.lock = "SHARED" THEN b.ref - 1 ELSE b.ref
  BY ONLY <1>3 DEF Gone
<1>8. z.holds = s.holds
  <2>1. s.holds \in [Origins -> Types]
    BY DEF Process
  <2>2. z.holds \in [Origins -> Types]
    BY <1>6 DEF Process
  <2>3. \A r \in Origins : z.holds[r] = s.holds[r]
    BY ONLY <1>4, <1>7, <2>1
  <2> QED BY ONLY <2>1, <2>2, <2>3
<1>9. z.ref = s.ref
  <2>1. s.ref \in Int
    BY DEF Process
  <2> QED BY ONLY <1>4, <1>7, <2>1 DEF Locks
<1>10. NoEntry(p, z) /\ OneEntry(z)
  BY ONLY <1>5, <1>6 DEF NoEntry, OneEntry
<1>11. Others(p, s, z)
  BY ONLY <1>4, <1>6 DEF Others
<1>12. /\ Len(z.queue) = Len(s.queue) - 1
       /\ \A k \in DOMAIN z.queue : \E j \in DOMAIN s.queue : z.queue[k] = s.queue[j]
       /\ \A j \in DOMAIN s.queue : s.queue[j].o # p =>
            \E k \in DOMAIN z.queue : z.queue[k] = s.queue[j]
       /\ Numbered(z.applied[p])
  BY ONLY <1>5, <1>6
<1>13. z.entered = IF s.ref = 0 THEN s.entered + 1 ELSE s.entered
  BY ONLY <1>3, <1>4, <1>9
<1>14. /\ z.lock = y /\ z.lost = s.lost /\ z.discarded = s.discarded /\ z.stale = s.stale
  BY ONLY <1>4, <1>6
<1>15. Takes(p, s, y, rel, z)
  BY ONLY <1>1, <1>6, <1>8, <1>9, <1>10, <1>11, <1>12, <1>13, <1>14 DEF Takes
<1>16. Alike(p, b, z)
  BY ONLY <1>6 DEF Alike
<1> QED BY <1>1, <1>7, <1>15, <1>16

LEMMA TakesAccount ==
  ASSUME NEW p \in Origins, NEW x, x.entered \in Nat, NEW s \in Process, NEW y \in Locks,
         NEW rel \in BOOLEAN, NEW z, Takes(p, s, y, rel, z), s.holds[p] = "NONE", CanAcquire(s, y),
         Account(x, s), s.ref >= 0, s.lost \/ s.ref = Cardinality(HoldersIn(s, "SHARED"))
  PROVE  /\ Account(x, z)
         /\ z.ref >= 0 /\ (z.lost \/ z.ref = Cardinality(HoldersIn(z, "SHARED")))
<1>1. /\ z \in Process /\ z.lock = y /\ z.lost = s.lost
      /\ z.holds = IF rel THEN s.holds ELSE [s.holds EXCEPT ![p] = y]
      /\ z.ref = IF y = "SHARED" /\ ~rel THEN s.ref + 1 ELSE s.ref
      /\ z.entered = IF rel /\ s.ref = 0 THEN s.entered + 1 ELSE s.entered
  BY DEF Takes
<1>2. s.ref \in Int /\ s.entered \in Nat /\ s.entered >= x.entered /\ (s.lost \/ Near(s))
  BY DEF Process, Account
<1>3. z.entered >= x.entered /\ z.ref >= 0
  BY <1>1, <1>2
<1>4. CASE ~rel
  <2>1. z.holds = [s.holds EXCEPT ![p] = y]
    BY <1>1, <1>4
  <2>2. /\ HoldersIn(z, y) = HoldersIn(s, y) \cup {p}
        /\ Cardinality(HoldersIn(z, y)) = Cardinality(HoldersIn(s, y)) + 1
        /\ \A w \in Locks : w # y => HoldersIn(z, w) = HoldersIn(s, w)
    BY <2>1, HoldersAcquire
  <2>3. HoldersIn(z, y) # {}
    BY <2>2
  <2>4. z.lost \/ Near(z)
    BY <1>1, <1>2, <2>1, AcquireNear
  <2>5. Told(z)
    BY <1>1, <2>3 DEF Told
  <2>6. z.lost \/ z.ref = Cardinality(HoldersIn(z, "SHARED"))
    BY <1>1, <1>4, <2>2 DEF Locks
  <2>7. z.lock = "SHARED" => z.ref # 0
    BY <1>1, <1>2, <1>4
  <2> QED BY <1>3, <2>4, <2>5, <2>6, <2>7 DEF Account
<1>5. CASE rel
  <2>1. z.holds = s.holds /\ z.ref = s.ref
    BY <1>1, <1>5
  <2>2. \A w : HoldersIn(z, w) = HoldersIn(s, w)
    BY <2>1 DEF HoldersIn
  <2>3. y \in {"SHARED", "EXCLUSIVE"} /\ (s.lock = "NONE" \/ (s.lock = "SHARED" /\ y = "SHARED"))
    BY DEF Locks, CanAcquire
  <2>4. z.lost \/ Near(z)
    <3>1. SUFFICES ASSUME ~z.lost PROVE Near(z)
      OBVIOUS
    <3>2. Near(s)
      BY <1>1, <1>2, <3>1
    <3>3. Alone(z)
      BY <2>1, <2>2, <3>2 DEF Near, Alone
    <3> QED BY <1>1, <2>2, <2>3, <3>2, <3>3 DEF Near
  <2>5. z.ref = 0 => z.entered > x.entered
    BY <1>1, <1>2, <1>5, <2>1
  <2>6. z.lost \/ z.ref = Cardinality(HoldersIn(z, "SHARED"))
    BY <1>1, <2>1, <2>2
  <2>7. z.entered = x.entered => Told(z)
    <3>1. SUFFICES ASSUME z.entered = x.entered, ~z.lost PROVE Told(z)
      BY DEF Told
    <3>2. z.ref # 0
      BY <1>3, <2>5, <3>1
    <3>3. HoldersIn(z, "SHARED") # {}
      BY <2>6, <3>1, <3>2, FS_EmptySet
    <3>4. z.lock = "SHARED"
      BY <2>4, <3>1, <3>3 DEF Near
    <3> QED BY <3>3, <3>4 DEF Told
  <2> QED BY <1>3, <2>4, <2>5, <2>6, <2>7 DEF Account
<1> QED BY <1>4, <1>5

LEMMA ShapeOf ==
  ASSUME Shape, NEW p \in Origins
  PROVE  target[p] \in Targets /\ nops[p] \in Nat /\ toT[p] \in Seq(ToT) /\ conf.delay \in BOOLEAN
<1>1. conf \in Confs
  BY DEF Shape
<1> QED BY <1>1, ConfsAssumption DEF Shape

\* The phases of the other origins survive.
LEMMA TakesSame ==
  ASSUME NEW p \in Origins, NEW s \in Process, NEW y, NEW rel \in BOOLEAN, NEW z, Takes(p, s, y, rel, z),
         NEW r \in Origins \ {p}
  PROVE  Same(r, s, z)
<1>1. /\ z.toO[r] = s.toO[r] /\ z.sendq[r] = s.sendq[r] /\ z.recv[r] = s.recv[r]
      /\ z.applied[r] = s.applied[r] /\ z.dup[r] = s.dup[r]
  BY DEF Takes, Others
<1>2. z.discarded = s.discarded
  BY DEF Takes
<1>3. z.holds[r] = s.holds[r]
  <2>1. z.holds = IF rel THEN s.holds ELSE [s.holds EXCEPT ![p] = y]
    BY DEF Takes
  <2>2. s.holds \in [Origins -> Types]
    BY DEF Process
  <2> QED BY <2>1, <2>2
<1>4. /\ \A k \in DOMAIN z.queue : \E j \in DOMAIN s.queue : z.queue[k] = s.queue[j]
      /\ \A j \in DOMAIN s.queue : s.queue[j].o # p =>
           \E k \in DOMAIN z.queue : z.queue[k] = s.queue[j]
  BY DEF Takes
<1>5. NoEntry(r, s) => NoEntry(r, z)
  BY <1>4 DEF NoEntry
<1>6. \A i \in DOMAIN s.queue : s.queue[i].o = r => \E j \in DOMAIN z.queue : z.queue[j] = s.queue[i]
  BY <1>4
<1> QED BY <1>1, <1>2, <1>3, <1>5, <1>6 DEF Same

LEMMA TakesDuring ==
  ASSUME NEW o \in Origins, NEW d, Len(d.queue) \in Nat, NEW x, x.entered \in Nat, NEW s, During(o, d, s), Account(x, s),
         NEW p \in Origins \ {o}, NEW y \in Locks, CanAcquire(s, y), s.holds[p] = "NONE",
         NEW rel \in BOOLEAN, rel => conf.delay, NEW z, Takes(p, s, y, rel, z), PhaseOf(p, z)
  PROVE  During(o, d, z) /\ Account(x, z)
<1>1. /\ s \in Process /\ Alike(o, d, s) /\ s.holds[o] = "NONE" /\ NoEntry(o, s)
      /\ s.discarded = d.discarded /\ s.stale = d.stale
      /\ \A r \in Origins \ {o} : PhaseOf(r, s)
      /\ \A r \in Origins : Numbered(s.applied[r])
      /\ s.ref >= 0 /\ (s.lost \/ s.ref = Cardinality(HoldersIn(s, "SHARED")))
      /\ s.entered > 0 => conf.delay
      /\ s.lost => conf.delay
      /\ s.entered + Len(s.queue) <= Len(d.queue)
  BY DEF During
<1>2. /\ Account(x, z)
      /\ z.ref >= 0 /\ (z.lost \/ z.ref = Cardinality(HoldersIn(z, "SHARED")))
  BY <1>1, TakesAccount
<1>3. /\ z \in Process /\ z.lost = s.lost /\ z.discarded = s.discarded /\ z.stale = s.stale
      /\ z.entered = IF rel /\ s.ref = 0 THEN s.entered + 1 ELSE s.entered
      /\ Len(z.queue) = Len(s.queue) - 1 /\ OneEntry(z)
      /\ Numbered(z.applied[p])
  BY DEF Takes
<1>4. Same(o, s, z)
  BY <1>1, TakesSame
<1>5. Alike(o, d, z) /\ z.holds[o] = "NONE" /\ NoEntry(o, z)
  BY ONLY <1>1, <1>4 DEF Same, Alike
<1>6. ASSUME NEW r \in Origins \ {o} PROVE PhaseOf(r, z)
  <2>1. CASE r = p
    BY <2>1
  <2>2. CASE r # p
    <3>1. Same(r, s, z)
      BY <1>1, <2>2, TakesSame
    <3>2. PhaseOf(r, s)
      BY <1>1
    <3> QED BY <3>1, <3>2, PhaseFrame DEF PhaseOf
  <2> QED BY <2>1, <2>2
<1>7. ASSUME NEW r \in Origins PROVE Numbered(z.applied[r])
  <2>1. CASE r = p
    BY <1>3, <2>1
  <2>2. CASE r # p
    BY <1>1, <2>2 DEF Takes, Others
  <2> QED BY <2>1, <2>2
<1>8. z.entered > 0 => conf.delay
  BY <1>1, <1>3
<1>9. z.entered + Len(z.queue) <= Len(d.queue)
  <2>1. s.entered \in Nat /\ s.queue \in Seq(Entries)
    BY <1>1 DEF Process
  <2>2. PICK l \in Nat, k \in Nat, m \in Nat : l = Len(s.queue) /\ k = s.entered /\ m = Len(d.queue)
    BY <2>1
  <2>3. z.entered \in {k, k + 1} /\ Len(z.queue) = l - 1 /\ k + l <= m
    BY <1>1, <1>3, <2>2
  <2> QED BY ONLY <2>2, <2>3, k \in Nat, l \in Nat, m \in Nat
<1> QED BY <1>1, <1>2, <1>3, <1>5, <1>6, <1>7, <1>8, <1>9 DEF During

\* One step of the loop over the queue that grants a lock.
Granting(p, s, m, e, late, a, b, z) ==
  /\ m \in DOMAIN s.queue /\ e = s.queue[m] /\ e.o = p /\ e.data /\ CanAcquire(s, e.op.lock)
  /\ a = Dequeue(Acquire(s, p, e.op.lock), e)
  /\ b = PerformEntry(a, e, late)
  /\ z = IF EntryReleases(a, e, late) THEN Reenter(b, p) ELSE b

\* It keeps the account of the locks and the phases of the other origins.
LEMMA TryGrant ==
  ASSUME Shape, NEW o \in Origins, NEW d, Len(d.queue) \in Nat, NEW x, x.entered \in Nat, NEW s,
         During(o, d, s), Account(x, s), NEW late, NEW p \in Origins \ {o},
         NEW m, NEW e, NEW a, NEW b, NEW z, Granting(p, s, m, e, late, a, b, z)
  PROVE  /\ During(o, d, z) /\ Account(x, z) /\ e.op.lock \in Locks
         /\ \E rel \in BOOLEAN : Takes(p, s, e.op.lock, rel, z)
<1>0. /\ m \in DOMAIN s.queue /\ e = s.queue[m] /\ e.o = p /\ e.data /\ CanAcquire(s, e.op.lock)
      /\ a = Dequeue(Acquire(s, p, e.op.lock), e) /\ b = PerformEntry(a, e, late)
      /\ z = IF EntryReleases(a, e, late) THEN Reenter(b, p) ELSE b
  BY DEF Granting
<1>1. /\ s \in Process /\ OneEntry(s) /\ PhaseOf(p, s) /\ Numbered(s.applied[p])
  BY DEF During
<1>2. target[p] \in Targets /\ nops[p] \in Nat /\ conf.delay \in BOOLEAN
  BY ShapeOf
<1>3. /\ Gives(p, s, e.op.lock, b)
      /\ EntryReleases(a, e, late) => conf.delay
      /\ \A b2 : /\ Alike(p, b, b2) /\ NoEntry(p, b2)
                 /\ b2.holds[p] = "NONE" <=> EntryReleases(a, e, late)
                 => PhaseOf(p, b2)
  <2>1. PICK t, c, n, ch, dl : t = target[p] /\ c = call[p] /\ n = nops[p] /\ ch = toT[p] /\ dl = conf.delay
    OBVIOUS
  <2>2. Phase(p, t, c, n, ch, s, dl) /\ t \in Targets /\ n \in Nat /\ dl \in BOOLEAN
    BY <1>1, <1>2, <2>1 DEF PhaseOf
  <2>3. s \in Process /\ OneEntry(s) /\ Numbered(s.applied[p]) /\ p \in Origins
    BY <1>1
  <2>5. m \in DOMAIN s.queue
    BY <1>0
  <2>6. e = s.queue[m] /\ e.o = p /\ e.data
    BY <1>0
  <2>7. a = Dequeue(Acquire(s, p, e.op.lock), e) /\ b = PerformEntry(a, e, late)
    BY <1>0
  <2>4. EntryGiven(p, t, c, n, ch, s, dl, late, e, a, b)
    BY ONLY <2>2, <2>3, <2>5, <2>6, <2>7, GrantEntry
  <2>8. /\ Gives(p, s, e.op.lock, b)
        /\ EntryReleases(a, e, late) => dl = TRUE
        /\ Answers(p, t, c, n, ch, dl, b, EntryReleases(a, e, late))
    BY ONLY <2>4 DEF EntryGiven
  <2> QED BY ONLY <2>1, <2>8 DEF PhaseOf, Answers
<1>4. PICK y : y = e.op.lock
  OBVIOUS
<1>5. y \in Locks /\ s.holds[p] = "NONE" /\ Gives(p, s, y, b)
  BY <1>3, <1>4 DEF Gives
<1>6. PICK rel \in BOOLEAN : rel = EntryReleases(a, e, late)
  BY DEF EntryReleases, Releases
<1>7. Takes(p, s, y, rel, z) /\ Alike(p, b, z) /\ (z.holds[p] = "NONE" <=> rel)
  <2>1. CASE ~rel
    <3>1. z = b /\ rel = FALSE
      BY <1>0, <1>6, <2>1
    <3>2. Takes(p, s, y, rel, z)
      BY <1>5, <3>1, TakesKept
    <3>3. b.holds[p] = y
      BY <1>1, <1>5 DEF Gives, Process
    <3> QED BY <1>5, <2>1, <3>1, <3>2, <3>3 DEF Alike, Locks
  <2>2. CASE rel
    <3>1. z = Reenter(b, p) /\ rel = TRUE
      BY <1>0, <1>6, <2>2
    <3> QED BY <1>1, <1>5, <3>1, TakesGone
  <2> QED BY <2>1, <2>2
<1>8. NoEntry(p, z)
  BY <1>7 DEF Takes
<1>9. PhaseOf(p, z)
  BY <1>3, <1>6, <1>7, <1>8
<1>10. rel => conf.delay
  BY <1>3, <1>6
<1>11. During(o, d, z) /\ Account(x, z)
  <2>1. CanAcquire(s, y) /\ y \in Locks /\ s.holds[p] = "NONE" /\ Takes(p, s, y, rel, z)
    BY <1>0, <1>4, <1>5, <1>7
  <2> QED BY ONLY <1>9, <1>10, <2>1, TakesDuring, o \in Origins, Len(d.queue) \in Nat, x.entered \in Nat,
                  During(o, d, s), Account(x, s), p \in Origins \ {o}, rel \in BOOLEAN
<1> QED BY <1>4, <1>5, <1>7, <1>11

\* One step of the loop over the queue.
LEMMA TryStep ==
  ASSUME Shape, NEW o \in Origins, NEW d, Len(d.queue) \in Nat, NEW x \in Process, OneEntry(x), NoEntry(o, x),
         NEW late, NEW y, NEW i \in Nat, Passing(o, d, x, y, i), i + 1 \in DOMAIN x.queue,
         NEW e, e = x.queue[i + 1], NEW y2, y2 = TryEntry(y, e, late)
  PROVE  Passing(o, d, x, y2, i + 1)
<1>1. PICK s : s = y.s
  OBVIOUS
<1>2. /\ During(o, d, s) /\ Account(x, s) /\ (y.stop => s.lock = "EXCLUSIVE")
      /\ Tried(x, s, i)
  BY <1>1 DEF Passing
<1>3. /\ \A k \in DOMAIN s.queue : \E j \in DOMAIN x.queue :
           /\ s.queue[k] = x.queue[j]
           /\ j <= i /\ s.queue[k].data => ~CanAcquire(s, s.queue[k].op.lock)
      /\ \A j \in DOMAIN x.queue : j > i => \E k \in DOMAIN s.queue : s.queue[k] = x.queue[j]
  BY <1>2 DEF Tried
<1>4. PICK l \in Nat : DOMAIN x.queue = 1 .. l /\ x.queue \in Seq(Entries)
  BY DEF Process
<1>5. PICK p \in Origins : p = e.o /\ p # o
  <2>1. e \in Entries
    BY <1>4
  <2>2. e.o \in Origins
    BY <2>1 DEF Entries
  <2>3. e.o # o
    BY DEF NoEntry
  <2> QED BY <2>2, <2>3
<1>6. PICK m \in DOMAIN s.queue : s.queue[m] = e
  <2>1. i + 1 > i
    OBVIOUS
  <2> QED BY <1>3, <2>1
<1>7. CASE y.stop \/ ~e.data \/ ~CanAcquire(s, e.op.lock)
  <2>1. y2 = y
    BY <1>1, <1>7 DEF TryEntry
  <2>2. e.data => ~CanAcquire(s, e.op.lock)
    BY <1>2, <1>7 DEF CanAcquire
  <2>3. ASSUME NEW k \in DOMAIN s.queue
        PROVE  \E j \in DOMAIN x.queue :
                 /\ s.queue[k] = x.queue[j]
                 /\ j <= i + 1 /\ s.queue[k].data => ~CanAcquire(s, s.queue[k].op.lock)
    <3>1. PICK j \in DOMAIN x.queue :
             /\ s.queue[k] = x.queue[j]
             /\ j <= i /\ s.queue[k].data => ~CanAcquire(s, s.queue[k].op.lock)
      BY <1>3
    <3>2. j \in Nat /\ (j <= i + 1 => j <= i \/ j = i + 1)
      BY <1>4
    <3>3. j = i + 1 => s.queue[k] = e
      BY <3>1
    <3> QED BY <2>2, <3>1, <3>2, <3>3
  <2>4. \A j \in DOMAIN x.queue : j > i + 1 => j > i
    BY <1>4
  <2>5. Tried(x, s, i + 1)
    BY <1>3, <2>3, <2>4 DEF Tried
  <2> QED BY <1>1, <1>2, <2>1, <2>5 DEF Passing
<1>8. CASE ~y.stop /\ e.data /\ CanAcquire(s, e.op.lock)
  <2>1. PICK a : a = Dequeue(Acquire(s, p, e.op.lock), e)
    OBVIOUS
  <2>2. PICK b : b = PerformEntry(a, e, late)
    OBVIOUS
  <2>3. PICK z : z = IF EntryReleases(a, e, late) THEN Reenter(b, p) ELSE b
    OBVIOUS
  <2>4. y2 = [s |-> z, stop |-> e.op.lock = "EXCLUSIVE"]
    BY <1>1, <1>5, <1>8, <2>1, <2>2, <2>3 DEF TryEntry
  <2>20. y2.s = z /\ (y2.stop <=> e.op.lock = "EXCLUSIVE")
    BY ONLY <2>4
  <2>5. x.entered \in Nat
    BY DEF Process
  <2>6. p \in Origins \ {o} /\ e = s.queue[m] /\ e.o = p /\ e.data /\ CanAcquire(s, e.op.lock) /\ m \in DOMAIN s.queue
    BY <1>5, <1>6, <1>8
  <2>7. /\ During(o, d, z) /\ Account(x, z) /\ e.op.lock \in Locks
        /\ \E rel \in BOOLEAN : Takes(p, s, e.op.lock, rel, z)
    <3>1. During(o, d, s) /\ Account(x, s)
      BY <1>2
    <3>2. p \in Origins \ {o}
      BY <2>6
    <3>3. Granting(p, s, m, e, late, a, b, z)
      BY <2>1, <2>2, <2>3, <2>6 DEF Granting
    <3>5. During(o, d, z) /\ Account(x, z)
      BY ONLY <2>5, <3>1, <3>2, <3>3, TryGrant, Shape, o \in Origins, Len(d.queue) \in Nat
    <3>6. e.op.lock \in Locks
      BY ONLY <2>5, <3>1, <3>2, <3>3, TryGrant, Shape, o \in Origins, Len(d.queue) \in Nat
    <3>7. \E rel \in BOOLEAN : Takes(p, s, e.op.lock, rel, z)
      BY ONLY <2>5, <3>1, <3>2, <3>3, TryGrant, Shape, o \in Origins, Len(d.queue) \in Nat
    <3> QED BY <3>5, <3>6, <3>7
  <2>8. PICK rel \in BOOLEAN : Takes(p, s, e.op.lock, rel, z)
    BY <2>7
  <2>9. /\ z.lock = e.op.lock /\ NoEntry(p, z)
        /\ \A k \in DOMAIN z.queue : \E j \in DOMAIN s.queue : z.queue[k] = s.queue[j]
        /\ \A j \in DOMAIN s.queue : s.queue[j].o # p =>
             \E k \in DOMAIN z.queue : z.queue[k] = s.queue[j]
    BY <2>8 DEF Takes
  <2>10. \A w : CanAcquire(z, w) => CanAcquire(s, w)
    BY <1>8, <2>7, <2>9, AcquireBlocks
  <2>11. ASSUME NEW k \in DOMAIN z.queue
         PROVE  \E j \in DOMAIN x.queue :
                  /\ z.queue[k] = x.queue[j]
                  /\ j <= i + 1 /\ z.queue[k].data => ~CanAcquire(z, z.queue[k].op.lock)
    <3>1. PICK f \in DOMAIN s.queue : z.queue[k] = s.queue[f]
      BY <2>9
    <3>2. PICK j \in DOMAIN x.queue :
             /\ s.queue[f] = x.queue[j]
             /\ j <= i /\ s.queue[f].data => ~CanAcquire(s, s.queue[f].op.lock)
      BY <1>3
    <3>3. j # i + 1
      BY <1>5, <2>9, <3>1, <3>2 DEF NoEntry
    <3>4. j <= i + 1 => j <= i
      BY <1>4, <3>3
    <3> QED BY <2>10, <3>1, <3>2, <3>4
  <2>12. ASSUME NEW j \in DOMAIN x.queue, j > i + 1
         PROVE  \E k \in DOMAIN z.queue : z.queue[k] = x.queue[j]
    <3>1. j > i /\ j # i + 1
      BY <1>4, <2>12
    <3>2. PICK k \in DOMAIN s.queue : s.queue[k] = x.queue[j]
      BY <1>3, <3>1
    <3>3. x.queue[j].o # p
      BY <1>5, <3>1 DEF OneEntry
    <3> QED BY <2>9, <3>2, <3>3
  <2>13. Tried(x, z, i + 1)
    BY <2>11, <2>12 DEF Tried
  <2>14. y2.stop => z.lock = "EXCLUSIVE"
    BY <2>20, <2>9
  <2> QED BY <2>20, <2>7, <2>13, <2>14 DEF Passing
<1> QED BY <1>1, <1>7, <1>8

\* The recursive function of Pass exists.
Upto(g, n, b, q, late) == g = [i \in 0 .. n |-> IF i = 0 THEN b ELSE TryEntry(g[i - 1], q[i], late)]

\* The recursive function of Pass exists.
LEMMA UptoExists ==
  ASSUME NEW n \in Nat, NEW b, NEW q, NEW late
  PROVE  \E g : Upto(g, n, b, q, late)
<1> DEFINE T == {k \in Nat : \E g : g = [i \in 0 .. k |-> IF i = 0 THEN b ELSE TryEntry(g[i - 1], q[i], late)]}
<1>1. 0 \in T
  <2> DEFINE g0 == [i \in 0 .. 0 |-> b]
  <2>1. g0 = [i \in 0 .. 0 |-> IF i = 0 THEN b ELSE TryEntry(g0[i - 1], q[i], late)]
    OBVIOUS
  <2> QED BY <2>1
<1>2. ASSUME NEW k \in T PROVE k + 1 \in T
  <2>1. PICK g : g = [i \in 0 .. k |-> IF i = 0 THEN b ELSE TryEntry(g[i - 1], q[i], late)]
    OBVIOUS
  <2> DEFINE h == [i \in 0 .. k + 1 |-> IF i = k + 1 THEN TryEntry(g[k], q[k + 1], late) ELSE g[i]]
  <2>2. \A i \in 0 .. k + 1 : h[i] = IF i = 0 THEN b ELSE TryEntry(h[i - 1], q[i], late)
    <3> TAKE i \in 0 .. k + 1
    <3>1. CASE i = k + 1
      BY <3>1
    <3>2. CASE i # k + 1
      <4>1. i \in 0 .. k /\ (i # 0 => i - 1 \in 0 .. k /\ i - 1 # k + 1 /\ i - 1 \in 0 .. k + 1)
        BY <3>2
      <4>2. h[i] = g[i] /\ (i # 0 => h[i - 1] = g[i - 1])
        BY <3>2, <4>1
      <4> QED BY <2>1, <4>1, <4>2
    <3> QED BY <3>1, <3>2
  <2>3. h = [i \in 0 .. k + 1 |-> IF i = 0 THEN b ELSE TryEntry(h[i - 1], q[i], late)]
    <3>1. PICK f : f = h
      OBVIOUS
    <3>2. f = [i \in 0 .. k + 1 |-> f[i]] /\ \A i \in 0 .. k + 1 : f[i] = h[i] /\ (i # 0 => h[i - 1] = f[i - 1])
      BY <3>1
    <3>3. \A i \in 0 .. k + 1 : f[i] = IF i = 0 THEN b ELSE TryEntry(f[i - 1], q[i], late)
      BY <2>2, <3>1
    <3>4. f = [i \in 0 .. k + 1 |-> IF i = 0 THEN b ELSE TryEntry(f[i - 1], q[i], late)]
      BY ONLY <3>2, <3>3
    <3> QED BY ONLY <3>1, <3>4
  <2>4. k + 1 \in Nat
    OBVIOUS
  <2> HIDE DEF h
  <2> QED BY <2>3, <2>4
<1>3. T \in SUBSET Nat
  OBVIOUS
<1> HIDE DEF T
<1>4. \A k \in Nat : k \in T
  BY <1>1, <1>2, <1>3, NatSetInduction
<1> QED BY <1>4 DEF T, Upto

\* Pass(s, late) is what remains after the last entry of the queue.
LEMMA PassFunction ==
  ASSUME NEW s \in Process, NEW late
  PROVE  \E g : /\ Pass(s, late) = g[Len(s.queue)].s
                /\ g = [i \in 0 .. Len(s.queue) |->
                          IF i = 0
                          THEN [s |-> [s EXCEPT !.lock = "NONE",
                                                !.lost = @ \/ \E o \in Origins : s.holds[o] # "NONE"],
                                stop |-> FALSE]
                          ELSE TryEntry(g[i - 1], s.queue[i], late)]
<1>1. PICK b : b = [s |-> [s EXCEPT !.lock = "NONE",
                                     !.lost = @ \/ \E o \in Origins : s.holds[o] # "NONE"],
                    stop |-> FALSE]
  OBVIOUS
<1>2. Len(s.queue) \in Nat
  BY DEF Process
<1>3. \E g : g = [i \in 0 .. Len(s.queue) |-> IF i = 0 THEN b ELSE TryEntry(g[i - 1], s.queue[i], late)]
  <2>1. PICK g : Upto(g, Len(s.queue), b, s.queue, late)
    BY <1>2, UptoExists
  <2> QED BY ONLY <2>1, Zenon DEF Upto
<1>4. PICK g : g = CHOOSE f : f = [i \in 0 .. Len(s.queue) |->
                                     IF i = 0 THEN b ELSE TryEntry(f[i - 1], s.queue[i], late)]
  OBVIOUS
<1>5. g = [i \in 0 .. Len(s.queue) |-> IF i = 0 THEN b ELSE TryEntry(g[i - 1], s.queue[i], late)]
  BY <1>3, <1>4
<1>6. Pass(s, late) = g[Len(s.queue)].s
  BY ONLY <1>1, <1>4, Zenon DEF Pass
<1> QED BY ONLY <1>1, <1>5, <1>6, Zenon

\* Release_lock declares the window free before it goes over the queue.
LEMMA FreePassing ==
  ASSUME Shape, NEW o \in Origins, NEW d, Len(d.queue) \in Nat, NEW x, During(o, d, x),
         x.lost \/ (\A p \in Origins : x.holds[p] = "NONE") \/ conf.delay,
         NEW f, f = [x EXCEPT !.lock = "NONE", !.lost = @ \/ \E p \in Origins : x.holds[p] # "NONE"],
         NEW y, y = [s |-> f, stop |-> FALSE]
  PROVE  Passing(o, d, x, y, 0)
<1>1. /\ x \in Process /\ Alike(o, d, x) /\ x.holds[o] = "NONE" /\ NoEntry(o, x)
      /\ x.discarded = d.discarded /\ x.stale = d.stale
      /\ OneEntry(x)
      /\ \A p \in Origins \ {o} : PhaseOf(p, x)
      /\ \A p \in Origins : Numbered(x.applied[p])
      /\ x.ref >= 0 /\ (x.lost \/ x.ref = Cardinality(HoldersIn(x, "SHARED")))
      /\ x.entered > 0 => conf.delay
      /\ x.lost => conf.delay
      /\ x.entered + Len(x.queue) <= Len(d.queue)
  BY DEF During
<1>2. PICK b \in BOOLEAN : b = (x.lost \/ \E p \in Origins : x.holds[p] # "NONE")
  OBVIOUS
<1>3. f = [x EXCEPT !.lock = "NONE", !.lost = b]
  BY <1>1, <1>2 DEF Process
<1>4. /\ f \in Process /\ f.toO = x.toO /\ f.sendq = x.sendq /\ f.recv = x.recv
      /\ f.applied = x.applied /\ f.dup = x.dup /\ f.discarded = x.discarded /\ f.stale = x.stale
      /\ f.lock = "NONE" /\ f.ref = x.ref /\ f.queue = x.queue /\ f.entered = x.entered
      /\ f.holds = x.holds /\ f.lost = b
  BY <1>1, <1>3 DEF Process, Types
<1>5. ASSUME NEW p \in Origins \ {o} PROVE PhaseOf(p, f)
  <2>1. Same(p, x, f)
    BY <1>4 DEF Same, NoEntry
  <2> QED BY <1>1, <2>1, PhaseFrame DEF PhaseOf
<1>6. \A w : HoldersIn(f, w) = HoldersIn(x, w)
  BY <1>4 DEF HoldersIn
<1>7. During(o, d, f)
  <2>1. Alike(o, d, f) /\ NoEntry(o, f) /\ OneEntry(f)
    BY <1>1, <1>4 DEF Alike, NoEntry, OneEntry
  <2>2. f.lost => conf.delay
    BY <1>1, <1>2, <1>4
  <2>3. f.ref >= 0 /\ (f.lost \/ f.ref = Cardinality(HoldersIn(f, "SHARED")))
    BY <1>1, <1>2, <1>4, <1>6
  <2> QED BY <1>1, <1>4, <1>5, <2>1, <2>2, <2>3 DEF During
<1>8. Account(x, f)
  <2>1. f.lost \/ Near(f)
    <3>1. ~f.lost => HoldersIn(f, "EXCLUSIVE") = {} /\ HoldersIn(f, "SHARED") = {}
      BY <1>2, <1>4, <1>6 DEF HoldersIn
    <3> QED BY <3>1 DEF Near, Alone
  <2>2. Told(f)
    BY <1>4 DEF Told
  <2>3. f.entered >= x.entered
    <3>1. x.entered \in Nat
      BY <1>1 DEF Process
    <3> QED BY <1>4, <3>1
  <2> QED BY <1>4, <2>1, <2>2, <2>3 DEF Account
<1>9. Tried(x, f, 0)
  <2>1. \A j \in DOMAIN x.queue : ~(j <= 0)
    BY <1>1 DEF Process
  <2> QED BY <1>4, <2>1 DEF Tried
<1>10. y.s = f /\ ~y.stop
  OBVIOUS
<1> QED BY <1>7, <1>8, <1>9, <1>10 DEF Passing

\* One pass over the queue: what remains in it cannot have its lock.
LEMMA PassEffect ==
  ASSUME Shape, NEW o \in Origins, NEW d, Len(d.queue) \in Nat, NEW x, During(o, d, x),
         x.lost \/ (\A p \in Origins : x.holds[p] = "NONE") \/ conf.delay,
         NEW late, NEW z, z = Pass(x, late)
  PROVE  During(o, d, z) /\ Account(x, z) /\ Blocked(z)
<1>1. x \in Process /\ OneEntry(x) /\ NoEntry(o, x)
  BY DEF During
<1>2. PICK f : f = [x EXCEPT !.lock = "NONE", !.lost = @ \/ \E p \in Origins : x.holds[p] # "NONE"]
  OBVIOUS
<1>3. PICK y : y = [s |-> f, stop |-> FALSE]
  OBVIOUS
<1>4. Passing(o, d, x, y, 0)
  BY <1>2, <1>3, FreePassing
<1>5. PICK q : q = x.queue
  OBVIOUS
<1>6. PICK l \in Nat : l = Len(q) /\ DOMAIN q = 1 .. l
  BY <1>1, <1>5 DEF Process
<1>7. PICK g : /\ z = g[l].s
               /\ g = [i \in 0 .. l |-> IF i = 0 THEN y ELSE TryEntry(g[i - 1], q[i], late)]
  <2>1. x \in Process
    BY <1>1
  <2>2. \E g : /\ Pass(x, late) = g[Len(x.queue)].s
               /\ g = [i \in 0 .. Len(x.queue) |->
                          IF i = 0
                          THEN [s |-> [x EXCEPT !.lock = "NONE",
                                                !.lost = @ \/ \E p \in Origins : x.holds[p] # "NONE"],
                                stop |-> FALSE]
                          ELSE TryEntry(g[i - 1], x.queue[i], late)]
    BY ONLY <2>1, PassFunction, Zenon
  <2> QED BY ONLY <1>2, <1>3, <1>5, <1>6, <2>2, z = Pass(x, late), Zenon
<1>8. g[0] = y /\ \A i \in 1 .. l : g[i] = TryEntry(g[i - 1], q[i], late)
  BY <1>6, <1>7
<1> DEFINE T == {k \in Nat : k <= l => Passing(o, d, x, g[k], k)}
<1>9. 0 \in T
  BY <1>4, <1>8
<1>10. ASSUME NEW k \in T PROVE k + 1 \in T
  <2>1. SUFFICES ASSUME k + 1 <= l PROVE Passing(o, d, x, g[k + 1], k + 1)
    OBVIOUS
  <2>2. k + 1 \in 1 .. l /\ (k + 1) - 1 = k /\ k <= l /\ k \in Nat
    BY <1>6, <2>1
  <2>3. g[k + 1] = TryEntry(g[k], q[k + 1], late)
    BY <1>8, <2>2
  <2>4. Passing(o, d, x, g[k], k)
    BY <2>2
  <2>5. k + 1 \in DOMAIN x.queue /\ q[k + 1] = x.queue[k + 1]
    BY <1>5, <1>6, <2>2
  <2>6. PICK a, b, c : a = g[k] /\ b = g[k + 1] /\ c = x.queue[k + 1]
    OBVIOUS
  <2>7. b = TryEntry(a, c, late) /\ Passing(o, d, x, a, k) /\ k + 1 \in DOMAIN x.queue /\ c = x.queue[k + 1] /\ k \in Nat
    BY <2>2, <2>3, <2>4, <2>5, <2>6
  <2>8. Passing(o, d, x, b, k + 1)
    BY ONLY <1>1, <2>7, TryStep, Shape, o \in Origins, Len(d.queue) \in Nat
  <2> QED BY <2>6, <2>8
<1>16. T \in SUBSET Nat
  OBVIOUS
<1> HIDE DEF T
<1>11. \A k \in Nat : k \in T
  BY <1>9, <1>10, <1>16, NatSetInduction
<1>12. Passing(o, d, x, g[l], l)
  <2>1. l \in T /\ l <= l
    BY <1>6, <1>11
  <2> QED BY <2>1 DEF T
<1>13. During(o, d, z) /\ Account(x, z) /\ Tried(x, z, l)
  BY <1>7, <1>12 DEF Passing
<1>14. \A j \in DOMAIN x.queue : j <= l
  BY <1>5, <1>6
<1>15. Blocked(z)
  BY <1>13, <1>14 DEF Blocked, Tried
<1> QED BY <1>13, <1>15

\* The recursive function of Release_lock.
Once(x, i, late) == IF i - 1 <= x.entered THEN Pass(x, late) ELSE x

Loops(g, n, d, late) == g = [i \in 0 .. n |-> IF i = 0 THEN d ELSE Once(g[i - 1], i, late)]

\* The recursive function of Release_lock exists.
LEMMA LoopsExists ==
  ASSUME NEW n \in Nat, NEW d, NEW late
  PROVE  \E g : Loops(g, n, d, late)
<1> DEFINE T == {k \in Nat : \E g : g = [i \in 0 .. k |-> IF i = 0 THEN d ELSE Once(g[i - 1], i, late)]}
<1>1. 0 \in T
  <2> DEFINE g0 == [i \in 0 .. 0 |-> d]
  <2>1. g0 = [i \in 0 .. 0 |-> IF i = 0 THEN d ELSE Once(g0[i - 1], i, late)]
    OBVIOUS
  <2> QED BY <2>1
<1>2. ASSUME NEW k \in T PROVE k + 1 \in T
  <2>1. PICK g : g = [i \in 0 .. k |-> IF i = 0 THEN d ELSE Once(g[i - 1], i, late)]
    OBVIOUS
  <2> DEFINE h == [i \in 0 .. k + 1 |-> IF i = k + 1 THEN Once(g[k], k + 1, late) ELSE g[i]]
  <2>2. \A i \in 0 .. k + 1 : h[i] = IF i = 0 THEN d ELSE Once(h[i - 1], i, late)
    <3> TAKE i \in 0 .. k + 1
    <3>1. CASE i = k + 1
      BY <3>1
    <3>2. CASE i # k + 1
      <4>1. i \in 0 .. k /\ (i # 0 => i - 1 \in 0 .. k /\ i - 1 # k + 1 /\ i - 1 \in 0 .. k + 1)
        BY <3>2
      <4>2. h[i] = g[i] /\ (i # 0 => h[i - 1] = g[i - 1])
        BY <3>2, <4>1
      <4> QED BY <2>1, <4>1, <4>2
    <3> QED BY <3>1, <3>2
  <2>3. h = [i \in 0 .. k + 1 |-> IF i = 0 THEN d ELSE Once(h[i - 1], i, late)]
    <3>1. PICK f : f = h
      OBVIOUS
    <3>2. f = [i \in 0 .. k + 1 |-> f[i]]
      BY <3>1
    <3>3. \A i \in 0 .. k + 1 : f[i] = IF i = 0 THEN d ELSE Once(f[i - 1], i, late)
      BY <2>2, <3>1
    <3>4. f = [i \in 0 .. k + 1 |-> IF i = 0 THEN d ELSE Once(f[i - 1], i, late)]
      BY ONLY <3>2, <3>3
    <3> QED BY ONLY <3>1, <3>4
  <2>4. k + 1 \in Nat
    OBVIOUS
  <2> HIDE DEF h
  <2> QED BY <2>3, <2>4
<1>3. T \in SUBSET Nat
  OBVIOUS
<1> HIDE DEF T
<1>4. \A k \in Nat : k \in T
  BY <1>1, <1>2, <1>3, NatSetInduction
<1> QED BY <1>4 DEF T, Loops

LoopEnd(d, late) ==
  [(CHOOSE f : f = [i \in 0 .. Len(d.queue) + 1 |-> IF i = 0 THEN d ELSE Once(f[i - 1], i, late)])
     [Len(d.queue) + 1] EXCEPT !.entered = 0]

LEMMA ReleaseFunction ==
  ASSUME NEW s, NEW o, NEW late, NEW d, d = Decrement(s, o), Len(d.queue) \in Nat, d.ref = 0
  PROVE  \E g : /\ Loops(g, Len(d.queue) + 1, d, late)
                /\ Release_lock(s, o, late) = [g[Len(d.queue) + 1] EXCEPT !.entered = 0]
<1>1. PICK n \in Nat : n = Len(d.queue) + 1
  OBVIOUS
<1>2. \E g : Loops(g, n, d, late)
  BY LoopsExists
<1>3. PICK g : g = CHOOSE f : f = [i \in 0 .. n |-> IF i = 0 THEN d ELSE Once(f[i - 1], i, late)]
  OBVIOUS
<1>4. Loops(g, n, d, late)
  BY ONLY <1>2, <1>3, Zenon DEF Loops
<1>5. Release_lock(s, o, late) = [g[Len(d.queue) + 1] EXCEPT !.entered = 0]
  <2>1. Release_lock(s, o, late) =
          IF Decrement(s, o).ref # 0 THEN Decrement(s, o) ELSE LoopEnd(Decrement(s, o), late)
    BY ONLY Zenon DEF Release_lock, Once, LoopEnd
  <2>2. Release_lock(s, o, late) = LoopEnd(d, late)
    BY ONLY <2>1, d = Decrement(s, o), d.ref = 0
  <2>3. LoopEnd(d, late) =
          [(CHOOSE f : f = [i \in 0 .. Len(d.queue) + 1 |->
                   IF i = 0 THEN d ELSE Once(f[i - 1], i, late)])
                [Len(d.queue) + 1] EXCEPT !.entered = 0]
    BY ONLY Zenon DEF LoopEnd
  <2>4. LoopEnd(d, late) = [g[Len(d.queue) + 1] EXCEPT !.entered = 0]
    BY ONLY <1>1, <1>3, <2>3, Zenon
  <2> QED BY ONLY <2>2, <2>4, Zenon
<1> QED BY ONLY <1>1, <1>4, <1>5, Zenon

\* Nothing is left to do for a state in which the loop may end.
Quiet(x) == Blocked(x) /\ (x.lost \/ Exact(x)) /\ (x.lock = "SHARED" => x.ref > 0)

\* After a pass without a release nothing in the queue can be granted.
LEMMA PassQuiet ==
  ASSUME NEW o \in Origins, NEW d, NEW x, x.entered \in Nat, NEW z, During(o, d, z), Account(x, z), Blocked(z)
  PROVE  Quiet(z) \/ z.entered >= x.entered + 1
<1>1. SUFFICES ASSUME z.entered = x.entered PROVE Quiet(z)
  <2>1. z.entered \in Nat /\ z.entered >= x.entered
    BY DEF During, Process, Account
  <2> QED BY <2>1
<1>2. /\ z \in Process /\ z.ref \in Int /\ z.ref >= 0
      /\ z.lost \/ z.ref = Cardinality(HoldersIn(z, "SHARED"))
  BY DEF During, Process
<1>3. /\ z.lost \/ Near(z)
      /\ Told(z)
      /\ z.lock = "SHARED" /\ z.ref = 0 => z.entered > x.entered
  BY <1>1 DEF Account
<1>4. z.lost \/ Exact(z)
  BY <1>2, <1>3, NearExact DEF Told
<1>5. z.lock = "SHARED" => z.ref > 0
  BY <1>1, <1>2, <1>3
<1> QED BY <1>4, <1>5 DEF Quiet

\* All the passes of a release.
LEMMA ReleaseLoop ==
  ASSUME Shape, NEW o \in Origins, NEW d, NEW l \in Nat, l = Len(d.queue), During(o, d, d), d.entered = 0,
         d.lost \/ (\A p \in Origins : d.holds[p] = "NONE") \/ conf.delay,
         NEW late, NEW g, Loops(g, l + 1, d, late)
  PROVE  During(o, d, g[l + 1]) /\ Quiet(g[l + 1])
<1>1. g[0] = d /\ \A i \in 1 .. l + 1 : g[i] = Once(g[i - 1], i, late)
  BY DEF Loops
<1> DEFINE P(k) == During(o, d, g[k]) /\ (Quiet(g[k]) \/ g[k].entered >= k)
           T == {k \in Nat : k <= l + 1 => P(k)}
<1>2. 0 \in T
  BY <1>1
<1>3. ASSUME NEW k \in T PROVE k + 1 \in T
  <2>1. SUFFICES ASSUME k + 1 <= l + 1 PROVE P(k + 1)
    OBVIOUS
  <2>2. k + 1 \in 1 .. l + 1 /\ (k + 1) - 1 = k /\ k <= l + 1 /\ k \in Nat
    BY <2>1
  <2>3. PICK x, z : x = g[k] /\ z = g[k + 1]
    OBVIOUS
  <2>4. z = Once(x, k + 1, late)
    BY <1>1, <2>2, <2>3
  <2>5. During(o, d, x) /\ (Quiet(x) \/ x.entered >= k)
    BY <2>2, <2>3
  <2>6. x.entered \in Nat
    BY <2>5 DEF During, Process
  <2>7. CASE k <= x.entered
    <3>1. z = Pass(x, late)
      BY ONLY <2>2, <2>4, <2>7 DEF Once
    <3>2. x.lost \/ (\A p \in Origins : x.holds[p] = "NONE") \/ conf.delay
      <4>1. CASE k = 0
        BY <1>1, <2>3, <4>1
      <4>2. CASE k # 0
        <5>1. x.entered > 0
          BY ONLY <2>2, <2>6, <2>7, <4>2
        <5> QED BY <2>5, <5>1 DEF During
      <4> QED BY <4>1, <4>2
    <3>3. Len(d.queue) \in Nat /\ During(o, d, x)
      BY <2>5
    <3>4. During(o, d, z) /\ Account(x, z) /\ Blocked(z)
      BY ONLY <3>1, <3>2, <3>3, PassEffect, Shape, o \in Origins
    <3>5. Quiet(z) \/ z.entered >= x.entered + 1
      BY ONLY <2>6, <3>4, PassQuiet, o \in Origins
    <3>6. z.entered \in Nat
      BY <3>4 DEF During, Process
    <3>7. Quiet(z) \/ z.entered >= k + 1
      BY ONLY <2>2, <2>6, <2>7, <3>5, <3>6
    <3> QED BY <2>3, <3>4, <3>7
  <2>8. CASE ~(k <= x.entered)
    <3>1. z = x
      BY ONLY <2>2, <2>4, <2>8 DEF Once
    <3>2. Quiet(x)
      BY ONLY <2>2, <2>5, <2>6, <2>8
    <3> QED BY <2>3, <2>5, <3>1, <3>2
  <2> QED BY <2>7, <2>8
<1>4. T \in SUBSET Nat
  OBVIOUS
<1> HIDE DEF T
<1>5. \A k \in Nat : k \in T
  BY <1>2, <1>3, <1>4, NatSetInduction
<1>6. PICK x : x = g[l + 1]
  OBVIOUS
<1>7. During(o, d, x) /\ (Quiet(x) \/ x.entered >= l + 1)
  <2>1. l + 1 \in T /\ l + 1 <= l + 1
    BY <1>5
  <2> QED BY <1>6, <2>1 DEF T
<1>8. ~(x.entered >= l + 1)
  <2>1. x.entered \in Nat /\ x.queue \in Seq(Entries) /\ x.entered + Len(x.queue) <= l
    BY <1>7 DEF During, Process
  <2>2. PICK k \in Nat : k = Len(x.queue)
    BY <2>1
  <2> QED BY ONLY <2>1, <2>2, k \in Nat, l \in Nat
<1> QED BY <1>6, <1>7, <1>8

\* What Release_lock leaves alone.
Released(o, s, z) ==
  /\ z \in Process /\ Alike(o, s, z) /\ z.holds[o] = "NONE" /\ NoEntry(o, z)
  /\ z.discarded = s.discarded /\ z.stale = s.stale

LEMMA DuringRest ==
  ASSUME NEW o \in Origins, NEW d, NEW x, During(o, d, x), Quiet(x), Len(d.queue) <= conf.pool,
         Len(d.queue) \in Nat, conf.pool \in Nat, NEW z, z = [x EXCEPT !.entered = 0]
  PROVE  Rest(o, z) /\ Released(o, d, z)
<1>1. /\ x \in Process /\ Alike(o, d, x) /\ x.holds[o] = "NONE" /\ NoEntry(o, x)
      /\ x.discarded = d.discarded /\ x.stale = d.stale
      /\ OneEntry(x)
      /\ \A p \in Origins \ {o} : PhaseOf(p, x)
      /\ \A p \in Origins : Numbered(x.applied[p])
      /\ x.ref >= 0
      /\ x.lost => conf.delay
      /\ x.entered + Len(x.queue) <= Len(d.queue)
  BY DEF During
<1>2. /\ z \in Process /\ z.toO = x.toO /\ z.sendq = x.sendq /\ z.recv = x.recv
      /\ z.applied = x.applied /\ z.dup = x.dup /\ z.discarded = x.discarded /\ z.stale = x.stale
      /\ z.lock = x.lock /\ z.ref = x.ref /\ z.queue = x.queue /\ z.entered = 0
      /\ z.holds = x.holds /\ z.lost = x.lost
  BY <1>1 DEF Process
<1>3. ASSUME NEW p \in Origins \ {o} PROVE PhaseOf(p, z)
  <2>1. Same(p, x, z)
    BY <1>2 DEF Same, NoEntry
  <2> QED BY <1>1, <2>1, PhaseFrame DEF PhaseOf
<1>4. Blocked(z) /\ OneEntry(z) /\ NoEntry(o, z) /\ (z.lock = "SHARED" => z.ref > 0)
  BY <1>1, <1>2 DEF Quiet, Blocked, OneEntry, NoEntry, CanAcquire
<1>5. z.lost \/ Exact(z)
  BY <1>2 DEF Quiet, Exact, Alone, HoldersIn
<1>6. TargetInv(z)
  BY <1>1, <1>2, <1>4, <1>5 DEF TargetInv, Numbered
<1>7. Len(z.queue) <= conf.pool
  <2>1. x.entered \in Nat /\ x.queue \in Seq(Entries)
    BY <1>1 DEF Process
  <2>2. PICK k \in Nat, l \in Nat : k = Len(x.queue) /\ l = Len(d.queue)
    BY <2>1
  <2>3. x.entered + k <= l /\ l <= conf.pool /\ Len(z.queue) = k
    BY <1>1, <1>2, <2>2
  <2> QED BY ONLY <2>1, <2>3, k \in Nat, l \in Nat, conf.pool \in Nat
<1>8. Rest(o, z)
  BY <1>1, <1>2, <1>3, <1>6, <1>7 DEF Rest
<1>9. Released(o, d, z)
  BY <1>1, <1>2, <1>4 DEF Released, Alike
<1> QED BY <1>8, <1>9

\* After the start of Release_lock.
LEMMA DecrementRest ==
  ASSUME Shape, NEW o \in Origins, NEW s, Rest(o, s), s.holds[o] # "NONE", NoEntry(o, s),
         NEW d, d = Decrement(s, o)
  PROVE  /\ During(o, d, d) /\ d.entered = 0 /\ d.queue = s.queue /\ Released(o, s, d)
         /\ d.ref # 0 => Quiet(d)
         /\ d.ref = 0 => d.lost \/ (\A p \in Origins : d.holds[p] = "NONE") \/ conf.delay
<1>1. /\ s \in Process /\ TargetInv(s)
      /\ Len(s.queue) <= conf.pool
      /\ s.lost => conf.delay
      /\ \A p \in Origins \ {o} : PhaseOf(p, s)
  BY DEF Rest
<1>2. /\ OneEntry(s) /\ Blocked(s)
      /\ s.lost \/ Exact(s)
      /\ s.ref >= 0 /\ (s.lock = "SHARED" => s.ref > 0)
      /\ s.entered = 0
      /\ \A p \in Origins : Numbered(s.applied[p])
  BY <1>1 DEF TargetInv, Numbered
<1>3. Gone(o, s, d) /\ d.entered = 0
  BY <1>1, <1>2, DecrementEffect
<1>4. /\ d \in Process /\ d.toO = s.toO /\ d.sendq = s.sendq /\ d.recv = s.recv
      /\ d.applied = s.applied /\ d.dup = s.dup /\ d.discarded = s.discarded /\ d.stale = s.stale
      /\ d.lock = s.lock /\ d.queue = s.queue /\ d.lost = s.lost
      /\ d.holds = [s.holds EXCEPT ![o] = "NONE"] /\ d.holds[o] = "NONE"
      /\ d.ref = IF s.lock = "SHARED" THEN s.ref - 1 ELSE s.ref
  BY <1>3 DEF Gone
<1>5. s.holds \in [Origins -> Types] /\ s.ref \in Int /\ s.holds[o] \in Locks
  BY <1>1 DEF Process, Types
<1>6. ASSUME NEW p \in Origins \ {o} PROVE PhaseOf(p, d)
  <2>1. Same(p, s, d)
    BY <1>4, <1>5 DEF Same, NoEntry
  <2> QED BY <1>1, <2>1, PhaseFrame DEF PhaseOf
<1>7. d.ref \in Int /\ d.ref >= 0
  BY <1>2, <1>4, <1>5
<1>8. PICK y \in Locks : y = s.holds[o]
  BY <1>5
<1>9. /\ HoldersIn(d, y) = HoldersIn(s, y) \ {o}
      /\ Cardinality(HoldersIn(d, y)) = Cardinality(HoldersIn(s, y)) - 1
      /\ \A x \in Locks : x # y => HoldersIn(d, x) = HoldersIn(s, x)
  BY <1>1, <1>4, <1>8, HoldersRelease
<1>10. o \in HoldersIn(s, y) /\ y \in {"SHARED", "EXCLUSIVE"} /\ "SHARED" \in Locks /\ "EXCLUSIVE" \in Locks
  BY <1>8 DEF HoldersIn, Locks
<1>11. ASSUME ~s.lost
       PROVE  /\ d.ref = Cardinality(HoldersIn(d, "SHARED"))
              /\ HoldersIn(d, "EXCLUSIVE") = {}
              /\ y = "EXCLUSIVE" => HoldersIn(d, "SHARED") = {}
              /\ s.lock = y
  <2>1. Exact(s)
    BY <1>2, <1>11
  <2>2. /\ s.ref = Cardinality(HoldersIn(s, "SHARED")) /\ Alone(s)
        /\ s.lock = IF HoldersIn(s, "EXCLUSIVE") # {} THEN "EXCLUSIVE"
                    ELSE IF HoldersIn(s, "SHARED") # {} THEN "SHARED" ELSE "NONE"
    BY <2>1 DEF Exact
  <2>3. CASE y = "SHARED"
    <3>1. HoldersIn(s, "EXCLUSIVE") = {}
      <4>1. SUFFICES ASSUME NEW p \in HoldersIn(s, "EXCLUSIVE") PROVE FALSE
        OBVIOUS
      <4>2. p # o
        BY <1>8, <2>3 DEF HoldersIn
      <4>3. s.holds[o] = "NONE"
        BY <2>2, <4>2 DEF Alone
      <4> QED BY <4>3
    <3>2. s.lock = "SHARED"
      BY <1>10, <2>2, <2>3, <3>1
    <3>3. HoldersIn(d, "EXCLUSIVE") = {}
      BY <1>9, <1>10, <2>3, <3>1
    <3>4. d.ref = Cardinality(HoldersIn(d, "SHARED"))
      BY <1>4, <1>9, <2>2, <2>3, <3>2
    <3> QED BY <2>3, <3>2, <3>3, <3>4
  <2>4. CASE y = "EXCLUSIVE"
    <3>1. \A p \in Origins \ {o} : s.holds[p] = "NONE"
      BY <1>10, <2>2, <2>4 DEF Alone
    <3>2. HoldersIn(d, "EXCLUSIVE") = {} /\ HoldersIn(d, "SHARED") = {} /\ HoldersIn(s, "SHARED") = {}
      BY <1>4, <1>5, <1>8, <2>4, <3>1 DEF HoldersIn
    <3>3. s.lock = "EXCLUSIVE"
      BY <1>10, <2>2, <2>4
    <3> QED BY <1>4, <2>2, <2>4, <3>2, <3>3
  <2> QED BY <1>10, <2>3, <2>4
<1>12. NoEntry(o, d) /\ OneEntry(d) /\ Blocked(d)
  BY <1>2, <1>4 DEF NoEntry, OneEntry, Blocked, CanAcquire
<1>13. During(o, d, d)
  <2>1. Alike(o, d, d)
    BY DEF Alike
  <2>2. d.entered + Len(d.queue) <= Len(d.queue)
    <3>1. PICK k \in Nat : k = Len(d.queue)
      BY <1>4 DEF Process
    <3> QED BY ONLY <1>3, <3>1, k \in Nat
  <2>3. ~(d.entered > 0)
    BY <1>3
  <2>4. d.lost \/ d.ref = Cardinality(HoldersIn(d, "SHARED"))
    BY <1>4, <1>11
  <2> QED BY <1>1, <1>2, <1>4, <1>6, <1>7, <1>12, <2>1, <2>2, <2>3, <2>4 DEF During
<1>14. Released(o, s, d)
  BY <1>4, <1>12 DEF Released, Alike
<1>15. ASSUME d.ref # 0 PROVE Quiet(d)
  <2>1. d.lost \/ Exact(d)
    <3>1. SUFFICES ASSUME ~d.lost PROVE Exact(d)
      OBVIOUS
    <3>2. /\ d.ref = Cardinality(HoldersIn(d, "SHARED"))
          /\ HoldersIn(d, "EXCLUSIVE") = {}
          /\ y = "EXCLUSIVE" => HoldersIn(d, "SHARED") = {}
          /\ s.lock = y
      BY <1>4, <1>11, <3>1
    <3>3. HoldersIn(d, "SHARED") # {}
      BY <1>15, <3>2, FS_EmptySet
    <3>4. d.lock = "SHARED"
      BY <1>4, <1>10, <3>2, <3>3
    <3>5. Alone(d)
      BY <3>2 DEF Alone
    <3> QED BY <3>2, <3>3, <3>4, <3>5 DEF Exact
  <2>2. d.ref > 0
    BY <1>7, <1>15
  <2> QED BY <1>12, <2>1, <2>2 DEF Quiet
<1>16. ASSUME d.ref = 0, ~d.lost PROVE \A p \in Origins : d.holds[p] = "NONE"
  <2>1. HoldersIn(d, "EXCLUSIVE") = {} /\ Cardinality(HoldersIn(d, "SHARED")) = 0
    BY <1>4, <1>11, <1>16
  <2>2. HoldersIn(d, "SHARED") = {}
    BY <2>1, HoldersFinite, FS_EmptySet
  <2>3. \A p \in Origins : d.holds[p] \in {"NONE", "SHARED", "EXCLUSIVE"}
    BY <1>4 DEF Process, Types, Locks
  <2> QED BY <2>1, <2>2, <2>3 DEF HoldersIn
<1> QED BY <1>3, <1>4, <1>13, <1>14, <1>15, <1>16

\* MPIDI_CH3I_Release_lock.
LEMMA ReleaseRest ==
  ASSUME Shape, NEW o \in Origins, NEW s, Rest(o, s), s.holds[o] # "NONE", NoEntry(o, s),
         NEW late, NEW z, z = Release_lock(s, o, late)
  PROVE  Rest(o, z) /\ Released(o, s, z)
<1>1. PICK d : d = Decrement(s, o)
  OBVIOUS
<1>2. /\ During(o, d, d) /\ d.entered = 0 /\ d.queue = s.queue /\ Released(o, s, d)
      /\ d.ref # 0 => Quiet(d)
      /\ d.ref = 0 => d.lost \/ (\A p \in Origins : d.holds[p] = "NONE") \/ conf.delay
  BY <1>1, DecrementRest
<1>3. conf.pool \in Nat
  BY ConfsAssumption DEF Shape
<1>4. Len(d.queue) \in Nat /\ Len(d.queue) <= conf.pool
  BY <1>2 DEF Rest, During, Process
<1>5. d \in Process
  BY <1>2 DEF During
<1>6. CASE d.ref # 0
  <2>1. z = d
    BY <1>1, <1>6 DEF Release_lock
  <2>2. d = [d EXCEPT !.entered = 0]
    <3>1. d.entered = 0
      BY <1>2
    <3> QED BY ONLY <1>5, <3>1 DEF Process
  <2>3. Rest(o, d)
    <3>1. During(o, d, d) /\ Quiet(d)
      BY <1>2, <1>6
    <3> QED BY ONLY <1>3, <1>4, <2>2, <3>1, DuringRest, o \in Origins
  <2> QED BY <1>2, <2>1, <2>3
<1>7. CASE d.ref = 0
  <2>1. PICK l \in Nat : l = Len(d.queue)
    BY <1>4
  <2>2. PICK g : Loops(g, l + 1, d, late) /\ z = [g[l + 1] EXCEPT !.entered = 0]
    BY <1>1, <1>4, <1>7, <2>1, ReleaseFunction
  <2>3. PICK x : x = g[l + 1]
    OBVIOUS
  <2>4. During(o, d, x) /\ Quiet(x)
    <3>1. d.lost \/ (\A p \in Origins : d.holds[p] = "NONE") \/ conf.delay
      BY <1>2, <1>7
    <3>2. During(o, d, d) /\ d.entered = 0
      BY <1>2
    <3>3. Loops(g, l + 1, d, late)
      BY <2>2
    <3>4. During(o, d, g[l + 1]) /\ Quiet(g[l + 1])
      BY ONLY <2>1, <3>1, <3>2, <3>3, ReleaseLoop, Shape, o \in Origins, l \in Nat
    <3> QED BY <2>3, <3>4
  <2>5. Rest(o, z) /\ Released(o, d, z)
    <3>1. z = [x EXCEPT !.entered = 0]
      BY <2>2, <2>3
    <3> QED BY ONLY <1>3, <1>4, <2>4, <3>1, DuringRest, o \in Origins
  <2>6. Released(o, s, z)
    BY <1>2, <2>5 DEF Released, Alike
  <2> QED BY <2>5, <2>6
<1> QED BY <1>6, <1>7

=============================================================================
