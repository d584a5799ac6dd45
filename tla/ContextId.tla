------------------------------ MODULE ContextId ------------------------------
(***************************************************************************)
(* The allocation of context ids (src/mpi/comm/contextid.c).               *)
(*                                                                         *)
(* Each process keeps a mask of free context ids.  To create a             *)
(* communicator its processes AND their masks in an Allreduce and take the *)
(* first common id.  Several allocations run at once, in threads or in     *)
(* nonblocking schedules, and only one at a time may use the mask of a     *)
(* process; the others contribute an empty mask, and everybody tries       *)
(* again.  The first attempt of an allocation uses the eager segment of    *)
(* the mask.  Later attempts use the rest, which on each process goes to   *)
(* the first of the allocations in the list next_gcn.                      *)
(*                                                                         *)
(* A step is what a process does between two points where it waits or      *)
(* yields with the lock released.                                          *)
(***************************************************************************)
EXTENDS Naturals, Sequences, FiniteSets

CONSTANTS Procs,            \* the processes
          Ops,              \* the allocations
          members,          \* members[o]: the processes that call it
          ignorers,         \* ignorers[o]: those that pass ignore_id
          nonblocking,      \* the allocations made by a schedule
          temporary,        \* those whose communicator the program frees
          parent,           \* parent[o]: context_id of the parent communicator
          tag,              \* tag[o]: tag, or tag of the schedule plus tag_ub
          INT_BITS,         \* MPIR_CONTEXT_INT_BITS: ids in a word of the mask
          MAX_CONTEXT_MASK, \* MPIR_MAX_CONTEXT_MASK: words of the mask
          eager_nelem,      \* words of the eager segment
          InitialMasks      \* the masks that earlier allocations may leave

Ids == 0 .. INT_BITS * MAX_CONTEXT_MASK - 1
Word(i) == i \div INT_BITS
EagerIds == {i \in Ids : Word(i) < eager_nelem}

ASSUME SizeAssumption == /\ INT_BITS \in Nat \ {0}
                         /\ MAX_CONTEXT_MASK \in Nat
                         /\ eager_nelem \in 0 .. MAX_CONTEXT_MASK - 1
ASSUME OpsAssumption == \A o \in Ops : /\ members[o] \subseteq Procs
                                       /\ ignorers[o] \subseteq members[o]
                                       /\ o \in nonblocking => ignorers[o] = {}
                                       /\ parent[o] \in Nat /\ tag[o] \in Nat
ASSUME MasksAssumption == InitialMasks \subseteq [Procs -> SUBSET (Ids \ {0})]

VARIABLES context_mask,     \* context_mask[p]: the free ids of p
          eager_in_use,     \* eager_in_use[p], mask_in_use[p]: the flags
          mask_in_use,
          next_gcn,         \* next_gcn[p]: the list of pending allocations
          pc,               \* pc[p][o]: where p is in allocation o
          own,              \* own[p][o]: own_eager_mask or own_mask of p
          first_iter,       \* first_iter[p][o]
          local_mask,       \* local_mask[p][o]: contribution, then result
          ALL_OWN,          \* ALL_OWN[p][o]: its ALL_OWN_MASK_FLAG
          context_id,       \* context_id[p][o]: the id that p got, or 0
          aborted           \* an assertion failed

vars == <<context_mask, eager_in_use, mask_in_use, next_gcn, pc, own,
          first_iter, local_mask, ALL_OWN, context_id, aborted>>

Pc == {"idle", "ready", "reduce", "reduced", "yield", "error", "fail",
       "done", "freed", "failed"}

Ended == {"done", "freed", "failed"}

Init ==
  /\ context_mask \in InitialMasks
  /\ eager_in_use = [p \in Procs |-> FALSE]
  /\ mask_in_use = [p \in Procs |-> FALSE]
  /\ next_gcn = [p \in Procs |-> <<>>]
  /\ pc = [p \in Procs |-> [o \in Ops |-> "idle"]]
  /\ own = [p \in Procs |-> [o \in Ops |-> "none"]]
  /\ first_iter = [p \in Procs |-> [o \in Ops |-> TRUE]]
  /\ local_mask = [p \in Procs |-> [o \in Ops |-> {}]]
  /\ ALL_OWN = [p \in Procs |-> [o \in Ops |-> FALSE]]
  /\ context_id = [p \in Procs |-> [o \in Ops |-> 0]]
  /\ aborted = FALSE

-----------------------------------------------------------------------------
(* The mask and the list.                                                  *)

\* Mutant: the scan of the mask is not deterministic.
locate_context_bitAny(S, i) == IF S = {} THEN i = 0 ELSE i \in S

\* Is i what locate_context_bit returns for mask S?  The highest bit of the
\* first word that is not zero, or 0.
locate_context_bit(S, i) ==
  IF S = {} THEN i = 0
  ELSE i \in S /\ \A j \in S : Word(i) < Word(j) \/ (Word(i) = Word(j) /\ j <= i)

\* Mutant: the list is a queue.
BeforeQueue(o, n) == TRUE

\* The order of the list: by context id of the parent, then by tag.  A new
\* element goes behind those that are not greater.
Before(o, n) == \/ parent[o] < parent[n]
                \/ parent[o] = parent[n] /\ tag[o] <= tag[n]

add_gcn_to_list(list, o) ==
  LET k == Cardinality({i \in 1 .. Len(list) : \A j \in 1 .. i : Before(list[j], o)})
  IN  SubSeq(list, 1, k) \o <<o>> \o SubSeq(list, k + 1, Len(list))

\* The list without o, which is in it at most once.
Removed(list, o) ==
  LET at == {k \in DOMAIN list : list[k] = o}
      k == CHOOSE k \in at : TRUE
  IN  IF at = {} THEN list
      ELSE SubSeq(list, 1, k - 1) \o SubSeq(list, k + 1, Len(list))

Ignores(p, o) == p \in ignorers[o]

-----------------------------------------------------------------------------
\* The user may call a routine that creates a communicator.  Nonblocking calls
\* on one communicator are made in the order of their tags.
Callable(p, o) ==
  /\ pc[p][o] = "idle"
  /\ p \in members[o]
  /\ \A n \in nonblocking : (/\ o \in nonblocking /\ parent[n] = parent[o]
                             /\ tag[n] < tag[o] /\ p \in members[n])
                               => pc[p][n] # "idle"

\* p contributes mask S to the Allreduce of o, with the ownership w.
Contribute(p, o, S, w, all) ==
  /\ local_mask' = [local_mask EXCEPT ![p][o] = S]
  /\ own' = [own EXCEPT ![p][o] = w]
  /\ ALL_OWN' = [ALL_OWN EXCEPT ![p][o] = all]

\* The first attempt: the eager segment, unless another allocation has it.
ReserveEager(p, o) ==
  /\ first_iter[p][o]
  /\ \/ /\ ~eager_in_use[p] /\ eager_nelem > 0
        /\ eager_in_use' = [eager_in_use EXCEPT ![p] = TRUE]
        /\ Contribute(p, o, context_mask[p] \cap EagerIds, "eager", FALSE)
     \/ /\ eager_in_use[p] \/ eager_nelem = 0
        /\ Contribute(p, o, {}, "none", FALSE)
        /\ UNCHANGED eager_in_use
  /\ UNCHANGED mask_in_use

\* Mutant: who is first in the list takes the mask although it is in use.
ReserveMaskUnasked(p, o) ==
  /\ ~first_iter[p][o]
  /\ \/ /\ o = Head(next_gcn[p])
        /\ mask_in_use' = [mask_in_use EXCEPT ![p] = TRUE]
        /\ Contribute(p, o, context_mask[p] \ EagerIds, "mask", TRUE)
     \/ /\ o # Head(next_gcn[p])
        /\ Contribute(p, o, {}, "none", FALSE)
        /\ UNCHANGED mask_in_use
  /\ UNCHANGED eager_in_use

\* Later attempts: the rest of the mask, if the allocation is the first of the
\* list and no other still has the mask.
ReserveMask(p, o) ==
  /\ ~first_iter[p][o]
  /\ \/ /\ ~mask_in_use[p] /\ o = Head(next_gcn[p])
        /\ mask_in_use' = [mask_in_use EXCEPT ![p] = TRUE]
        /\ Contribute(p, o, context_mask[p] \ EagerIds, "mask", TRUE)
     \/ /\ mask_in_use[p] \/ o # Head(next_gcn[p])
        /\ Contribute(p, o, {}, "none", FALSE)
        /\ UNCHANGED mask_in_use
  /\ UNCHANGED eager_in_use

\* The start of an iteration, in MPIR_Get_contextid_sparse_group and in
\* sched_cb_gcn_copy_mask; the first one starts with the call.  Who ignores
\* the id has nothing against any id.
Reserve(p, o) ==
  /\ ~aborted
  /\ Callable(p, o) \/ pc[p][o] = "ready"
  /\ \/ /\ Ignores(p, o)
        /\ Contribute(p, o, Ids, "none", TRUE)
        /\ UNCHANGED <<eager_in_use, mask_in_use>>
     \/ ~Ignores(p, o) /\ ReserveEager(p, o)
     \/ ~Ignores(p, o) /\ ReserveMask(p, o)
  /\ pc' = [pc EXCEPT ![p][o] = "reduce"]
  /\ UNCHANGED <<context_mask, next_gcn, first_iter, context_id, aborted>>

\* External: the Allreduce with MPI_BAND.  Its result exists when all have
\* contributed; each process goes on when it likes.
Allreduce(o) ==
  /\ ~aborted
  /\ \A p \in members[o] : pc[p][o] = "reduce"
  /\ pc' = [p \in Procs |-> [pc[p] EXCEPT ![o] = IF p \in members[o]
                                                 THEN "reduced" ELSE @]]
  /\ local_mask' =
       [p \in Procs |-> [local_mask[p] EXCEPT
          ![o] = {i \in Ids : \A q \in members[o] : i \in local_mask[q][o]}]]
  /\ ALL_OWN' =
       [p \in Procs |-> [ALL_OWN[p] EXCEPT
          ![o] = \A q \in members[o] : ALL_OWN[q][o]]]
  /\ UNCHANGED <<context_mask, eager_in_use, mask_in_use, next_gcn, own,
                 first_iter, context_id, aborted>>

\* An iteration gave no id.  If all who take part owned their masks there is no
\* common id: an error, after a second Allreduce.  Otherwise try again; the
\* allocation enters the list when its first Allreduce is over.
NoId(p, o) ==
  \/ /\ ALL_OWN[p][o]
     /\ pc' = [pc EXCEPT ![p][o] = "error"]
     /\ UNCHANGED <<next_gcn, first_iter>>
  \/ /\ ~ALL_OWN[p][o]
     /\ pc' = [pc EXCEPT ![p][o] = "ready"]
     /\ first_iter' = [first_iter EXCEPT ![p][o] = FALSE]
     /\ next_gcn' = [next_gcn EXCEPT
                       ![p] = IF first_iter[p][o] /\ ~Ignores(p, o)
                              THEN add_gcn_to_list(@, o) ELSE @]

\* Mutant: the mask is given up only after a failed attempt.
ReleaseFound(p, o, i) ==
  /\ eager_in_use' = [eager_in_use EXCEPT ![p] = @ /\ own[p][o] # "eager"]
  /\ mask_in_use' = [mask_in_use EXCEPT ![p] = @ /\ (own[p][o] # "mask" \/ i = 0)]
  /\ own' = [own EXCEPT ![p][o] = IF @ = "eager" THEN "none" ELSE @]

\* The masks are given up after each attempt, whether it gave id i or 0.
Release(p, o, i) ==
  /\ eager_in_use' = [eager_in_use EXCEPT ![p] = @ /\ own[p][o] # "eager"]
  /\ mask_in_use' = [mask_in_use EXCEPT ![p] = @ /\ own[p][o] # "mask"]
  /\ own' = [own EXCEPT ![p][o] = IF @ = "eager" THEN "none" ELSE @]

\* Mutant: the bit is cleared in local_mask only.
allocate_context_bitLocal(p, o, i) ==
  /\ aborted' = (~Ignores(p, o) /\ i \notin context_mask[p])
  /\ UNCHANGED context_mask

\* p takes id i out of its mask, unless it ignores the id.  The bit must be
\* set.
allocate_context_bit(p, o, i) ==
  /\ context_mask' = [context_mask EXCEPT ![p] = IF Ignores(p, o) THEN @
                                                 ELSE @ \ {i}]
  /\ aborted' = (~Ignores(p, o) /\ i \notin context_mask[p])

\* The end of an iteration, when the Allreduce has returned:
\* MPIR_Get_contextid_sparse_group and sched_cb_gcn_allocate_cid.  A blocking
\* allocation that has no id yields before it goes on.  local_mask is not read
\* again before it is set.
Finish(p, o) ==
  /\ ~aborted
  /\ pc[p][o] = "reduced"
  /\ \E i \in Ids :
       /\ IF own[p][o] # "none" \/ Ignores(p, o)
          THEN locate_context_bit(local_mask[p][o], i) ELSE i = 0
       /\ Release(p, o, i)
       /\ context_id' = [context_id EXCEPT ![p][o] = i]
       /\ \/ /\ i # 0
             /\ allocate_context_bit(p, o, i)
             /\ next_gcn' = [next_gcn EXCEPT ![p] = Removed(@, o)]
             /\ pc' = [pc EXCEPT ![p][o] = "done"]
             /\ UNCHANGED first_iter
          \/ /\ i = 0
             /\ o \in nonblocking
             /\ NoId(p, o)
             /\ UNCHANGED <<context_mask, aborted>>
          \/ /\ i = 0
             /\ o \notin nonblocking
             /\ pc' = [pc EXCEPT ![p][o] = "yield"]
             /\ UNCHANGED <<context_mask, next_gcn, first_iter, aborted>>
  /\ local_mask' = [local_mask EXCEPT ![p][o] = {}]
  /\ UNCHANGED ALL_OWN

\* A blocking allocation goes on after it has yielded.  On its way to the error
\* it resets mask_in_use once more.
Retry(p, o) ==
  /\ ~aborted
  /\ pc[p][o] = "yield"
  /\ NoId(p, o)
  /\ mask_in_use' = [mask_in_use EXCEPT
                       ![p] = @ /\ ~(ALL_OWN[p][o] /\ own[p][o] = "mask")]
  /\ UNCHANGED <<context_mask, eager_in_use, own, local_mask, ALL_OWN,
                 context_id, aborted>>

\* External: the Allreduce of minfree, which only chooses the error message.
ErrorAllreduce(o) ==
  /\ ~aborted
  /\ \A p \in members[o] : pc[p][o] = "error"
  /\ pc' = [p \in Procs |-> [pc[p] EXCEPT ![o] = IF p \in members[o]
                                                 THEN "fail" ELSE @]]
  /\ UNCHANGED <<context_mask, eager_in_use, mask_in_use, next_gcn, own,
                 first_iter, local_mask, ALL_OWN, context_id, aborted>>

\* Mutant: the failed allocation stays in the list.
fn_failInList(p, o) ==
  /\ ~aborted
  /\ pc[p][o] = "fail"
  /\ pc' = [pc EXCEPT ![p][o] = "failed"]
  /\ mask_in_use' = [mask_in_use EXCEPT
                       ![p] = @ /\ (own[p][o] # "mask" \/ o \in nonblocking)]
  /\ UNCHANGED <<context_mask, eager_in_use, next_gcn, own, first_iter,
                 local_mask, ALL_OWN, context_id, aborted>>

\* fn_fail: "Release the masks".  A blocking allocation resets mask_in_use a
\* third time.
fn_fail(p, o) ==
  /\ ~aborted
  /\ pc[p][o] = "fail"
  /\ pc' = [pc EXCEPT ![p][o] = "failed"]
  /\ mask_in_use' = [mask_in_use EXCEPT
                       ![p] = @ /\ (own[p][o] # "mask" \/ o \in nonblocking)]
  /\ next_gcn' = [next_gcn EXCEPT ![p] = Removed(@, o)]
  /\ UNCHANGED <<context_mask, eager_in_use, own, first_iter, local_mask,
                 ALL_OWN, context_id, aborted>>

\* MPIR_Free_contextid: p frees the communicator.
Free_contextid(p, o) ==
  /\ ~aborted
  /\ o \in temporary
  /\ pc[p][o] = "done"
  /\ ~Ignores(p, o)
  /\ aborted' = (context_id[p][o] \in context_mask[p])
  /\ context_mask' = [context_mask EXCEPT ![p] = @ \cup {context_id[p][o]}]
  /\ pc' = [pc EXCEPT ![p][o] = "freed"]
  /\ UNCHANGED <<eager_in_use, mask_in_use, next_gcn, own, first_iter,
                 local_mask, ALL_OWN, context_id>>

AllEnded == \A o \in Ops : \A p \in members[o] : pc[p][o] \in Ended

Next == \/ \E p \in Procs, o \in Ops : \/ Reserve(p, o)
                                       \/ Finish(p, o)
                                       \/ Retry(p, o)
                                       \/ fn_fail(p, o)
                                       \/ Free_contextid(p, o)
        \/ \E o \in Ops : Allreduce(o) \/ ErrorAllreduce(o)
        \/ (aborted \/ AllEnded) /\ UNCHANGED vars

Spec == Init /\ [][Next]_vars

\* Every process calls what it takes part in; its threads and its progress
\* engine go on with an allocation, and an Allreduce to which all have
\* contributed ends.  Nobody need free a communicator.
Fairness == \A o \in Ops :
  /\ WF_vars(Allreduce(o) \/ ErrorAllreduce(o))
  /\ \A p \in Procs :
       WF_vars(Reserve(p, o) \/ Finish(p, o) \/ Retry(p, o) \/ fn_fail(p, o))

FairSpec == Spec /\ Fairness

-----------------------------------------------------------------------------
(* Properties.                                                             *)

\* Type correctness.
TypeOK ==
  /\ context_mask \in [Procs -> SUBSET Ids]
  /\ eager_in_use \in [Procs -> BOOLEAN] /\ mask_in_use \in [Procs -> BOOLEAN]
  /\ next_gcn \in [Procs -> Seq(Ops)]
  /\ pc \in [Procs -> [Ops -> Pc]]
  /\ own \in [Procs -> [Ops -> {"none", "eager", "mask"}]]
  /\ first_iter \in [Procs -> [Ops -> BOOLEAN]]
  /\ local_mask \in [Procs -> [Ops -> SUBSET Ids]]
  /\ ALL_OWN \in [Procs -> [Ops -> BOOLEAN]]
  /\ context_id \in [Procs -> [Ops -> Ids]]
  /\ aborted \in BOOLEAN

\* Some allocation found no common id.
Exhausted == \E p \in Procs, o \in Ops : pc[p][o] \in {"error", "fail", "failed"}

Takes(p, o) == p \in members[o] /\ ~Ignores(p, o)

\* The processes of a communicator have the same context id, though each picks
\* it from the result by itself.
MembersAgree ==
  \A o \in Ops, p, q \in Procs :
    (/\ Takes(p, o) /\ pc[p][o] \in {"done", "freed"}
     /\ Takes(q, o) /\ pc[q][o] \in {"done", "freed"})
      => context_id[p][o] = context_id[q][o]

\* Two communicators of a process never have the same context id, and no id in
\* use is free, unless an assertion has stopped the program.
IdsAreDistinct ==
  \A p \in Procs, o \in Ops :
    Takes(p, o) /\ pc[p][o] = "done" /\ ~aborted
      => /\ context_id[p][o] \notin context_mask[p]
         /\ \A n \in Ops \ {o} : Takes(p, n) /\ pc[p][n] = "done"
                                   => context_id[p][n] # context_id[p][o]

\* The assertions that an id is free when it is allocated and in use when it is
\* freed hold, until an allocation fails for lack of ids: such an allocation
\* resets mask_in_use again and again while others may own the mask.
AssertOnlyAfterExhaustion == aborted => Exhausted

UsesMask(p, w) == {o \in Ops : pc[p][o] \in {"reduce", "reduced"} /\ own[p][o] = w}

\* The two flags tell whether an allocation uses the mask: no segment is used
\* twice, none stays reserved by nobody.
FlagsAreExact ==
  \A p \in Procs :
    /\ Cardinality(UsesMask(p, "eager")) = IF eager_in_use[p] THEN 1 ELSE 0
    /\ Exhausted \/ Cardinality(UsesMask(p, "mask")) = IF mask_in_use[p] THEN 1 ELSE 0

\* The list holds exactly the allocations that are past their first iteration
\* and not over, each once, in the order of parent and tag: it is in this order
\* that the allocations of a process get the mask.
ListIsPending ==
  \A p \in Procs :
    /\ {next_gcn[p][i] : i \in DOMAIN next_gcn[p]} =
         {o \in Ops : Takes(p, o) /\ ~first_iter[p][o] /\ pc[p][o] \notin Ended}
    /\ \A i, j \in DOMAIN next_gcn[p] :
         LET o == next_gcn[p][i]  n == next_gcn[p][j]
         IN  i < j => /\ o # n
                      /\ \/ parent[o] < parent[n]
                         \/ parent[o] = parent[n] /\ tag[o] <= tag[n]

\* Every allocation ends, with an id or an error, on all processes: the
\* allocations of different processes never wait for each other in a circle
\* and never take the masks from each other for ever.
AllocationsEnd == <>(aborted \/ AllEnded)
=============================================================================
