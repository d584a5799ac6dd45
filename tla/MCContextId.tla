---------------------------- MODULE MCContextId ----------------------------
(* An instance of ContextId for TLC. *)
EXTENDS ContextId

\* Three processes.  "a" is nonblocking on a communicator of 1 and 2, "b" a
\* blocking split of all in which 3 ignores the id, "c" a blocking allocation
\* of 1 alone whose place in the list is before the others.
MCmembers == [a |-> {1, 2}, b |-> {1, 2, 3}, c |-> {1}]
MCignorers == [a |-> {}, b |-> {3}, c |-> {}]
MCparent == [a |-> 2, b |-> 2, c |-> 1]
MCtag == [a |-> 4, b |-> 3, c |-> 3]

\* Ids 1 (eager), 2 and 3; process 2 may have given some away.
MCMasks == {[p \in Procs |-> IF p = 2 THEN S ELSE {1, 2, 3}] :
               S \in {{1, 2, 3}, {2}}}
=============================================================================
