---------------------------- MODULE MCCH3Recvq ----------------------------
(* Instances of CH3Recvq for TLC. *)
EXTENDS CH3Recvq, TLC

\* An intracommunicator sends and receives with the same context id; for an
\* intercommunicator the id it sends with was chosen by the remote group.
OneId == [c \in Comms |-> 1]
RemoteId == [c \in Comms |-> 2]

\* One of each.
MixedId == [c \in Comms |-> IF c = "intra" THEN 1 ELSE 2]
MixedRecvId == [c \in Comms |-> IF c = "intra" THEN 1 ELSE 3]

RankSymmetry == Permutations(Ranks)

\* Of the two things that the comments say of messages for a revoked
\* communicator one holds: what is thrown away "won't be used anyway", or no
\* unexpected messages are left "hanging around".  A behaviour that violates
\* this refutes both comments.
RevokeCommentsHold == DroppedIsUnused \/ RevokedIsClean
=============================================================================
