------------------------------ MODULE MCCH3RMA ------------------------------
(* Instances of CH3RMA for TLC. *)
EXTENDS CH3RMA, TLC

CONSTANTS o1, o2, o3

S(ops) == <<"SHARED">> \o ops \o <<"unlock">>
X(ops) == <<"EXCLUSIVE">> \o ops \o <<"unlock">>

Progs(A, B, C) == {(o1 :> a @@ o2 :> b @@ o3 :> c) : a \in A, b \in B, c \in C}

Settings(pool, room, progs) ==
  {[delay |-> d, pool |-> p, room |-> r, prog |-> g] :
     d \in BOOLEAN, p \in pool, r \in room, g \in progs}

\* Programs with every kind of operation, with the queue too short for two or
\* long enough, and with and without room for data; and programs that lock the
\* window again while Release_lock may have forgotten a lock.
MCConfs ==
  Settings({1, 2}, {0, 1},
           Progs({X(<<"put", "get">>), X(<<"putd", "flush", "put">>)},
                 {S(<<"putd">>), X(<<"get">>)},
                 {S(<<"get">>), S(<<"putn", "put">>)}))
  \cup Settings({2}, {1},
           Progs({X(<<"put", "put">>) \o X(<<"put", "put">>)}, {S(<<"put">>)}, {S(<<"putn">>)}))

\* One of them in which that happens.
Forgetful ==
  {c \in Settings({2}, {1}, Progs({X(<<"put", "put">>) \o X(<<"put", "put">>)},
                                  {S(<<"put">>)}, {S(<<"putn">>)})) : c.delay}
=============================================================================
