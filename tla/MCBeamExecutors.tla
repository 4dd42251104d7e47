-------------------------- MODULE MCBeamExecutors ---------------------------
(***************************************************************************)
(* Queries for TLC over ten vertices: three graphs, distances with and     *)
(* without ties, narrow and wide beams, every kind of cut, filters small   *)
(* enough to collide, and one graph in which a visited vertex comes back   *)
(* to the beam; the later searches reuse the workspace, one of them        *)
(* touching little of it.                                                  *)
(***************************************************************************)
EXTENDS BeamExecutors

N == 0 .. 9

Graphs ==
  << [x \in N |-> IF x = 0 THEN <<1, 2, 3, 4, 5, 6, 7>> ELSE <<(x % 9) + 1, 8, 9>>],
     [x \in N |-> <<(x + 1) % 10, (x + 3) % 10, (x + 5) % 10, (x + 6) % 10>>],
     [x \in N |-> IF x < 3 THEN <<2 - x, x + 1>> ELSE <<x - 1, 6, 0>>],
     [x \in N |-> IF x = 3 THEN <<1, 4, 5>> ELSE <<3, 6>>] >>

Distance(a, b, m) == [x \in N |-> 3 + ((a * x + b) % m)]

Query(g, d, starts, s, limit) ==
  [edges |-> Graphs[g], dist |-> d, prefix |-> [x \in N |-> d[x] - (x % 2)],
   starts |-> starts, self |-> 6 - g, beam |-> s[1], k |-> s[2],
   num |-> s[3], den |-> 20, metric |-> TRUE, limit |-> limit,
   degree |-> 7, offset |-> IF g = 2 /\ s[2] = 1 THEN 1 ELSE 0,
   stride |-> IF g = 2 /\ s[2] = 1 THEN 2 ELSE 1,
   slots |-> s[4], eligible |-> s[3] # 60, force |-> TRUE]

(* beam, k, twentieths of the cut, filter slots                            *)
Shapes == {<<7, 1, 60, 8>>, <<6, 1, 30, 8>>, <<3, 2, 27, 2>>, <<2, 2, 27, 4>>,
           <<4, 2, 20, 2>>}

FirstQueries ==
  {Query(g, Distance(a, b, m), starts, s, limit) :
     g \in 1 .. 3, a \in {3, 7}, b \in {4}, m \in {4, 11},
     starts \in {<<0>>, <<4, 1>>}, s \in Shapes, limit \in {50}}

Returning ==
  Query(4, [x \in N |-> CASE x = 1 -> 1 [] x \in {4, 5} -> 5 [] OTHER -> 6],
        <<3>>, <<4, 2, 20, 8>>, 50)

Brief == Query(3, Distance(1, 4, 11), <<8>>, <<3, 2, 27, 2>>, 1)

LaterQueries ==
  {Query(1, Distance(3, 4, 11), <<2>>, s, 50) :
     s \in {<<6, 1, 60, 8>>, <<3, 2, 27, 2>>}}

MCQueries ==
  <<FirstQueries \cup {Returning}, LaterQueries \cup {Brief}, LaterQueries>>

=============================================================================
