---------------------------- MODULE MCLeafKernel ----------------------------
(***************************************************************************)
(* Calls of the leaf kernels for TLC: every strictly ascending posting of  *)
(* four rows and five malformed ones for the merge kernel, and postings    *)
(* that fill the ring, with every tie and one bad distance, for the fused  *)
(* one.                                                                    *)
(***************************************************************************)
EXTENDS LeafKernel

Ascending(S) ==
  CHOOSE s \in [1 .. Cardinality(S) -> S] :
    \A m, n \in 1 .. Cardinality(S) : m < n => s[m] < s[n]

Malformed == {<<1, 0>>, <<1, 1>>, <<0, 3, 2>>, <<2, Universe>>, <<-1, 2>>}
MCPostings == {Ascending(S) : S \in SUBSET (0 .. 3)} \cup Malformed
Passes == {{}, {0, 2}, Id}

MergeCalls ==
  {r \in [kernel : {"merge"},
          mode : {"equality", "conjunction", "range", "dnf2"},
          left : MCPostings, right : MCPostings,
          passLeft : Passes, passRight : Passes,
          self : 0 .. 2, capacity : {1, 5}, distance : {[n \in Id |-> 0]}] :
     /\ r.mode \in {"equality", "range"} => r.right = <<>>
     /\ r.mode \in {"equality", "conjunction"} => r.passLeft = {}
     /\ r.mode # "dnf2" => r.passRight = {}}

FusedPostings == {Ascending(S) : S \in {{}, {1, 4}, {0, 2, 3, 5}, Id}}

Distances ==
  {d \in [Id -> {-1, 1, 2}] : Cardinality({n \in Id : d[n] = -1}) <= 1
                              /\ d[0] = 1 /\ d[5] # -1}

FusedCalls ==
  {r \in [kernel : {"fused"}, mode : {"range", "dnf2"},
          left : FusedPostings, right : FusedPostings,
          passLeft : {{1, 3, 5}, Id}, passRight : {{0, 1, 2}, Id},
          self : {0, 4}, capacity : {1}, distance : Distances] :
     r.mode = "range" => r.right = <<>> /\ r.passRight = Id}

MCRequests == MergeCalls \cup FusedCalls
=============================================================================
