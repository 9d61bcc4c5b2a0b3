----------------------------- MODULE MCEventLog -----------------------------
EXTENDS EventLog

CONSTANTS w1, w2, s1, s2
(* One dashboard sees everything, the other the output path only.          *)
Filters == (s1 :> {"input", "output"}) @@ (s2 :> {"output"})

(* Every sink occurs: the streams see one, the queries the two others.     *)
SomeSettings ==
    {[sink |-> "pg", dashboard |-> "streams"],
     [sink |-> "both", dashboard |-> "queries"],
     [sink |-> "jsonl", dashboard |-> "queries"]}

(* The threads are alike.                                                  *)
Symmetry == Permutations(Writers)
=============================================================================
