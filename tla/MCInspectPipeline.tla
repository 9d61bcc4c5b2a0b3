------------------------- MODULE MCInspectPipeline --------------------------
(* Entity types, roles and purposes for which the shipped policy           *)
(* tokenizes, generalizes (RRN under data_analysis), keeps (PHONE under    *)
(* fraud_investigation for agent_l2) and blocks (from a risk of 80).       *)
EXTENDS InspectPipeline, TLC

Symmetry == Permutations(Threads)
=============================================================================
