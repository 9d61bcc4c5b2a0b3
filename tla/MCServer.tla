------------------------------ MODULE MCServer ------------------------------
(* Two workers and a reader of the dashboard.                              *)
EXTENDS Server
CONSTANTS w1, w2, r1
=============================================================================
