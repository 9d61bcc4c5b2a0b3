---------------------------- MODULE MCTokenVault ----------------------------
(* Instances of TokenVault for TLC.                                        *)
EXTENDS TokenVault, TLC

CONSTANTS p1, p2, s1, s2, u1, u2, RRN, UNKNOWN, FOO, v1, v2, agent,
          support

AloneUuid == s1 :> u1

OpenScope == {[roles |-> {Wildcard}, purposes |-> {Wildcard}]}
=============================================================================
