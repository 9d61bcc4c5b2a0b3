------------------------ MODULE MCMultiturnSession --------------------------
(* Two threads on one session; a turn brings an RRN, or an account and the *)
(* same RRN, each with a purpose of its own.                               *)
EXTENDS MultiturnSession, TLC

CONSTANTS p1, p2, s1, s2, support, billing

rrn == <<"RRN", 1>>
account == <<"ACCOUNT", 1>>
Says(keys, what) == [spans |-> keys, purpose |-> what]
SameTurn == {Says(<<rrn>>, support)}
TwoTurns == {Says(<<rrn>>, support), Says(<<account, rrn>>, billing)}

(* Calls that overlap freely while nothing expires, and calls that do not  *)
(* while sessions expire and begin anew.                                   *)
UsedAs(overlap, loop, time) ==
    [calls |-> overlap, sweeping |-> loop, until |-> time]
Overlapping == {UsedAs("any", FALSE, 0)}
AllSettings == Overlapping \cup {UsedAs("input", TRUE, 3), UsedAs("call", FALSE, 3)}
Symmetry == Permutations(Threads)
=============================================================================
