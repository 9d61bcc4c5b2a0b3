--------------------------- MODULE LabelRegistry ---------------------------
(***************************************************************************)
(* What a token vault promises its callers, with no transactions, locks or *)
(* counters: a set of bindings of labels to values, of which some are      *)
(* live.  A label is bound afresh or not at all, a value has one live      *)
(* label, and callers are told live bindings only.  The one way out is     *)
(* erasure: once a binding of a session and type has been erased, that     *)
(* session and type may see its numbers again.                             *)
(***************************************************************************)
CONSTANTS Sessions, Types, Numbers, Values

VARIABLES bound, live, told, erased

Binding == [session : Sessions, etype : Types, n : Numbers, value : Values]

Labelled(b, S) == {a \in S : /\ a.session = b.session
                             /\ a.etype = b.etype /\ a.n = b.n}

Init == bound = {} /\ live = {} /\ told = {} /\ erased = {}

(* A binding is made under a fresh label, for a value with no live label.  *)
Bind(b) ==
    /\ ~ \E a \in live : /\ a.session = b.session /\ a.etype = b.etype
                         /\ a.value = b.value
    /\ Labelled(b, bound) = {} \/ <<b.session, b.etype>> \in erased
    /\ bound' = bound \cup {b}
    /\ live' = live \cup {b}
    /\ told' \in {told, told \cup {b}}
    /\ UNCHANGED erased

(* A caller is told the live binding of its value.                         *)
Tell(b) ==
    /\ b \in live
    /\ told' = told \cup {b}
    /\ UNCHANGED <<bound, live, erased>>

(* Bindings stop being live, and those that were not live may be erased.   *)
Retire ==
    /\ bound' \in SUBSET bound
    /\ live' \in SUBSET (live \cap bound')
    /\ erased' \in SUBSET (Sessions \X Types)
    /\ erased \subseteq erased'
    /\ \A b \in bound \ bound' : /\ b \notin live
                                 /\ <<b.session, b.etype>> \in erased'
    /\ UNCHANGED told

Next == (\E b \in Binding : Bind(b) \/ Tell(b)) \/ Retire

Spec == Init /\ [][Next]_<<bound, live, told, erased>>
=============================================================================
