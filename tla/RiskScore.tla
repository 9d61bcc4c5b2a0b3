----------------------------- MODULE RiskScore ------------------------------
(***************************************************************************)
(* The risk score of a session (app/context/accumulator.py), as operators  *)
(* on the session's state.                                                 *)
(*                                                                         *)
(* Entities is a function from the keys <<type, value>> seen in the session*)
(* to [last, count]: the turn that mentioned the key last, and how often   *)
(* it was mentioned.  stamps is the sequence of the turns' times, in       *)
(* seconds.  A score is a whole number of hundredths: the thresholds the   *)
(* program compares it with agree with its floating-point sums.            *)
(***************************************************************************)
EXTENDS Integers, Sequences, FiniteSetsExt

CONSTANTS
    Window,        \* window_size_turns
    ComboCap,      \* combo_cap
    RepeatWeight,  \* repeat_weight
    RepeatCap      \* repeat_cap

ASSUME ScoreAssumption ==
    /\ Window \in Nat \ {0}
    /\ ComboCap \in Nat /\ RepeatWeight \in Nat /\ RepeatCap \in Nat

(* combo_weights: the types that must all be active, and the weight.       *)
ComboWeights ==
    {<<{"NAME", "RRN"}, 25>>, <<{"NAME", "RRN", "ACCOUNT"}, 35>>,
     <<{"NAME", "PHONE", "ACCOUNT"}, 30>>, <<{"RRN", "ACCOUNT"}, 20>>,
     <<{"RRN", "ACCOUNT", "PHONE"}, 35>>}

(* velocity_thresholds: turns, seconds they may take, weight.              *)
VelocityThresholds == {<<3, 60, 5>>, <<5, 120, 10>>}

(* _register_spans, for one span of the given key.                         *)
Seen(ents, key) == key \in DOMAIN ents
Mention(ents, key, turn) ==
    [ents EXCEPT ![key] = [last |-> turn, count |-> @.count + 1]]
FirstMention(ents, key, turn) ==
    [k \in DOMAIN ents \cup {key} |->
        IF k = key THEN [last |-> turn, count |-> 1] ELSE ents[k]]
Register(ents, key, turn) ==
    IF Seen(ents, key) THEN Mention(ents, key, turn)
    ELSE FirstMention(ents, key, turn)

(* Mutant: the window is one turn too long.                                *)
LongerWindow(ents, turn) ==
    {k \in DOMAIN ents : ents[k].last >= turn - Window}
(* _active_nodes: the keys mentioned in the last Window turns.             *)
ActiveNodes(ents, turn) ==
    {k \in DOMAIN ents : ents[k].last >= turn - Window + 1}

(* Mutant: a combination scores only when nothing else is active.          *)
ExactComboScore(active) ==
    LET types == {k[1] : k \in active}
        total == SumFunctionOnSet([w \in ComboWeights |-> w[2]],
                                  {w \in ComboWeights : w[1] = types})
    IN  Min({total, ComboCap})
(* _score_combos: the combinations all of whose types are active.          *)
ComboScore(active) ==
    LET types == {k[1] : k \in active}
        total == SumFunctionOnSet([w \in ComboWeights |-> w[2]],
                                  {w \in ComboWeights : w[1] \subseteq types})
    IN  Min({total, ComboCap})

(* _score_repeats: the third and every later mention of an active key.     *)
RepeatScore(active, ents) ==
    LET total == SumFunction(
                   [k \in active |-> Max({0, ents[k].count - 2}) * RepeatWeight])
    IN  Min({total, RepeatCap})

(* _score_velocity: the thresholds that this turn meets.                   *)
Quick(stamps, turn, now, turns, seconds) ==
    /\ turn >= turns /\ Len(stamps) >= turns
    /\ now - stamps[Len(stamps) - turns + 1] <= seconds
VelocityScore(stamps, turn, now) ==
    SumFunctionOnSet([v \in VelocityThresholds |-> v[3]],
                     {v \in VelocityThresholds :
                         Quick(stamps, turn, now, v[1], v[2])})

(* The score accumulate stores, capped at 1.0.                             *)
Risk(active, ents, stamps, turn, now) ==
    Min({100, ComboScore(active) + RepeatScore(active, ents)
                + VelocityScore(stamps, turn, now)})
=============================================================================
