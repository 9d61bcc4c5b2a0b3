--------------------------- MODULE RiskAccumulator --------------------------
(***************************************************************************)
(* One session whose turns arrive one after the other: what accumulate     *)
(* (app/context/accumulator.py) makes of them.  multiturn_stage gives each *)
(* turn the index turn_count + 1.                                          *)
(*                                                                         *)
(* history keeps the turns themselves; the state of the session keeps only *)
(* last mentions and counts.  The properties compare the two.              *)
(***************************************************************************)
EXTENDS RiskScore, SequencesExt

CONSTANTS
    Turns,      \* the span lists a turn may bring: sequences of keys
    Gaps,       \* seconds between two turns
    MaxTurns,   \* bound on the turns
    HardBlocks  \* values cfg.risk.hard_block is given (config.py, config.yaml)

ASSUME AccumulatorAssumption ==
    /\ \A spans \in Turns : spans \in Seq(Range(spans))
    /\ Gaps \subseteq Nat /\ MaxTurns \in Nat /\ HardBlocks \subseteq Nat

VARIABLES
    entities,    \* state.entities
    stamps,      \* state.turn_timestamps
    turn_count,  \* state.turn_count
    risk_score,  \* state.risk_score
    history      \* history: the turns so far

vars == <<entities, stamps, turn_count, risk_score, history>>

Init ==
    /\ entities = [k \in {} |-> 0]
    /\ stamps = <<>>
    /\ turn_count = 0
    /\ risk_score = 0
    /\ history = <<>>

Now(gap) == IF stamps = <<>> THEN gap ELSE stamps[Len(stamps)] + gap

RegisterSpans(ents, spans, turn) ==
    LET after[i \in 0 .. Len(spans)] ==
            IF i = 0 THEN ents ELSE Register(after[i - 1], spans[i], turn)
    IN  after[Len(spans)]

(* accumulate, as multiturn_stage calls it.                                *)
Accumulate(spans, gap) ==
    LET turn   == turn_count + 1
        ents   == RegisterSpans(entities, spans, turn)
        times  == Append(stamps, Now(gap))
        active == ActiveNodes(ents, turn)
    IN  /\ turn_count < MaxTurns
        /\ turn_count' = turn
        /\ stamps' = times
        /\ entities' = ents
        /\ risk_score' = Risk(active, ents, times, turn, Now(gap))
        /\ history' = Append(history, spans)

Next == \E spans \in Turns, gap \in Gaps : Accumulate(spans, gap)
Spec == Init /\ [][Next]_vars
-----------------------------------------------------------------------------
(* The conversation as a reader of history sees it.                        *)
Recent == {i \in DOMAIN history : i > Len(history) - Window}
RecentKeys == UNION {Range(history[i]) : i \in Recent}
RecentTypes == {k[1] : k \in RecentKeys}
Mentions(key) ==
    SumFunction([i \in DOMAIN history |->
                    Cardinality({j \in DOMAIN history[i] : history[i][j] = key})])

(* The last mentions and counts that accumulate keeps are enough: its      *)
(* score is the one computed from the whole conversation, each combination *)
(* of types of the last Window turns once, and every mention of a value    *)
(* counted over the whole session (accumulator.py:13-16, 142-146).         *)
ScoreOfConversation ==
    LET extra == SumFunction([k \in RecentKeys |-> Max({2, Mentions(k)}) - 2])
        speed == IF stamps = <<>> THEN 0
                 ELSE VelocityScore(stamps, Len(history), stamps[Len(stamps)])
    IN  risk_score = Min({100, ComboScore(RecentKeys) + speed
                                 + Min({RepeatCap, extra * RepeatWeight})})

(* Repetition and speed alone never block: a block needs a combination of  *)
(* types in the last Window turns, so that a change of topic is forgiven   *)
(* (accumulator.py:172-173).                                               *)
BlockedForRecentCombination ==
    \A h \in HardBlocks : risk_score >= h =>
        \E w \in ComboWeights : w[1] \subseteq RecentTypes

(* accumulator.py:36-39: the representative scenario, a name, an RRN and   *)
(* an account spread over turns, is blocked by its combinations alone,     *)
(* whatever else is mentioned and however slowly.                          *)
RepresentativeScenarioBlocks ==
    {"NAME", "RRN", "ACCOUNT"} \subseteq RecentTypes =>
        \A h \in HardBlocks : risk_score >= h

=============================================================================
