---------------------------- MODULE PolicyCache -----------------------------
(***************************************************************************)
(* The ruleset cache of the policy engine (app/policy/engine.py, ruleset   *)
(* and _load_ruleset) in the threads of a process, while                   *)
(* scripts/seed_policy.py writes the policy tables and                     *)
(* scripts/apply_schema.py drops and makes them anew.                      *)
(*                                                                         *)
(* _load_ruleset reads three tables in one transaction, one statement      *)
(* after the other; each sees what is committed when it runs.  TRUNCATE    *)
(* and DROP need the tables to themselves: they wait for the transactions  *)
(* that have read them.  Both restart the version numbers, so that the     *)
(* version a loader has read is also the number of the next one.  One      *)
(* script runs at a time (README.md, section 3).                           *)
(***************************************************************************)
EXTENDS PolicyRules

CONSTANTS
    Threads,
    Policies,   \* what policy.yaml may contain: rulesets
    Entities,   \* entity types asked for
    Roles,      \* roles asked for, and NoRole
    Risks,      \* risk scores asked with
    NotLoaded,  \* _cache is None
    MaxRuns     \* bound on the runs of the two scripts

ASSUME PolicyAssumption ==
    /\ NotLoaded \notin Policies \cup {EmptyRuleset}
    /\ \A p \in Policies : p = [rules |-> p.rules, overrides |-> p.overrides]

VARIABLES
    tables,   \* [there, active, rules, overrides] of the committed tables
    seeding,  \* seed_policy.py: the set of the policy it is about to write
    runs,     \* how often a script was started
    cache,    \* _cache
    pc,       \* where a thread is
    loaded,   \* the ruleset a thread is reading
    used      \* the ruleset of the last decision

vars == <<tables, seeding, runs, cache, pc, loaded, used>>

EmptyTables == [there |-> TRUE, active |-> FALSE, rules |-> {}, overrides |-> {}]
NoTables == [EmptyTables EXCEPT !.there = FALSE]
Filled(policy) ==
    [there |-> TRUE, active |-> TRUE,
     rules |-> policy.rules, overrides |-> policy.overrides]

Queries ==
    [purpose : ShippedPurposes, role : Roles, entity : Entities,
     risk : Risks, injected : BOOLEAN]

Init ==
    /\ tables \in {EmptyTables, NoTables} \cup {Filled(p) : p \in Policies}
    /\ seeding = {} /\ runs = 0
    /\ cache = NotLoaded
    /\ pc = [t \in Threads |-> "idle"]
    /\ loaded = [t \in Threads |-> EmptyRuleset]
    /\ used = NotLoaded

-----------------------------------------------------------------------------
(* seed_policy.py.  seeding holds the policy between its two commits.      *)
Reading == {t \in Threads : pc[t] \in {"rules", "overrides"}}

(* Mutant: TRUNCATE does not wait for the readers.                         *)
TruncateAtOnce(policy) ==
    /\ seeding = {} /\ runs < MaxRuns
    /\ tables.there
    /\ seeding' = {policy} /\ runs' = runs + 1
    /\ tables' = EmptyTables
    /\ UNCHANGED <<cache, pc, loaded, used>>
(* --reset: the tables are emptied, and that is committed.                 *)
Truncate(policy) ==
    /\ seeding = {} /\ runs < MaxRuns
    /\ tables.there /\ Reading = {}
    /\ seeding' = {policy} /\ runs' = runs + 1
    /\ tables' = EmptyTables
    /\ UNCHANGED <<cache, pc, loaded, used>>

(* Without --reset it refuses to run when a version is active.             *)
Check(policy) ==
    /\ seeding = {} /\ runs < MaxRuns
    /\ tables.there /\ ~tables.active
    /\ seeding' = {policy} /\ runs' = runs + 1
    /\ UNCHANGED <<tables, cache, pc, loaded, used>>

(* seed: one transaction.                                                  *)
Seed ==
    \E policy \in seeding :
        /\ tables' = Filled(policy)
        /\ seeding' = {}
        /\ UNCHANGED <<runs, cache, pc, loaded, used>>

(* The script dies before it.                                              *)
SeedDies ==
    /\ seeding # {} /\ seeding' = {}
    /\ UNCHANGED <<tables, runs, cache, pc, loaded, used>>

(* apply_schema.py: DROP SCHEMA commits by itself, and the script may die  *)
(* before it has run schema.sql; with --keep it runs schema.sql alone.     *)
DropSchema ==
    /\ seeding = {} /\ runs < MaxRuns
    /\ Reading = {}
    /\ tables' = NoTables /\ runs' = runs + 1
    /\ UNCHANGED <<seeding, cache, pc, loaded, used>>

CreateSchema ==
    /\ ~tables.there
    /\ tables' = EmptyTables
    /\ UNCHANGED <<seeding, runs, cache, pc, loaded, used>>

-----------------------------------------------------------------------------
(* ruleset and _load_ruleset.                                              *)
Ask(t) ==
    /\ pc[t] = "idle"
    /\ pc' = [pc EXCEPT ![t] = IF cache = NotLoaded THEN "version" ELSE "decide"]
    /\ UNCHANGED <<tables, seeding, runs, cache, loaded, used>>

ReadVersion(t) ==
    /\ pc[t] = "version" /\ tables.there
    /\ pc' = [pc EXCEPT ![t] = IF tables.active THEN "rules" ELSE "store"]
    /\ loaded' = [loaded EXCEPT ![t] = EmptyRuleset]
    /\ UNCHANGED <<tables, seeding, runs, cache, used>>

ReadRules(t) ==
    /\ pc[t] = "rules"
    /\ pc' = [pc EXCEPT ![t] = "overrides"]
    /\ loaded' = [loaded EXCEPT ![t].rules = tables.rules]
    /\ UNCHANGED <<tables, seeding, runs, cache, used>>

ReadOverrides(t) ==
    /\ pc[t] = "overrides"
    /\ pc' = [pc EXCEPT ![t] = "store"]
    /\ loaded' = [loaded EXCEPT ![t].overrides = tables.overrides]
    /\ UNCHANGED <<tables, seeding, runs, cache, used>>

(* A statement raises, as it must while the tables are missing: nothing is *)
(* cached, and the stage blocks the request.                               *)
LoadFails(t) ==
    /\ pc[t] \in {"version", "rules", "overrides"}
    /\ pc' = [pc EXCEPT ![t] = "idle"]
    /\ UNCHANGED <<tables, seeding, runs, cache, loaded, used>>

Store(t) ==
    /\ pc[t] = "store"
    /\ cache' = loaded[t]
    /\ pc' = [pc EXCEPT ![t] = "decide"]
    /\ UNCHANGED <<tables, seeding, runs, loaded, used>>

(* decide: the ruleset is the one cached now, for every span of the turn.  *)
Decide(t) ==
    /\ pc[t] = "decide"
    /\ used' = cache
    /\ pc' = [pc EXCEPT ![t] = "idle"]
    /\ UNCHANGED <<tables, seeding, runs, cache, loaded>>

Next ==
    \/ \E p \in Policies : Truncate(p) \/ Check(p)
    \/ Seed \/ SeedDies \/ DropSchema \/ CreateSchema
    \/ \E t \in Threads :
           \/ Ask(t) \/ ReadVersion(t) \/ ReadRules(t) \/ ReadOverrides(t)
           \/ LoadFails(t) \/ Store(t) \/ Decide(t)

Spec == Init /\ [][Next]_vars
-----------------------------------------------------------------------------
Decision(q) ==
    PickAction(used, q.purpose, q.role, q.entity, q.risk, q.injected)

(* The threads decide by a whole policy or, when no version was active, by *)
(* none, never by the rules of one policy and the overrides of another,    *)
(* though the three tables are read one after the other                    *)
(* (engine.py:117-143).                                                    *)
NoTornRuleset == {cache, used} \subseteq {NotLoaded, EmptyRuleset} \cup Policies

(* The order in which the database returns the rows does not matter: of    *)
(* the rules that match, exactly one is the best (engine.py:77-100).       *)
OneBestRule ==
    used # NotLoaded => \A q \in Queries : Cardinality(Decision(q)) = 1
=============================================================================
