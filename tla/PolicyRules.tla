---------------------------- MODULE PolicyRules -----------------------------
(***************************************************************************)
(* The decision of the policy engine (app/policy/engine.py): the action    *)
(* for one entity type, from the rules and the risk overrides of a         *)
(* ruleset.  The rows of a table have no order, and max() over them may    *)
(* return any of the best: PickAction is the set of the possible actions.  *)
(*                                                                         *)
(* The policy of app/policy/policy.yaml is ShippedPolicy.  AnyValue is a   *)
(* column that is NULL.  A risk is a whole number of hundredths.           *)
(***************************************************************************)
EXTENDS Integers, FiniteSets

AnyValue == "*"
Fallback == "tokenize"

(* _Rule and _Override.                                                    *)
Rule(purpose, role, entity, action, priority) ==
    [purpose |-> purpose, role |-> role, entity |-> entity,
     action |-> action, priority |-> priority]
Override(when, risk, action) ==
    [when |-> when, risk |-> risk, action |-> action, priority |-> 100]

EmptyRuleset == [rules |-> {}, overrides |-> {}]

(* eval_condition: "injection.hit" or "risk_score >= risk".                *)
Holds(o, risk, injected) ==
    \/ o.when = "injection" /\ injected
    \/ o.when = "risk" /\ risk >= o.risk

Matches(r, purpose, role, entity) ==
    /\ r.purpose \in {AnyValue, purpose}
    /\ r.role \in {AnyValue, role}
    /\ r.entity \in {AnyValue, entity}

(* Mutant: a rule that names the role alone is as good as any other.       *)
RoleSpecificity(r) == IF r.role # AnyValue THEN 1 ELSE 0
Specificity(r) ==
    Cardinality({c \in {"purpose", "role", "entity"} : r[c] # AnyValue})

(* max by priority, and by specificity first.                              *)
HighestPriority(rows) ==
    {a \in rows : \A b \in rows : b.priority <= a.priority}
MostSpecific(rules) ==
    {a \in rules : \A b \in rules : Specificity(b) <= Specificity(a)}

PickAction(rs, purpose, role, entity, risk, injected) ==
    LET fired    == {o \in rs.overrides : Holds(o, risk, injected)}
        matching == {r \in rs.rules : Matches(r, purpose, role, entity)}
    IN  IF fired # {} THEN {o.action : o \in HighestPriority(fired)}
        ELSE IF matching # {}
             THEN {r.action : r \in HighestPriority(MostSpecific(matching))}
             ELSE {Fallback}

ShippedPurposes ==
    {"customer_support", "doc_summarize", "code_help", "data_analysis",
     "fraud_investigation", "unknown"}
ShippedPolicy ==
    [rules |->
        {Rule("doc_summarize", AnyValue, AnyValue, "tokenize", 0),
         Rule("doc_summarize", AnyValue, "CARD", "block", 0),
         Rule("data_analysis", AnyValue, "RRN", "generalize", 0),
         Rule("data_analysis", AnyValue, "AMOUNT", "aggregate", 0),
         Rule("code_help", AnyValue, AnyValue, "block", 0),
         Rule("customer_support", "agent_l1", "PHONE", "mask", 0),
         Rule("fraud_investigation", "agent_l2", "PHONE", "keep", 0),
         Rule("unknown", AnyValue, AnyValue, "tokenize", 0),
         Rule(AnyValue, AnyValue, AnyValue, "tokenize", -1)},
     overrides |->
        {Override("injection", 0, "block"), Override("risk", 80, "block")}]
=============================================================================
