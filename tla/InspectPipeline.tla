-------------------------- MODULE InspectPipeline ---------------------------
(***************************************************************************)
(* pipeline.analyze (app/pipeline.py): the stages of the input path and of *)
(* the output path, run by the threads of the gRPC server for requests of  *)
(* one session.  The module composes what the stages share: the session's  *)
(* purpose (context/stage.py), the rows of the token vault and the policy  *)
(* (PolicyRules).  The insides of the vault, of the session store and of   *)
(* the span merge are modules of their own; a stage is one step here, and  *)
(* the transform and restore stages are one step per vault call.           *)
(*                                                                         *)
(* A text is a set of pieces [form, value]: "raw" is the value itself,     *)
(* "label" its vault label, the other forms no longer hold the value.  The *)
(* session has one value of each entity type, named by the type; its label *)
(* stands for every label it ever had.                                     *)
(***************************************************************************)
EXTENDS PolicyRules

CONSTANTS
    Threads,
    Values,      \* one value of each entity type explored; the regex layer
                 \* finds each, with a confidence above the thresholds
    Roles,       \* what resolve_role may return, NoRole included
    NoRole,
    Purposes,    \* purposes the keywords of which a text may hold
    NoPurpose,   \* state.purpose before any turn has been classified
    InjectionThreshold, \* guardrail.injection_threshold, in hundredths
    Risks,       \* the risk scores explored, in hundredths
    HardBlock,   \* cfg.risk.hard_block, in hundredths
    FailAction   \* cfg.fail_action

ASSUME PipelineAssumption ==
    /\ NoRole \in Roles /\ AnyValue \notin Roles
    /\ NoPurpose \notin ShippedPurposes
    /\ Purposes \subseteq ShippedPurposes \ {"unknown"}
    /\ Risks \subseteq 0..100 /\ HardBlock \in 1..100
    /\ FailAction \in {"allow", "block"}

VARIABLES
    pc,          \* the stage a thread runs next
    ctx,         \* its AnalysisContext and Decision
    purpose,     \* the session's state.purpose
    mentioned,   \* the values accumulated in the session
    rows         \* the live rows of the vault for the session

vars == <<pc, ctx, purpose, mentioned, rows>>

Forms == {"raw", "label", "mask", "redact", "generalize", "synthetic"}
Piece(form, value) == [form |-> form, value |-> value]
Pieces(form, values) == {Piece(form, v) : v \in values}
InForm(text, form) == {p.value : p \in {q \in text : q.form = form}}

(* AnalysisContext and, in verdict, the action of the Decision.  actions   *)
(* is span_actions; todo the values or labels a vault call is still due    *)
(* for, out what the vault calls gave; restored, for the properties, the   *)
(* rows that were restored.                                                *)
Context(direction, role, body) ==
    [direction |-> direction, role |-> role, body |-> body, text |-> body, found |-> {}, hit |-> FALSE, blocked |-> FALSE,
     purpose |-> NoPurpose, risk |-> 0, actions |-> {}, todo |-> {}, out |-> {},
     restored |-> {}, verdict |-> "none"]
NoContext == Context("none", NoRole, {})

Init ==
    /\ pc = [t \in Threads |-> "idle"]
    /\ ctx = [t \in Threads |-> NoContext]
    /\ purpose = NoPurpose /\ mentioned = {} /\ rows = {}

-----------------------------------------------------------------------------
(* _run_stages: the stages in order, until one has set ctx.blocked; then   *)
(* _block_check and the rest of _analyze_input or _analyze_output.         *)

InputStages == <<"injection", "detect", "multiturn", "policy", "remember", "transform">>
(* Mutant: the response is restored before it is scanned.                  *)
RestoreFirst == <<"lookup", "restore", "guard">>
OutputStages == <<"guard", "lookup", "restore">>

StagesOf(c) == IF c.direction = "input" THEN InputStages ELSE OutputStages

(* Mutant: the stages go on after one has blocked.                         *)
RunAllStages(c, stage) ==
    LET stages == StagesOf(c)
        i      == CHOOSE j \in DOMAIN stages : stages[j] = stage
    IN  IF i = Cardinality(DOMAIN stages) THEN "decide" ELSE stages[i + 1]
NextStage(c, stage) ==
    LET stages == StagesOf(c)
        i      == CHOOSE j \in DOMAIN stages : stages[j] = stage
    IN  IF c.blocked \/ i = Cardinality(DOMAIN stages)
        THEN "decide" ELSE stages[i + 1]

(* The stage of thread t ends, and leaves the context c.                   *)
EndStage(t, stage, c) ==
    /\ ctx' = [ctx EXCEPT ![t] = c]
    /\ pc' = [pc EXCEPT ![t] = NextStage(c, stage)]

At(t, stage) == pc[t] = stage

(* role_resolver.resolve, of the role header, which may be missing or      *)
(* blank; _ROLE_MAP, where a user id is looked up then, is empty.          *)
RoleHeaders == (Roles \ {NoRole}) \cup {"missing", "blank"}
ResolveRole(header) == IF header \in {"missing", "blank"} THEN NoRole ELSE header

(* A request: its latest turn holds some of the values.                    *)
BeginInput(t, header, values) ==
    /\ At(t, "idle")
    /\ ctx' = [ctx EXCEPT ![t] =
          Context("input", ResolveRole(header), Pieces("raw", values))]
    /\ pc' = [pc EXCEPT ![t] = "injection"]
    /\ UNCHANGED <<purpose, mentioned, rows>>

(* A response: the model repeats labels and makes up values of its own.    *)
BeginOutput(t, header, labels, values) ==
    /\ At(t, "idle")
    /\ ctx' = [ctx EXCEPT ![t] =
          Context("output", ResolveRole(header),
                  Pieces("label", labels) \cup Pieces("raw", values))]
    /\ pc' = [pc EXCEPT ![t] = OutputStages[1]]
    /\ UNCHANGED <<purpose, mentioned, rows>>

-----------------------------------------------------------------------------
(* The input path.                                                         *)

(* RuleEngine.scan: the best score of the rules that match; a rule that    *)
(* raises is passed over.  Without a rule, a user turn or a configuration  *)
(* there is none.                                                          *)
RuleScores == {70, 75, 80, 85, 90}
ScanHits(matched) == \E score \in matched : score >= InjectionThreshold

(* injection_guard.                                                        *)
InjectionGuard(t) ==
    /\ At(t, "injection")
    /\ \E matched \in {{}} \cup {{score} : score \in RuleScores} :
          EndStage(t, "injection", [ctx[t] EXCEPT !.hit = ScanHits(matched),
                                                  !.blocked = ScanHits(matched)])
    /\ UNCHANGED <<purpose, mentioned, rows>>

(* pii_detect_stage: a layer that raises finds nothing, so that any part   *)
(* of the values may be found.                                             *)
PiiDetect(t) ==
    /\ At(t, "detect")
    /\ \E found \in SUBSET InForm(ctx[t].text, "raw") :
          EndStage(t, "detect", [ctx[t] EXCEPT !.found = found])
    /\ UNCHANGED <<purpose, mentioned, rows>>

(* multiturn_stage: the score depends on the turns so far (RiskScore);     *)
(* while nothing has been found, it is what their speed alone gives.       *)
VelocityAlone == 15
Multiturn(t) ==
    /\ At(t, "multiturn")
    /\ mentioned' = mentioned \cup ctx[t].found
    /\ \E risk \in {r \in Risks : mentioned' # {} \/ r <= VelocityAlone} :
          EndStage(t, "multiturn", [ctx[t] EXCEPT !.risk = risk])
    /\ UNCHANGED <<purpose, rows>>

(* classifier.classify: the first purpose in the order of the rules of     *)
(* those the last user turn names; a rule that raises names none.          *)
PurposeOrder ==
    <<"fraud_investigation", "data_analysis", "code_help", "doc_summarize",
      "customer_support">>
Classify(named) ==
    IF named = {} THEN "unknown"
    ELSE PurposeOrder[CHOOSE i \in DOMAIN PurposeOrder :
            /\ PurposeOrder[i] \in named
            /\ \A j \in 1 .. i - 1 : PurposeOrder[j] \notin named]

(* purpose_policy_stage: the purpose, and an action for each finding.      *)
PurposePolicy(t) ==
    /\ At(t, "policy")
    /\ \E named \in SUBSET Purposes,
          chosen \in [ctx[t].found -> {"tokenize", "block", "mask", "keep",
                                       "generalize", "aggregate", "redact"}] :
          /\ \A v \in ctx[t].found :
                chosen[v] \in PickAction(ShippedPolicy, Classify(named), ctx[t].role,
                                         v, ctx[t].risk, ctx[t].hit)
          /\ EndStage(t, "policy",
                [ctx[t] EXCEPT !.purpose = Classify(named),
                     !.actions = {[value |-> v, action |-> chosen[v]] : v \in ctx[t].found},
                     !.todo = {v \in ctx[t].found : chosen[v] = "tokenize"},
                     !.blocked = \E v \in ctx[t].found : chosen[v] = "block"])
    /\ UNCHANGED <<purpose, mentioned, rows>>

(* It raises: the request is blocked.                                      *)
PurposePolicyFails(t) ==
    /\ At(t, "policy")
    /\ EndStage(t, "policy", [ctx[t] EXCEPT !.blocked = TRUE])
    /\ UNCHANGED <<purpose, mentioned, rows>>

RememberPurpose(t) ==
    /\ At(t, "remember")
    /\ purpose' = ctx[t].purpose
    /\ EndStage(t, "remember", ctx[t])
    /\ UNCHANGED <<mentioned, rows>>

(* _access_scope, over the role and the purpose of the request.  by and    *)
(* for remember both for the properties.                                   *)
(* Mutant: the scope names no role.                                        *)
ScopeOfPurpose(c, v) ==
    [value |-> v, roles |-> {AnyValue}, purposes |-> {c.purpose},
     by |-> c.role, for |-> c.purpose]
AccessScope(c, v) ==
    [value |-> v,
     roles |-> {IF c.role = NoRole THEN AnyValue ELSE c.role},
     purposes |-> {IF c.purpose = NoPurpose THEN AnyValue ELSE c.purpose},
     by |-> c.role, for |-> c.purpose]

(* transform_stage, one vault call after the other: the value becomes the  *)
(* label of its live row, the first call makes the row.                    *)
Tokenize(t, v) ==
    /\ At(t, "transform") /\ v \in ctx[t].todo
    /\ rows' = IF \E r \in rows : r.value = v THEN rows
               ELSE rows \cup {AccessScope(ctx[t], v)}
    /\ ctx' = [ctx EXCEPT ![t].todo = @ \ {v},
                          ![t].out = @ \cup {Piece("label", v)}]
    /\ UNCHANGED <<pc, purpose, mentioned>>

(* _tokenize: the vault raised, the value is replaced by _REDACT_TEXT.     *)
TokenizeFallback == "redact"
TokenizeFails(t, v) ==
    /\ At(t, "transform") /\ v \in ctx[t].todo
    /\ ctx' = [ctx EXCEPT ![t].todo = @ \ {v},
                          ![t].out = @ \cup {Piece(TokenizeFallback, v)}]
    /\ UNCHANGED <<pc, purpose, mentioned, rows>>

(* _render, but for tokenize: an aggregated value leaves its place empty.  *)
Render(v, action) ==
    CASE action = "mask"                      -> {Piece("mask", v)}
      [] action = "generalize" /\ v = "RRN"   -> {Piece("generalize", v)}
      [] action = "generalize" /\ v # "RRN"   -> {Piece("mask", v)}
      [] action = "redact"                    -> {Piece("redact", v)}
      [] action \in {"tokenize", "aggregate"} -> {}
      [] OTHER                                -> {Piece("raw", v)}

(* The replacements are made when every value has been rendered.           *)
Replace(t) ==
    /\ At(t, "transform") /\ ctx[t].todo = {}
    /\ LET rendered == UNION {Render(a.value, a.action) : a \in ctx[t].actions}
           rest     == ctx[t].text \ Pieces("raw", ctx[t].found)
       IN  EndStage(t, "transform",
              [ctx[t] EXCEPT !.text = rest \cup rendered \cup ctx[t].out])
    /\ UNCHANGED <<purpose, mentioned, rows>>

-----------------------------------------------------------------------------
(* The output path.                                                        *)

(* output_guard: values of the model's own making are masked; a response   *)
(* that discloses the instructions is blocked, unmasked.                   *)
OutputGuard(t) ==
    /\ At(t, "guard")
    /\ \/ EndStage(t, "guard",
             [ctx[t] EXCEPT !.text = (@ \ Pieces("raw", Values))
                                      \cup Pieces("mask", InForm(@, "raw"))])
       \/ EndStage(t, "guard", [ctx[t] EXCEPT !.blocked = TRUE])
    /\ UNCHANGED <<purpose, mentioned, rows>>

(* It raises: the response is blocked.                                     *)
OutputGuardFails(t) ==
    /\ At(t, "guard")
    /\ EndStage(t, "guard", [ctx[t] EXCEPT !.blocked = TRUE])
    /\ UNCHANGED <<purpose, mentioned, rows>>

(* detokenize_stage asks for the session's purpose...                      *)
GetLastPurpose(t) ==
    /\ At(t, "lookup")
    /\ EndStage(t, "lookup",
          [ctx[t] EXCEPT !.purpose = purpose, !.todo = InForm(ctx[t].text, "label")])
    /\ UNCHANGED <<purpose, mentioned, rows>>

ScopeAllows(r, c) ==
    /\ r.roles \cap {AnyValue, c.role} # {}
    /\ r.purposes \cap {AnyValue, c.purpose} # {}

(* ... and then restores label after label: a live row, within its scope.  *)
Restore(t, r) ==
    /\ At(t, "restore") /\ r \in rows /\ r.value \in ctx[t].todo
    /\ ScopeAllows(r, ctx[t])
    /\ ctx' = [ctx EXCEPT ![t].todo = @ \ {r.value},
                          ![t].text = (@ \ {Piece("label", r.value)})
                                       \cup {Piece("raw", r.value)},
                          ![t].restored = @ \cup {r}]
    /\ UNCHANGED <<pc, purpose, mentioned, rows>>

(* No such row, out of its scope, or the vault failed: the label stays.    *)
LeaveLabel(t, v) ==
    /\ At(t, "restore") /\ v \in ctx[t].todo
    /\ ctx' = [ctx EXCEPT ![t].todo = @ \ {v}]
    /\ UNCHANGED <<pc, purpose, mentioned, rows>>

Restored(t) ==
    /\ At(t, "restore") /\ ctx[t].todo = {}
    /\ EndStage(t, "restore", ctx[t])
    /\ UNCHANGED <<purpose, mentioned, rows>>

-----------------------------------------------------------------------------
(* The decision.                                                           *)

(* Mutant: the risk is left to the policy.                                 *)
MustBlockWithoutRisk(c) == c.blocked \/ c.hit
MustBlock(c) ==
    \/ c.blocked \/ c.hit
    \/ c.direction = "input" /\ c.risk >= HardBlock

(* _block_check, then allow for an unchanged text, else transform.         *)
Decide(t) ==
    /\ At(t, "decide")
    /\ ctx' = [ctx EXCEPT ![t].verdict =
          IF MustBlock(ctx[t]) THEN "block"
          ELSE IF ctx[t].text = ctx[t].body THEN "allow" ELSE "transform"]
    /\ pc' = [pc EXCEPT ![t] = "answered"]
    /\ UNCHANGED <<purpose, mentioned, rows>>

(* A stage lets its exception out, or the adapter does, before the first   *)
(* stage or in rebuild: analyze answers with cfg.fail_action, and the body *)
(* goes on as it came.                                                     *)
Fails(t) ==
    /\ \/ pc[t] \in {StagesOf(ctx[t])[1], "detect", "multiturn", "remember", "lookup"}
       \/ At(t, "decide") /\ ~ MustBlock(ctx[t]) /\ ctx[t].text # ctx[t].body
    /\ ctx' = [ctx EXCEPT ![t].verdict = FailAction, ![t].text = ctx[t].body]
    /\ pc' = [pc EXCEPT ![t] = "answered"]
    /\ UNCHANGED <<purpose, mentioned, rows>>

Return(t) ==
    /\ At(t, "answered")
    /\ pc' = [pc EXCEPT ![t] = "idle"]
    /\ ctx' = [ctx EXCEPT ![t] = NoContext]
    /\ UNCHANGED <<purpose, mentioned, rows>>

(* The session expires: its state is dropped and its rows are revoked, by  *)
(* the sweeper or by a load (MultiturnSession).                            *)
Expire ==
    /\ purpose # NoPurpose \/ mentioned # {} \/ rows # {}
    /\ purpose' = NoPurpose /\ mentioned' = {} /\ rows' = {}
    /\ UNCHANGED <<pc, ctx>>

Next ==
    \/ Expire
    \/ \E t \in Threads :
        \/ \E header \in RoleHeaders, values \in SUBSET Values :
              BeginInput(t, header, values)
        \/ \E header \in RoleHeaders, labels, values \in SUBSET Values :
              BeginOutput(t, header, labels, values)
        \/ InjectionGuard(t) \/ PiiDetect(t) \/ Multiturn(t)
        \/ PurposePolicy(t) \/ PurposePolicyFails(t) \/ RememberPurpose(t)
        \/ \E v \in Values : Tokenize(t, v) \/ TokenizeFails(t, v) \/ LeaveLabel(t, v)
        \/ Replace(t)
        \/ OutputGuard(t) \/ OutputGuardFails(t) \/ GetLastPurpose(t)
        \/ \E r \in rows : Restore(t, r)
        \/ Restored(t)
        \/ Decide(t) \/ Fails(t) \/ Return(t)

Spec == Init /\ [][Next]_vars

-----------------------------------------------------------------------------
Answered(t, direction) ==
    /\ At(t, "answered") /\ ctx[t].direction = direction /\ ctx[t].verdict # "block"

(* A request that may go out was no injection and below the hard block,    *)
(* and a value that was found in it goes out raw only where the policy     *)
(* keeps it, whatever failed on the way (fail_action = block).             *)
PassedWithinPolicy ==
    \A t \in Threads : Answered(t, "input") /\ FailAction = "block" =>
        /\ ~ ctx[t].hit /\ ctx[t].risk < HardBlock
        /\ \A v \in ctx[t].found \cap InForm(ctx[t].text, "raw") :
              "keep" \in PickAction(ShippedPolicy, ctx[t].purpose, ctx[t].role, v,
                                    ctx[t].risk, FALSE)

(* What a user reads raw in a response is what the vault restored, and     *)
(* what it restored stays readable: neither does a value made up by the    *)
(* model pass, nor is a restored value masked again.                       *)
RawIsRestored ==
    \A t \in Threads : Answered(t, "output") /\ FailAction = "block" =>
        InForm(ctx[t].text, "raw") = {r.value : r \in ctx[t].restored}

(* A value is restored only for the role it was tokenized for, and under   *)
(* the purpose it was tokenized for.                                       *)
RestoredToItsRole ==
    \A t \in Threads : \A r \in ctx[t].restored :
        r.by \in {NoRole, ctx[t].role} /\ r.for = ctx[t].purpose

(* A request the injection guard or the policy has blocked touches neither *)
(* the session nor the vault any more.                                     *)
BlockedTouchesNothing ==
    [][\A t \in Threads : ctx[t].blocked /\ (pc[t] # pc'[t] \/ ctx[t] # ctx'[t])
          => UNCHANGED <<purpose, mentioned, rows>>]_vars

(* Violated: the live row behind a label that has gone out within a        *)
(* request lets that request's role and purpose restore it.                *)
ScopeMatches ==
    \A t \in Threads : Answered(t, "input") =>
        \A r \in rows : Piece("label", r.value) \in ctx[t].text
                           => ScopeAllows(r, ctx[t])
=============================================================================
