----------------------- MODULE InspectPipeline_proofs -----------------------
(***************************************************************************)
(* Proofs about InspectPipeline, for every value of its constants: what a  *)
(* request that goes out, and a response that is shown, may hold; whom a   *)
(* value is restored for; and that a blocked request changes nothing.      *)
(***************************************************************************)
EXTENDS InspectPipeline, FiniteSetTheorems, TLAPS

AnyPiece == [form : Forms, value : Values]
Actions == {"tokenize", "block", "mask", "keep", "generalize", "aggregate",
            "redact"}
SessionPurposes == ShippedPurposes \cup {NoPurpose}
VaultRow == [value : Values, roles : SUBSET (Roles \cup {AnyValue}),
             purposes : SUBSET (SessionPurposes \cup {AnyValue}),
             by : Roles, for : SessionPurposes]
ContextType ==
    [direction : {"none", "input", "output"}, role : Roles,
     body : SUBSET AnyPiece, text : SUBSET AnyPiece, found : SUBSET Values,
     hit : BOOLEAN, blocked : BOOLEAN, purpose : SessionPurposes, risk : Nat,
     actions : SUBSET [value : Values, action : Actions],
     todo : SUBSET Values, out : SUBSET AnyPiece, restored : SUBSET VaultRow,
     verdict : {"none", "allow", "block", "transform"}]

OfInput == {"injection", "detect", "multiturn", "policy", "remember",
            "transform"}
OfOutput == {"guard", "lookup", "restore"}
Stages == OfInput \cup OfOutput \cup {"idle", "decide", "answered"}

TypeOK ==
    /\ pc \in [Threads -> Stages]
    /\ ctx \in [Threads -> ContextType]
    /\ purpose \in SessionPurposes
    /\ mentioned \subseteq Values
    /\ rows \subseteq VaultRow

(* A row is open to the role and to the purpose it was made under, and to  *)
(* every role when there was none.                                         *)
RowsScoped ==
    \A r \in rows :
        /\ r.roles = {IF r.by = NoRole THEN AnyValue ELSE r.by}
        /\ r.for \in ShippedPurposes /\ r.purposes = {r.for}

(* The actions the policy may choose for v, where nothing was injected.    *)
Choices(c, v) ==
    PickAction(ShippedPolicy, c.purpose, c.role, v, c.risk, FALSE)

(* The policy's choice for each finding, none of them to block.            *)
Chosen(c) ==
    /\ c.purpose \in ShippedPurposes
    /\ \A a \in c.actions :
          a.action # "block" /\ a.action \in Choices(c, a.value)

(* What was found and is still raw is what the policy keeps.               *)
RawIsKept(c) ==
    \A v \in c.found \cap InForm(c.text, "raw") : "keep" \in Choices(c, v)

(* The context c of a thread past the stages and not stopped by them.      *)
Through(stage, c) ==
    \/ stage = "decide" /\ ~ c.blocked
    \/ stage = "answered" /\ c.verdict # "block" /\ FailAction = "block"

(* The invariant of one thread, of its stage and its context: a blocked    *)
(* context is past its stages; the transform stage runs on what the policy *)
(* chose; what is restored was in scope and is what is raw in a response.  *)
ContextInv(stage, c) ==
    /\ stage \in OfInput => c.direction = "input"
    /\ stage \in OfOutput => c.direction = "output"
    /\ c.blocked => stage \in {"decide", "answered"}
    /\ c.hit => c.blocked
    /\ c.restored # {} => /\ c.direction = "output"
                          /\ stage \in {"restore", "decide", "answered"}
    /\ \A r \in c.restored : r.by \in {NoRole, c.role} /\ r.for = c.purpose
    /\ \A p \in c.out : p.form # "raw"
    /\ stage \in {"remember", "transform"} => Chosen(c)
    /\ c.direction = "input" /\ Through(stage, c) => RawIsKept(c)
    /\ c.direction = "output" /\ (stage \in {"lookup", "restore"}
                                  \/ Through(stage, c))
          => InForm(c.text, "raw") = {r.value : r \in c.restored}
    /\ c.direction = "input" /\ stage = "answered" /\ Through(stage, c)
          => ~ c.hit /\ c.risk < HardBlock

PipelineInv ==
    /\ TypeOK /\ RowsScoped
    /\ \A t \in Threads : ContextInv(pc[t], ctx[t])

-----------------------------------------------------------------------------
(* The stage that follows a stage: _run_stages goes on with the next, or   *)
(* stops at the first that has blocked.                                    *)
LEMMA StageCounts ==
  /\ Cardinality(DOMAIN InputStages) = 6
  /\ Cardinality(DOMAIN OutputStages) = 3
  <1>1. DOMAIN InputStages = 1 .. 6 /\ DOMAIN OutputStages = 1 .. 3
      BY DEF InputStages, OutputStages
  <1>2. Cardinality(1 .. 6) = 6 - 1 + 1 /\ Cardinality(1 .. 3) = 3 - 1 + 1
    <2>1. \A b \in {3, 6} : Cardinality(1 .. b) = IF 1 > b THEN 0 ELSE b - 1 + 1
        BY FS_Interval
    <2> QED BY <2>1
  <1> QED BY <1>1, <1>2

LEMMA InputNext ==
  ASSUME NEW c, c.direction = "input", ~ c.blocked
  PROVE  /\ NextStage(c, "injection") = "detect"
         /\ NextStage(c, "detect") = "multiturn"
         /\ NextStage(c, "multiturn") = "policy"
         /\ NextStage(c, "policy") = "remember"
         /\ NextStage(c, "remember") = "transform"
         /\ NextStage(c, "transform") = "decide"
  <1> DEFINE i(stage) == CHOOSE j \in DOMAIN InputStages :
                             InputStages[j] = stage
  <1>1. DOMAIN InputStages = 1 .. 6
      BY DEF InputStages
  <1>2. /\ InputStages[1] = "injection" /\ InputStages[2] = "detect"
        /\ InputStages[3] = "multiturn" /\ InputStages[4] = "policy"
        /\ InputStages[5] = "remember" /\ InputStages[6] = "transform"
      BY DEF InputStages
  <1>3. /\ i("injection") = 1 /\ i("detect") = 2 /\ i("multiturn") = 3
        /\ i("policy") = 4 /\ i("remember") = 5 /\ i("transform") = 6
    <2>1. \A j \in 1 .. 6 : j \in {1, 2, 3, 4, 5, 6}
        OBVIOUS
    <2> QED BY <1>1, <1>2, <2>1
  <1> HIDE DEF i
  <1>4. \A stage : NextStage(c, stage) =
            IF i(stage) = 6 THEN "decide" ELSE InputStages[i(stage) + 1]
      BY StageCounts DEF NextStage, StagesOf, i
  <1> QED BY <1>2, <1>3, <1>4

LEMMA OutputNext ==
  ASSUME NEW c, c.direction = "output", ~ c.blocked
  PROVE  /\ NextStage(c, "guard") = "lookup"
         /\ NextStage(c, "lookup") = "restore"
         /\ NextStage(c, "restore") = "decide"
  <1> DEFINE i(stage) == CHOOSE j \in DOMAIN OutputStages :
                             OutputStages[j] = stage
  <1>1. DOMAIN OutputStages = 1 .. 3
      BY DEF OutputStages
  <1>2. /\ OutputStages[1] = "guard" /\ OutputStages[2] = "lookup"
        /\ OutputStages[3] = "restore"
      BY DEF OutputStages
  <1>3. i("guard") = 1 /\ i("lookup") = 2 /\ i("restore") = 3
    <2>1. \A j \in 1 .. 3 : j \in {1, 2, 3}
        OBVIOUS
    <2> QED BY <1>1, <1>2, <2>1
  <1> HIDE DEF i
  <1>4. \A stage : NextStage(c, stage) =
            IF i(stage) = 3 THEN "decide" ELSE OutputStages[i(stage) + 1]
      BY StageCounts DEF NextStage, StagesOf, i
  <1> QED BY <1>2, <1>3, <1>4

LEMMA BlockedNext ==
  ASSUME NEW c, c.blocked, NEW stage
  PROVE  NextStage(c, stage) = "decide"
  BY DEF NextStage

(* The classifier returns a purpose the shipped policy knows.              *)
LEMMA ClassifyShipped ==
  ASSUME NEW named \in SUBSET Purposes
  PROVE  Classify(named) \in ShippedPurposes
  <1> SUFFICES ASSUME named # {} PROVE Classify(named) \in ShippedPurposes
      BY DEF Classify, ShippedPurposes
  <1> DEFINE P(i) == /\ PurposeOrder[i] \in named
                     /\ \A j \in 1 .. i - 1 : PurposeOrder[j] \notin named
  <1>1. DOMAIN PurposeOrder = 1 .. 5
      BY DEF PurposeOrder
  <1>2. /\ PurposeOrder[1] = "fraud_investigation"
        /\ PurposeOrder[2] = "data_analysis"
        /\ PurposeOrder[3] = "code_help"
        /\ PurposeOrder[4] = "doc_summarize"
        /\ PurposeOrder[5] = "customer_support"
      BY DEF PurposeOrder
  <1>3. \E i \in 1 .. 5 : PurposeOrder[i] \in named
    <2>1. PICK n \in named : n \in ShippedPurposes \ {"unknown"}
        BY PipelineAssumption
    <2>2. n \in {PurposeOrder[1], PurposeOrder[2], PurposeOrder[3],
                PurposeOrder[4], PurposeOrder[5]}
        BY <1>2, <2>1 DEF ShippedPurposes
    <2> QED BY <2>2
  <1>4. \E i \in 1 .. 5 : P(i)
    <2> DEFINE In(i) == PurposeOrder[i] \in named
    <2>1. In(1) \/ In(2) \/ In(3) \/ In(4) \/ In(5)
      <3>1. \A i \in 1 .. 5 : i \in {1, 2, 3, 4, 5}
          OBVIOUS
      <3> QED BY <1>3, <3>1
    <2>2. /\ In(1) => P(1)
          /\ ~In(1) /\ In(2) => P(2)
          /\ ~In(1) /\ ~In(2) /\ In(3) => P(3)
          /\ ~In(1) /\ ~In(2) /\ ~In(3) /\ In(4) => P(4)
          /\ ~In(1) /\ ~In(2) /\ ~In(3) /\ ~In(4) /\ In(5) => P(5)
        OBVIOUS
    <2> HIDE DEF In, P
    <2> QED BY <2>1, <2>2
  <1>5. Classify(named) = PurposeOrder[CHOOSE i \in DOMAIN PurposeOrder : P(i)]
      BY DEF Classify
  <1>6. (CHOOSE i \in DOMAIN PurposeOrder : P(i)) \in 1 .. 5
      BY <1>1, <1>4
  <1>7. \A i \in 1 .. 5 : PurposeOrder[i] \in ShippedPurposes
      BY <1>1, <1>2 DEF ShippedPurposes, PurposeOrder
  <1> QED BY <1>5, <1>6, <1>7

-----------------------------------------------------------------------------
(* A step of a thread that leaves the session's state typed and scoped,    *)
(* and the thread itself at a stage with a context that fit each other.    *)
LEMMA ThreadStep ==
  ASSUME PipelineInv, NEW t \in Threads, NEW stage \in Stages,
         NEW c \in ContextType, ContextInv(stage, c),
         ctx' = [ctx EXCEPT ![t] = c], pc' = [pc EXCEPT ![t] = stage],
         purpose' \in SessionPurposes, mentioned' \subseteq Values,
         rows' \subseteq VaultRow, RowsScoped'
  PROVE  PipelineInv'
  <1>1. TypeOK'
      BY DEF PipelineInv, TypeOK
  <1>2. \A u \in Threads : ContextInv(pc'[u], ctx'[u])
    <2> SUFFICES ASSUME NEW u \in Threads
                 PROVE  ContextInv(pc'[u], ctx'[u])
        OBVIOUS
    <2>1. CASE u = t
        BY <2>1 DEF PipelineInv, TypeOK
    <2>2. CASE u # t
        BY <2>2 DEF PipelineInv, TypeOK
    <2> QED BY <2>1, <2>2
  <1> QED BY <1>1, <1>2 DEF PipelineInv

(* The same, of a step that leaves the session's state alone.              *)
LEMMA QuietStep ==
  ASSUME PipelineInv, NEW t \in Threads, NEW stage \in Stages,
         NEW c \in ContextType, ContextInv(stage, c),
         ctx' = [ctx EXCEPT ![t] = c], pc' = [pc EXCEPT ![t] = stage],
         UNCHANGED <<purpose, mentioned, rows>>
  PROVE  PipelineInv'
  <1>1. /\ purpose' \in SessionPurposes /\ mentioned' \subseteq Values
        /\ rows' \subseteq VaultRow /\ RowsScoped'
      BY DEF PipelineInv, TypeOK, RowsScoped
  <1> QED BY <1>1, ThreadStep

LEMMA BeginKeepsInv ==
  ASSUME PipelineInv, NEW t \in Threads, NEW header \in RoleHeaders,
         NEW labels \in SUBSET Values, NEW values \in SUBSET Values,
         \/ BeginInput(t, header, values)
         \/ BeginOutput(t, header, labels, values)
  PROVE  PipelineInv'
  <1>1. ResolveRole(header) \in Roles
      BY PipelineAssumption DEF ResolveRole, RoleHeaders
  <1>2. /\ Pieces("raw", values) \subseteq AnyPiece
        /\ Pieces("label", labels) \subseteq AnyPiece
      BY DEF Pieces, Piece, AnyPiece, Forms
  <1>3. ASSUME NEW direction \in {"input", "output"},
               NEW body \in SUBSET AnyPiece
        PROVE  LET c == Context(direction, ResolveRole(header), body)
               IN  /\ c \in ContextType
                   /\ direction = "input" => ContextInv("injection", c)
                   /\ direction = "output" => ContextInv("guard", c)
    <2> DEFINE c == Context(direction, ResolveRole(header), body)
    <2>1. c \in ContextType
        BY <1>1 DEF Context, ContextType, SessionPurposes
    <2>2. /\ c.direction = direction /\ ~ c.blocked /\ ~ c.hit
          /\ c.restored = {} /\ c.out = {}
        BY DEF Context
    <2> HIDE DEF c
    <2>3. /\ direction = "input" => ContextInv("injection", c)
          /\ direction = "output" => ContextInv("guard", c)
        BY <2>2 DEF ContextInv, OfInput, OfOutput, Through
    <2> QED BY <2>1, <2>3 DEF c
  <1>4. CASE BeginInput(t, header, values)
      BY <1>2, <1>3, <1>4, QuietStep DEF BeginInput, Stages, OfInput
  <1>5. CASE BeginOutput(t, header, labels, values)
    <2>1. OutputStages[1] = "guard" /\ "guard" \in Stages
        BY DEF OutputStages, Stages, OfOutput
    <2>2. Pieces("label", labels) \cup Pieces("raw", values) \subseteq AnyPiece
        BY <1>2
    <2> QED BY <1>3, <1>5, <2>1, <2>2, QuietStep DEF BeginOutput
  <1> QED BY <1>4, <1>5

(* What holds of the context of a thread that is at a stage.               *)
LEMMA AtStage ==
  ASSUME PipelineInv, NEW t \in Threads, NEW stage \in Stages, At(t, stage)
  PROVE  ctx[t] \in ContextType /\ ContextInv(stage, ctx[t])
  BY DEF PipelineInv, TypeOK, At

LEMMA InjectionGuardKeepsInv ==
  ASSUME PipelineInv, NEW t \in Threads, InjectionGuard(t)
  PROVE  PipelineInv'
  <1>1. ctx[t] \in ContextType /\ ContextInv("injection", ctx[t])
      BY AtStage DEF InjectionGuard, Stages, OfInput
  <1>2. PICK hit \in BOOLEAN :
            EndStage(t, "injection", [ctx[t] EXCEPT !.hit = hit,
                                                    !.blocked = hit])
      BY DEF InjectionGuard, ScanHits
  <1> DEFINE c == [ctx[t] EXCEPT !.hit = hit, !.blocked = hit]
  <1>3. /\ c \in ContextType /\ c.hit = hit /\ c.blocked = hit
        /\ c.direction = "input"
        /\ c.restored = {} /\ c.out = ctx[t].out
      BY <1>1 DEF ContextType, ContextInv, OfInput
  <1> HIDE DEF c
  <1>4. NextStage(c, "injection") = IF hit THEN "decide" ELSE "detect"
      BY <1>3, InputNext, BlockedNext
  <1>5. ContextInv(NextStage(c, "injection"), c)
      BY <1>1, <1>3, <1>4 DEF ContextInv, OfInput, OfOutput, Through
  <1> QED BY <1>2, <1>3, <1>4, <1>5, QuietStep
          DEF EndStage, InjectionGuard, Stages, OfInput, c

LEMMA PiiDetectKeepsInv ==
  ASSUME PipelineInv, NEW t \in Threads, PiiDetect(t)
  PROVE  PipelineInv'
  <1>1. ctx[t] \in ContextType /\ ContextInv("detect", ctx[t])
      BY AtStage DEF PiiDetect, Stages, OfInput
  <1>2. PICK found \in SUBSET InForm(ctx[t].text, "raw") :
            EndStage(t, "detect", [ctx[t] EXCEPT !.found = found])
      BY DEF PiiDetect
  <1>3. found \subseteq Values
      BY <1>1 DEF InForm, ContextType, AnyPiece
  <1> DEFINE c == [ctx[t] EXCEPT !.found = found]
  <1>4. /\ c \in ContextType /\ c.direction = "input"
        /\ ~ c.blocked /\ ~ c.hit /\ c.restored = {} /\ c.out = ctx[t].out
      BY <1>1, <1>3 DEF ContextType, ContextInv, OfInput
  <1> HIDE DEF c
  <1>5. NextStage(c, "detect") = "multiturn"
      BY <1>4, InputNext
  <1>6. ContextInv("multiturn", c)
      BY <1>1, <1>4 DEF ContextInv, OfInput, OfOutput, Through
  <1> QED BY <1>2, <1>4, <1>5, <1>6, QuietStep
          DEF EndStage, PiiDetect, Stages, OfInput, c

LEMMA MultiturnKeepsInv ==
  ASSUME PipelineInv, NEW t \in Threads, Multiturn(t)
  PROVE  PipelineInv'
  <1>1. ctx[t] \in ContextType /\ ContextInv("multiturn", ctx[t])
      BY AtStage DEF Multiturn, Stages, OfInput
  <1>2. PICK risk \in Risks :
            EndStage(t, "multiturn", [ctx[t] EXCEPT !.risk = risk])
      BY DEF Multiturn
  <1>3. risk \in Nat
      BY PipelineAssumption
  <1> DEFINE c == [ctx[t] EXCEPT !.risk = risk]
  <1>4. /\ c \in ContextType /\ c.direction = "input"
        /\ ~ c.blocked /\ ~ c.hit /\ c.restored = {} /\ c.out = ctx[t].out
      BY <1>1, <1>3 DEF ContextType, ContextInv, OfInput
  <1> HIDE DEF c
  <1>5. NextStage(c, "multiturn") = "policy"
      BY <1>4, InputNext
  <1>6. ContextInv("policy", c)
      BY <1>1, <1>4 DEF ContextInv, OfInput, OfOutput, Through
  <1>7. /\ purpose' \in SessionPurposes /\ mentioned' \subseteq Values
        /\ rows' \subseteq VaultRow /\ RowsScoped'
      BY <1>1 DEF Multiturn, PipelineInv, TypeOK, RowsScoped, ContextType
  <1>8. "policy" \in Stages
      BY DEF Stages, OfInput
  <1>9. /\ ctx' = [ctx EXCEPT ![t] = c]
        /\ pc' = [pc EXCEPT ![t] = "policy"]
      BY <1>2, <1>5 DEF EndStage, c
  <1> QED BY <1>4, <1>6, <1>7, <1>8, <1>9, ThreadStep

(* The stage blocks when the policy's choice for a finding is to; else the *)
(* choice for each finding is one the transform stage carries out.         *)
LEMMA PurposePolicyKeepsInv ==
  ASSUME PipelineInv, NEW t \in Threads, PurposePolicy(t)
  PROVE  PipelineInv'
  <1>1. ctx[t] \in ContextType /\ ContextInv("policy", ctx[t])
      BY AtStage DEF PurposePolicy, Stages, OfInput
  <1>2. PICK named \in SUBSET Purposes, chosen \in [ctx[t].found -> Actions] :
          /\ \A v \in ctx[t].found :
                chosen[v] \in PickAction(ShippedPolicy, Classify(named),
                                         ctx[t].role, v, ctx[t].risk, ctx[t].hit)
          /\ EndStage(t, "policy",
                [ctx[t] EXCEPT !.purpose = Classify(named),
                     !.actions = {[value |-> v, action |-> chosen[v]] :
                                      v \in ctx[t].found},
                     !.todo = {v \in ctx[t].found : chosen[v] = "tokenize"},
                     !.blocked = \E v \in ctx[t].found : chosen[v] = "block"])
      BY DEF PurposePolicy, Actions
  <1> DEFINE actions == {[value |-> v, action |-> chosen[v]] :
                             v \in ctx[t].found}
             todo    == {v \in ctx[t].found : chosen[v] = "tokenize"}
             blocked == \E v \in ctx[t].found : chosen[v] = "block"
             c == [ctx[t] EXCEPT !.purpose = Classify(named),
                                 !.actions = actions, !.todo = todo,
                                 !.blocked = blocked]
  <1>3. Classify(named) \in ShippedPurposes
      BY ClassifyShipped
  <1>4. /\ actions \subseteq [value : Values, action : Actions]
        /\ todo \subseteq Values /\ blocked \in BOOLEAN
      BY <1>1 DEF ContextType
  <1>5. ctx[t].hit = FALSE /\ ctx[t].direction = "input"
      BY <1>1 DEF ContextType, ContextInv, OfInput
  <1>6. ~ blocked => \A a \in actions : a.action # "block"
      OBVIOUS
  <1> HIDE DEF actions, todo, blocked
  <1>7. /\ c \in ContextType /\ c.direction = "input"
        /\ c.blocked = blocked /\ ~ c.hit /\ c.restored = {}
        /\ c.out = ctx[t].out /\ c.purpose = Classify(named)
        /\ c.actions = actions /\ c.role = ctx[t].role
        /\ c.risk = ctx[t].risk
      BY <1>1, <1>3, <1>4, <1>5
      DEF ContextType, ContextInv, OfInput, SessionPurposes
  <1>8. EndStage(t, "policy", c)
      BY <1>2 DEF actions, todo, blocked
  <1>9. \A v \in ctx[t].found : chosen[v] \in Choices(c, v)
    <2>1. /\ c.purpose = Classify(named) /\ c.role = ctx[t].role
          /\ c.risk = ctx[t].risk
        BY <1>7
    <2> HIDE DEF c
    <2> QED BY <1>2, <1>5, <2>1, Zenon DEF Choices
  <1> HIDE DEF c
  <1>10. NextStage(c, "policy") = IF blocked THEN "decide" ELSE "remember"
      BY <1>7, InputNext, BlockedNext
  <1>11. ~ blocked => Chosen(c)
      BY <1>3, <1>9, <1>6, <1>7 DEF Chosen, actions
  <1>12. ContextInv(NextStage(c, "policy"), c)
      BY <1>1, <1>7, <1>10, <1>11 DEF ContextInv, OfInput, OfOutput, Through
  <1>13. NextStage(c, "policy") \in Stages
      BY <1>10 DEF Stages, OfInput
  <1> QED BY <1>7, <1>8, <1>12, <1>13, QuietStep DEF EndStage, PurposePolicy

(* A stage that raises and blocks.                                         *)
LEMMA BlockingKeepsInv ==
  ASSUME PipelineInv, NEW t \in Threads, NEW stage \in OfInput \cup OfOutput,
         At(t, stage), EndStage(t, stage, [ctx[t] EXCEPT !.blocked = TRUE]),
         UNCHANGED <<purpose, mentioned, rows>>
  PROVE  PipelineInv'
  <1> DEFINE c == [ctx[t] EXCEPT !.blocked = TRUE]
  <1>1. ctx[t] \in ContextType /\ ContextInv(stage, ctx[t])
      BY AtStage DEF Stages
  <1>2. /\ c \in ContextType /\ c.direction = ctx[t].direction /\ c.blocked
        /\ c.restored = ctx[t].restored /\ c.out = ctx[t].out
        /\ c.role = ctx[t].role /\ c.purpose = ctx[t].purpose
      BY <1>1 DEF ContextType
  <1> HIDE DEF c
  <1>3. NextStage(c, stage) = "decide"
      BY <1>2, BlockedNext
  <1>4. ContextInv("decide", c)
      BY <1>1, <1>2 DEF ContextInv, OfInput, OfOutput, Through
  <1> QED BY <1>2, <1>3, <1>4, QuietStep DEF EndStage, Stages, c

LEMMA RememberKeepsInv ==
  ASSUME PipelineInv, NEW t \in Threads, RememberPurpose(t)
  PROVE  PipelineInv'
  <1>1. ctx[t] \in ContextType /\ ContextInv("remember", ctx[t])
      BY AtStage DEF RememberPurpose, Stages, OfInput
  <1>2. ctx[t].direction = "input" /\ ~ ctx[t].blocked
      BY <1>1 DEF ContextInv, OfInput
  <1>3. NextStage(ctx[t], "remember") = "transform"
      BY <1>2, InputNext
  <1>4. ContextInv("transform", ctx[t])
      BY <1>1 DEF ContextInv, OfInput, OfOutput, Through
  <1>5. /\ purpose' \in SessionPurposes /\ mentioned' \subseteq Values
        /\ rows' \subseteq VaultRow /\ RowsScoped'
      BY <1>1 DEF RememberPurpose, PipelineInv, TypeOK, RowsScoped, ContextType
  <1>6. "transform" \in Stages
      BY DEF Stages, OfInput
  <1>7. /\ ctx' = [ctx EXCEPT ![t] = ctx[t]]
        /\ pc' = [pc EXCEPT ![t] = "transform"]
      BY <1>3 DEF RememberPurpose, EndStage
  <1> QED BY <1>1, <1>4, <1>5, <1>6, <1>7, ThreadStep

(* A vault call of the transform stage: the row it makes is scoped, and    *)
(* what it gives is not raw.                                               *)
LEMMA TokenizeKeepsInv ==
  ASSUME PipelineInv, NEW t \in Threads, NEW v \in Values,
         Tokenize(t, v) \/ TokenizeFails(t, v)
  PROVE  PipelineInv'
  <1>1. /\ ctx[t] \in ContextType /\ ContextInv("transform", ctx[t])
        /\ pc[t] = "transform"
      BY AtStage DEF Tokenize, TokenizeFails, Stages, OfInput, At
  <1>2. PICK form \in {"label", "redact"} :
            ctx' = [ctx EXCEPT ![t].todo = @ \ {v},
                               ![t].out = @ \cup {Piece(form, v)}]
      BY DEF Tokenize, TokenizeFails, TokenizeFallback
  <1> DEFINE c == [ctx[t] EXCEPT !.todo = @ \ {v},
                                 !.out = @ \cup {Piece(form, v)}]
  <1>3. Piece(form, v) \in AnyPiece /\ Piece(form, v).form # "raw"
      BY DEF Piece, AnyPiece, Forms
  <1>4. /\ c \in ContextType /\ c.direction = ctx[t].direction
        /\ c.blocked = ctx[t].blocked /\ c.hit = ctx[t].hit
        /\ c.restored = ctx[t].restored /\ c.purpose = ctx[t].purpose
        /\ c.role = ctx[t].role /\ c.risk = ctx[t].risk
        /\ c.actions = ctx[t].actions
        /\ \A p \in c.out : p.form # "raw"
      BY <1>1, <1>3 DEF ContextType, ContextInv
  <1>5. ctx' = [ctx EXCEPT ![t] = c]
      BY <1>1, <1>2 DEF ContextType, PipelineInv, TypeOK
  <1>6. pc' = [pc EXCEPT ![t] = "transform"]
      BY <1>1 DEF Tokenize, TokenizeFails, PipelineInv, TypeOK
  <1> HIDE DEF c
  <1>7. Chosen(c)
      BY <1>1, <1>4 DEF ContextInv, Chosen, Choices
  <1>8. ContextInv("transform", c)
      BY <1>1, <1>4, <1>7 DEF ContextInv, OfInput, OfOutput, Through
  <1>9. RowsScoped' /\ rows' \subseteq VaultRow
    <2>1. ctx[t].purpose \in ShippedPurposes /\ ctx[t].role \in Roles
        BY <1>1 DEF ContextInv, Chosen, ContextType
    <2>2. ctx[t].purpose # NoPurpose
        BY <2>1, PipelineAssumption
    <2>3. /\ AccessScope(ctx[t], v) \in VaultRow
          /\ LET r == AccessScope(ctx[t], v)
             IN  /\ r.roles = {IF r.by = NoRole THEN AnyValue ELSE r.by}
                 /\ r.for \in ShippedPurposes /\ r.purposes = {r.for}
        BY <2>1, <2>2 DEF AccessScope, VaultRow, SessionPurposes
    <2> QED BY <2>3 DEF Tokenize, TokenizeFails, RowsScoped, PipelineInv,
                        TypeOK
  <1>10. /\ purpose' \in SessionPurposes /\ mentioned' \subseteq Values
         /\ "transform" \in Stages
      BY DEF Tokenize, TokenizeFails, PipelineInv, TypeOK, Stages, OfInput
  <1> QED BY <1>4, <1>5, <1>6, <1>8, <1>9, <1>10, ThreadStep

(* _render leaves a value raw only for the action keep, or for block.      *)
LEMMA RenderRaw ==
  ASSUME NEW v \in Values, NEW action \in Actions, action # "block"
  PROVE  /\ Render(v, action) \subseteq AnyPiece
         /\ \A p \in Render(v, action) :
               p.value = v /\ (p.form = "raw" => action = "keep")
  <1>1. \A form \in Forms : Piece(form, v) \in AnyPiece
      BY DEF Piece, AnyPiece
  <1>2. \/ Render(v, action) \in {{Piece("mask", v)}, {Piece("redact", v)},
                                  {Piece("generalize", v)}, {}}
        \/ action = "keep" /\ Render(v, action) = {Piece("raw", v)}
      BY DEF Render, Actions
  <1> QED BY <1>1, <1>2 DEF Piece, Forms

LEMMA ReplaceKeepsInv ==
  ASSUME PipelineInv, NEW t \in Threads, Replace(t)
  PROVE  PipelineInv'
  <1>1. ctx[t] \in ContextType /\ ContextInv("transform", ctx[t])
      BY AtStage DEF Replace, Stages, OfInput
  <1>2. Chosen(ctx[t])
      BY <1>1 DEF ContextInv
  <1> DEFINE rendered == UNION {Render(a.value, a.action) :
                                    a \in ctx[t].actions}
             rest == ctx[t].text \ Pieces("raw", ctx[t].found)
             c == [ctx[t] EXCEPT !.text = rest \cup rendered \cup ctx[t].out]
  <1>3. \A a \in ctx[t].actions :
            /\ a.value \in Values /\ a.action \in Actions
            /\ a.action # "block" /\ a.action \in Choices(ctx[t], a.value)
      BY <1>1, <1>2 DEF ContextType, Chosen
  <1>4. /\ rendered \subseteq AnyPiece
        /\ \A p \in rendered :
              p.form = "raw" => "keep" \in Choices(ctx[t], p.value)
    <2> SUFFICES ASSUME NEW p \in rendered
                 PROVE  /\ p \in AnyPiece
                        /\ p.form = "raw" => "keep" \in Choices(ctx[t], p.value)
        OBVIOUS
    <2>1. PICK a \in ctx[t].actions : p \in Render(a.value, a.action)
        OBVIOUS
    <2> QED BY <1>3, <2>1, RenderRaw
  <1>5. rest \subseteq AnyPiece /\ ctx[t].out \subseteq AnyPiece
      BY <1>1 DEF ContextType
  <1>6. \A v \in ctx[t].found \cap InForm(rest, "raw") : FALSE
    <2> SUFFICES ASSUME NEW p \in rest, p.form = "raw",
                        p.value \in ctx[t].found
                 PROVE  FALSE
        BY DEF InForm
    <2>1. p = Piece("raw", p.value)
        BY <1>5 DEF AnyPiece, Piece
    <2> QED BY <2>1 DEF Pieces
  <1> HIDE DEF rendered, rest
  <1>7. /\ c \in ContextType /\ c.text = rest \cup rendered \cup ctx[t].out
        /\ c.direction = "input" /\ ~ c.blocked /\ ~ c.hit
        /\ c.restored = {} /\ c.out = ctx[t].out /\ c.found = ctx[t].found
        /\ c.purpose = ctx[t].purpose /\ c.role = ctx[t].role
        /\ c.risk = ctx[t].risk
      BY <1>1, <1>4, <1>5 DEF ContextType, ContextInv, OfInput
  <1>8. EndStage(t, "transform", c)
      BY DEF Replace, rendered, rest
  <1> HIDE DEF c
  <1>9. NextStage(c, "transform") = "decide"
      BY <1>7, InputNext
  <1>10. RawIsKept(c)
    <2> SUFFICES ASSUME NEW p \in c.text, p.form = "raw", p.value \in c.found
                 PROVE  "keep" \in Choices(c, p.value)
        BY DEF RawIsKept, InForm
    <2>1. p \notin ctx[t].out
        BY <1>1 DEF ContextInv
    <2>2. p \notin rest
        BY <1>6, <1>7 DEF InForm
    <2>3. "keep" \in Choices(ctx[t], p.value)
        BY <1>4, <1>7, <2>1, <2>2
    <2> QED BY <1>7, <2>3 DEF Choices
  <1>11. ContextInv("decide", c)
      BY <1>1, <1>7, <1>10 DEF ContextInv, OfInput, OfOutput, Through
  <1> QED BY <1>7, <1>8, <1>9, <1>11, QuietStep
          DEF EndStage, Replace, Stages

-----------------------------------------------------------------------------
LEMMA OutputGuardKeepsInv ==
  ASSUME PipelineInv, NEW t \in Threads, OutputGuard(t) \/ OutputGuardFails(t)
  PROVE  PipelineInv'
  <1>1. /\ At(t, "guard") /\ "guard" \in Stages
        /\ ctx[t] \in ContextType /\ ContextInv("guard", ctx[t])
      BY AtStage DEF OutputGuard, OutputGuardFails, Stages, OfOutput
  <1>2. CASE EndStage(t, "guard", [ctx[t] EXCEPT !.blocked = TRUE])
      BY <1>1, <1>2, BlockingKeepsInv DEF OutputGuard, OutputGuardFails, OfOutput
  <1> DEFINE masked == (ctx[t].text \ Pieces("raw", Values))
                           \cup Pieces("mask", InForm(ctx[t].text, "raw"))
             c == [ctx[t] EXCEPT !.text = masked]
  <1>3. CASE EndStage(t, "guard", c)
    <2>1. InForm(ctx[t].text, "raw") \subseteq Values
        BY <1>1 DEF InForm, ContextType, AnyPiece
    <2>2. masked \subseteq AnyPiece
        BY <1>1, <2>1 DEF ContextType, Pieces, Piece, AnyPiece, Forms
    <2>3. \A p \in masked : p.form # "raw"
      <3> SUFFICES ASSUME NEW p \in masked, p.form = "raw" PROVE FALSE
          OBVIOUS
      <3>1. p = Piece("raw", p.value) /\ p.value \in Values
          BY <2>2 DEF AnyPiece, Piece
      <3> QED BY <3>1 DEF Pieces, Piece
    <2> HIDE DEF masked
    <2>4. /\ c \in ContextType /\ c.text = masked /\ c.direction = "output"
          /\ ~ c.blocked /\ ~ c.hit /\ c.restored = {}
          /\ c.out = ctx[t].out
        BY <1>1, <2>2 DEF ContextType, ContextInv, OfOutput
    <2> HIDE DEF c
    <2>5. NextStage(c, "guard") = "lookup"
        BY <2>4, OutputNext
    <2>6. InForm(c.text, "raw") = {r.value : r \in c.restored}
        BY <2>3, <2>4 DEF InForm
    <2>7. ContextInv("lookup", c)
        BY <1>1, <2>4, <2>6 DEF ContextInv, OfInput, OfOutput, Through
    <2> QED BY <1>3, <2>4, <2>5, <2>7, QuietStep
            DEF EndStage, OutputGuard, OutputGuardFails, Stages, OfOutput
  <1> QED BY <1>2, <1>3 DEF OutputGuard, OutputGuardFails

LEMMA GetLastPurposeKeepsInv ==
  ASSUME PipelineInv, NEW t \in Threads, GetLastPurpose(t)
  PROVE  PipelineInv'
  <1>1. ctx[t] \in ContextType /\ ContextInv("lookup", ctx[t])
      BY AtStage DEF GetLastPurpose, Stages, OfOutput
  <1> DEFINE c == [ctx[t] EXCEPT !.purpose = purpose,
                                 !.todo = InForm(ctx[t].text, "label")]
  <1>2. InForm(ctx[t].text, "label") \subseteq Values
      BY <1>1 DEF InForm, ContextType, AnyPiece
  <1>3. purpose \in SessionPurposes
      BY DEF PipelineInv, TypeOK
  <1>4. /\ c \in ContextType /\ c.text = ctx[t].text
        /\ c.direction = "output"
        /\ ~ c.blocked /\ ~ c.hit /\ c.restored = {}
        /\ c.out = ctx[t].out /\ ctx[t].restored = {}
      BY <1>1, <1>2, <1>3 DEF ContextType, ContextInv, OfOutput
  <1>5. EndStage(t, "lookup", c)
      BY DEF GetLastPurpose
  <1> HIDE DEF c
  <1>6. NextStage(c, "lookup") = "restore"
      BY <1>4, OutputNext
  <1>7. ContextInv("restore", c)
      BY <1>1, <1>4 DEF ContextInv, OfInput, OfOutput, Through
  <1> QED BY <1>4, <1>5, <1>6, <1>7, QuietStep
          DEF EndStage, GetLastPurpose, Stages, OfOutput

(* A row within its scope is one made for the role and the purpose that    *)
(* ask for it.                                                             *)
LEMMA ScopeIsRoleAndPurpose ==
  ASSUME PipelineInv, NEW r \in rows, NEW c \in ContextType, ScopeAllows(r, c)
  PROVE  r.by \in {NoRole, c.role} /\ r.for = c.purpose
  <1>1. /\ r.roles = {IF r.by = NoRole THEN AnyValue ELSE r.by}
        /\ r.for \in ShippedPurposes /\ r.purposes = {r.for}
        /\ r.by \in Roles
      BY DEF PipelineInv, TypeOK, VaultRow, RowsScoped
  <1>2. AnyValue \notin ShippedPurposes /\ AnyValue \notin Roles
      BY PipelineAssumption DEF AnyValue, ShippedPurposes
  <1> QED BY <1>1, <1>2 DEF ScopeAllows

LEMMA RestoreKeepsInv ==
  ASSUME PipelineInv, NEW t \in Threads, NEW r \in rows, Restore(t, r)
  PROVE  PipelineInv'
  <1>1. /\ ctx[t] \in ContextType /\ ContextInv("restore", ctx[t])
        /\ pc[t] = "restore" /\ r \in VaultRow
      BY AtStage DEF Restore, Stages, OfOutput, At, PipelineInv, TypeOK
  <1>2. r.by \in {NoRole, ctx[t].role} /\ r.for = ctx[t].purpose
      BY <1>1, ScopeIsRoleAndPurpose DEF Restore
  <1> DEFINE text == (ctx[t].text \ {Piece("label", r.value)})
                         \cup {Piece("raw", r.value)}
             c == [ctx[t] EXCEPT !.todo = @ \ {r.value}, !.text = text,
                                 !.restored = @ \cup {r}]
  <1>3. text \subseteq AnyPiece
      BY <1>1 DEF Piece, AnyPiece, Forms, ContextType, VaultRow
  <1>4. InForm(text, "raw") = InForm(ctx[t].text, "raw") \cup {r.value}
    <2>1. /\ Piece("label", r.value).form # "raw"
          /\ Piece("raw", r.value).form = "raw"
          /\ Piece("raw", r.value).value = r.value
        BY DEF Piece
    <2> QED BY <2>1 DEF InForm
  <1> HIDE DEF text
  <1>5. /\ c \in ContextType /\ c.text = text
        /\ c.restored = ctx[t].restored \cup {r}
        /\ c.direction = "output" /\ ~ c.blocked /\ ~ c.hit
        /\ c.out = ctx[t].out /\ c.role = ctx[t].role
        /\ c.purpose = ctx[t].purpose
      BY <1>1, <1>3 DEF ContextType, ContextInv, OfOutput
  <1>6. ctx' = [ctx EXCEPT ![t] = c]
      BY <1>1 DEF Restore, ContextType, PipelineInv, TypeOK, text
  <1>7. pc' = [pc EXCEPT ![t] = "restore"]
      BY <1>1 DEF Restore, PipelineInv, TypeOK
  <1> HIDE DEF c
  <1>8. InForm(c.text, "raw") = {s.value : s \in c.restored}
    <2>1. InForm(ctx[t].text, "raw") = {s.value : s \in ctx[t].restored}
        BY <1>1 DEF ContextInv, OfOutput
    <2> QED BY <1>4, <1>5, <2>1
  <1>9. ContextInv("restore", c)
      BY <1>1, <1>2, <1>5, <1>8 DEF ContextInv, OfInput, OfOutput, Through
  <1> QED BY <1>5, <1>6, <1>7, <1>9, QuietStep DEF Restore, Stages, OfOutput

LEMMA LeaveLabelKeepsInv ==
  ASSUME PipelineInv, NEW t \in Threads, NEW v, LeaveLabel(t, v)
  PROVE  PipelineInv'
  <1>1. /\ ctx[t] \in ContextType /\ ContextInv("restore", ctx[t])
        /\ pc[t] = "restore"
      BY AtStage DEF LeaveLabel, Stages, OfOutput, At
  <1> DEFINE c == [ctx[t] EXCEPT !.todo = @ \ {v}]
  <1>2. /\ c \in ContextType /\ c.text = ctx[t].text
        /\ c.restored = ctx[t].restored
        /\ c.direction = "output" /\ ~ c.blocked /\ ~ c.hit
        /\ c.out = ctx[t].out /\ c.role = ctx[t].role
        /\ c.purpose = ctx[t].purpose
      BY <1>1 DEF ContextType, ContextInv, OfOutput
  <1>3. ctx' = [ctx EXCEPT ![t] = c]
      BY <1>1 DEF LeaveLabel, ContextType, PipelineInv, TypeOK
  <1>4. pc' = [pc EXCEPT ![t] = "restore"]
      BY <1>1 DEF LeaveLabel, PipelineInv, TypeOK
  <1> HIDE DEF c
  <1>5. ContextInv("restore", c)
      BY <1>1, <1>2 DEF ContextInv, OfInput, OfOutput, Through
  <1> QED BY <1>2, <1>3, <1>4, <1>5, QuietStep DEF LeaveLabel, Stages, OfOutput

LEMMA RestoredKeepsInv ==
  ASSUME PipelineInv, NEW t \in Threads, Restored(t)
  PROVE  PipelineInv'
  <1>1. ctx[t] \in ContextType /\ ContextInv("restore", ctx[t])
      BY AtStage DEF Restored, Stages, OfOutput
  <1>2. ctx[t].direction = "output" /\ ~ ctx[t].blocked
      BY <1>1 DEF ContextInv, OfOutput
  <1>3. NextStage(ctx[t], "restore") = "decide"
      BY <1>2, OutputNext
  <1>4. ContextInv("decide", ctx[t])
      BY <1>1, <1>2 DEF ContextInv, OfInput, OfOutput, Through
  <1>5. "decide" \in Stages
      BY DEF Stages
  <1> QED BY <1>1, <1>3, <1>4, <1>5, QuietStep DEF Restored, EndStage

-----------------------------------------------------------------------------
(* The decision: what must be blocked is, and the rest went through.       *)
LEMMA DecideKeepsInv ==
  ASSUME PipelineInv, NEW t \in Threads, Decide(t)
  PROVE  PipelineInv'
  <1>1. ctx[t] \in ContextType /\ ContextInv("decide", ctx[t])
      BY AtStage DEF Decide, Stages
  <1> DEFINE verdict == IF MustBlock(ctx[t]) THEN "block"
                        ELSE IF ctx[t].text = ctx[t].body THEN "allow"
                        ELSE "transform"
             c == [ctx[t] EXCEPT !.verdict = verdict]
  <1>2. verdict \in {"allow", "block", "transform"}
        /\ (verdict # "block" => ~ MustBlock(ctx[t]))
      OBVIOUS
  <1>3. ctx' = [ctx EXCEPT ![t] = c] /\ pc' = [pc EXCEPT ![t] = "answered"]
      BY <1>1 DEF Decide, ContextType, PipelineInv, TypeOK
  <1> HIDE DEF verdict
  <1>4. /\ c \in ContextType /\ c.verdict = verdict
        /\ c.direction = ctx[t].direction
        /\ c.blocked = ctx[t].blocked /\ c.hit = ctx[t].hit
        /\ c.restored = ctx[t].restored /\ c.purpose = ctx[t].purpose
        /\ c.role = ctx[t].role /\ c.risk = ctx[t].risk
        /\ c.out = ctx[t].out /\ c.found = ctx[t].found
        /\ c.text = ctx[t].text
      BY <1>1, <1>2 DEF ContextType
  <1> HIDE DEF c
  <1>5. verdict # "block" =>
            /\ ~ c.blocked /\ ~ c.hit
            /\ c.direction = "input" => c.risk < HardBlock
      BY <1>1, <1>2, <1>4, PipelineAssumption DEF MustBlock, ContextType
  <1>6. ASSUME c.direction = "input", Through("answered", c)
        PROVE  RawIsKept(c)
    <2>1. Through("decide", ctx[t]) /\ ctx[t].direction = "input"
        BY <1>4, <1>5, <1>6 DEF Through
    <2>2. RawIsKept(ctx[t])
        BY <1>1, <2>1 DEF ContextInv
    <2> QED BY <1>4, <2>2 DEF RawIsKept, Choices
  <1>7. ASSUME c.direction = "output", Through("answered", c)
        PROVE  InForm(c.text, "raw") = {r.value : r \in c.restored}
    <2>1. Through("decide", ctx[t]) /\ ctx[t].direction = "output"
        BY <1>4, <1>5, <1>7 DEF Through
    <2> QED BY <1>1, <1>4, <2>1 DEF ContextInv
  <1>8. ContextInv("answered", c)
      BY <1>1, <1>4, <1>5, <1>6, <1>7
      DEF ContextInv, OfInput, OfOutput, Through
  <1>9. "answered" \in Stages
      BY DEF Stages
  <1> QED BY <1>3, <1>4, <1>8, <1>9, QuietStep DEF Decide

(* A call that fails answers with the configured action: where that is to  *)
(* block, nothing goes out.                                                *)
LEMMA FailsKeepsInv ==
  ASSUME PipelineInv, NEW t \in Threads, Fails(t)
  PROVE  PipelineInv'
  <1>1. ctx[t] \in ContextType /\ ContextInv(pc[t], ctx[t])
      BY DEF PipelineInv, TypeOK
  <1> DEFINE c == [ctx[t] EXCEPT !.verdict = FailAction, !.text = ctx[t].body]
  <1>2. ctx' = [ctx EXCEPT ![t] = c] /\ pc' = [pc EXCEPT ![t] = "answered"]
      BY <1>1 DEF Fails, ContextType, PipelineInv, TypeOK
  <1>3. pc[t] \in OfInput \cup OfOutput \cup {"decide"}
      BY DEF Fails, StagesOf, InputStages, OutputStages, At, OfInput, OfOutput
  <1>4. /\ c \in ContextType /\ c.verdict = FailAction
        /\ c.direction = ctx[t].direction
        /\ c.blocked = ctx[t].blocked /\ c.hit = ctx[t].hit
        /\ c.restored = ctx[t].restored /\ c.purpose = ctx[t].purpose
        /\ c.role = ctx[t].role /\ c.out = ctx[t].out
      BY <1>1, PipelineAssumption DEF ContextType
  <1> HIDE DEF c
  <1>5. ContextInv("answered", c)
      BY <1>1, <1>4 DEF ContextInv, OfInput, OfOutput, Through
  <1>6. "answered" \in Stages
      BY DEF Stages
  <1> QED BY <1>2, <1>4, <1>5, <1>6, QuietStep DEF Fails

LEMMA NoContextFits ==
  NoContext \in ContextType /\ ContextInv("idle", NoContext)
  <1>1. NoContext \in ContextType
      BY PipelineAssumption
      DEF NoContext, Context, ContextType, SessionPurposes
  <1>2. /\ NoContext.direction = "none" /\ ~ NoContext.blocked
        /\ ~ NoContext.hit /\ NoContext.restored = {} /\ NoContext.out = {}
      BY DEF NoContext, Context
  <1>3. ContextInv("idle", NoContext)
      BY <1>2 DEF ContextInv, OfInput, OfOutput, Through
  <1> QED BY <1>1, <1>3

LEMMA ReturnKeepsInv ==
  ASSUME PipelineInv, NEW t \in Threads, Return(t)
  PROVE  PipelineInv'
  BY NoContextFits, QuietStep DEF Return, Stages

LEMMA ExpireKeepsInv ==
  ASSUME PipelineInv, Expire
  PROVE  PipelineInv'
  BY DEF Expire, PipelineInv, TypeOK, RowsScoped, SessionPurposes

LEMMA InitPipeline == Init => PipelineInv
  <1> SUFFICES ASSUME Init PROVE PipelineInv
      OBVIOUS
  <1>1. TypeOK
      BY NoContextFits DEF Init, TypeOK, Stages, SessionPurposes
  <1>2. \A t \in Threads : ContextInv(pc[t], ctx[t])
      BY NoContextFits DEF Init
  <1> QED BY <1>1, <1>2 DEF Init, PipelineInv, RowsScoped

LEMMA NextPipeline == PipelineInv /\ [Next]_vars => PipelineInv'
  <1> SUFFICES ASSUME PipelineInv, [Next]_vars PROVE PipelineInv'
      OBVIOUS
  <1>1. ASSUME NEW t \in Threads, NEW header \in RoleHeaders,
               NEW values \in SUBSET Values, BeginInput(t, header, values)
        PROVE  PipelineInv'
      BY <1>1, BeginKeepsInv
  <1>2. ASSUME NEW t \in Threads, NEW header \in RoleHeaders,
               NEW labels \in SUBSET Values, NEW values \in SUBSET Values,
               BeginOutput(t, header, labels, values)
        PROVE  PipelineInv'
      BY <1>2, BeginKeepsInv
  <1>3. ASSUME NEW t \in Threads, PurposePolicyFails(t) PROVE PipelineInv'
      BY <1>3, BlockingKeepsInv DEF PurposePolicyFails, OfInput
  <1>4. ASSUME NEW t \in Threads,
               InjectionGuard(t) \/ PiiDetect(t) \/ Multiturn(t)
        PROVE  PipelineInv'
      BY <1>4, InjectionGuardKeepsInv, PiiDetectKeepsInv, MultiturnKeepsInv
  <1>5. ASSUME NEW t \in Threads, PurposePolicy(t) \/ RememberPurpose(t)
        PROVE  PipelineInv'
      BY <1>5, PurposePolicyKeepsInv, RememberKeepsInv
  <1>6. ASSUME NEW t \in Threads, NEW v \in Values,
               Tokenize(t, v) \/ TokenizeFails(t, v) \/ LeaveLabel(t, v)
        PROVE  PipelineInv'
      BY <1>6, TokenizeKeepsInv, LeaveLabelKeepsInv
  <1>7. ASSUME NEW t \in Threads, Replace(t) \/ GetLastPurpose(t)
        PROVE  PipelineInv'
      BY <1>7, ReplaceKeepsInv, GetLastPurposeKeepsInv
  <1>8. ASSUME NEW t \in Threads, OutputGuard(t) \/ OutputGuardFails(t)
        PROVE  PipelineInv'
      BY <1>8, OutputGuardKeepsInv
  <1>9. ASSUME NEW t \in Threads, NEW r \in rows, Restore(t, r)
        PROVE  PipelineInv'
      BY <1>9, RestoreKeepsInv
  <1>10. ASSUME NEW t \in Threads,
                Restored(t) \/ Decide(t) \/ Fails(t) \/ Return(t)
         PROVE  PipelineInv'
      BY <1>10, RestoredKeepsInv, DecideKeepsInv, FailsKeepsInv, ReturnKeepsInv
  <1>11. CASE UNCHANGED vars
      BY <1>11 DEF vars, PipelineInv, TypeOK, RowsScoped
  <1> QED BY <1>1, <1>2, <1>3, <1>4, <1>5, <1>6, <1>7, <1>8, <1>9, <1>10,
             <1>11, ExpireKeepsInv DEF Next

(* Every thread is at a stage its context fits, and every row of the vault *)
(* is scoped to the role and the purpose it was made under.                *)
THEOREM PipelineInvariant == Spec => []PipelineInv
  <1> QED BY InitPipeline, NextPipeline, PTL DEF Spec

-----------------------------------------------------------------------------
(* With fail_action = block, a request that goes out was no injection and  *)
(* below the hard block, and holds raw, of what was found in it, only what *)
(* the policy keeps.                                                       *)
THEOREM OnlyPolicyPasses == Spec => []PassedWithinPolicy
  <1>1. PipelineInv => PassedWithinPolicy
    <2> SUFFICES ASSUME PipelineInv, NEW t \in Threads, Answered(t, "input"),
                        FailAction = "block"
                 PROVE  /\ ~ ctx[t].hit /\ ctx[t].risk < HardBlock
                        /\ RawIsKept(ctx[t])
        BY DEF PassedWithinPolicy, RawIsKept, Choices
    <2>1. Through("answered", ctx[t]) /\ ctx[t].direction = "input"
        BY DEF Answered, Through
    <2>2. ContextInv("answered", ctx[t])
        BY DEF PipelineInv, Answered, At
    <2> QED BY <2>1, <2>2 DEF ContextInv
  <1> QED BY <1>1, PipelineInvariant, PTL

(* With fail_action = block, a user reads raw in a response exactly what   *)
(* the vault restored for it.                                              *)
THEOREM OnlyRestoredIsRaw == Spec => []RawIsRestored
  <1>1. PipelineInv => RawIsRestored
    <2> SUFFICES ASSUME PipelineInv, NEW t \in Threads, Answered(t, "output"),
                        FailAction = "block"
                 PROVE  InForm(ctx[t].text, "raw")
                            = {r.value : r \in ctx[t].restored}
        BY DEF RawIsRestored
    <2>1. Through("answered", ctx[t]) /\ ctx[t].direction = "output"
        BY DEF Answered, Through
    <2>2. ContextInv("answered", ctx[t])
        BY DEF PipelineInv, Answered, At
    <2> QED BY <2>1, <2>2 DEF ContextInv
  <1> QED BY <1>1, PipelineInvariant, PTL

(* A value is restored only for the role, and under the purpose, that it   *)
(* was tokenized for, whatever other requests of the session do meanwhile. *)
THEOREM RestoredForItsRole == Spec => []RestoredToItsRole
  <1>1. PipelineInv => RestoredToItsRole
      BY DEF PipelineInv, ContextInv, RestoredToItsRole
  <1> QED BY <1>1, PipelineInvariant, PTL

(* A request that was blocked changes neither the session nor the vault.   *)
THEOREM BlockedIsInert == Spec => BlockedTouchesNothing
  <1> DEFINE Inert == \A t \in Threads :
                 ctx[t].blocked /\ (pc[t] # pc'[t] \/ ctx[t] # ctx'[t])
                     => UNCHANGED <<purpose, mentioned, rows>>
  <1>1. PipelineInv /\ [Next]_vars => [Inert]_vars
    <2> SUFFICES ASSUME PipelineInv, Next, NEW t \in Threads, ctx[t].blocked,
                        pc[t] # pc'[t] \/ ctx[t] # ctx'[t]
                 PROVE  UNCHANGED <<purpose, mentioned, rows>>
        OBVIOUS
    <2>1. ~ Expire
        BY DEF Expire
    <2>2. \A u \in Threads :
              Multiturn(u) \/ RememberPurpose(u)
              \/ (\E v \in Values : Tokenize(u, v)) => u = t
        BY DEF Multiturn, RememberPurpose, Tokenize, EndStage, PipelineInv,
               TypeOK
    <2>3. pc[t] \in {"decide", "answered"}
        BY DEF PipelineInv, ContextInv
    <2>4. ~ Multiturn(t) /\ ~ RememberPurpose(t)
          /\ \A v \in Values : ~ Tokenize(t, v)
        BY <2>3 DEF Multiturn, RememberPurpose, Tokenize, At
    <2>5. ASSUME NEW u \in Threads, NEW header, NEW labels, NEW values,
                 BeginInput(u, header, values) \/ BeginOutput(u, header, labels, values)
          PROVE  UNCHANGED <<purpose, mentioned, rows>>
        BY <2>5 DEF BeginInput, BeginOutput
    <2>6. ASSUME NEW u \in Threads,
                 InjectionGuard(u) \/ PiiDetect(u) \/ PurposePolicy(u) \/ PurposePolicyFails(u)
          PROVE  UNCHANGED <<purpose, mentioned, rows>>
        BY <2>6 DEF InjectionGuard, PiiDetect, PurposePolicy, PurposePolicyFails
    <2>7. ASSUME NEW u \in Threads, NEW v, TokenizeFails(u, v) \/ LeaveLabel(u, v) \/ Restore(u, v)
          PROVE  UNCHANGED <<purpose, mentioned, rows>>
        BY <2>7 DEF TokenizeFails, LeaveLabel, Restore
    <2>8. ASSUME NEW u \in Threads, \/ Replace(u) \/ OutputGuard(u) \/ OutputGuardFails(u)
                                    \/ GetLastPurpose(u) \/ Restored(u)
          PROVE  UNCHANGED <<purpose, mentioned, rows>>
        BY <2>8 DEF Replace, OutputGuard, OutputGuardFails, GetLastPurpose, Restored
    <2>9. ASSUME NEW u \in Threads, Decide(u) \/ Fails(u) \/ Return(u)
          PROVE  UNCHANGED <<purpose, mentioned, rows>>
        BY <2>9 DEF Decide, Fails, Return
    <2>10. \A u \in Threads : /\ ~ Multiturn(u) /\ ~ RememberPurpose(u)
                              /\ \A v \in Values : ~ Tokenize(u, v)
        BY <2>2, <2>4
    <2> QED BY <2>1, <2>5, <2>6, <2>7, <2>8, <2>9, <2>10, Zenon DEF Next
  <1> QED BY <1>1, PipelineInvariant, PTL DEF Spec, BlockedTouchesNothing
=============================================================================
