------------------------ MODULE PolicyCache_proofs -------------------------
(***************************************************************************)
(* Proofs about PolicyCache, for any threads and policies and however      *)
(* often the scripts run: no thread decides by a torn ruleset, and where   *)
(* the policies are unambiguous, every question has one answer.            *)
(***************************************************************************)
EXTENDS PolicyCache, FiniteSetTheorems, TLAPS

Whole == {EmptyRuleset} \cup Policies

(* What is committed is a whole policy, none, or no tables.                *)
TablesWhole == tables \in {EmptyTables, NoTables} \cup {Filled(p) : p \in Policies}

(* seed_policy.py holds a policy only while no version is active.          *)
SeedingSafe == seeding \subseteq Policies /\ (seeding # {} => ~tables.active)

(* A loader between its statements has read a part of the policy that is   *)
(* still committed: TRUNCATE and DROP wait for it.                         *)
PartRead(t) ==
    /\ pc[t] = "rules" => tables.active /\ loaded[t] = EmptyRuleset
    /\ pc[t] = "overrides" => /\ tables.active
                              /\ loaded[t] = [rules |-> tables.rules, overrides |-> {}]
    /\ pc[t] = "store" => loaded[t] \in Whole

CacheInv ==
    /\ DOMAIN pc = Threads /\ DOMAIN loaded = Threads
    /\ TablesWhole
    /\ SeedingSafe
    /\ \A t \in Threads : PartRead(t)
    /\ {cache, used} \subseteq {NotLoaded} \cup Whole

LEMMA InitWhole == Init => CacheInv
  BY DEF Init, CacheInv, TablesWhole, SeedingSafe, PartRead, Whole, EmptyTables,
         NoTables, Filled

(* Tables of which a version is active hold a whole policy.                *)
LEMMA ActiveIsWhole ==
  ASSUME TablesWhole, tables.active
  PROVE  [rules |-> tables.rules, overrides |-> tables.overrides] \in Policies
  <1>1. PICK p \in Policies : tables = Filled(p)
      BY DEF TablesWhole, EmptyTables, NoTables
  <1>2. p = [rules |-> p.rules, overrides |-> p.overrides]
      BY PolicyAssumption
  <1> QED BY <1>1, <1>2 DEF Filled

(* A script that empties, drops or makes the tables finds no loader at     *)
(* work on them, and one that fills them finds none either.                *)
LEMMA ScriptsKeep ==
  ASSUME CacheInv,
         \/ \E p \in Policies : Truncate(p) \/ Check(p)
         \/ Seed \/ SeedDies \/ DropSchema \/ CreateSchema
  PROVE  CacheInv'
  <1>1. UNCHANGED <<cache, pc, loaded, used>>
      BY DEF Truncate, Check, Seed, SeedDies, DropSchema, CreateSchema
  <1>2. TablesWhole'
      <2>1. CASE Seed
          BY <2>1 DEF Seed, CacheInv, SeedingSafe, TablesWhole
      <2>2. CASE \/ \E p \in Policies : Truncate(p) \/ Check(p)
                 \/ SeedDies \/ DropSchema \/ CreateSchema
          BY <2>2 DEF Truncate, Check, SeedDies, DropSchema, CreateSchema,
                      CacheInv, TablesWhole
      <2> QED BY <2>1, <2>2
  <1>3. SeedingSafe'
      <2>1. CASE \E p \in Policies : Truncate(p) \/ Check(p)
          BY <2>1 DEF Truncate, Check, SeedingSafe, EmptyTables
      <2>2. CASE Seed \/ SeedDies \/ DropSchema
          BY <2>2 DEF Seed, SeedDies, DropSchema, CacheInv, SeedingSafe
      <2>3. CASE CreateSchema
          BY <2>3 DEF CreateSchema, CacheInv, SeedingSafe, EmptyTables
      <2> QED BY <2>1, <2>2, <2>3
  <1>4. ASSUME NEW t \in Threads, pc[t] \in {"rules", "overrides"}
        PROVE  tables' = tables
      <2>1. tables.active /\ seeding = {} /\ t \in Reading
          BY <1>4 DEF CacheInv, PartRead, SeedingSafe, Reading
      <2>2. tables.there
          BY <2>1 DEF CacheInv, TablesWhole, EmptyTables, NoTables, Filled
      <2> QED BY <2>1, <2>2 DEF Truncate, Check, Seed, SeedDies, DropSchema,
                                CreateSchema
  <1>5. \A t \in Threads : PartRead(t)'
      BY <1>1, <1>4 DEF CacheInv, PartRead
  <1> QED BY <1>1, <1>2, <1>3, <1>5 DEF CacheInv, Whole

(* A loader reads on within one policy, and stores it whole.               *)
LEMMA LoadersKeep ==
  ASSUME CacheInv, NEW t \in Threads,
         \/ Ask(t) \/ ReadVersion(t) \/ ReadRules(t) \/ ReadOverrides(t)
         \/ LoadFails(t) \/ Store(t) \/ Decide(t)
  PROVE  CacheInv'
  <1>1. UNCHANGED <<tables, seeding>>
      BY DEF Ask, ReadVersion, ReadRules, ReadOverrides, LoadFails, Store, Decide
  <1>2. \A s \in Threads \ {t} : pc'[s] = pc[s] /\ loaded'[s] = loaded[s]
      BY DEF Ask, ReadVersion, ReadRules, ReadOverrides, LoadFails, Store, Decide,
             CacheInv
  <1>3. DOMAIN pc' = Threads /\ DOMAIN loaded' = Threads
      BY DEF Ask, ReadVersion, ReadRules, ReadOverrides, LoadFails, Store, Decide,
             CacheInv
  <1>4. PartRead(t)'
      <2>1. CASE Ask(t) \/ LoadFails(t) \/ Store(t) \/ Decide(t)
          BY <2>1 DEF Ask, LoadFails, Store, Decide, CacheInv, PartRead
      <2>2. CASE ReadVersion(t)
          BY <1>1, <2>2 DEF ReadVersion, CacheInv, PartRead, Whole
      <2>3. CASE ReadRules(t)
          <3>1. loaded'[t] = [rules |-> tables.rules, overrides |-> {}]
            <4>1. DOMAIN loaded = Threads /\ loaded[t] = EmptyRuleset
                BY <2>3 DEF ReadRules, CacheInv, PartRead
            <4>2. loaded' = [loaded EXCEPT ![t].rules = tables.rules]
                BY <2>3 DEF ReadRules
            <4>3. loaded'[t] = [EmptyRuleset EXCEPT !.rules = tables.rules]
                BY <4>1, <4>2
            <4> QED BY <4>3 DEF EmptyRuleset
          <3> QED BY <1>1, <2>3, <3>1 DEF ReadRules, CacheInv, PartRead
      <2>4. CASE ReadOverrides(t)
          <3>1. /\ tables.active
                /\ loaded'[t] = [rules |-> tables.rules,
                                 overrides |-> tables.overrides]
              BY <2>4 DEF ReadOverrides, CacheInv, PartRead
          <3>2. loaded'[t] \in Whole
              BY <3>1, ActiveIsWhole DEF CacheInv, Whole
          <3> QED BY <2>4, <3>2 DEF ReadOverrides, CacheInv, PartRead, Whole
      <2> QED BY <2>1, <2>2, <2>3, <2>4
  <1>5. \A s \in Threads : PartRead(s)'
      BY <1>1, <1>2, <1>4 DEF CacheInv, PartRead, Whole
  <1>6. {cache, used}' \subseteq {NotLoaded} \cup Whole
      BY DEF Ask, ReadVersion, ReadRules, ReadOverrides, LoadFails, Store, Decide,
             CacheInv, PartRead
  <1> QED BY <1>1, <1>3, <1>5, <1>6 DEF CacheInv, TablesWhole, SeedingSafe, Whole

(* Every decision is by a whole policy or by none, however the statements  *)
(* of the loaders and of the two scripts interleave.                       *)
THEOREM DecidesByWholePolicy == Spec => []NoTornRuleset
  <1>1. CacheInv /\ [Next]_vars => CacheInv'
      <2> SUFFICES ASSUME CacheInv, [Next]_vars PROVE CacheInv'
          OBVIOUS
      <2>1. CASE UNCHANGED vars
          BY <2>1 DEF vars, CacheInv, TablesWhole, SeedingSafe, PartRead, Whole
      <2>2. CASE Next
          BY <2>2, ScriptsKeep, LoadersKeep DEF Next
      <2> QED BY <2>1, <2>2
  <1>2. CacheInv => NoTornRuleset
      BY DEF CacheInv, NoTornRuleset, Whole
  <1> QED BY <1>1, <1>2, InitWhole, PTL DEF Spec

-----------------------------------------------------------------------------
(* The decision.  Columns(r) are the columns that a rule names.            *)
Columns(r) == {c \in {"purpose", "role", "entity"} : r[c] # AnyValue}
Named(value) == IF value # AnyValue THEN 1 ELSE 0

LEMMA SpecificityCounts ==
  ASSUME NEW r
  PROVE  Specificity(r) =
             Named(r["purpose"]) + Named(r["role"]) + Named(r["entity"])
  <1> DEFINE A == IF r["purpose"] # AnyValue THEN {"purpose"} ELSE {}
             B == IF r["role"] # AnyValue THEN A \cup {"role"} ELSE A
             C == IF r["entity"] # AnyValue THEN B \cup {"entity"} ELSE B
  <1>1. IsFiniteSet(A) /\ Cardinality(A) = Named(r["purpose"])
      BY FS_EmptySet, FS_Singleton DEF Named
  <1>2. "role" \notin A
      OBVIOUS
  <1>3. IsFiniteSet(B) /\ Cardinality(B) = Cardinality(A) + Named(r["role"])
      <2>1. CASE r["role"] # AnyValue
          BY <1>1, <1>2, <2>1, FS_AddElement DEF Named
      <2>2. CASE r["role"] = AnyValue
          <3>1. Cardinality(A) \in Nat
              BY <1>1, FS_CardinalityType
          <3>2. B = A
              BY <2>2
          <3> HIDE DEF A, B
          <3> QED BY <1>1, <2>2, <3>1, <3>2 DEF Named
      <2> QED BY <2>1, <2>2
  <1>4. "entity" \notin B
      OBVIOUS
  <1>5. IsFiniteSet(C) /\ Cardinality(C) = Cardinality(B) + Named(r["entity"])
      <2>1. CASE r["entity"] # AnyValue
          BY <1>3, <1>4, <2>1, FS_AddElement DEF Named
      <2>2. CASE r["entity"] = AnyValue
          <3>1. Cardinality(B) \in Nat
              BY <1>3, FS_CardinalityType
          <3>2. C = B
              BY <2>2
          <3> HIDE DEF B, C
          <3> QED BY <1>3, <2>2, <3>1, <3>2 DEF Named
      <2> QED BY <2>1, <2>2
  <1>6. C = Columns(r)
      BY DEF Columns
  <1> HIDE DEF A, B, C
  <1> QED BY <1>1, <1>3, <1>5, <1>6 DEF Specificity, Columns

LEMMA SpecificityRange ==
  ASSUME NEW r
  PROVE  Specificity(r) \in 0..3
  BY SpecificityCounts DEF Named

(* Two rules that can match the same turn: no column tells them apart.     *)
Overlap(a, b) ==
    /\ a.purpose = b.purpose \/ AnyValue \in {a.purpose, b.purpose}
    /\ a.role = b.role \/ AnyValue \in {a.role, b.role}
    /\ a.entity = b.entity \/ AnyValue \in {a.entity, b.entity}

(* A policy that decides by itself, whatever the order of its rows: no two *)
(* of its rules that match the same turn name equally many columns, and    *)
(* the overrides agree.                                                    *)
Unambiguous(policy) ==
    /\ \A a, b \in policy.rules :
           Overlap(a, b) /\ Specificity(a) = Specificity(b) => a = b
    /\ \A a, b \in policy.overrides :
           a.action = b.action /\ b.priority <= a.priority

LEMMA OverlapOfMatches ==
  ASSUME NEW purpose, NEW role, NEW entity, NEW a, NEW b,
         Matches(a, purpose, role, entity), Matches(b, purpose, role, entity)
  PROVE  Overlap(a, b)
  BY DEF Matches, Overlap

(* Of rules there is always a most specific: a rule has three columns.     *)
LEMMA MostSpecificExists ==
  ASSUME NEW rules, rules # {}
  PROVE  MostSpecific(rules) # {}
  <1> DEFINE Of(n) == \E r \in rules : Specificity(r) = n
  <1>1. \A r \in rules : Specificity(r) \in {0, 1, 2, 3}
      BY SpecificityRange
  <1>2. PICK n \in {0, 1, 2, 3} : Of(n) /\ \A m \in {0, 1, 2, 3} : Of(m) => m <= n
      <2>1. Of(0) \/ Of(1) \/ Of(2) \/ Of(3)
          BY <1>1
      <2> HIDE DEF Of
      <2>2. CASE Of(3)
          BY <2>2
      <2>3. CASE ~Of(3) /\ Of(2)
          BY <2>3
      <2>4. CASE ~Of(3) /\ ~Of(2) /\ Of(1)
          BY <2>4
      <2>5. CASE ~Of(3) /\ ~Of(2) /\ ~Of(1) /\ Of(0)
          BY <2>5
      <2> QED BY <2>1, <2>2, <2>3, <2>4, <2>5
  <1>3. PICK r \in rules : Specificity(r) = n
      BY <1>2
  <1>4. \A s \in rules : Specificity(s) <= n
      BY <1>1, <1>2
  <1>5. r \in MostSpecific(rules)
      BY <1>3, <1>4 DEF MostSpecific
  <1> QED BY <1>5

OneActionFor(policy, purpose, role, entity, risk, injected) ==
    \E a : PickAction(policy, purpose, role, entity, risk, injected) = {a}

(* engine.py:77-100: an unambiguous policy gives every question one answer.*)
LEMMA OneAction ==
  ASSUME NEW policy, Unambiguous(policy),
         \A r \in policy.rules : r.priority \in Int,
         NEW purpose, NEW role, NEW entity, NEW risk, NEW injected
  PROVE  OneActionFor(policy, purpose, role, entity, risk, injected)
  <1> DEFINE fired == {o \in policy.overrides : Holds(o, risk, injected)}
             matching == {r \in policy.rules : Matches(r, purpose, role, entity)}
  <1>1. CASE fired # {}
      <2>1. PICK o \in policy.overrides : o \in fired
          BY <1>1
      <2>2. HighestPriority(fired) = fired
          BY DEF HighestPriority, Unambiguous
      <2>3. {x.action : x \in fired} = {o.action}
          BY <2>1 DEF Unambiguous
      <2>4. PickAction(policy, purpose, role, entity, risk, injected)
                = {x.action : x \in HighestPriority(fired)}
          BY <1>1 DEF PickAction
      <2> HIDE DEF fired
      <2> QED BY <2>2, <2>3, <2>4 DEF OneActionFor
  <1>2. CASE fired = {} /\ matching # {}
      <2>1. PICK r : r \in MostSpecific(matching)
          BY <1>2, MostSpecificExists
      <2>2. r \in matching /\ r.priority \in Int
          BY <2>1 DEF MostSpecific
      <2>3. ASSUME NEW s \in MostSpecific(matching)
            PROVE  s = r
          <3>1. s \in matching
              BY DEF MostSpecific
          <3>2. Specificity(s) <= Specificity(r) /\ Specificity(r) <= Specificity(s)
              BY <2>1, <2>2, <3>1 DEF MostSpecific
          <3>3. Specificity(s) = Specificity(r)
              BY <3>2, SpecificityRange
          <3>4. Overlap(s, r)
              BY <2>2, <3>1, OverlapOfMatches
          <3> QED BY <2>2, <3>1, <3>3, <3>4 DEF Unambiguous
      <2>4. MostSpecific(matching) = {r}
          BY <2>1, <2>3
      <2>5. HighestPriority({r}) = {r}
          BY <2>2 DEF HighestPriority
      <2>6. PickAction(policy, purpose, role, entity, risk, injected)
                = {x.action : x \in HighestPriority(MostSpecific(matching))}
          BY <1>2 DEF PickAction
      <2>7. {x.action : x \in {r}} = {r.action}
          OBVIOUS
      <2> HIDE DEF matching
      <2> QED BY <2>4, <2>5, <2>6, <2>7 DEF OneActionFor
  <1>3. CASE fired = {} /\ matching = {}
      BY <1>3 DEF PickAction, OneActionFor
  <1> QED BY <1>1, <1>2, <1>3

(* The shipped policy is one: its rules, by the columns they name.         *)
ShippedBySpecificity ==
    [n \in 0..3 |->
        CASE n = 0 -> {Rule(AnyValue, AnyValue, AnyValue, "tokenize", -1)}
          [] n = 1 -> {Rule("doc_summarize", AnyValue, AnyValue, "tokenize", 0),
                       Rule("code_help", AnyValue, AnyValue, "block", 0),
                       Rule("unknown", AnyValue, AnyValue, "tokenize", 0)}
          [] n = 2 -> {Rule("doc_summarize", AnyValue, "CARD", "block", 0),
                       Rule("data_analysis", AnyValue, "RRN", "generalize", 0),
                       Rule("data_analysis", AnyValue, "AMOUNT", "aggregate", 0)}
          [] n = 3 -> {Rule("customer_support", "agent_l1", "PHONE", "mask", 0),
                       Rule("fraud_investigation", "agent_l2", "PHONE", "keep", 0)}]

LEMMA ShippedIsUnambiguous ==
  /\ Unambiguous(ShippedPolicy)
  /\ \A r \in ShippedPolicy.rules : r.priority \in Int
  <1>1. \A r \in ShippedPolicy.rules : r \in ShippedBySpecificity[Specificity(r)]
      <2> SUFFICES ASSUME NEW r \in ShippedPolicy.rules
                   PROVE  r \in ShippedBySpecificity[Specificity(r)]
          OBVIOUS
      <2>1. Specificity(r) = Named(r.purpose) + Named(r.role) + Named(r.entity)
          BY SpecificityCounts
      <2> QED BY <2>1 DEF ShippedPolicy, ShippedBySpecificity, Rule, Named, AnyValue
  <1>2. \A n \in 0..3 : \A a, b \in ShippedBySpecificity[n] : Overlap(a, b) => a = b
      BY DEF ShippedBySpecificity, Overlap, Rule, AnyValue
  <1>3. \A a, b \in ShippedPolicy.rules :
            Overlap(a, b) /\ Specificity(a) = Specificity(b) => a = b
      BY <1>1, <1>2, SpecificityRange
  <1>4. \A a, b \in ShippedPolicy.overrides :
            a.action = b.action /\ b.priority <= a.priority
      BY DEF ShippedPolicy, Override
  <1>5. \A r \in ShippedPolicy.rules : r.priority \in Int
      BY DEF ShippedPolicy, Rule
  <1> QED BY <1>3, <1>4, <1>5 DEF Unambiguous

LEMMA NoneIsUnambiguous ==
  /\ Unambiguous(EmptyRuleset)
  /\ \A r \in EmptyRuleset.rules : r.priority \in Int
  BY DEF Unambiguous, EmptyRuleset

(* Where each policy that policy.yaml may contain is unambiguous, as the   *)
(* shipped one is, every thread decides every question in exactly one way, *)
(* whichever of the best rows the database returns first, and whatever the *)
(* scripts do meanwhile: no mixture of two policies is ever decided by.    *)
THEOREM DecidesInOneWay ==
  ASSUME \A p \in Policies : /\ Unambiguous(p)
                             /\ \A r \in p.rules : r.priority \in Int
  PROVE  Spec => []OneBestRule
  <1>1. NoTornRuleset => OneBestRule
      <2> SUFFICES ASSUME NoTornRuleset, used # NotLoaded, NEW q \in Queries
                   PROVE  Cardinality(Decision(q)) = 1
          BY DEF OneBestRule
      <2>1. Unambiguous(used) /\ \A r \in used.rules : r.priority \in Int
          BY NoneIsUnambiguous DEF NoTornRuleset
      <2>2. OneActionFor(used, q.purpose, q.role, q.entity, q.risk, q.injected)
          BY <2>1, OneAction, Zenon
      <2>3. PICK a : Decision(q) = {a}
          BY <2>2, Zenon DEF Decision, OneActionFor
      <2> QED BY <2>3, FS_Singleton
  <1> QED BY <1>1, DecidesByWholePolicy, PTL

COROLLARY ShippedDecidesInOneWay ==
  ASSUME Policies \subseteq {ShippedPolicy}
  PROVE  Spec => []OneBestRule
  BY ShippedIsUnambiguous, DecidesInOneWay
=============================================================================
