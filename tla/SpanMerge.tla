----------------------------- MODULE SpanMerge ------------------------------
(***************************************************************************)
(* One text through detection and transformation: the layers' findings     *)
(* (app/detect/__init__.py), their merge (app/detect/merge.py), an action   *)
(* for each span, and the replacement of the spans in the text             *)
(* (app/transform/apply.py).  A response takes the path of output_guard     *)
(* (app/guardrail/output_check.py) instead: one layer, no merge.           *)
(*                                                                         *)
(* A text is cut at the ends of its findings and around its white space.   *)
(* A position stands for the characters between two cuts, <<"raw", p>> is  *)
(* the text at position p, blank are the positions of white space, and the *)
(* findings of one text are a set: rank says in which order the layers     *)
(* list them.  A confidence is a whole number of thousandths.              *)
(***************************************************************************)
EXTENDS Integers, SequencesExt

CONSTANTS
    TextLen,       \* positions of the text
    Blanks,        \* where its white space may be
    Kinds,         \* what is found: [type, source, conf, rank, digits, grows]
    MinConfidence, \* detect.*_min_confidence, by source
    OverlapBonus,  \* detect.merge_overlap_bonus
    OutputMinConfidence, \* guardrail.output_pii_min_confidence
    Actions,       \* what the policy may choose for a type
    MaxFindings    \* bound on the findings of one text

Layers == {"regex", "dict", "ner"}

ASSUME MergeAssumption ==
    /\ TextLen \in Nat /\ OverlapBonus \in Nat /\ OutputMinConfidence \in Nat
    /\ MaxFindings \in Nat /\ Blanks \subseteq SUBSET (1 .. TextLen)
    /\ \A k \in Kinds : /\ k.rank \in Nat /\ k.conf \in Nat
                       /\ k.source \in Layers /\ k.grows \in BOOLEAN
    /\ \A j, k \in Kinds : j.rank = k.rank => j = k
    /\ Actions \subseteq {"keep", "mask", "tokenize", "aggregate"}

VARIABLES
    path,    \* ctx.direction
    blank,   \* the white space of the text
    phase,   \* the layer to run next, "merge", "decide", "transform" (input),
             \* "rescan" (output), "end", "blocked"
    raw,     \* raw_spans, or all_spans
    spans,   \* ctx.new_turn_spans
    action,  \* ctx.span_actions: the action of each span
    text     \* turn.text

vars == <<path, blank, phase, raw, spans, action, text>>

OriginalText == [p \in 1 .. TextLen |-> <<"raw", p>>]

(* Every finding there could be: a kind and an interval start+1 .. end.    *)
Findings ==
    UNION {{[type |-> k.type, source |-> k.source, conf |-> k.conf,
             rank |-> k.rank, digits |-> k.digits, grows |-> k.grows,
             start |-> s, end |-> e] :
               e \in (s + 1) .. TextLen} : k \in Kinds, s \in 0 .. TextLen - 1}

(* sorted, with a key of numbers: the sequence of the set in its order.     *)
LexLess(a, b) ==
    \/ a[1] < b[1]
    \/ a[1] = b[1] /\ a[2] < b[2]
    \/ a[1] = b[1] /\ a[2] = b[2] /\ a[3] < b[3]
SortedBy(key, S) ==
    CHOOSE s \in SetToSeqs(S) :
        \A i, j \in DOMAIN s : i < j => LexLess(key[s[i]], key[s[j]])

Overlaps(a, b) == a.start < b.end /\ b.start < a.end

(* finditer: the matches of one regular expression do not overlap; nor do  *)
(* thirteen digits in a row and the short groups of an ACCOUNT.            *)
Matches(found) ==
    \A a, b \in found :
        /\ a.source = "regex" /\ a.type = b.type /\ a # b => ~Overlaps(a, b)
        /\ a.grows /\ b.type = "ACCOUNT" => ~Overlaps(a, b)

(* regex_rules.detect: an ACCOUNT that overlaps a CARD or a PHONE is       *)
(* dropped, whatever the confidence of the other.                          *)
WithoutAmbiguousAccounts(found) ==
    {a \in found :
        ~(/\ a.source = "regex" /\ a.type = "ACCOUNT"
          /\ \E b \in found : b.type \in {"CARD", "PHONE"} /\ Overlaps(a, b))}

-----------------------------------------------------------------------------
(* merge_spans.                                                            *)
Priority == [regex |-> 3, dict |-> 2, ner |-> 1]
MaxConfidence == 999

Passes(f) == f.conf >= MinConfidence[f.source]

(* Sorted by start and end; the sort is stable.                            *)
InOrder == [f \in Findings |-> <<f.start, f.end, f.rank>>]

(* _cluster_overlapping: the sweep, for one span.                          *)
NewCluster(acc, f) ==
    [clusters |-> Append(acc.clusters, <<f>>), maxEnd |-> f.end]
(* Mutant: the end of the last span replaces the furthest end.             *)
ExtendToLast(acc, f) ==
    [clusters |-> [acc.clusters EXCEPT ![Len(acc.clusters)] = Append(@, f)],
     maxEnd |-> f.end]
Extend(acc, f) ==
    [clusters |-> [acc.clusters EXCEPT ![Len(acc.clusters)] = Append(@, f)],
     maxEnd |-> Max({acc.maxEnd, f.end})]
(* Mutant: touching spans share a cluster.                                 *)
SweepTouching(acc, f) ==
    IF acc.clusters # <<>> /\ f.start <= acc.maxEnd THEN Extend(acc, f)
    ELSE NewCluster(acc, f)
Sweep(acc, f) ==
    IF acc.clusters # <<>> /\ f.start < acc.maxEnd THEN Extend(acc, f)
    ELSE NewCluster(acc, f)

Clusters(found) ==
    LET ordered == SortedBy(InOrder, found)
        swept[n \in 0 .. Len(ordered)] ==
            IF n = 0 THEN [clusters |-> <<>>, maxEnd |-> 0]
            ELSE Sweep(swept[n - 1], ordered[n])
    IN  swept[Len(ordered)].clusters

(* Mutant: the confidence decides before the layer.                        *)
MoreConfident(a, b) == a.conf > b.conf
(* The key of max() in _resolve_cluster: a beats b.                        *)
Strength(f) == <<Priority[f.source], f.conf, f.end - f.start>>
Beats(a, b) == LexLess(Strength(b), Strength(a))

(* max() returns the first of the best.                                    *)
Canonical(cluster) ==
    cluster[Min({i \in DOMAIN cluster :
                    \A j \in DOMAIN cluster : ~Beats(cluster[j], cluster[i])})]

Agreeing(cluster, type) ==
    {cluster[i].source : i \in {j \in DOMAIN cluster : cluster[j].type = type}}

Boosted(conf, sources) ==
    IF Cardinality(sources) = 1 THEN conf
    ELSE Min({conf + OverlapBonus * (Cardinality(sources) - 1), MaxConfidence})

(* _resolve_cluster.  sources stands for the joined string.                *)
Resolve(cluster) ==
    LET best    == Canonical(cluster)
        sources == Agreeing(cluster, best.type)
    IN  [type |-> best.type, start |-> best.start, end |-> best.end,
         digits |-> best.digits, grows |-> best.grows, sources |-> sources,
         conf |-> Boosted(best.conf, sources)]

(* The clusters come in order, and so do their canonical spans: the final  *)
(* sort by start moves nothing unless two spans overlap.                   *)
ByStart(ss) ==
    LET order == SortedBy([i \in DOMAIN ss |-> <<ss[i].start, i, 0>>], DOMAIN ss)
    IN  [i \in DOMAIN ss |-> ss[order[i]]]
MergeSpans(found) ==
    LET clusters == Clusters({f \in found : Passes(f)})
    IN  ByStart([i \in DOMAIN clusters |-> Resolve(clusters[i])])

-----------------------------------------------------------------------------
(* transform_stage.                                                        *)

(* _mask: as long as the value, but for an RRN written without a hyphen,   *)
(* whose mask has one.                                                     *)
MaskOf(s) ==
    [i \in 1 .. s.end - s.start + (IF s.grows THEN 1 ELSE 0) |-> <<"masked", s.start>>]

(* What _render puts in place of a span: the value itself, a mask, or a    *)
(* text of another length (a label, "[deleted]").                          *)
Value(s) == [i \in 1 .. s.end - s.start |-> <<"raw", s.start + i>>]
Render(s, a) ==
    CASE a = "keep"      -> Value(s)
      [] a = "mask"      -> MaskOf(s)
      [] a = "tokenize"  -> <<<<"label", s.start>>, <<"label", s.start>>>>
      [] a = "aggregate" -> <<>>

ReplaceSpan(t, s, new) ==
    SubSeq(t, 1, s.start) \o new \o SubSeq(t, s.end + 1, Len(t))

(* Mutant: from left to right, with the offsets of the original text.      *)
ReplaceLeftToRight(t, ss, as) ==
    FoldLeft(LAMBDA done, i : ReplaceSpan(done, ss[i], Render(ss[i], as[i])),
             t, [i \in DOMAIN ss |-> i])
(* The replacements from right to left.                                    *)
ReplaceSpans(t, ss, as) ==
    LET replaced[k \in 0 .. Len(ss)] ==
            IF k = 0 THEN t
            ELSE LET i == Len(ss) - k + 1
                 IN  ReplaceSpan(replaced[k - 1], ss[i], Render(ss[i], as[i]))
    IN  replaced[Len(ss)]

(* text.rstrip(): up to the last character that is not white space.        *)
White(c) == c[1] = "raw" /\ c[2] \in blank
Stripped(t) ==
    SubSeq(t, 1, Max({0} \cup {i \in DOMAIN t : ~White(t[i])}))

(* _append_aggregate_summary: the amounts that could be parsed.            *)
Amounts(ss, as) ==
    {i \in DOMAIN ss : as[i] = "aggregate" /\ ss[i].digits}
Summary(ss, as) ==
    <<<<"summary", Cardinality(Amounts(ss, as))>>>>
AppendSummary(t, ss, as) ==
    IF Amounts(ss, as) = {} THEN t ELSE Stripped(t) \o Summary(ss, as)

-----------------------------------------------------------------------------
(* _rescan_and_mask: the findings as regex_rules.detect lists them, and    *)
(* the stable sort that starts with the last of the text.                  *)
Listed == [f \in Findings |-> <<f.rank, f.start, f.end>>]

(* Mutant: the sort starts with the first of the text.                     *)
FirstToLast == [f \in Findings |-> <<f.start, f.rank, f.end>>]
LastToFirst == [f \in Findings |-> <<-f.start, f.rank, f.end>>]

MaskAll(t, found) ==
    LET ordered == SortedBy(LastToFirst, found)
        masked[n \in 0 .. Len(ordered)] ==
            IF n = 0 THEN t
            ELSE ReplaceSpan(masked[n - 1], ordered[n], MaskOf(ordered[n]))
    IN  masked[Len(ordered)]

-----------------------------------------------------------------------------
Init ==
    /\ path \in {"input", "output"} /\ blank \in Blanks /\ phase = "regex"
    /\ raw = {} /\ spans = <<>> /\ action = <<>>
    /\ text = OriginalText

(* detect: a layer lists what it finds, one finding after the other, none  *)
(* of which begins or ends with white space...                             *)
Find(f) ==
    /\ phase = f.source
    /\ f.start + 1 \notin blank /\ f.end \notin blank
    /\ Cardinality(raw) < MaxFindings
    /\ Matches(raw \cup {f})
    /\ raw' = raw \cup {f}
    /\ UNCHANGED <<path, blank, phase, spans, action, text>>

(* ...and ends; the next layer runs, or the mask of output_guard.          *)
NextPhase ==
    IF path = "output" THEN "rescan"
    ELSE CASE phase = "regex" -> "dict"
           [] phase = "dict"  -> "ner"
           [] phase = "ner"   -> "merge"
LayerEnds ==
    /\ phase \in Layers
    /\ raw' = IF phase = "regex" THEN WithoutAmbiguousAccounts(raw) ELSE raw
    /\ phase' = NextPhase
    /\ UNCHANGED <<path, blank, spans, action, text>>

(* A layer that raises loses its findings, and only its own; a response    *)
(* that could not be scanned is blocked.                                   *)
LayerRaises ==
    /\ phase \in Layers
    /\ raw' = {f \in raw : f.source # phase}
    /\ phase' = IF path = "output" THEN "blocked" ELSE NextPhase
    /\ UNCHANGED <<path, blank, spans, action, text>>

(* analyze_turn.                                                           *)
Merge ==
    /\ phase = "merge"
    /\ spans' = MergeSpans(raw)
    /\ phase' = "decide"
    /\ UNCHANGED <<path, blank, raw, action, text>>

(* purpose_policy_stage: one action for each type of span.                 *)
Decide ==
    /\ phase = "decide"
    /\ \E as \in [DOMAIN spans -> Actions] :
           /\ \A i, j \in DOMAIN spans :
                  spans[i].type = spans[j].type => as[i] = as[j]
           /\ action' = as
    /\ phase' = "transform"
    /\ UNCHANGED <<path, blank, raw, spans, text>>

Transform ==
    /\ phase = "transform"
    /\ text' = AppendSummary(ReplaceSpans(text, spans, action), spans, action)
    /\ phase' = "end"
    /\ UNCHANGED <<path, blank, raw, spans, action>>

(* output_guard: what passes is masked and noted, and the masked text is   *)
(* checked for disclosed instructions; one that has some does not go out.  *)
Rescan ==
    /\ phase = "rescan"
    /\ LET found == {f \in raw : f.conf >= OutputMinConfidence}
       IN  /\ spans' = SortedBy(Listed, found)
           /\ action' = [i \in 1 .. Cardinality(found) |-> "mask"]
           /\ \/ text' = MaskAll(text, found) /\ phase' = "end"
              \/ UNCHANGED text /\ phase' = "blocked"
    /\ UNCHANGED <<path, blank, raw>>

Next ==
    \/ \E f \in Findings : Find(f)
    \/ LayerEnds \/ LayerRaises
    \/ Merge \/ Decide \/ Transform
    \/ Rescan

Spec == Init /\ [][Next]_vars
-----------------------------------------------------------------------------
Merged == path = "input" /\ phase \in {"decide", "transform", "end"}
Passing == {f \in raw : Passes(f)}

(* What the sweep should compute: the findings that a chain of overlaps    *)
(* connects with f, the least set that has f and what overlaps a member.   *)
Chained(S) == \A g \in Passing, h \in S : Overlaps(g, h) => g \in S
Reached(f) ==
    {g \in Passing : \A S \in SUBSET Passing : f \in S /\ Chained(S) => g \in S}
SpanOf(f) == {i \in DOMAIN spans :
                 \E g \in Reached(f) : /\ g.start = spans[i].start
                                       /\ g.end = spans[i].end
                                       /\ g.type = spans[i].type}

(* merge_spans returns spans that do not overlap, in the order of the text *)
(* (merge.py:143-144): the right-to-left replacement relies on it.         *)
SpansDisjoint ==
    Merged => \A i \in 1 .. Len(spans) - 1 : spans[i].end <= spans[i + 1].start

(* Findings that a chain of overlaps connects are merged into one span,    *)
(* the others into different ones (merge.py:48-52).                        *)
OneSpanPerChain ==
    Merged =>
        /\ Len(spans) = Cardinality({Reached(f) : f \in Passing})
        /\ \A f \in Passing : Cardinality(SpanOf(f)) = 1

(* The span of a chain comes from a finding of its highest layer: no       *)
(* finding is lost to one of a lower layer (merge.py:19-24).               *)
HigherLayerWins ==
    Merged => \A f \in Passing, i \in DOMAIN spans : i \in SpanOf(f) =>
        \E g \in Reached(f) :
            /\ g.start = spans[i].start /\ g.end = spans[i].end
            /\ g.source \in spans[i].sources
            /\ Priority[g.source] >= Priority[f.source]

(* Every span is replaced once, in its place, and the text outside the     *)
(* spans stays as it is; only a summary of amounts takes something from    *)
(* it, the white space the replaced text ends with, also where a span was  *)
(* emptied behind it, and no more (apply.py:78-80, 97-102, 261).           *)
SpanAt(p) == {i \in DOMAIN spans : p \in spans[i].start + 1 .. spans[i].end}
ExpectedAt(p) ==
    IF SpanAt(p) = {} THEN <<OriginalText[p]>>
    ELSE LET i == CHOOSE j \in SpanAt(p) : TRUE
         IN  IF p = spans[i].start + 1 THEN Render(spans[i], action[i])
             ELSE <<>>
ExpectedText == FlattenSeq([p \in 1 .. TextLen |-> ExpectedAt(p)])
WithoutTrailingWhite(t, whole) ==
    \E n \in 0 .. Len(whole) :
        /\ t = SubSeq(whole, 1, n)
        /\ \A i \in n + 1 .. Len(whole) : White(whole[i])
        /\ n > 0 => ~White(whole[n])
SpansReplacedInPlace ==
    path = "input" /\ phase = "end" =>
        IF Amounts(spans, action) = {} THEN text = ExpectedText
        ELSE LET kept == SubSeq(text, 1, Len(text) - 1)
             IN  /\ WithoutTrailingWhite(kept, ExpectedText)
                 /\ text = kept \o Summary(spans, action)

(* output_guard replaces findings that overlap, unmerged, from the last to *)
(* the first (output_check.py:79-80).  All the same the text that no       *)
(* finding covers goes out whole and in order, and of what one covers at   *)
(* most its last positions: as many as longer masks were put inside it     *)
(* before its own.                                                         *)
Masked == {f \in raw : f.conf >= OutputMinConfidence}
Covered == UNION {f.start + 1 .. f.end : f \in Masked}
LongerBefore(f) ==
    Cardinality({g \in Masked \ {f} :
                    g.grows /\ f.start <= g.start /\ g.end <= f.end})
RawAt(p) == {i \in DOMAIN text : text[i] = <<"raw", p>>}
RescanMasksAll ==
    path = "output" /\ phase = "end" =>
        /\ \A p \in 1 .. TextLen \ Covered : Cardinality(RawAt(p)) = 1
        /\ \A p, q \in 1 .. TextLen : p < q =>
               \A i \in RawAt(p), j \in RawAt(q) : i < j
        /\ \A p \in Covered : RawAt(p) # {} =>
               \E f \in Masked : p \in f.end - LongerBefore(f) + 1 .. f.end

=============================================================================
