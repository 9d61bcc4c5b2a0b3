---------------------------- MODULE Texts_proofs ----------------------------
(***************************************************************************)
(* Proofs about the texts of a body.  SpanMerge, for every text and every  *)
(* set of findings: the merged spans are disjoint, there is one for each   *)
(* chain of overlaps and it is of the highest layer, each is replaced in   *)
(* its place, and the masks of a response leave what no finding covers.    *)
(* AdapterBodies, for bodies of any length: what is sent on says what the  *)
(* stages left.  Both are about loops; the lemmas on these come first.     *)
(***************************************************************************)
EXTENDS SpanMerge, AdapterBodies, FiniteSetTheorems, SequenceTheorems, TLAPS

-----------------------------------------------------------------------------
(* Inductions, by the least exception.                                     *)
LEMMA LeastSubset ==
  ASSUME NEW S, IsFiniteSet(S), NEW P \in SUBSET (SUBSET S), P # {}
  PROVE  \E T \in P : \A U \in P : U \subseteq T => U = T
  <1>1. IsWellFoundedOn(StrictSubsetOrdering(S), FiniteSubsetsOf(S))
      BY FS_StrictSubsetOrderingWellFounded
  <1>2. P \subseteq FiniteSubsetsOf(S)
      BY FS_FiniteSubsetsOfFinite
  <1>3. \E T \in P : \A U \in P : ~ (<<U, T>> \in StrictSubsetOrdering(S))
      BY <1>1, <1>2, WFMin
  <1> QED BY <1>3 DEF StrictSubsetOrdering

LEMMA LeastNumber ==
  ASSUME NEW T \in SUBSET Nat, T # {}
  PROVE  \E x \in T : \A y \in T : x <= y
  <1> DEFINE Less == {p \in Nat \X Nat : p[1] < p[2]}
  <1>1. OpToRel(<, Nat) = Less
      BY DEF OpToRel
  <1>2. IsWellFoundedOn(Less, Nat)
      BY <1>1, NatLessThanWellFounded
  <1>3. \A x, y \in Nat : <<y, x>> \notin Less => x <= y
      OBVIOUS
  <1> HIDE DEF Less
  <1>4. \E x \in T : \A y \in T : ~(<<y, x>> \in Less)
      BY <1>2, WFMin
  <1> QED BY <1>3, <1>4

LEMMA UpTo ==
  ASSUME NEW n \in Nat, NEW P, 0 \in P,
         \A i \in 0 .. n - 1 : i \in P => i + 1 \in P
  PROVE  \A i \in 0 .. n : i \in P
  <1> DEFINE Out == {i \in 0 .. n : i \notin P}
  <1> SUFFICES ASSUME Out # {} PROVE FALSE
      OBVIOUS
  <1>1. PICK i \in Out : \A j \in Out : i <= j
    <2>1. Out \in SUBSET Nat
        OBVIOUS
    <2> HIDE DEF Out
    <2> QED BY <2>1, LeastNumber
  <1>2. i \in 0 .. n /\ i # 0 /\ i - 1 \in 0 .. n - 1 /\ i - 1 \notin Out
      BY <1>1
  <1>3. i - 1 \in P /\ (i - 1) + 1 = i
      BY <1>2
  <1> QED BY <1>1, <1>2, <1>3

(* A loop of n rounds, where next says what a round makes of a value.      *)
IsLoop(h, base, next, n) ==
    h = [i \in 0 .. n |-> IF i = 0 THEN base ELSE next[i][h[i - 1]]]

LEMMA LoopAt ==
  ASSUME NEW h, NEW base, NEW next, NEW n \in Nat, IsLoop(h, base, next, n),
         NEW i \in 0 .. n
  PROVE  h[i] = IF i = 0 THEN base ELSE next[i][h[i - 1]]
  BY DEF IsLoop

LEMMA LoopExists ==
  ASSUME NEW base, NEW next, NEW n \in Nat
  PROVE  \E h : IsLoop(h, base, next, n)
  <1> DEFINE P == {m \in Nat : \E h : IsLoop(h, base, next, m)}
  <1>1. 0 \in P
    <2> DEFINE h == [i \in 0 .. 0 |-> base]
    <2>1. IsLoop(h, base, next, 0)
        BY DEF IsLoop
    <2> QED BY <2>1
  <1>2. ASSUME NEW m \in 0 .. n - 1, m \in P PROVE m + 1 \in P
    <2>1. PICK g : IsLoop(g, base, next, m)
        BY <1>2
    <2>2. m \in Nat /\ m + 1 \in Nat
        OBVIOUS
    <2>3. \A i \in 0 .. m : g[i] = IF i = 0 THEN base ELSE next[i][g[i - 1]]
        BY <2>1, <2>2, LoopAt
    <2> DEFINE h == [i \in 0 .. m + 1 |-> IF i = m + 1 THEN next[m + 1][g[m]] ELSE g[i]]
    <2>4. \A i \in 0 .. m : h[i] = g[i]
        OBVIOUS
    <2>5. h[m + 1] = next[m + 1][g[m]]
        OBVIOUS
    <2>6. h = [i \in 0 .. m + 1 |-> h[i]]
        OBVIOUS
    <2> HIDE DEF h
    <2>7. ASSUME NEW i \in 0 .. m + 1
          PROVE  h[i] = IF i = 0 THEN base ELSE next[i][h[i - 1]]
      <3>1. CASE i = m + 1
        <4>1. h[i - 1] = g[m] /\ i # 0
            BY <2>2, <2>4, <3>1
        <4> QED BY <2>5, <3>1, <4>1
      <3>2. CASE i # m + 1
        <4>1. i \in 0 .. m /\ (i # 0 => i - 1 \in 0 .. m)
            BY <3>2
        <4> QED BY <2>3, <2>4, <4>1
      <3> QED BY <3>1, <3>2
    <2>8. IsLoop(h, base, next, m + 1)
        BY <2>6, <2>7 DEF IsLoop
    <2> QED BY <2>2, <2>8
  <1> HIDE DEF P
  <1>3. \A i \in 0 .. n : i \in P
      BY <1>1, <1>2, UpTo
  <1> QED BY <1>3 DEF P

LEMMA TypedLoop ==
  ASSUME NEW T, NEW base \in T, NEW n \in Nat, NEW next \in [1 .. n -> [T -> T]]
  PROVE  \E h \in [0 .. n -> T] : IsLoop(h, base, next, n)
  <1>1. PICK h : IsLoop(h, base, next, n)
      BY LoopExists
  <1>2. \A i \in 0 .. n : h[i] = IF i = 0 THEN base ELSE next[i][h[i - 1]]
      BY <1>1, LoopAt
  <1> DEFINE P == {i \in 0 .. n : h[i] \in T}
  <1>3. 0 \in P
      BY <1>2
  <1>4. ASSUME NEW i \in 0 .. n - 1, i \in P PROVE i + 1 \in P
    <2>1. i + 1 \in 1 .. n /\ i + 1 \in 0 .. n /\ i + 1 # 0 /\ (i + 1) - 1 = i
        OBVIOUS
    <2>2. h[i + 1] = next[i + 1][h[i]]
        BY <1>2, <2>1
    <2> QED BY <1>4, <2>1, <2>2
  <1>5. \A i \in 0 .. n : i \in P
    <2> HIDE DEF P
    <2> QED BY <1>3, <1>4, UpTo
  <1> QED BY <1>1, <1>5 DEF IsLoop

-----------------------------------------------------------------------------
(* Sorting.                                                                *)
Triples == Int \X Int \X Int

LEMMA LexOrder ==
  ASSUME NEW a \in Triples, NEW b \in Triples, NEW c \in Triples
  PROVE  /\ ~LexLess(a, a)
         /\ LexLess(a, b) /\ LexLess(b, c) => LexLess(a, c)
         /\ LexLess(a, b) \/ LexLess(b, a) \/ a = b
         /\ ~(LexLess(a, b) /\ LexLess(b, a))
  BY DEF LexLess, Triples

(* Of finitely many some is before no other.                               *)
LEMMA Greatest ==
  ASSUME NEW S, IsFiniteSet(S), S # {}, NEW key, \A x \in S : key[x] \in Triples
  PROVE  \E m \in S : \A x \in S : ~LexLess(key[m], key[x])
  <1> DEFINE Top(u, m) == m \in u /\ \A x \in u : ~LexLess(key[m], key[x])
             P == {u \in SUBSET S : u # {} /\ ~ \E m : Top(u, m)}
  <1> SUFFICES ASSUME P # {} PROVE FALSE
      BY S \in SUBSET S
  <1>1. PICK u \in P : \A v \in P : v \subseteq u => v = u
    <2> HIDE DEF P
    <2>1. P \in SUBSET (SUBSET S)
        BY DEF P
    <2> QED BY <2>1, LeastSubset
  <1>2. PICK x \in u : TRUE
      OBVIOUS
  <1>3. u \subseteq S /\ ~ \E m : Top(u, m)
      OBVIOUS
  <1>4. CASE u = {x}
    <2>1. Top(u, x)
        BY <1>2, <1>3, <1>4, LexOrder
    <2> QED BY <1>3, <2>1
  <1>5. CASE u # {x}
    <2>1. u \ {x} # {} /\ u \ {x} \in SUBSET S /\ u \ {x} # u
        BY <1>2, <1>5
    <2>2. u \ {x} \notin P
        BY <1>1, <2>1
    <2>3. PICK m : Top(u \ {x}, m)
        BY <2>1, <2>2
    <2>4. CASE LexLess(key[m], key[x])
      <3>1. Top(u, x)
        <4> SUFFICES ASSUME NEW y \in u PROVE ~LexLess(key[x], key[y])
            BY <1>2
        <4>1. key[x] \in Triples /\ key[y] \in Triples /\ key[m] \in Triples
            BY <1>2, <1>3, <2>3
        <4>2. CASE y = x
            BY <4>1, <4>2, LexOrder
        <4>3. CASE y # x
          <5>1. ~LexLess(key[m], key[y])
              BY <2>3, <4>3
          <5> QED BY <2>4, <4>1, <5>1, LexOrder
        <4> QED BY <4>2, <4>3
      <3> QED BY <1>3, <3>1
    <2>5. CASE ~LexLess(key[m], key[x])
      <3>1. Top(u, m)
          BY <2>3, <2>5
      <3> QED BY <1>3, <3>1
    <2> QED BY <2>4, <2>5
  <1> QED BY <1>4, <1>5

(* sorted() has a result: the order lists every finite set.                *)
InKeyOrder(s, key, S) ==
    /\ s \in SetToSeqs(S)
    /\ \A i, j \in DOMAIN s : i < j => LexLess(key[s[i]], key[s[j]])
Keyed(key, S) ==
    /\ IsFiniteSet(S)
    /\ \A x \in S : key[x] \in Triples
    /\ \A x, y \in S : key[x] = key[y] => x = y

LEMMA SortedExists ==
  ASSUME NEW S, NEW key, Keyed(key, S)
  PROVE  \E s : InKeyOrder(s, key, S)
  <1> DEFINE P == {u \in SUBSET S : ~ \E s : InKeyOrder(s, key, u)}
  <1> SUFFICES ASSUME P # {} PROVE FALSE
      BY S \in SUBSET S
  <1>1. PICK u \in P : \A v \in P : v \subseteq u => v = u
    <2> HIDE DEF P
    <2>1. P \in SUBSET (SUBSET S) /\ IsFiniteSet(S)
        BY DEF P, Keyed
    <2> QED BY <2>1, LeastSubset
  <1>2. u \in SUBSET S /\ ~ \E s : InKeyOrder(s, key, u)
      OBVIOUS
  <1>3. IsFiniteSet(u)
      BY <1>2, FS_Subset DEF Keyed
  <1>4. CASE u = {}
    <2> DEFINE s == [i \in 1 .. 0 |-> i]
    <2>1. Cardinality({}) = 0
        BY FS_EmptySet
    <2>2. InKeyOrder(s, key, {})
        BY <2>1 DEF InKeyOrder, SetToSeqs
    <2> QED BY <1>2, <1>4, <2>2
  <1>5. CASE u # {}
    <2>1. PICK m \in u : \A x \in u : ~LexLess(key[m], key[x])
      <3>1. \A x \in u : key[x] \in Triples
          BY <1>2 DEF Keyed
      <3> QED BY <1>3, <1>5, <3>1, Greatest
    <2> DEFINE v == u \ {m}
    <2>2. v \in SUBSET S /\ v # u /\ v \subseteq u
        BY <1>2, <2>1
    <2>3. v \notin P
        BY <1>1, <2>2
    <2>4. PICK t : InKeyOrder(t, key, v)
        BY <2>2, <2>3
    <2> DEFINE n == Cardinality(v)
    <2>5. n \in Nat /\ Cardinality(u) = n + 1
      <3>1. IsFiniteSet(v) /\ Cardinality(v) = Cardinality(u) - 1
          BY <1>3, <2>1, FS_RemoveElement
      <3>2. Cardinality(u) \in Nat /\ Cardinality(v) \in Nat
          BY <1>3, <3>1, FS_CardinalityType
      <3> QED BY <3>1, <3>2
    <2>6. /\ t \in [1 .. n -> v]
          /\ \A i, j \in 1 .. n : i # j => t[i] # t[j]
          /\ \A i, j \in 1 .. n : i < j => LexLess(key[t[i]], key[t[j]])
        BY <2>4 DEF InKeyOrder, SetToSeqs
    <2>7. \A x \in v : LexLess(key[x], key[m])
      <3> SUFFICES ASSUME NEW x \in v PROVE LexLess(key[x], key[m])
          OBVIOUS
      <3>1. x \in S /\ m \in S /\ x # m /\ x \in u
          BY <1>2
      <3>2. key[x] \in Triples /\ key[m] \in Triples /\ key[x] # key[m]
          BY <3>1 DEF Keyed
      <3> QED BY <2>1, <3>1, <3>2, LexOrder
    <2> HIDE DEF v, n, P
    <2> DEFINE s == [i \in 1 .. n + 1 |-> IF i = n + 1 THEN m ELSE t[i]]
    <2>8. \A i \in 1 .. n : s[i] = t[i] /\ t[i] \in v
        BY <2>5, <2>6
    <2>9. s[n + 1] = m /\ DOMAIN s = 1 .. n + 1
        BY <2>5
    <2>10. s \in [1 .. n + 1 -> u]
        BY <2>2, <2>5, <2>6
    <2> HIDE DEF s
    <2>11. \A i \in 1 .. n + 1 : i = n + 1 \/ i \in 1 .. n
        BY <2>5
    <2>12. ASSUME NEW i \in 1 .. n + 1, NEW j \in 1 .. n + 1, i < j
           PROVE  LexLess(key[s[i]], key[s[j]])
      <3>1. i \in 1 .. n
          BY <2>5, <2>12
      <3>2. CASE j = n + 1
          BY <2>7, <2>8, <2>9, <3>1, <3>2
      <3>3. CASE j \in 1 .. n
          BY <2>6, <2>8, <2>12, <3>1, <3>3
      <3> QED BY <2>11, <3>2, <3>3
    <2>13. ASSUME NEW i \in 1 .. n + 1, NEW j \in 1 .. n + 1, i # j
           PROVE  s[i] # s[j]
      <3>1. key[s[i]] \in Triples
          BY <1>2, <2>10 DEF Keyed
      <3>2. i < j \/ j < i
          BY <2>5, <2>13
      <3> QED BY <2>12, <3>1, <3>2, LexOrder
    <2>14. InKeyOrder(s, key, u)
        BY <2>5, <2>9, <2>10, <2>12, <2>13 DEF InKeyOrder, SetToSeqs
    <2> QED BY <1>2, <2>14
  <1> QED BY <1>4, <1>5

LEMMA SortedIs ==
  ASSUME NEW S, NEW key, Keyed(key, S), NEW s, s = SortedBy(key, S)
  PROVE  /\ s \in [1 .. Cardinality(S) -> S] /\ Cardinality(S) \in Nat
         /\ s \in Seq(S) /\ Len(s) = Cardinality(S) /\ DOMAIN s = 1 .. Len(s)
         /\ \A i, j \in 1 .. Len(s) : i < j => LexLess(key[s[i]], key[s[j]])
         /\ \A i, j \in 1 .. Len(s) : s[i] = s[j] => i = j
         /\ \A x \in S : \E i \in 1 .. Len(s) : s[i] = x
  <1>1. InKeyOrder(s, key, S)
      BY SortedExists DEF SortedBy, InKeyOrder
  <1> DEFINE n == Cardinality(S)
  <1>2. n \in Nat /\ IsFiniteSet(S)
      BY FS_CardinalityType DEF Keyed
  <1>3. /\ s \in [1 .. n -> S]
        /\ \A i, j \in 1 .. n : s[i] = s[j] => i = j
        /\ \A i, j \in 1 .. n : i < j => LexLess(key[s[i]], key[s[j]])
      BY <1>1 DEF InKeyOrder, SetToSeqs
  <1>4. s \in Seq(S) /\ Len(s) = n
      BY <1>2, <1>3
  <1>5. IsFiniteSet(1 .. n) /\ Cardinality(1 .. n) = n
      BY <1>2, FS_Interval
  <1>6. s \in Surjection(1 .. n, S)
    <2>1. s \in Injection(1 .. n, S)
        BY <1>3 DEF Injection, IsInjective
    <2> QED BY <1>2, <1>5, <2>1, FS_Injection
  <1> QED BY <1>2, <1>3, <1>4, <1>6 DEF Surjection

-----------------------------------------------------------------------------
(* Findings.                                                               *)
LEMMA FindingFacts ==
  ASSUME NEW f \in Findings
  PROVE  /\ f.start \in Nat /\ f.end \in Nat /\ f.start < f.end /\ f.end <= TextLen
         /\ f.rank \in Nat /\ f.conf \in Nat /\ f.source \in Layers
  BY MergeAssumption DEF Findings

LEMMA FindingsDiffer ==
  ASSUME NEW f \in Findings, NEW g \in Findings,
         f.start = g.start, f.end = g.end, f.rank = g.rank
  PROVE  f = g
  <1> DEFINE At(k, s, e) == [type |-> k.type, source |-> k.source, conf |-> k.conf,
                             rank |-> k.rank, digits |-> k.digits, grows |-> k.grows,
                             start |-> s, end |-> e]
  <1>1. \A x \in Findings : \E k \in Kinds, s, e \in Int : x = At(k, s, e)
      BY MergeAssumption DEF Findings
  <1>2. PICK j \in Kinds, s \in Int, e \in Int : f = At(j, s, e)
      BY <1>1
  <1>3. PICK k \in Kinds, u \in Int, v \in Int : g = At(k, u, v)
      BY <1>1
  <1>4. s = u /\ e = v /\ j.rank = k.rank
      BY <1>2, <1>3
  <1>5. j = k
      BY <1>4, MergeAssumption
  <1> QED BY <1>2, <1>3, <1>4, <1>5

LEMMA FindingsAreKeyed ==
  ASSUME NEW S \in SUBSET Findings, IsFiniteSet(S)
  PROVE  Keyed(InOrder, S) /\ Keyed(Listed, S) /\ Keyed(LastToFirst, S)
  <1>1. ASSUME NEW f \in S
        PROVE  InOrder[f] \in Triples /\ Listed[f] \in Triples /\ LastToFirst[f] \in Triples
      BY FindingFacts DEF InOrder, Listed, LastToFirst, Triples
  <1>2. ASSUME NEW f \in S, NEW g \in S,
               InOrder[f] = InOrder[g] \/ Listed[f] = Listed[g]
                   \/ LastToFirst[f] = LastToFirst[g]
        PROVE  f = g
    <2>1. f.start \in Nat /\ g.start \in Nat
        BY FindingFacts
    <2>2. CASE InOrder[f] = InOrder[g]
        BY <2>2, FindingsDiffer DEF InOrder
    <2>3. CASE Listed[f] = Listed[g]
        BY <2>3, FindingsDiffer DEF Listed
    <2>4. CASE LastToFirst[f] = LastToFirst[g]
      <3>1. -f.start = -g.start /\ f.rank = g.rank /\ f.end = g.end
          BY <2>4 DEF LastToFirst
      <3> QED BY <2>1, <3>1, FindingsDiffer
    <2> QED BY <1>2, <2>2, <2>3, <2>4
  <1> QED BY <1>1, <1>2 DEF Keyed

-----------------------------------------------------------------------------
(* The sweep of _cluster_overlapping.                                      *)
LEMMA MaxOfTwo ==
  ASSUME NEW a \in Int, NEW b \in Int
  PROVE  Max({a, b}) = IF a >= b THEN a ELSE b
  BY DEF Max

LEMMA RangeAppend ==
  ASSUME NEW S, NEW s \in Seq(S), NEW x \in S
  PROVE  /\ Range(Append(s, x)) = Range(s) \cup {x}
         /\ Append(s, x) \in Seq(S) /\ Append(s, x) # <<>>
  <1>1. PICK t : t = Append(s, x)
      OBVIOUS
  <1>2. /\ t \in Seq(S) /\ t # <<>> /\ Len(t) = Len(s) + 1
        /\ \A i \in 1 .. Len(s) : t[i] = s[i]
        /\ t[Len(s) + 1] = x
      BY <1>1, AppendProperties
  <1>3. Len(s) \in Nat /\ DOMAIN s = 1 .. Len(s) /\ DOMAIN t = 1 .. Len(t)
      BY <1>2, LenProperties
  <1>4. Range(t) = Range(s) \cup {x}
    <2>1. DOMAIN t = DOMAIN s \cup {Len(s) + 1}
        BY <1>2, <1>3
    <2>2. /\ \A y : y \in Range(t) <=> \E i \in DOMAIN t : t[i] = y
          /\ \A y : y \in Range(s) <=> \E i \in DOMAIN s : s[i] = y
        BY DEF Range
    <2>3. \A i \in DOMAIN s : t[i] = s[i]
        BY <1>2, <1>3
    <2> QED BY <1>2, <2>1, <2>2, <2>3
  <1> QED BY <1>1, <1>2, <1>4

Accs(found) == [clusters : Seq(Seq(found)), maxEnd : Nat]
Groups(acc) == [c \in 1 .. Len(acc.clusters) |-> Range(acc.clusters[c])]

(* What one more span does to the groups.                                  *)
LEMMA NewClusterIs ==
  ASSUME NEW found, NEW acc \in Accs(found), NEW f \in found, f.end \in Nat,
         NEW new, new = NewCluster(acc, f)
  PROVE  /\ new \in Accs(found) /\ new.maxEnd = f.end
         /\ Len(new.clusters) = Len(acc.clusters) + 1
         /\ \A c \in 1 .. Len(acc.clusters) : Groups(new)[c] = Groups(acc)[c]
         /\ Groups(new)[Len(acc.clusters) + 1] = {f}
  <1>1. PICK cs : cs = acc.clusters
      OBVIOUS
  <1>2. cs \in Seq(Seq(found)) /\ Len(cs) \in Nat
      BY <1>1, LenProperties DEF Accs
  <1>3. PICK one : one = <<f>> /\ one \in Seq(found) /\ Range(one) = {f}
    <2>1. <<f>> \in Seq(found) /\ Range(<<f>>) = {f}
        BY DEF Range
    <2> QED BY <2>1, Zenon
  <1>4. PICK ds : ds = Append(cs, one)
      OBVIOUS
  <1>5. /\ ds \in Seq(Seq(found)) /\ Len(ds) = Len(cs) + 1
        /\ \A c \in 1 .. Len(cs) : ds[c] = cs[c]
        /\ ds[Len(cs) + 1] = one
      BY <1>2, <1>3, <1>4, AppendProperties
  <1>6. new.clusters = ds /\ new.maxEnd = f.end /\ new = [clusters |-> ds, maxEnd |-> f.end]
      BY <1>1, <1>3, <1>4 DEF NewCluster
  <1>8. new \in Accs(found)
      BY <1>5, <1>6 DEF Accs
  <1>9. /\ \A c \in 1 .. Len(cs) : Groups(new)[c] = Range(ds[c]) /\ Groups(acc)[c] = Range(cs[c])
        /\ Groups(new)[Len(cs) + 1] = Range(ds[Len(cs) + 1])
    <2>1. Groups(new) = [c \in 1 .. Len(ds) |-> Range(ds[c])]
        BY <1>6 DEF Groups
    <2>2. Groups(acc) = [c \in 1 .. Len(cs) |-> Range(cs[c])]
        BY <1>1 DEF Groups
    <2> QED BY <1>2, <1>5, <2>1, <2>2
  <1>10. \A c \in 1 .. Len(cs) : Groups(new)[c] = Groups(acc)[c]
      BY <1>5, <1>9
  <1>11. Groups(new)[Len(cs) + 1] = {f}
      BY <1>3, <1>5, <1>9
  <1> QED BY <1>1, <1>5, <1>6, <1>8, <1>10, <1>11

LEMMA ExtendIs ==
  ASSUME NEW found, NEW acc \in Accs(found), NEW f \in found, f.end \in Nat,
         acc.clusters # <<>>, NEW new, new = Extend(acc, f)
  PROVE  /\ new \in Accs(found)
         /\ new.maxEnd = IF acc.maxEnd >= f.end THEN acc.maxEnd ELSE f.end
         /\ Len(new.clusters) = Len(acc.clusters) /\ Len(acc.clusters) \in Nat \ {0}
         /\ \A c \in 1 .. Len(acc.clusters) - 1 : Groups(new)[c] = Groups(acc)[c]
         /\ Groups(new)[Len(acc.clusters)] = Groups(acc)[Len(acc.clusters)] \cup {f}
  <1>1. PICK cs : cs = acc.clusters
      OBVIOUS
  <1>2. cs \in Seq(Seq(found)) /\ Len(cs) \in Nat \ {0} /\ acc.maxEnd \in Nat
    <2>1. cs \in Seq(Seq(found)) /\ acc.maxEnd \in Nat
        BY <1>1 DEF Accs
    <2> QED BY <1>1, <2>1, EmptySeq
  <1>3. PICK n : n = Len(cs)
      OBVIOUS
  <1>4. n \in 1 .. Len(cs) /\ cs[n] \in Seq(found)
      BY <1>2, <1>3, ElementOfSeq
  <1>5. PICK s : s = Append(cs[n], f)
      OBVIOUS
  <1>6. s \in Seq(found) /\ Range(s) = Range(cs[n]) \cup {f}
      BY <1>4, <1>5, RangeAppend
  <1>7. PICK ds : ds = [cs EXCEPT ![n] = s]
      OBVIOUS
  <1>8. /\ ds \in Seq(Seq(found)) /\ Len(ds) = Len(cs)
        /\ \A c \in 1 .. Len(cs) : ds[c] = IF c = n THEN s ELSE cs[c]
      BY <1>2, <1>4, <1>6, <1>7, ExceptSeq
  <1>10. PICK m : m = Max({acc.maxEnd, f.end})
      OBVIOUS
  <1>11. m = (IF acc.maxEnd >= f.end THEN acc.maxEnd ELSE f.end) /\ m \in Nat
    <2> DEFINE e == f.end
               a == acc.maxEnd
    <2>1. e \in Int /\ a \in Int /\ e \in Nat /\ a \in Nat
        BY <1>2
    <2> HIDE DEF e, a
    <2>2. m = IF a >= e THEN a ELSE e
        BY <1>10, <2>1, MaxOfTwo DEF e, a
    <2> QED BY <2>1, <2>2 DEF e, a
  <1>12. new = [clusters |-> ds, maxEnd |-> m]
      BY <1>1, <1>3, <1>5, <1>7, <1>10 DEF Extend
  <1>13. new.clusters = ds /\ new.maxEnd = m /\ new \in Accs(found)
      BY <1>8, <1>11, <1>12 DEF Accs
  <1>14. \A c \in 1 .. n : Groups(new)[c] = Range(ds[c]) /\ Groups(acc)[c] = Range(cs[c])
      BY <1>1, <1>3, <1>8, <1>13 DEF Groups
  <1>15. \A c \in 1 .. n - 1 : Groups(new)[c] = Groups(acc)[c]
    <2> SUFFICES ASSUME NEW c \in 1 .. n - 1 PROVE Groups(new)[c] = Groups(acc)[c]
        OBVIOUS
    <2>1. c \in 1 .. n /\ c # n
        BY <1>2, <1>3
    <2> QED BY <1>3, <1>8, <1>14, <2>1
  <1>16. Groups(new)[n] = Groups(acc)[n] \cup {f}
      BY <1>3, <1>4, <1>6, <1>8, <1>14
  <1> QED BY <1>1, <1>2, <1>3, <1>8, <1>11, <1>13, <1>15, <1>16

(* A set that has what overlaps its members, and one that no such set cuts.*)
ChainedIn(found, S) == \A g \in found, h \in S : Overlaps(g, h) => g \in S
Connected(found, G) ==
    \A S \in SUBSET found : S \cap G # {} /\ ChainedIn(found, S) => G \subseteq S

(* The groups after n spans: their members are these spans, every group is *)
(* connected and ends before the next begins.                              *)
Members(acc) == UNION {Groups(acc)[c] : c \in 1 .. Len(acc.clusters)}
SweepOK(found, ordered, n, acc) ==
    /\ acc \in Accs(found)
    /\ Members(acc) = {ordered[i] : i \in 1 .. n}
    /\ \A c \in 1 .. Len(acc.clusters) :
           Groups(acc)[c] # {} /\ Connected(found, Groups(acc)[c])
    /\ \A c, d \in 1 .. Len(acc.clusters) :
           c < d => \A a \in Groups(acc)[c], b \in Groups(acc)[d] : a.end <= b.start
    /\ \A a \in Members(acc) : a.end <= acc.maxEnd
    /\ acc.clusters # <<>> =>
           \E a \in Groups(acc)[Len(acc.clusters)] : a.end = acc.maxEnd

LEMMA SweepNew ==
  ASSUME NEW found \in SUBSET Findings, NEW ordered, NEW n \in Nat, NEW acc,
         SweepOK(found, ordered, n, acc), NEW f \in found, f = ordered[n + 1],
         acc.clusters # <<>> => f.start >= acc.maxEnd
  PROVE  SweepOK(found, ordered, n + 1, NewCluster(acc, f))
  <1>1. acc \in Accs(found)
      BY DEF SweepOK
  <1>2. PICK new : new = NewCluster(acc, f)
      OBVIOUS
  <1>3. PICK k : k = Len(acc.clusters)
      OBVIOUS
  <1>4. k \in Nat /\ (k = 0 <=> acc.clusters = <<>>) /\ acc.maxEnd \in Nat
      BY <1>1, <1>3, LenProperties, EmptySeq DEF Accs
  <1>5. PICK G : G = Groups(acc)
      OBVIOUS
  <1>6. PICK H : H = Groups(new)
      OBVIOUS
  <1>7. /\ new \in Accs(found) /\ new.maxEnd = f.end /\ Len(new.clusters) = k + 1
        /\ \A c \in 1 .. k : H[c] = G[c]
        /\ H[k + 1] = {f}
    <2>1. /\ new \in Accs(found) /\ new.maxEnd = f.end
          /\ Len(new.clusters) = Len(acc.clusters) + 1
          /\ \A c \in 1 .. Len(acc.clusters) : Groups(new)[c] = Groups(acc)[c]
          /\ Groups(new)[Len(acc.clusters) + 1] = {f}
      <3>1. f.end \in Nat
          BY FindingFacts
      <3>2. \A x \in Accs(found), g \in found : g.end \in Nat =>
                /\ NewCluster(x, g) \in Accs(found) /\ NewCluster(x, g).maxEnd = g.end
                /\ Len(NewCluster(x, g).clusters) = Len(x.clusters) + 1
                /\ \A c \in 1 .. Len(x.clusters) :
                       Groups(NewCluster(x, g))[c] = Groups(x)[c]
                /\ Groups(NewCluster(x, g))[Len(x.clusters) + 1] = {g}
          BY NewClusterIs
      <3> QED BY <1>1, <1>2, <3>1, <3>2
    <2> QED BY <1>3, <1>5, <1>6, <2>1
  <1>8. Members(acc) = UNION {G[c] : c \in 1 .. k}
        /\ Members(new) = UNION {H[c] : c \in 1 .. k + 1}
      BY <1>3, <1>5, <1>6, <1>7 DEF Members
  <1>9. 1 .. k + 1 = (1 .. k) \cup {k + 1} /\ k + 1 \notin 1 .. k
      BY <1>4
  <1>10. Members(new) = Members(acc) \cup {f}
      BY <1>7, <1>8, <1>9
  <1>11. Members(new) = {ordered[i] : i \in 1 .. n + 1}
    <2>1. 1 .. n + 1 = (1 .. n) \cup {n + 1}
        OBVIOUS
    <2>2. Members(acc) = {ordered[i] : i \in 1 .. n}
        BY DEF SweepOK
    <2> QED BY <1>10, <2>1, <2>2
  <1>12. f.start \in Nat /\ f.end \in Nat /\ f.start < f.end
      BY FindingFacts
  <1>13. \A a \in Members(acc) : a.end <= acc.maxEnd /\ a \in found /\ a.end \in Nat
    <2>1. ASSUME NEW a \in Members(acc) PROVE a \in found
      <3>1. PICK c \in 1 .. k : a \in Range(acc.clusters[c])
          BY <1>3 DEF Members, Groups
      <3>2. acc.clusters[c] \in Seq(found)
          BY <1>1, <1>3, ElementOfSeq DEF Accs
      <3> QED BY <3>1, <3>2, RangeOfSeq
    <2> QED BY <2>1, FindingFacts DEF SweepOK
  <1>14. \A a \in Members(acc) : a.end <= f.start
    <2> SUFFICES ASSUME NEW a \in Members(acc) PROVE a.end <= f.start
        OBVIOUS
    <2>1. k # 0
        BY <1>4, <1>8
    <2> QED BY <1>4, <1>12, <1>13, <2>1
  <1>15. Connected(found, {f})
      BY DEF Connected
  <1>16. ASSUME NEW c \in 1 .. k + 1 PROVE H[c] # {} /\ Connected(found, H[c])
    <2>1. \A d \in 1 .. k : G[d] # {} /\ Connected(found, G[d])
        BY <1>3, <1>5 DEF SweepOK
    <2> QED BY <1>7, <1>9, <1>15, <2>1
  <1>17. ASSUME NEW c \in 1 .. k + 1, NEW d \in 1 .. k + 1, c < d,
                NEW a \in H[c], NEW b \in H[d]
         PROVE  a.end <= b.start
    <2>1. c \in 1 .. k
        BY <1>4, <1>17
    <2>2. a \in G[c]
        BY <1>7, <2>1
    <2>3. CASE d = k + 1
        BY <1>7, <1>8, <1>14, <2>1, <2>2, <2>3
    <2>4. CASE d \in 1 .. k
        BY <1>3, <1>5, <1>7, <1>17, <2>1, <2>2, <2>4 DEF SweepOK
    <2> QED BY <1>9, <2>3, <2>4
  <1>18. \A a \in Members(new) : a.end <= f.end
      BY <1>10, <1>12, <1>13, <1>14
  <1>19. \E a \in H[k + 1] : a.end = f.end
      BY <1>7
  <1> QED BY <1>2, <1>6, <1>7, <1>11, <1>16, <1>17, <1>18, <1>19 DEF SweepOK

LEMMA MembersFound ==
  ASSUME NEW found \in SUBSET Findings, NEW acc \in Accs(found)
  PROVE  \A a \in Members(acc) :
             a \in found /\ a.start \in Nat /\ a.end \in Nat /\ a.start < a.end
  <1> SUFFICES ASSUME NEW a \in Members(acc) PROVE a \in found
      BY FindingFacts
  <1>1. PICK c \in 1 .. Len(acc.clusters) : a \in Range(acc.clusters[c])
      BY DEF Members, Groups
  <1>2. acc.clusters[c] \in Seq(found)
      BY ElementOfSeq DEF Accs
  <1> QED BY <1>1, <1>2, RangeOfSeq

LEMMA SweepExtend ==
  ASSUME NEW found \in SUBSET Findings, NEW ordered, NEW n \in Nat, NEW acc,
         SweepOK(found, ordered, n, acc), NEW f \in found, f = ordered[n + 1],
         acc.clusters # <<>>, f.start < acc.maxEnd,
         \A i \in 1 .. n : ordered[i].start <= f.start
  PROVE  SweepOK(found, ordered, n + 1, Extend(acc, f))
  <1>1. acc \in Accs(found) /\ acc.maxEnd \in Nat
      BY DEF SweepOK, Accs
  <1>2. PICK new : new = Extend(acc, f)
      OBVIOUS
  <1>3. PICK k : k = Len(acc.clusters)
      OBVIOUS
  <1>4. PICK G : G = Groups(acc)
      OBVIOUS
  <1>5. PICK H : H = Groups(new)
      OBVIOUS
  <1>6. f.start \in Nat /\ f.end \in Nat /\ f.start < f.end
      BY FindingFacts
  <1>7. /\ new \in Accs(found) /\ new.maxEnd = (IF acc.maxEnd >= f.end THEN acc.maxEnd ELSE f.end)
        /\ Len(new.clusters) = k /\ k \in Nat \ {0}
        /\ \A c \in 1 .. k - 1 : H[c] = G[c]
        /\ H[k] = G[k] \cup {f}
    <2>1. \A x \in Accs(found), g \in found : g.end \in Nat /\ x.clusters # <<>> =>
              /\ Extend(x, g) \in Accs(found)
              /\ Extend(x, g).maxEnd = IF x.maxEnd >= g.end THEN x.maxEnd ELSE g.end
              /\ Len(Extend(x, g).clusters) = Len(x.clusters) /\ Len(x.clusters) \in Nat \ {0}
              /\ \A c \in 1 .. Len(x.clusters) - 1 : Groups(Extend(x, g))[c] = Groups(x)[c]
              /\ Groups(Extend(x, g))[Len(x.clusters)] = Groups(x)[Len(x.clusters)] \cup {g}
        BY ExtendIs
    <2>2. /\ Extend(acc, f) \in Accs(found)
          /\ Extend(acc, f).maxEnd = IF acc.maxEnd >= f.end THEN acc.maxEnd ELSE f.end
          /\ Len(Extend(acc, f).clusters) = Len(acc.clusters) /\ Len(acc.clusters) \in Nat \ {0}
          /\ \A c \in 1 .. Len(acc.clusters) - 1 : Groups(Extend(acc, f))[c] = Groups(acc)[c]
          /\ Groups(Extend(acc, f))[Len(acc.clusters)] = Groups(acc)[Len(acc.clusters)] \cup {f}
        BY <1>1, <1>6, <2>1, Zenon
    <2> QED BY <1>2, <1>3, <1>4, <1>5, <2>2
  <1>8. 1 .. k = (1 .. k - 1) \cup {k} /\ k \notin 1 .. k - 1
      BY <1>7
  <1>9. Members(acc) = UNION {G[c] : c \in 1 .. k} /\ Members(new) = UNION {H[c] : c \in 1 .. k}
      BY <1>3, <1>4, <1>5, <1>7 DEF Members
  <1>10. Members(new) = Members(acc) \cup {f}
      BY <1>7, <1>8, <1>9
  <1>11. Members(new) = {ordered[i] : i \in 1 .. n + 1}
    <2>1. 1 .. n + 1 = (1 .. n) \cup {n + 1}
        OBVIOUS
    <2>2. Members(acc) = {ordered[i] : i \in 1 .. n}
        BY DEF SweepOK
    <2> QED BY <1>10, <2>1, <2>2
  <1>12. /\ \A c \in 1 .. k : G[c] # {} /\ Connected(found, G[c])
         /\ \A c, d \in 1 .. k : c < d => \A a \in G[c], b \in G[d] : a.end <= b.start
         /\ \A a \in Members(acc) : a.end <= acc.maxEnd
         /\ \E a \in G[k] : a.end = acc.maxEnd
      BY <1>3, <1>4 DEF SweepOK
  <1>13. \A a \in Members(acc) : /\ a \in found /\ a.start \in Nat /\ a.end \in Nat
                                 /\ a.start < a.end /\ a.start <= f.start
    <2>1. \A a \in Members(acc) : a.start <= f.start
        BY DEF SweepOK
    <2> QED BY <1>1, <2>1, MembersFound
  <1>14. k \in 1 .. k /\ \A c \in 1 .. k : G[c] \subseteq Members(acc)
      BY <1>7, <1>9
  <1>15. Connected(found, H[k])
    <2>1. PICK w \in G[k] : w.end = acc.maxEnd
        BY <1>12
    <2>2. w \in found /\ w.start <= f.start /\ w.start \in Nat /\ w.end \in Nat
        BY <1>13, <1>14
    <2>3. Overlaps(w, f) /\ Overlaps(f, w)
        BY <1>1, <1>6, <2>1, <2>2 DEF Overlaps
    <2> SUFFICES ASSUME NEW S \in SUBSET found, S \cap H[k] # {}, ChainedIn(found, S)
                 PROVE  H[k] \subseteq S
        BY DEF Connected
    <2>4. S \cap G[k] # {}
      <3>1. CASE f \in S
          BY <2>1, <2>2, <2>3, <3>1 DEF ChainedIn
      <3>2. CASE f \notin S
          BY <1>7, <3>2
      <3> QED BY <3>1, <3>2
    <2>5. G[k] \subseteq S
        BY <1>12, <1>14, <2>4 DEF Connected
    <2>6. f \in S
        BY <2>1, <2>3, <2>5 DEF ChainedIn
    <2> QED BY <1>7, <2>5, <2>6
  <1>16. ASSUME NEW c \in 1 .. k PROVE H[c] # {} /\ Connected(found, H[c])
      BY <1>7, <1>8, <1>12, <1>15
  <1>17. ASSUME NEW c \in 1 .. k, NEW d \in 1 .. k, c < d, NEW a \in H[c], NEW b \in H[d]
         PROVE  a.end <= b.start
    <2>1. c \in 1 .. k - 1
        BY <1>7, <1>17
    <2>2. a \in G[c] /\ a \in Members(acc)
        BY <1>7, <1>14, <1>17, <2>1
    <2>3. CASE b \in G[d]
        BY <1>12, <1>17, <2>2, <2>3
    <2>4. CASE b \notin G[d]
      <3>1. d = k /\ b = f
          BY <1>7, <1>8, <1>17, <2>4
      <3>2. PICK w \in G[k] : TRUE
          BY <1>12, <1>14
      <3>3. a.end <= w.start /\ w \in Members(acc)
          BY <1>12, <1>14, <1>17, <2>2, <3>1, <3>2
      <3> QED BY <1>6, <1>13, <2>2, <3>1, <3>3
    <2> QED BY <2>3, <2>4
  <1>18. ASSUME NEW a \in Members(new) PROVE a.end <= new.maxEnd
      BY <1>1, <1>6, <1>7, <1>10, <1>12, <1>13
  <1>19. \E a \in H[k] : a.end = new.maxEnd
      BY <1>7, <1>12
  <1>20. Groups(new) = H /\ Len(new.clusters) = k
      BY <1>5, <1>7
  <1>21. SweepOK(found, ordered, n + 1, new)
    <2>1. \A c \in 1 .. Len(new.clusters) :
              Groups(new)[c] # {} /\ Connected(found, Groups(new)[c])
        BY <1>16, <1>20
    <2>2. \A c, d \in 1 .. Len(new.clusters) : c < d =>
              \A a \in Groups(new)[c], b \in Groups(new)[d] : a.end <= b.start
        BY <1>17, <1>20
    <2>3. \E a \in Groups(new)[Len(new.clusters)] : a.end = new.maxEnd
        BY <1>19, <1>20
    <2> QED BY <1>7, <1>11, <1>18, <2>1, <2>2, <2>3 DEF SweepOK
  <1> QED BY <1>2, <1>21

LEMMA InOrderStarts ==
  ASSUME NEW f \in Findings, NEW g \in Findings, LexLess(InOrder[f], InOrder[g])
  PROVE  f.start <= g.start
  <1>1. f.start \in Nat /\ g.start \in Nat
      BY FindingFacts
  <1> QED BY <1>1 DEF LexLess, InOrder

(* The clusters of the findings.                                           *)
GroupsOf(cs) == [c \in 1 .. Len(cs) |-> Range(cs[c])]

LEMMA SweepStep ==
  ASSUME NEW found \in SUBSET Findings, NEW ordered, NEW n \in Nat, NEW acc,
         SweepOK(found, ordered, n, acc), NEW f \in found, f = ordered[n + 1],
         \A i \in 1 .. n : ordered[i].start <= f.start
  PROVE  SweepOK(found, ordered, n + 1, Sweep(acc, f))
  <1>1. f.start \in Nat /\ acc.maxEnd \in Nat
      BY FindingFacts DEF SweepOK, Accs
  <1>2. CASE acc.clusters # <<>> /\ f.start < acc.maxEnd
    <2>1. SweepOK(found, ordered, n + 1, Extend(acc, f))
        BY <1>2, SweepExtend
    <2> QED BY <1>2, <2>1 DEF Sweep
  <1>3. CASE ~(acc.clusters # <<>> /\ f.start < acc.maxEnd)
    <2>1. acc.clusters # <<>> => f.start >= acc.maxEnd
        BY <1>1, <1>3
    <2>2. SweepOK(found, ordered, n + 1, NewCluster(acc, f))
        BY <2>1, SweepNew
    <2> QED BY <1>3, <2>2 DEF Sweep
  <1> QED BY <1>2, <1>3

Empty == [clusters |-> <<>>, maxEnd |-> 0]
IsSwept(h, ordered) ==
    h = [n \in 0 .. Len(ordered) |->
            IF n = 0 THEN Empty ELSE Sweep(h[n - 1], ordered[n])]

LEMMA SweptExists ==
  ASSUME NEW found \in SUBSET Findings, NEW ordered \in Seq(found)
  PROVE  \E h : IsSwept(h, ordered)
  <1> DEFINE m == Len(ordered)
             next == [i \in 1 .. m |-> [acc \in Accs(found) |-> Sweep(acc, ordered[i])]]
  <1>1. m \in Nat /\ \A i \in 1 .. m : ordered[i] \in found
      BY LenProperties, ElementOfSeq
  <1>2. Empty \in Accs(found)
      BY DEF Empty, Accs
  <1>3. ASSUME NEW acc \in Accs(found), NEW f \in found
        PROVE  Sweep(acc, f) \in Accs(found)
    <2>1. f.end \in Nat
        BY FindingFacts
    <2>2. NewCluster(acc, f) \in Accs(found)
        BY <2>1, NewClusterIs
    <2>3. acc.clusters # <<>> => Extend(acc, f) \in Accs(found)
        BY <2>1, ExtendIs
    <2> QED BY <2>2, <2>3 DEF Sweep
  <1>4. next \in [1 .. m -> [Accs(found) -> Accs(found)]]
      BY <1>1, <1>3
  <1>5. \A i \in 1 .. m, acc \in Accs(found) : next[i][acc] = Sweep(acc, ordered[i])
      OBVIOUS
  <1> HIDE DEF m, next
  <1>6. PICK h \in [0 .. m -> Accs(found)] : IsLoop(h, Empty, next, m)
      BY <1>1, <1>2, <1>4, TypedLoop
  <1>7. \A i \in 0 .. m : h[i] = IF i = 0 THEN Empty ELSE next[i][h[i - 1]]
      BY <1>1, <1>6, LoopAt
  <1>8. ASSUME NEW i \in 0 .. m
        PROVE  h[i] = IF i = 0 THEN Empty ELSE Sweep(h[i - 1], ordered[i])
    <2>1. CASE i = 0
        BY <1>7, <2>1
    <2>2. CASE i # 0
      <3>1. i \in 1 .. m /\ i - 1 \in 0 .. m
          BY <1>1, <2>2
      <3> QED BY <1>5, <1>6, <1>7, <2>2, <3>1
    <2> QED BY <2>1, <2>2
  <1>9. h = [i \in 0 .. m |-> IF i = 0 THEN Empty ELSE Sweep(h[i - 1], ordered[i])]
      BY <1>6, <1>8
  <1> QED BY <1>9 DEF IsSwept, m

GroupsFit(gs, n, found) ==
    /\ UNION {gs[c] : c \in 1 .. n} = found
    /\ \A c \in 1 .. n : gs[c] # {} /\ Connected(found, gs[c])
    /\ \A c, d \in 1 .. n : c < d => \A a \in gs[c], b \in gs[d] : a.end <= b.start
ClustersFit(cs, found) ==
    cs \in Seq(Seq(found)) /\ GroupsFit(GroupsOf(cs), Len(cs), found)

LEMMA ClustersAre ==
  ASSUME NEW found \in SUBSET Findings, IsFiniteSet(found), NEW cs, cs = Clusters(found)
  PROVE  ClustersFit(cs, found)
  <1>1. PICK s : s = SortedBy(InOrder, found)
      OBVIOUS
  <1>2. PICK m : m = Len(s)
      OBVIOUS
  <1>3. /\ m \in Nat /\ s \in Seq(found)
        /\ \A i \in 1 .. m : s[i] \in found
        /\ \A i, j \in 1 .. m : i < j => LexLess(InOrder[s[i]], InOrder[s[j]])
        /\ {s[i] : i \in 1 .. m} = found
    <2>1. Keyed(InOrder, found)
        BY FindingsAreKeyed
    <2>2. /\ s \in [1 .. Cardinality(found) -> found] /\ Cardinality(found) \in Nat
          /\ s \in Seq(found) /\ Len(s) = Cardinality(found)
          /\ \A i, j \in 1 .. Len(s) : i < j => LexLess(InOrder[s[i]], InOrder[s[j]])
          /\ \A x \in found : \E i \in 1 .. Len(s) : s[i] = x
        BY <1>1, <2>1, SortedIs
    <2>3. \A i \in 1 .. Len(s) : s[i] \in found
        BY <2>2
    <2> QED BY <1>2, <2>2, <2>3
  <1>4. \A i, j \in 1 .. m : i < j => s[i].start <= s[j].start
    <2> SUFFICES ASSUME NEW i \in 1 .. m, NEW j \in 1 .. m, i < j
                 PROVE  s[i].start <= s[j].start
        OBVIOUS
    <2>1. s[i] \in Findings /\ s[j] \in Findings
        BY <1>3
    <2>2. LexLess(InOrder[s[i]], InOrder[s[j]])
        BY <1>3
    <2> QED BY <2>1, <2>2, InOrderStarts
  <1>5. PICK g : g = CHOOSE h : IsSwept(h, s)
      OBVIOUS
  <1>6. IsSwept(g, s)
      BY <1>3, <1>5, SweptExists
  <1>7. cs = g[m].clusters
      BY <1>1, <1>2, <1>5 DEF Clusters, IsSwept, Empty
  <1>8. \A i \in 0 .. m : g[i] = IF i = 0 THEN Empty ELSE Sweep(g[i - 1], s[i])
      BY <1>2, <1>6 DEF IsSwept
  <1> DEFINE P == {i \in 0 .. m : SweepOK(found, s, i, g[i])}
  <1>9. 0 \in P
    <2>1. Empty \in Accs(found) /\ Len(Empty.clusters) = 0 /\ Empty.clusters = <<>>
        BY DEF Accs, Empty
    <2>2. Members(Empty) = {}
        BY <2>1 DEF Members
    <2>3. SweepOK(found, s, 0, Empty)
        BY <2>1, <2>2 DEF SweepOK
    <2> QED BY <1>3, <1>8, <2>3
  <1>10. ASSUME NEW i \in 0 .. m - 1, i \in P PROVE i + 1 \in P
    <2>1. i \in Nat /\ i + 1 \in 1 .. m /\ i + 1 \in 0 .. m /\ i + 1 # 0 /\ (i + 1) - 1 = i
        BY <1>3
    <2>2. PICK f \in found : f = s[i + 1]
        BY <1>3, <2>1
    <2>3. \A j \in 1 .. i : s[j].start <= f.start
        BY <1>3, <1>4, <2>1, <2>2
    <2>4. g[i + 1] = Sweep(g[i], f)
        BY <1>8, <2>1, <2>2
    <2>5. SweepOK(found, s, i, g[i])
        BY <1>10
    <2>6. SweepOK(found, s, i + 1, Sweep(g[i], f))
        BY <2>1, <2>2, <2>3, <2>5, SweepStep
    <2> QED BY <2>1, <2>4, <2>6
  <1>11. m \in P
    <2> HIDE DEF P
    <2>1. \A i \in 0 .. m : i \in P
        BY <1>3, <1>9, <1>10, UpTo
    <2> QED BY <1>3, <2>1
  <1>12. PICK acc : acc = g[m]
      OBVIOUS
  <1>13. SweepOK(found, s, m, acc)
      BY <1>11, <1>12
  <1>14. Groups(acc) = GroupsOf(cs) /\ acc.clusters = cs
      BY <1>7, <1>12 DEF Groups, GroupsOf
  <1>15. cs \in Seq(Seq(found))
      BY <1>13, <1>14 DEF SweepOK, Accs
  <1>16. UNION {GroupsOf(cs)[c] : c \in 1 .. Len(cs)} = found
      BY <1>3, <1>13, <1>14 DEF SweepOK, Members
  <1>17. GroupsFit(Groups(acc), Len(acc.clusters), found)
    <2>1. UNION {Groups(acc)[c] : c \in 1 .. Len(acc.clusters)} = found
        BY <1>14, <1>16
    <2> QED BY <1>13, <2>1 DEF SweepOK, GroupsFit
  <1> QED BY <1>14, <1>15, <1>17 DEF ClustersFit

-----------------------------------------------------------------------------
(* One span for each cluster.                                              *)

(* A span stands for a member of the group, of its highest layer.          *)
StandsFor(sp, G) ==
    \E g \in G : /\ g.start = sp.start /\ g.end = sp.end /\ g.type = sp.type
                 /\ g.source \in sp.sources
                 /\ \A f \in G : Priority[g.source] >= Priority[f.source]

LEMMA StrengthTriples ==
  ASSUME NEW f \in Findings
  PROVE  Strength(f) \in Triples /\ Priority[f.source] \in Int
  <1>1. Priority[f.source] \in Int
      BY FindingFacts DEF Priority, Layers
  <1>2. f.conf \in Int /\ f.end - f.start \in Int
      BY FindingFacts
  <1> QED BY <1>1, <1>2 DEF Strength, Triples

LEMMA CanonicalIs ==
  ASSUME NEW cluster \in Seq(Findings), Range(cluster) # {}
  PROVE  \E i \in DOMAIN cluster :
             /\ Canonical(cluster) = cluster[i]
             /\ \A j \in DOMAIN cluster : ~Beats(cluster[j], cluster[i])
  <1> DEFINE n == Len(cluster)
             key == [i \in 1 .. n |-> Strength(cluster[i])]
             Best == {i \in DOMAIN cluster :
                          \A j \in DOMAIN cluster : ~Beats(cluster[j], cluster[i])}
  <1>1. n \in Nat /\ DOMAIN cluster = 1 .. n /\ \A i \in 1 .. n : cluster[i] \in Findings
      BY LenProperties, ElementOfSeq
  <1>2. IsFiniteSet(1 .. n)
      BY <1>1, FS_Interval
  <1>3. 1 .. n # {}
      BY <1>1 DEF Range
  <1>4. \A i \in 1 .. n : key[i] \in Triples /\ key[i] = Strength(cluster[i])
      BY <1>1, StrengthTriples
  <1> HIDE DEF n, key
  <1>5. PICK m \in 1 .. n : \A x \in 1 .. n : ~LexLess(key[m], key[x])
      BY <1>2, <1>3, <1>4, Greatest
  <1>6. m \in Best
      BY <1>1, <1>4, <1>5 DEF Beats
  <1>7. Best \in SUBSET Nat
      BY <1>1
  <1>8. Canonical(cluster) = cluster[Min(Best)]
      BY DEF Canonical
  <1>9. \A i \in Best : i \in DOMAIN cluster
                        /\ \A j \in DOMAIN cluster : ~Beats(cluster[j], cluster[i])
      OBVIOUS
  <1> HIDE DEF Best
  <1>10. Min(Best) \in Best
    <2>1. \E x \in Best : \A y \in Best : x <= y
        BY <1>6, <1>7, LeastNumber
    <2> QED BY <2>1 DEF Min
  <1> QED BY <1>8, <1>9, <1>10

LEMMA ResolveIs ==
  ASSUME NEW cluster \in Seq(Findings), Range(cluster) # {}
  PROVE  StandsFor(Resolve(cluster), Range(cluster))
  <1>1. PICK i \in DOMAIN cluster :
            /\ Canonical(cluster) = cluster[i]
            /\ \A j \in DOMAIN cluster : ~Beats(cluster[j], cluster[i])
      BY CanonicalIs
  <1>2. PICK b : b = cluster[i]
      OBVIOUS
  <1>3. PICK sp : sp = Resolve(cluster)
      OBVIOUS
  <1>4. PICK src : src = Agreeing(cluster, b.type)
      OBVIOUS
  <1>5. b.source \in src
      BY <1>1, <1>2, <1>4 DEF Agreeing
  <1>6. sp.start = b.start /\ sp.end = b.end /\ sp.type = b.type /\ sp.sources = src
      BY <1>1, <1>2, <1>3, <1>4 DEF Resolve
  <1>7. \A j \in DOMAIN cluster : cluster[j] \in Findings
      BY LenProperties, ElementOfSeq
  <1>8. ASSUME NEW f \in Range(cluster) PROVE Priority[b.source] >= Priority[f.source]
    <2>1. f \in Findings /\ b \in Findings /\ ~Beats(f, b)
        BY <1>1, <1>2, <1>7 DEF Range
    <2>2. Priority[f.source] \in Int /\ Priority[b.source] \in Int
        BY <2>1, StrengthTriples
    <2>3. ~(Priority[b.source] < Priority[f.source])
        BY <2>1 DEF Beats, LexLess, Strength
    <2> QED BY <2>2, <2>3
  <1>9. b \in Range(cluster)
      BY <1>1, <1>2 DEF Range
  <1> QED BY <1>3, <1>5, <1>6, <1>8, <1>9 DEF StandsFor

(* Numbers that only rise, as many as there are, are all of them.          *)
LEMMA RisingIsIdentity ==
  ASSUME NEW n \in Nat, NEW q \in [1 .. n -> 1 .. n],
         \A i, j \in 1 .. n : i < j => q[i] < q[j]
  PROVE  \A i \in 1 .. n : q[i] = i
  <1> DEFINE P == {i \in 0 .. n : i = 0 \/ q[i] >= i}
             D == {k \in 0 .. n : k = 0 \/ q[n - k + 1] <= n - k + 1}
  <1>1. ASSUME NEW i \in 0 .. n - 1, i \in P PROVE i + 1 \in P
    <2>1. i + 1 \in 1 .. n /\ q[i + 1] \in 1 .. n /\ i + 1 \in 0 .. n
        OBVIOUS
    <2>2. CASE i = 0
        BY <2>1, <2>2
    <2>3. CASE i # 0
      <3>1. i \in 1 .. n /\ q[i] \in 1 .. n /\ q[i] < q[i + 1] /\ q[i] >= i
          BY <1>1, <2>1, <2>3
      <3> QED BY <2>1, <3>1
    <2> QED BY <2>2, <2>3
  <1>2. ASSUME NEW k \in 0 .. n - 1, k \in D PROVE k + 1 \in D
    <2>1. PICK j \in 1 .. n : j = n - k
        OBVIOUS
    <2>2. n - (k + 1) + 1 = j /\ n - k + 1 = j + 1 /\ q[j] \in 1 .. n
        BY <2>1
    <2>3. q[j] <= j
      <3>1. CASE k = 0
          BY <2>1, <2>2, <3>1
      <3>2. CASE k # 0
        <4>1. j + 1 \in 1 .. n /\ q[j + 1] \in 1 .. n /\ q[j] < q[j + 1] /\ q[j + 1] <= j + 1
            BY <1>2, <2>1, <2>2, <3>2
        <4> QED BY <2>2, <4>1
      <3> QED BY <3>1, <3>2
    <2> QED BY <2>2, <2>3
  <1>3. 0 \in P /\ 0 \in D
      OBVIOUS
  <1>4. \A i \in 0 .. n : i \in P
    <2> HIDE DEF P
    <2> QED BY <1>1, <1>3, UpTo
  <1>5. \A k \in 0 .. n : k \in D
    <2> HIDE DEF D
    <2> QED BY <1>2, <1>3, UpTo
  <1> SUFFICES ASSUME NEW i \in 1 .. n PROVE q[i] = i
      OBVIOUS
  <1>6. q[i] >= i
      BY <1>4
  <1>7. q[i] <= i
    <2>1. PICK k \in 1 .. n : k = n - i + 1
        OBVIOUS
    <2>2. n - k + 1 = i /\ k # 0 /\ k \in 0 .. n
        BY <2>1
    <2>3. k \in D
      <3> HIDE DEF D
      <3> QED BY <1>5, <2>2
    <2>4. q[n - k + 1] <= n - k + 1
        BY <2>2, <2>3
    <2> QED BY <2>2, <2>4, Zenon
  <1> QED BY <1>6, <1>7

LEMMA ByStartSame ==
  ASSUME NEW n \in Nat, NEW ss, DOMAIN ss = 1 .. n, ss = [i \in 1 .. n |-> ss[i]],
         \A i \in 1 .. n : ss[i].start \in Nat,
         \A i, j \in 1 .. n : i < j => ss[i].start < ss[j].start
  PROVE  ByStart(ss) = ss
  <1>1. PICK key : key = [i \in DOMAIN ss |-> <<ss[i].start, i, 0>>]
      OBVIOUS
  <1>2. \A i \in 1 .. n : key[i] = <<ss[i].start, i, 0>>
      BY <1>1
  <1>3. IsFiniteSet(1 .. n) /\ Cardinality(1 .. n) = n
      BY FS_Interval
  <1>4. Keyed(key, 1 .. n)
    <2>1. ASSUME NEW i \in 1 .. n PROVE key[i] \in Triples /\ key[i][2] = i
      <3>1. key[i] = <<ss[i].start, i, 0>>
          BY <1>2
      <3>2. PICK a \in Int : a = ss[i].start
        <4>1. ss[i].start \in Nat
            OBVIOUS
        <4> QED BY <4>1
      <3>3. key[i] = <<a, i, 0>>
          BY <3>1, <3>2
      <3> QED BY <3>3 DEF Triples
    <2>2. \A i, j \in 1 .. n : key[i] = key[j] => i = j
        BY <2>1
    <2> QED BY <1>3, <2>1, <2>2 DEF Keyed
  <1>5. PICK q : q = SortedBy(key, DOMAIN ss)
      OBVIOUS
  <1>6. q \in [1 .. n -> 1 .. n] /\ \A i, j \in 1 .. n : i < j => LexLess(key[q[i]], key[q[j]])
    <2>1. q = SortedBy(key, 1 .. n)
        BY <1>5
    <2>2. PICK S : S = 1 .. n
        OBVIOUS
    <2>3. Keyed(key, S) /\ q = SortedBy(key, S)
        BY <1>4, <2>1, <2>2
    <2>4. /\ q \in [1 .. Cardinality(S) -> S] /\ Len(q) = Cardinality(S)
          /\ \A i, j \in 1 .. Len(q) : i < j => LexLess(key[q[i]], key[q[j]])
        BY <2>3, SortedIs
    <2> QED BY <1>3, <2>2, <2>4
  <1>7. ASSUME NEW a \in 1 .. n, NEW b \in 1 .. n, LexLess(key[a], key[b]) PROVE a < b
    <2>1. ss[a].start \in Nat /\ ss[b].start \in Nat
        OBVIOUS
    <2>2. ss[a].start <= ss[b].start /\ (ss[a].start = ss[b].start => a < b)
      <3>1. PICK x \in Nat, y \in Nat : x = ss[a].start /\ y = ss[b].start
          BY <2>1
      <3>2. key[a] = <<x, a, 0>> /\ key[b] = <<y, b, 0>>
          BY <1>2, <3>1
      <3>3. LexLess(<<x, a, 0>>, <<y, b, 0>>)
          BY <1>7, <3>2
      <3>4. x < y \/ (x = y /\ a < b)
          BY <3>3 DEF LexLess
      <3> QED BY <3>1, <3>4
    <2>3. b < a => ss[b].start < ss[a].start
        OBVIOUS
    <2> QED BY <2>1, <2>2, <2>3
  <1>8. \A i, j \in 1 .. n : i < j => q[i] < q[j]
      BY <1>6, <1>7
  <1>9. \A i \in 1 .. n : q[i] = i
      BY <1>6, <1>8, RisingIsIdentity
  <1>10. ByStart(ss) = [i \in DOMAIN ss |-> ss[q[i]]]
      BY <1>1, <1>5 DEF ByStart
  <1>11. [i \in 1 .. n |-> ss[q[i]]] = [i \in 1 .. n |-> ss[i]]
      BY <1>9
  <1>12. ByStart(ss) = [i \in 1 .. n |-> ss[q[i]]]
      BY <1>10
  <1>13. ss = [i \in 1 .. n |-> ss[i]]
      OBVIOUS
  <1> QED BY <1>11, <1>12, <1>13, Zenon

(* What merge_spans returns: a span for each group, in the order of the    *)
(* text; each group is connected and ends before the next begins.          *)
SpansFit(ss, gs, passing) ==
    /\ Len(ss) \in Nat /\ DOMAIN ss = 1 .. Len(ss) /\ DOMAIN gs = 1 .. Len(ss)
    /\ \A f \in passing : \E c \in 1 .. Len(ss) : f \in gs[c]
    /\ \A c \in 1 .. Len(ss) : /\ gs[c] \subseteq passing /\ gs[c] # {}
                               /\ Connected(passing, gs[c])
                               /\ StandsFor(ss[c], gs[c])
    /\ \A c, d \in 1 .. Len(ss) : c < d =>
           \A a \in gs[c], b \in gs[d] : a.end <= b.start

LEMMA MergeSpansAre ==
  ASSUME NEW found \in SUBSET Findings, IsFiniteSet(found),
         NEW ss, ss = MergeSpans(found), NEW passing, passing = {f \in found : Passes(f)}
  PROVE  \E gs : SpansFit(ss, gs, passing)
  <1>1. passing \in SUBSET Findings /\ IsFiniteSet(passing)
      BY FS_Subset
  <1>2. PICK cs : cs = Clusters(passing)
      OBVIOUS
  <1>3. PICK gs : gs = GroupsOf(cs)
      OBVIOUS
  <1>4. PICK n : n = Len(cs)
      OBVIOUS
  <1>5. /\ cs \in Seq(Seq(passing))
        /\ UNION {gs[c] : c \in 1 .. n} = passing
        /\ \A c \in 1 .. n : gs[c] # {} /\ Connected(passing, gs[c])
        /\ \A c, d \in 1 .. n : c < d => \A a \in gs[c], b \in gs[d] : a.end <= b.start
    <2>1. ClustersFit(cs, passing)
        BY <1>1, <1>2, ClustersAre
    <2>2. cs \in Seq(Seq(passing)) /\ GroupsFit(gs, n, passing)
        BY <1>3, <1>4, <2>1 DEF ClustersFit
    <2> QED BY <2>2 DEF GroupsFit
  <1>6. n \in Nat /\ DOMAIN cs = 1 .. n
      BY <1>4, <1>5, LenProperties
  <1>7. DOMAIN gs = 1 .. n /\ \A c \in 1 .. n : gs[c] = Range(cs[c])
      BY <1>3, <1>4 DEF GroupsOf
  <1>8. PICK rs : rs = [i \in 1 .. n |-> Resolve(cs[i])]
      OBVIOUS
  <1>9. ss = ByStart(rs)
      BY <1>2, <1>6, <1>8 DEF MergeSpans
  <1>10. ASSUME NEW c \in 1 .. n PROVE StandsFor(rs[c], gs[c]) /\ gs[c] \subseteq passing
    <2>1. cs[c] \in Seq(Findings)
      <3>1. cs[c] \in Seq(passing)
          BY <1>4, <1>5, ElementOfSeq
      <3> QED BY <1>1, <3>1
    <2>2. gs[c] = Range(cs[c]) /\ gs[c] # {} /\ rs[c] = Resolve(cs[c])
        BY <1>5, <1>7, <1>8
    <2>3. StandsFor(Resolve(cs[c]), Range(cs[c]))
        BY <2>1, <2>2, ResolveIs
    <2> QED BY <1>5, <2>2, <2>3
  <1>11. \A c \in 1 .. n : \E g \in gs[c] : rs[c].start = g.start /\ g \in Findings
      BY <1>1, <1>10 DEF StandsFor
  <1>12. ByStart(rs) = rs
    <2>1. DOMAIN rs = 1 .. n /\ rs = [i \in 1 .. n |-> rs[i]]
        BY <1>8
    <2>2. \A i \in 1 .. n : rs[i].start \in Nat
        BY <1>11, FindingFacts
    <2>3. ASSUME NEW i \in 1 .. n, NEW j \in 1 .. n, i < j PROVE rs[i].start < rs[j].start
      <3>1. PICK g \in gs[i] : rs[i].start = g.start /\ g \in Findings
          BY <1>11
      <3>2. PICK h \in gs[j] : rs[j].start = h.start /\ h \in Findings
          BY <1>11
      <3>3. g.end <= h.start
          BY <1>5, <2>3
      <3>4. g.start \in Nat /\ g.end \in Nat /\ g.start < g.end /\ h.start \in Nat
          BY <3>1, <3>2, FindingFacts
      <3> QED BY <3>1, <3>2, <3>3, <3>4
    <2> QED BY <1>6, <2>1, <2>2, <2>3, ByStartSame
  <1>13. Len(rs) = n /\ DOMAIN rs = 1 .. n
    <2>1. rs \in [1 .. n -> {rs[i] : i \in 1 .. n}]
        BY <1>8
    <2> QED BY <1>6, <1>8, <2>1
  <1>14. \A f \in passing : \E c \in 1 .. n : f \in gs[c]
      BY <1>5
  <1>15. SpansFit(rs, gs, passing)
      BY <1>5, <1>6, <1>7, <1>10, <1>13, <1>14 DEF SpansFit
  <1> QED BY <1>9, <1>12, <1>15

-----------------------------------------------------------------------------
(* The invariant: the findings are finitely many, and the spans are those  *)
(* merge_spans makes of them.                                              *)
MergeInv ==
    /\ raw \in SUBSET Findings /\ IsFiniteSet(raw)
    /\ path = "input" => phase # "rescan"
    /\ Merged => spans = MergeSpans(raw)

LEMMA MergeInvHolds == Spec => []MergeInv
  <1>1. Init => MergeInv
    <2> SUFFICES ASSUME Init PROVE MergeInv
        OBVIOUS
    <2>1. raw = {} /\ phase = "regex"
        BY DEF Init
    <2>2. IsFiniteSet({})
        BY FS_EmptySet
    <2> QED BY <2>1, <2>2 DEF MergeInv, Merged
  <1>2. MergeInv /\ [Next]_vars => MergeInv'
    <2> SUFFICES ASSUME MergeInv, [Next]_vars PROVE MergeInv'
        OBVIOUS
    <2> USE DEF MergeInv
    <2>1. ASSUME NEW f \in Findings, Find(f) PROVE MergeInv'
      <3>1. raw' = raw \cup {f} /\ phase' = f.source /\ phase' = phase /\ path' = path
          BY <2>1 DEF Find
      <3>2. IsFiniteSet(raw')
          BY <3>1, FS_AddElement
      <3>3. phase' \in Layers
          BY <3>1, FindingFacts
      <3> QED BY <3>1, <3>2, <3>3 DEF Merged, Layers
    <2>2. CASE LayerEnds
      <3>1. raw' \subseteq raw /\ phase' \notin {"decide", "transform", "end"} /\ path' = path
          BY <2>2 DEF LayerEnds, WithoutAmbiguousAccounts, NextPhase, Layers
      <3>2. path = "input" => phase' # "rescan"
          BY <2>2 DEF LayerEnds, NextPhase, Layers
      <3>3. IsFiniteSet(raw')
          BY <3>1, FS_Subset
      <3> QED BY <3>1, <3>2, <3>3 DEF Merged
    <2>3. CASE LayerRaises
      <3>1. raw' \subseteq raw /\ path' = path
            /\ (path = "input" => phase' \notin {"decide", "transform", "end", "rescan"})
          BY <2>3 DEF LayerRaises, NextPhase, Layers
      <3>2. IsFiniteSet(raw')
          BY <3>1, FS_Subset
      <3> QED BY <3>1, <3>2 DEF Merged
    <2>4. CASE Merge
        BY <2>4 DEF Merge, Merged
    <2>5. CASE Decide
        BY <2>5 DEF Decide, Merged
    <2>6. CASE Transform
        BY <2>6 DEF Transform, Merged
    <2>7. CASE Rescan
        BY <2>7 DEF Rescan, Merged
    <2>8. CASE UNCHANGED vars
        BY <2>8 DEF vars, Merged
    <2> QED BY <2>1, <2>2, <2>3, <2>4, <2>5, <2>6, <2>7, <2>8 DEF Next
  <1> QED BY <1>1, <1>2, PTL DEF Spec

LEMMA MergedFits ==
  ASSUME MergeInv, Merged
  PROVE  Passing \subseteq Findings /\ \E gs : SpansFit(spans, gs, Passing)
  <1>1. raw \in SUBSET Findings /\ IsFiniteSet(raw) /\ spans = MergeSpans(raw)
      BY DEF MergeInv
  <1>2. \E gs : SpansFit(spans, gs, Passing)
      BY <1>1, MergeSpansAre DEF Passing
  <1> QED BY <1>1, <1>2 DEF Passing

(* What a chain of overlaps reaches is a group.                            *)
LEMMA ReachedIs ==
  ASSUME NEW gs, SpansFit(spans, gs, Passing), Passing \subseteq Findings,
         NEW c \in 1 .. Len(spans), NEW f \in gs[c]
  PROVE  Reached(f) = gs[c]
  <1>1. /\ gs[c] \subseteq Passing /\ Connected(Passing, gs[c]) /\ Len(spans) \in Nat
        /\ \A d \in 1 .. Len(spans) : gs[d] \subseteq Passing
        /\ \A g \in Passing : \E d \in 1 .. Len(spans) : g \in gs[d]
        /\ \A d, e \in 1 .. Len(spans) : d < e =>
               \A a \in gs[d], b \in gs[e] : a.end <= b.start
      BY DEF SpansFit
  <1>2. Chained(gs[c])
    <2> SUFFICES ASSUME NEW g \in Passing, NEW h \in gs[c], Overlaps(g, h)
                 PROVE  g \in gs[c]
        BY DEF Chained
    <2>1. PICK d \in 1 .. Len(spans) : g \in gs[d]
        BY <1>1
    <2>2. g.start \in Nat /\ g.end \in Nat /\ h.start \in Nat /\ h.end \in Nat
        BY <1>1, FindingFacts
    <2>3. g.start < h.end /\ h.start < g.end
        BY DEF Overlaps
    <2>4. ~(d < c) /\ ~(c < d)
      <3>1. d < c => g.end <= h.start
          BY <1>1, <2>1
      <3>2. c < d => h.end <= g.start
          BY <1>1, <2>1
      <3> QED BY <2>2, <2>3, <3>1, <3>2
    <2>5. d = c
        BY <1>1, <2>4
    <2> QED BY <2>1, <2>5
  <1>3. ASSUME NEW g \in gs[c], NEW S \in SUBSET Passing, f \in S, Chained(S)
        PROVE  g \in S
    <2>1. ChainedIn(Passing, S) /\ S \cap gs[c] # {}
        BY <1>3 DEF Chained, ChainedIn
    <2> QED BY <1>1, <2>1 DEF Connected
  <1>4. gs[c] \subseteq Reached(f)
      BY <1>1, <1>3 DEF Reached
  <1>5. Reached(f) \subseteq gs[c]
      BY <1>1, <1>2 DEF Reached
  <1> QED BY <1>4, <1>5

(* Two spans of different groups are not at the same place.                *)
LEMMA SpanOfIs ==
  ASSUME NEW gs, SpansFit(spans, gs, Passing), Passing \subseteq Findings,
         NEW c \in 1 .. Len(spans), NEW f \in gs[c]
  PROVE  SpanOf(f) = {c}
  <1>1. /\ Len(spans) \in Nat /\ DOMAIN spans = 1 .. Len(spans)
        /\ \A d \in 1 .. Len(spans) : gs[d] \subseteq Passing /\ StandsFor(spans[d], gs[d])
        /\ \A d, e \in 1 .. Len(spans) : d < e =>
               \A a \in gs[d], b \in gs[e] : a.end <= b.start
      BY DEF SpansFit
  <1>2. Reached(f) = gs[c]
      BY ReachedIs
  <1>3. c \in SpanOf(f)
      BY <1>1, <1>2 DEF SpanOf, StandsFor
  <1>4. ASSUME NEW i \in SpanOf(f) PROVE i = c
    <2>1. PICK g \in gs[c] : g.start = spans[i].start /\ g.end = spans[i].end
        BY <1>2 DEF SpanOf
    <2>2. i \in 1 .. Len(spans)
        BY <1>1 DEF SpanOf
    <2>3. PICK h \in gs[i] : h.start = spans[i].start /\ h.end = spans[i].end
        BY <1>1, <2>2 DEF StandsFor
    <2>4. g \in Findings /\ h \in Findings
        BY <1>1, <2>2
    <2>5. g.start \in Nat /\ g.end \in Nat /\ g.start < g.end
          /\ h.start = g.start /\ h.end = g.end
        BY <2>1, <2>3, <2>4, FindingFacts
    <2>6. ~(i < c) /\ ~(c < i)
        BY <1>1, <2>2, <2>5
    <2> QED BY <2>2, <2>6
  <1> QED BY <1>3, <1>4

-----------------------------------------------------------------------------
(* The spans merge_spans returns do not overlap and stand in the order of  *)
(* the text, whatever the layers found (app/detect/merge.py:143-144).      *)
THEOREM SpansDisjointHolds == Spec => []SpansDisjoint
  <1>1. MergeInv => SpansDisjoint
    <2> SUFFICES ASSUME MergeInv, Merged, NEW i \in 1 .. Len(spans) - 1
                 PROVE  spans[i].end <= spans[i + 1].start
        BY DEF SpansDisjoint
    <2>1. PICK gs : SpansFit(spans, gs, Passing)
        BY MergedFits
    <2>2. i \in 1 .. Len(spans) /\ i + 1 \in 1 .. Len(spans) /\ i < i + 1
        BY <2>1 DEF SpansFit
    <2>3. PICK g \in gs[i] : g.end = spans[i].end
        BY <2>1, <2>2 DEF SpansFit, StandsFor
    <2>4. PICK h \in gs[i + 1] : h.start = spans[i + 1].start
        BY <2>1, <2>2 DEF SpansFit, StandsFor
    <2>5. g.end <= h.start
        BY <2>1, <2>2 DEF SpansFit
    <2> QED BY <2>3, <2>4, <2>5
  <1> QED BY <1>1, MergeInvHolds, PTL

(* Findings that a chain of overlaps connects are merged into one span,    *)
(* and no others are (app/detect/merge.py:48-73).                          *)
THEOREM OneSpanPerChainHolds == Spec => []OneSpanPerChain
  <1>1. MergeInv => OneSpanPerChain
    <2> SUFFICES ASSUME MergeInv, Merged
                 PROVE  /\ Len(spans) = Cardinality({Reached(f) : f \in Passing})
                        /\ \A f \in Passing : Cardinality(SpanOf(f)) = 1
        BY DEF OneSpanPerChain
    <2>1. PICK gs : SpansFit(spans, gs, Passing) /\ Passing \subseteq Findings
        BY MergedFits
    <2>2. PICK n : n = Len(spans)
        OBVIOUS
    <2>3. /\ n \in Nat /\ DOMAIN gs = 1 .. n
          /\ \A f \in Passing : \E c \in 1 .. n : f \in gs[c]
          /\ \A c \in 1 .. n : gs[c] \subseteq Passing /\ gs[c] # {}
          /\ \A c, d \in 1 .. n : c < d => \A a \in gs[c], b \in gs[d] : a.end <= b.start
        BY <2>1, <2>2 DEF SpansFit
    <2>4. \A c \in 1 .. n : \A f \in gs[c] : Reached(f) = gs[c] /\ SpanOf(f) = {c}
        BY <2>1, <2>2, ReachedIs, SpanOfIs
    <2>5. PICK R : R = {Reached(f) : f \in Passing}
        OBVIOUS
    <2>6. R = {gs[c] : c \in 1 .. n}
      <3>1. \A f \in Passing : \E c \in 1 .. n : Reached(f) = gs[c]
          BY <2>3, <2>4
      <3>2. \A c \in 1 .. n : \E f \in Passing : gs[c] = Reached(f)
          BY <2>3, <2>4
      <3> QED BY <2>5, <3>1, <3>2
    <2>7. ASSUME NEW c \in 1 .. n, NEW d \in 1 .. n, c < d PROVE gs[c] # gs[d]
      <3>1. PICK f \in gs[c] : f \in Passing
          BY <2>3
      <3>2. f \in Findings
          BY <2>1, <3>1
      <3>3. f.start \in Nat /\ f.end \in Nat /\ f.start < f.end
          BY <3>2, FindingFacts
      <3>4. f \notin gs[d]
          BY <2>3, <2>7, <3>1, <3>3
      <3> QED BY <3>1, <3>4
    <2>8. PICK u : u = [c \in 1 .. n |-> gs[c]]
        OBVIOUS
    <2>9. u \in Bijection(1 .. n, R)
      <3>1. u \in [1 .. n -> R]
          BY <2>6, <2>8
      <3>2. \A c, d \in 1 .. n : u[c] = u[d] => c = d
        <4> SUFFICES ASSUME NEW c \in 1 .. n, NEW d \in 1 .. n, c # d PROVE u[c] # u[d]
            OBVIOUS
        <4>1. c < d \/ d < c
            BY <2>3
        <4> QED BY <2>7, <2>8, <4>1
      <3>3. \A r \in R : \E c \in 1 .. n : u[c] = r
          BY <2>6, <2>8
      <3> QED BY <3>1, <3>2, <3>3 DEF Bijection, Injection, IsInjective, Surjection
    <2>10. IsFiniteSet(1 .. n) /\ Cardinality(1 .. n) = n
        BY <2>3, FS_Interval
    <2>11. Cardinality(R) = n
      <3>1. ExistsBijection(1 .. n, R)
          BY <2>9 DEF ExistsBijection
      <3>2. Cardinality(R) = Cardinality(1 .. n)
          BY <2>10, <3>1, FS_Bijection
      <3> QED BY <2>10, <3>2
    <2>12. ASSUME NEW f \in Passing PROVE Cardinality(SpanOf(f)) = 1
      <3>1. PICK c : SpanOf(f) = {c}
          BY <2>3, <2>4
      <3>2. Cardinality({c}) = 1
          BY FS_Singleton
      <3> QED BY <3>1, <3>2
    <2> QED BY <2>2, <2>5, <2>11, <2>12
  <1> QED BY <1>1, MergeInvHolds, PTL

(* No finding is lost to one of a lower layer (app/detect/merge.py:19-24). *)
THEOREM HigherLayerWinsHolds == Spec => []HigherLayerWins
  <1>1. MergeInv => HigherLayerWins
    <2> SUFFICES ASSUME MergeInv, Merged, NEW f \in Passing, NEW i \in DOMAIN spans,
                        i \in SpanOf(f)
                 PROVE  \E g \in Reached(f) :
                            /\ g.start = spans[i].start /\ g.end = spans[i].end
                            /\ g.source \in spans[i].sources
                            /\ Priority[g.source] >= Priority[f.source]
        BY DEF HigherLayerWins
    <2>1. PICK gs : SpansFit(spans, gs, Passing) /\ Passing \subseteq Findings
        BY MergedFits
    <2>2. PICK c \in 1 .. Len(spans) : f \in gs[c]
        BY <2>1 DEF SpansFit
    <2>3. Reached(f) = gs[c] /\ SpanOf(f) = {c}
        BY <2>1, <2>2, ReachedIs, SpanOfIs
    <2>4. i = c /\ StandsFor(spans[c], gs[c])
        BY <2>1, <2>2, <2>3 DEF SpansFit
    <2> QED BY <2>2, <2>3, <2>4 DEF StandsFor
  <1> QED BY <1>1, MergeInvHolds, PTL

-----------------------------------------------------------------------------
(* Texts.                                                                  *)
Chars == {"raw", "masked", "label"} \X Int
Texts == Seq(Chars)

LEMMA RenderIs ==
  ASSUME NEW s, s.start \in Nat, s.end \in Nat, s.start < s.end, NEW a \in Actions
  PROVE  Render(s, a) \in Texts
  <1>1. PICK x \in Nat, y \in Nat : x = s.start /\ y = s.end
      OBVIOUS
  <1>2. MaskOf(s) \in Texts
    <2>1. PICK n \in Nat : n = s.end - s.start + (IF s.grows THEN 1 ELSE 0)
      <3>1. s.end - s.start \in Nat
          OBVIOUS
      <3> QED BY <3>1
    <2>2. MaskOf(s) = [i \in 1 .. n |-> <<"masked", s.start>>]
        BY <2>1 DEF MaskOf
    <2>3. MaskOf(s) = [i \in 1 .. n |-> <<"masked", x>>]
        BY <1>1, <2>2
    <2>4. MaskOf(s) \in [1 .. n -> Chars]
        BY <2>3 DEF Chars
    <2> QED BY <2>4 DEF Texts
  <1>3. Value(s) \in Texts
    <2>1. Value(s) = [i \in 1 .. y - x |-> <<"raw", x + i>>]
        BY <1>1 DEF Value
    <2>2. Value(s) \in [1 .. y - x -> Chars] /\ y - x \in Nat
        BY <1>1, <2>1 DEF Chars
    <2> QED BY <2>2 DEF Texts
  <1>4. <<<<"label", s.start>>, <<"label", s.start>>>> \in Texts
    <2>1. <<"label", x>> \in Chars
        BY DEF Chars
    <2> QED BY <1>1, <2>1 DEF Texts
  <1>5. <<>> \in Texts
      BY DEF Texts
  <1>6. CASE a = "keep"
      BY <1>3, <1>6 DEF Render
  <1>7. CASE a = "mask"
      BY <1>2, <1>7 DEF Render
  <1>8. CASE a = "tokenize"
      BY <1>4, <1>8 DEF Render
  <1>9. CASE a = "aggregate"
      BY <1>5, <1>9 DEF Render
  <1> QED BY <1>6, <1>7, <1>8, <1>9, MergeAssumption

LEMMA OriginalIs == OriginalText \in Texts /\ Len(OriginalText) = TextLen
  <1>1. TextLen \in Nat
      BY MergeAssumption
  <1>2. OriginalText \in [1 .. TextLen -> Chars]
      BY DEF OriginalText, Chars
  <1>3. \A t \in [1 .. TextLen -> Chars] : t \in Seq(Chars) /\ Len(t) = TextLen
      BY <1>1
  <1> QED BY <1>2, <1>3 DEF Texts

LEMMA Associative ==
  \A x, y, z \in Texts : (x \o y) \o z = x \o (y \o z)
  BY ConcatAssociative DEF Texts

(* What a replacement makes of a text; one that ends where the first part  *)
(* of the text does is a replacement inside that part.                     *)
Splice(t, a, e, new) == SubSeq(t, 1, a) \o new \o SubSeq(t, e + 1, Len(t))
SpliceFits(p, rest, a, new) ==
    Splice(p \o rest, a, Len(p), new) = SubSeq(p, 1, a) \o (new \o rest)

LEMMA Spliced ==
  ASSUME NEW p \in Texts, NEW rest \in Texts, NEW new \in Texts, NEW a \in 0 .. Len(p)
  PROVE  SpliceFits(p, rest, a, new)
  <1>0t. PICK t : t = p \o rest
      OBVIOUS
  <1>0. p \in Seq(Chars) /\ rest \in Seq(Chars) /\ new \in Seq(Chars)
      BY DEF Texts
  <1>1. PICK n \in Nat, m \in Nat : n = Len(p) /\ m = Len(rest)
      BY <1>0, LenProperties
  <1>2. t \in Seq(Chars) /\ Len(t) = n + m
      BY <1>0t, <1>0, <1>1, ConcatProperties
  <1>3. SubSeq(t, 1, a) = SubSeq(p, 1, a)
    <2>1. CASE a = 0
        BY <2>1, SubSeqEmpty
    <2>2. CASE a # 0
      <3>1. 1 \in 1 .. Len(p) /\ a \in 1 .. Len(p)
          BY <1>1, <2>2
      <3> QED BY <1>0t, <1>0, <3>1, SubSeqOfConcat1
    <2> QED BY <2>1, <2>2
  <1>4. SubSeq(t, n + 1, n + m) = rest
    <2>1. CASE m = 0
      <3>1. rest = <<>>
          BY <1>0, <1>1, <2>1, EmptySeq
      <3>2. SubSeq(t, n + 1, n + m) = <<>>
          BY <2>1, SubSeqEmpty
      <3> QED BY <3>1, <3>2
    <2>2. CASE m # 0
      <3>1. n + 1 \in n + 1 .. n + m /\ n + m \in n + 1 .. n + m
          BY <2>2
      <3>2. SubSeq(t, n + 1, n + m) = SubSeq(rest, (n + 1) - n, (n + m) - n)
          BY <1>0t, <1>0, <1>1, <3>1, SubSeqOfConcat2
      <3>3. (n + 1) - n = 1 /\ (n + m) - n = m
          OBVIOUS
      <3>4. SubSeq(rest, 1, Len(rest)) = rest
          BY <1>0, SubSeqFull
      <3> QED BY <1>1, <3>2, <3>3, <3>4
    <2> QED BY <2>1, <2>2
  <1>5. SubSeq(p, 1, a) \in Seq(Chars)
    <2>1. \A i \in 1 .. a : p[i] \in Chars
        BY <1>0, <1>1, ElementOfSeq
    <2>2. a \in Int
        BY <1>1
    <2> QED BY <2>1, <2>2, SubSeqProperties
  <1>6. PICK q \in Texts : q = SubSeq(p, 1, a)
      BY <1>5 DEF Texts
  <1>7. (q \o new) \o rest = q \o (new \o rest)
      BY Associative
  <1>8. Splice(t, a, Len(p), new) = (q \o new) \o rest
      BY <1>1, <1>2, <1>3, <1>4, <1>6 DEF Splice
  <1> QED BY <1>0t, <1>6, <1>7, <1>8 DEF SpliceFits

-----------------------------------------------------------------------------
(* The pieces of a text: X[p] is what stands at position p of the result,  *)
(* tails[b] what stands after position b.                                  *)
IsTails(tails, X, n) ==
    /\ tails \in [0 .. n -> Texts] /\ tails[n] = <<>>
    /\ \A b \in 1 .. n : tails[b - 1] = X[b] \o tails[b]

LEMMA TailsExist ==
  ASSUME NEW n \in Nat, NEW X \in [1 .. n -> Texts]
  PROVE  \E tails : IsTails(tails, X, n)
  <1> DEFINE next == [k \in 1 .. n |-> [t \in Texts |-> X[n - k + 1] \o t]]
  <1>1. <<>> \in Texts
      BY DEF Texts
  <1>2. \A a, b \in Texts : a \o b \in Texts
      BY ConcatProperties DEF Texts
  <1>3. \A k \in 1 .. n : X[n - k + 1] \in Texts
      OBVIOUS
  <1>4. next \in [1 .. n -> [Texts -> Texts]]
      BY <1>2, <1>3
  <1>5. \A k \in 1 .. n, t \in Texts : next[k][t] = X[n - k + 1] \o t
      OBVIOUS
  <1> HIDE DEF next
  <1>6. PICK h \in [0 .. n -> Texts] : IsLoop(h, <<>>, next, n)
      BY <1>1, <1>4, TypedLoop
  <1>7. \A k \in 0 .. n : h[k] = IF k = 0 THEN <<>> ELSE next[k][h[k - 1]]
      BY <1>6, LoopAt
  <1> DEFINE tails == [b \in 0 .. n |-> h[n - b]]
  <1>8. tails \in [0 .. n -> Texts]
      OBVIOUS
  <1>9. tails[n] = <<>>
      BY <1>7
  <1>10. ASSUME NEW b \in 1 .. n PROVE tails[b - 1] = X[b] \o tails[b]
    <2>1. PICK k \in 1 .. n : k = n - b + 1
        OBVIOUS
    <2>2. n - (b - 1) = k /\ n - b = k - 1 /\ n - k + 1 = b /\ k # 0 /\ k \in 0 .. n
          /\ k - 1 \in 0 .. n /\ b \in 0 .. n /\ b - 1 \in 0 .. n
        BY <2>1
    <2>3. h[k] = X[b] \o h[k - 1]
        BY <1>5, <1>7, <2>2
    <2> QED BY <2>2, <2>3
  <1> HIDE DEF tails
  <1> QED BY <1>8, <1>9, <1>10 DEF IsTails

(* Up to b the old text, after it the new pieces.                          *)
Mixed(O, tails, b) == SubSeq(O, 1, b) \o tails[b]

Copied(X, O, a, b) == \A p \in a + 1 .. b : X[p] = <<O[p]>>

LEMMA MixedKept ==
  ASSUME NEW n \in Nat, NEW X, NEW tails, IsTails(tails, X, n),
         NEW O \in Texts, Len(O) = n,
         NEW b \in 0 .. n, NEW a \in 0 .. b, Copied(X, O, a, b)
  PROVE  Mixed(O, tails, a) = Mixed(O, tails, b)
  <1> DEFINE P == {k \in 0 .. b - a : Mixed(O, tails, b - k) = Mixed(O, tails, b)}
  <1>1. b - a \in Nat /\ b - 0 = b /\ b - (b - a) = a
      OBVIOUS
  <1>2. 0 \in P
      BY <1>1
  <1>3. ASSUME NEW k \in 0 .. (b - a) - 1, k \in P PROVE k + 1 \in P
    <2>1. PICK c \in 1 .. n : c = b - k
        OBVIOUS
    <2>2. b - (k + 1) = c - 1 /\ c \in a + 1 .. b /\ k + 1 \in 0 .. b - a /\ c - 1 \in 0 .. n /\ c \in 0 .. n
        BY <2>1
    <2>3. tails[c - 1] = <<O[c]>> \o tails[c] /\ tails[c] \in Texts
        BY <2>2 DEF IsTails, Copied
    <2>4. SubSeq(O, 1, c) = SubSeq(O, 1, c - 1) \o <<O[c]>>
      <3>1. 1 \in 1 .. Len(O) /\ c \in 1 .. Len(O)
          BY <2>1
      <3> QED BY <3>1, SubSeqRecursiveSecond DEF Texts
    <2>5. \A i \in 1 .. n : O[i] \in Chars
        BY ElementOfSeq DEF Texts
    <2>6. SubSeq(O, 1, c - 1) \in Texts /\ <<O[c]>> \in Texts
      <3>1. \A i \in 1 .. c - 1 : O[i] \in Chars
          BY <2>5
      <3>2. c - 1 \in Int
          OBVIOUS
      <3>3. SubSeq(O, 1, c - 1) \in Seq(Chars)
          BY <3>1, <3>2, SubSeqProperties
      <3>4. <<O[c]>> \in Seq(Chars)
          BY <2>5
      <3> QED BY <3>3, <3>4 DEF Texts
    <2>7. (SubSeq(O, 1, c - 1) \o <<O[c]>>) \o tails[c]
              = SubSeq(O, 1, c - 1) \o (<<O[c]>> \o tails[c])
      <3>1. PICK x \in Texts, y \in Texts : x = SubSeq(O, 1, c - 1) /\ y = <<O[c]>>
          BY <2>6
      <3>2. (x \o y) \o tails[c] = x \o (y \o tails[c])
        <4>1. \A z \in Texts : (x \o y) \o z = x \o (y \o z)
            BY Associative
        <4> QED BY <2>3, <4>1
      <3> QED BY <3>1, <3>2
    <2>8. Mixed(O, tails, c) = Mixed(O, tails, c - 1)
        BY <2>3, <2>4, <2>7 DEF Mixed
    <2> QED BY <1>3, <2>1, <2>2, <2>8
  <1>4. \A k \in 0 .. b - a : k \in P
    <2> HIDE DEF P
    <2> QED BY <1>1, <1>2, <1>3, UpTo
  <1>5. b - a \in P
    <2> HIDE DEF P
    <2> QED BY <1>1, <1>4
  <1> QED BY <1>1, <1>5

LEMMA TailsSkip ==
  ASSUME NEW n \in Nat, NEW X, NEW tails, IsTails(tails, X, n),
         NEW b \in 0 .. n, NEW a \in 0 .. b, \A p \in a + 1 .. b : X[p] = <<>>
  PROVE  tails[a] = tails[b]
  <1> DEFINE P == {k \in 0 .. b - a : tails[b - k] = tails[b]}
  <1>1. b - a \in Nat /\ b - 0 = b /\ b - (b - a) = a
      OBVIOUS
  <1>2. 0 \in P
      BY <1>1
  <1>3. ASSUME NEW k \in 0 .. (b - a) - 1, k \in P PROVE k + 1 \in P
    <2>1. PICK c \in 1 .. n : c = b - k
        OBVIOUS
    <2>2. b - (k + 1) = c - 1 /\ c \in a + 1 .. b /\ k + 1 \in 0 .. b - a /\ c - 1 \in 0 .. n /\ c \in 0 .. n
        BY <2>1
    <2>3. tails[c - 1] = <<>> \o tails[c] /\ tails[c] \in Texts
        BY <2>2 DEF IsTails
    <2>4. <<>> \o tails[c] = tails[c]
        BY <2>3, ConcatEmptySeq DEF Texts
    <2> QED BY <1>3, <2>1, <2>2, <2>3, <2>4
  <1>4. \A k \in 0 .. b - a : k \in P
    <2> HIDE DEF P
    <2> QED BY <1>1, <1>2, <1>3, UpTo
  <1>5. b - a \in P
    <2> HIDE DEF P
    <2> QED BY <1>1, <1>4
  <1> QED BY <1>1, <1>5

(* The loop of FlattenSeq.                                                 *)
Flattens(f, X, n) ==
    /\ FlattenSeq(X) = f[n]
    /\ \A i \in 1 .. n : f[i] = IF i = 1 THEN X[i] ELSE f[i - 1] \o X[i]

LEMMA FlattenLoop ==
  ASSUME NEW S, NEW n \in Nat, n # 0, NEW X \in [1 .. n -> Seq(S)]
  PROVE  \E f : Flattens(f, X, n)
  <1>0. Len(X) = n /\ DOMAIN X = 1 .. n
      OBVIOUS
  <1> DEFINE IsFlat(h) == h = [i \in 1 .. n |-> IF i = 1 THEN X[i] ELSE h[i - 1] \o X[i]]
             next == [k \in 1 .. n |-> [t \in Seq(S) |-> t \o X[k]]]
  <1>1. <<>> \in Seq(S) /\ \A a, b \in Seq(S) : a \o b \in Seq(S)
      BY ConcatProperties
  <1>2. \A a \in Seq(S) : <<>> \o a = a /\ a \o <<>> = a
      BY ConcatEmptySeq
  <1>3. \A k \in 1 .. n : X[k] \in Seq(S)
      OBVIOUS
  <1>4. next \in [1 .. n -> [Seq(S) -> Seq(S)]]
      BY <1>1, <1>3
  <1>5. \A k \in 1 .. n, t \in Seq(S) : next[k][t] = t \o X[k]
      OBVIOUS
  <1> HIDE DEF next
  <1>6. PICK h \in [0 .. n -> Seq(S)] : IsLoop(h, <<>>, next, n)
      BY <1>1, <1>4, TypedLoop
  <1>7. \A k \in 0 .. n : h[k] = IF k = 0 THEN <<>> ELSE next[k][h[k - 1]]
      BY <1>6 DEF IsLoop
  <1>8. \A k \in 1 .. n : h[k] = h[k - 1] \o X[k]
    <2> SUFFICES ASSUME NEW k \in 1 .. n PROVE h[k] = h[k - 1] \o X[k]
        OBVIOUS
    <2>1. k \in 0 .. n /\ k # 0 /\ k - 1 \in 0 .. n
        OBVIOUS
    <2> QED BY <1>5, <1>7, <2>1
  <1>9. h[0] = <<>> /\ h[1] = X[1]
    <2>1. h[0] = <<>>
      <3>1. 0 \in 0 .. n
          OBVIOUS
      <3> QED BY <1>7, <3>1
    <2>2. h[1] = <<>> \o X[1] /\ X[1] \in Seq(S)
      <3>1. 1 \in 1 .. n /\ 1 - 1 = 0
          OBVIOUS
      <3>2. h[1] = h[1 - 1] \o X[1] /\ X[1] \in Seq(S)
          BY <1>3, <1>8, <3>1
      <3> QED BY <2>1, <3>1, <3>2
    <2> QED BY <1>2, <2>1, <2>2
  <1> DEFINE g == [i \in 1 .. n |-> h[i]]
  <1>10. IsFlat(g)
    <2>1. ASSUME NEW i \in 1 .. n
          PROVE  h[i] = IF i = 1 THEN X[i] ELSE g[i - 1] \o X[i]
      <3>1. CASE i = 1
          BY <1>9, <3>1
      <3>2. CASE i # 1
        <4>1. i - 1 \in 1 .. n
            BY <3>2
        <4> QED BY <1>8, <3>2, <4>1
      <3> QED BY <3>1, <3>2
    <2> QED BY <2>1
  <1> HIDE DEF g
  <1>11. PICK f : f = CHOOSE x : IsFlat(x)
      OBVIOUS
  <1>12. IsFlat(f)
      BY <1>10, <1>11
  <1>13. FlattenSeq(X) = f[n]
      BY <1>0, <1>11 DEF FlattenSeq
  <1>14. \A i \in 1 .. n : f[i] = IF i = 1 THEN X[i] ELSE f[i - 1] \o X[i]
      BY <1>12
  <1> QED BY <1>13, <1>14 DEF Flattens

(* The pieces from left to right, as FlattenSeq puts them together.        *)
LEMMA FlattenIs ==
  ASSUME NEW n \in Nat, NEW X \in [1 .. n -> Texts], NEW tails, IsTails(tails, X, n)
  PROVE  FlattenSeq(X) = tails[0]
  <1>1. Len(X) = n /\ DOMAIN X = 1 .. n
      OBVIOUS
  <1>2. CASE n = 0
    <2>1. X = <<>> /\ tails[0] = <<>>
        BY <1>2 DEF IsTails
    <2>2. FlattenSeq(X) = X
        BY <1>1, <1>2 DEF FlattenSeq
    <2> QED BY <2>1, <2>2
  <1>3. CASE n # 0
    <2>1. <<>> \in Texts /\ \A a, b \in Texts : a \o b \in Texts
        BY ConcatProperties DEF Texts
    <2>2. \A a \in Texts : <<>> \o a = a /\ a \o <<>> = a
        BY ConcatEmptySeq DEF Texts
    <2>3. \A k \in 1 .. n : X[k] \in Texts
        OBVIOUS
    <2>12. PICK f : Flattens(f, X, n)
      <3>1. X \in [1 .. n -> Seq(Chars)]
          BY DEF Texts
      <3> QED BY <1>3, <3>1, FlattenLoop
    <2>13. FlattenSeq(X) = f[n]
        BY <2>12 DEF Flattens
    <2>14. \A i \in 1 .. n : f[i] = IF i = 1 THEN X[i] ELSE f[i - 1] \o X[i]
        BY <2>12 DEF Flattens
    <2> DEFINE P == {k \in 0 .. n : k = 0 \/ (f[k] \in Texts /\ f[k] \o tails[k] = tails[0])}
    <2>15. 0 \in P
        OBVIOUS
    <2>16. ASSUME NEW k \in 0 .. n - 1, k \in P PROVE k + 1 \in P
      <3>1. k + 1 \in 1 .. n /\ k + 1 \in 0 .. n /\ (k + 1) - 1 = k
          OBVIOUS
      <3>2. tails[k] = X[k + 1] \o tails[k + 1] /\ tails[k + 1] \in Texts /\ X[k + 1] \in Texts
          BY <2>3, <3>1 DEF IsTails
      <3>3. CASE k = 0
        <4>1. f[1] = X[1] /\ k + 1 = 1
            BY <2>14, <3>1, <3>3
        <4>2. f[k + 1] = X[k + 1] /\ tails[0] = X[k + 1] \o tails[k + 1]
            BY <3>2, <3>3, <4>1
        <4> QED BY <3>1, <3>2, <4>2
      <3>4. CASE k # 0
        <4>1. f[k + 1] = f[k] \o X[k + 1]
          <5>1. k + 1 # 1
              BY <3>4
          <5>2. f[k + 1] = f[(k + 1) - 1] \o X[k + 1]
              BY <2>14, <3>1, <5>1
          <5> QED BY <3>1, <5>2
        <4>2. f[k] \in Texts /\ f[k] \o tails[k] = tails[0]
            BY <2>16, <3>4
        <4>3. (f[k] \o X[k + 1]) \o tails[k + 1] = f[k] \o (X[k + 1] \o tails[k + 1])
          <5>1. PICK x \in Texts, y \in Texts, z \in Texts :
                    x = f[k] /\ y = X[k + 1] /\ z = tails[k + 1]
              BY <3>2, <4>2
          <5>2. (x \o y) \o z = x \o (y \o z)
              BY Associative
          <5> QED BY <5>1, <5>2
        <4>4. f[k] \o X[k + 1] \in Texts
            BY <2>1, <3>2, <4>2
        <4> QED BY <3>1, <3>2, <4>1, <4>2, <4>3, <4>4
      <3> QED BY <3>3, <3>4
    <2>17. n \in P
      <3> HIDE DEF P
      <3>1. \A k \in 0 .. n : k \in P
          BY <2>15, <2>16, UpTo
      <3> QED BY <3>1
    <2>18. f[n] \in Texts /\ f[n] \o tails[n] = tails[0] /\ tails[n] = <<>>
        BY <1>3, <2>17 DEF IsTails
    <2> QED BY <2>2, <2>13, <2>18
  <1> QED BY <1>2, <1>3

(* The spans of a text in its order, and the piece for each position.      *)
Placed(ss, n) ==
    /\ \A i \in 1 .. n : /\ ss[i].start \in Nat /\ ss[i].end \in Nat
                         /\ ss[i].start < ss[i].end /\ ss[i].end <= TextLen
    /\ \A i, j \in 1 .. n : i < j => ss[i].end <= ss[j].start
Pieces(X, ss, as, n) ==
    /\ X \in [1 .. TextLen -> Texts]
    /\ \A i \in 1 .. n : /\ Render(ss[i], as[i]) \in Texts
                         /\ X[ss[i].start + 1] = Render(ss[i], as[i])
                         /\ \A p \in ss[i].start + 2 .. ss[i].end : X[p] = <<>>
    /\ \A p \in 1 .. TextLen :
           (\A i \in 1 .. n : p \notin ss[i].start + 1 .. ss[i].end)
               => X[p] = <<OriginalText[p]>>

PreviousEnd(ss, i) == IF i = 1 THEN 0 ELSE ss[i - 1].end
ReplacedTo(ss, as, tails, i) ==
    ReplaceSpan(Mixed(OriginalText, tails, ss[i].end), ss[i], Render(ss[i], as[i]))
        = Mixed(OriginalText, tails, PreviousEnd(ss, i))

(* The replacement of one span.                                            *)
LEMMA ReplaceOne ==
  ASSUME NEW n \in Nat, NEW ss, NEW as, NEW X, NEW tails, Placed(ss, n),
         Pieces(X, ss, as, n), IsTails(tails, X, TextLen),
         NEW i \in 1 .. n
  PROVE  ReplacedTo(ss, as, tails, i)
  <1>0. PICK z \in Nat : z = PreviousEnd(ss, i)
    <2>1. i # 1 => i - 1 \in 1 .. n
        OBVIOUS
    <2>2. i # 1 => ss[i - 1].end \in Nat
        BY <2>1 DEF Placed
    <2> QED BY <2>2 DEF PreviousEnd
  <1>1. PICK O \in Texts : O = OriginalText
      BY OriginalIs
  <1>2. PICK b \in Nat, e \in Nat : b = ss[i].start /\ e = ss[i].end
      BY DEF Placed
  <1>3. b < e /\ e <= TextLen /\ TextLen \in Nat /\ Len(O) = TextLen
      BY <1>1, <1>2, OriginalIs, MergeAssumption DEF Placed
  <1>4. PICK new \in Texts : new = Render(ss[i], as[i])
      BY DEF Pieces
  <1>5. tails[e] \in Texts /\ tails[b] = new \o tails[e]
    <2>1. tails[b] = X[b + 1] \o tails[b + 1] /\ tails[e] \in Texts
      <3>1. b + 1 \in 1 .. TextLen /\ (b + 1) - 1 = b /\ e \in 0 .. TextLen
          BY <1>3
      <3>2. tails[(b + 1) - 1] = X[b + 1] \o tails[b + 1]
          BY <3>1 DEF IsTails
      <3> QED BY <3>1, <3>2 DEF IsTails
    <2>2. X[b + 1] = new
        BY <1>2, <1>4 DEF Pieces
    <2>3. tails[b + 1] = tails[e]
      <3>1. \A p \in (b + 1) + 1 .. e : X[p] = <<>>
        <4>1. \A p \in ss[i].start + 2 .. ss[i].end : X[p] = <<>>
            BY DEF Pieces
        <4> QED BY <1>2, <4>1
      <3>2. e \in 0 .. TextLen /\ b + 1 \in 0 .. e
          BY <1>3
      <3> QED BY <1>3, <3>1, <3>2, TailsSkip
    <2> QED BY <2>1, <2>2, <2>3
  <1>6. PICK p \in Texts : p = SubSeq(O, 1, e) /\ Len(p) = e
    <2>1. \A j \in 1 .. e : O[j] \in Chars
        BY <1>3, ElementOfSeq DEF Texts
    <2>2. SubSeq(O, 1, e) \in Seq(Chars) /\ Len(SubSeq(O, 1, e)) = e
        BY <1>3, <2>1, SubSeqProperties
    <2> QED BY <2>2 DEF Texts
  <1>7. PICK r \in Texts : r = tails[e]
      BY <1>5
  <1>7t. PICK t : t = p \o r
      OBVIOUS
  <1>8. Splice(t, b, e, new) = SubSeq(p, 1, b) \o (new \o tails[e])
    <2>1. b \in 0 .. Len(p)
        BY <1>3, <1>6
    <2>2. SpliceFits(p, r, b, new)
        BY <2>1, Spliced
    <2>3. Splice(t, b, Len(p), new) = SubSeq(p, 1, b) \o (new \o r)
        BY <1>7t, <2>2 DEF SpliceFits
    <2> QED BY <1>6, <1>7, <2>3
  <1>9. SubSeq(p, 1, b) = SubSeq(O, 1, b)
    <2>1. CASE b = 0
        BY <2>1, SubSeqEmpty
    <2>2. CASE b # 0
      <3>1. 1 \in 1 .. Len(O) /\ e \in 1 .. Len(O) /\ 1 \in 1 .. e - 1 + 1 /\ b \in 1 .. e - 1 + 1
          BY <1>3, <2>2
      <3>2. SubSeq(SubSeq(O, 1, e), 1, b) = SubSeq(O, 1 + 1 - 1, 1 + b - 1)
          BY <3>1, SubSeqOfSubSeq DEF Texts
      <3>3. 1 + 1 - 1 = 1 /\ 1 + b - 1 = b
          OBVIOUS
      <3> QED BY <1>6, <3>2, <3>3
    <2> QED BY <2>1, <2>2
  <1>10. ReplaceSpan(Mixed(O, tails, e), ss[i], new) = Mixed(O, tails, b)
    <2>1. Mixed(O, tails, e) = t
        BY <1>6, <1>7, <1>7t DEF Mixed
    <2>2. ReplaceSpan(t, ss[i], new) = Splice(t, b, e, new)
        BY <1>2 DEF ReplaceSpan, Splice
    <2>3. Mixed(O, tails, b) = SubSeq(O, 1, b) \o tails[b]
        BY DEF Mixed
    <2> QED BY <1>5, <1>8, <1>9, <2>1, <2>2, <2>3
  <1>11. z <= b /\ \A q \in z + 1 .. b : X[q] = <<O[q]>>
    <2>1. z <= b /\ \A j \in 1 .. n : j < i => ss[j].end <= z
      <3>1. CASE i = 1
          BY <1>0, <3>1 DEF PreviousEnd
      <3>2. CASE i # 1
        <4>1. i - 1 \in 1 .. n /\ i - 1 < i /\ z = ss[i - 1].end
            BY <1>0, <3>2 DEF PreviousEnd
        <4>2. z <= b
            BY <1>2, <4>1 DEF Placed
        <4>3. ASSUME NEW j \in 1 .. n, j < i PROVE ss[j].end <= z
          <5>1. CASE j = i - 1
              BY <4>1, <5>1
          <5>2. CASE j # i - 1
            <6>1. j < i - 1
                BY <4>3, <5>2
            <6>2. ss[j].end <= ss[i - 1].start /\ ss[i - 1].start < ss[i - 1].end
                BY <4>1, <6>1 DEF Placed
            <6>3. ss[j].end \in Nat /\ ss[i - 1].start \in Nat
                BY <4>1 DEF Placed
            <6> QED BY <4>1, <6>2, <6>3
          <5> QED BY <5>1, <5>2
        <4> QED BY <4>2, <4>3
      <3> QED BY <3>1, <3>2
    <2>2. ASSUME NEW q \in z + 1 .. b, NEW j \in 1 .. n
          PROVE  q \notin ss[j].start + 1 .. ss[j].end
      <3>1. ss[j].start \in Nat /\ ss[j].end \in Nat
          BY DEF Placed
      <3>2. CASE j < i
          BY <2>1, <3>1, <3>2
      <3>3. CASE ~(j < i)
        <4>1. b <= ss[j].start
          <5>1. CASE i = j
              BY <1>2, <5>1
          <5>2. CASE i # j
            <6>1. i < j
                BY <3>3, <5>2
            <6>2. e <= ss[j].start
                BY <1>2, <6>1 DEF Placed
            <6> QED BY <1>3, <3>1, <6>2
          <5> QED BY <5>1, <5>2
        <4> QED BY <3>1, <4>1
      <3> QED BY <3>2, <3>3
    <2>3. ASSUME NEW q \in z + 1 .. b PROVE X[q] = <<O[q]>>
      <3>1. q \in 1 .. TextLen
          BY <1>3
      <3> QED BY <1>1, <2>2, <3>1 DEF Pieces
    <2> QED BY <2>1, <2>3
  <1>12. Mixed(O, tails, z) = Mixed(O, tails, b)
    <2>1. b \in 0 .. TextLen /\ z \in 0 .. b
        BY <1>3, <1>11
    <2>2. TextLen \in Nat /\ Len(O) = TextLen
        BY <1>3
    <2>3. Copied(X, O, z, b)
        BY <1>11 DEF Copied
    <2> QED BY <2>1, <2>2, <2>3, MixedKept
  <1> QED BY <1>0, <1>1, <1>2, <1>4, <1>10, <1>12 DEF ReplacedTo

LEMMA ReplaceSpansAre ==
  ASSUME NEW n \in Nat, NEW ss, Len(ss) = n, NEW as, NEW X, Placed(ss, n),
         Pieces(X, ss, as, n)
  PROVE  ReplaceSpans(OriginalText, ss, as) = FlattenSeq(X) /\ FlattenSeq(X) \in Texts
  <1>1. PICK O \in Texts : O = OriginalText
      BY OriginalIs
  <1>2. TextLen \in Nat /\ Len(O) = TextLen /\ X \in [1 .. TextLen -> Texts]
      BY <1>1, OriginalIs, MergeAssumption DEF Pieces
  <1>3. PICK tails : IsTails(tails, X, TextLen)
      BY <1>2, TailsExist
  <1>4. PICK z : z = [k \in 0 .. n |-> IF k = n THEN 0 ELSE ss[n - k].end]
      OBVIOUS
  <1>5. ASSUME NEW k \in 0 .. n PROVE z[k] \in Nat /\ z[k] <= TextLen
    <2>1. CASE k = n
        BY <1>2, <1>4, <2>1
    <2>2. CASE k # n
      <3>1. n - k \in 1 .. n
          BY <2>2
      <3> QED BY <1>4, <2>2, <3>1 DEF Placed
    <2> QED BY <2>1, <2>2
  <1>6. Mixed(O, tails, z[0]) = O
    <2>1. Mixed(O, tails, TextLen) = O
      <3>1. SubSeq(O, 1, TextLen) = O /\ tails[TextLen] = <<>>
          BY <1>2, <1>3, SubSeqFull DEF IsTails, Texts
      <3>2. O \o <<>> = O
          BY ConcatEmptySeq DEF Texts
      <3> QED BY <3>1, <3>2 DEF Mixed
    <2>2. ASSUME NEW q \in z[0] + 1 .. TextLen PROVE X[q] = <<O[q]>>
      <3>1. 0 \in 0 .. n /\ z[0] \in Nat
          BY <1>5
      <3>2. ASSUME NEW j \in 1 .. n PROVE ss[j].end <= z[0]
        <4>1. z[0] = ss[n].end /\ n \in 1 .. n
            BY <1>4
        <4>2. CASE j = n
            BY <4>1, <4>2 DEF Placed
        <4>3. CASE j # n
          <5>1. ss[j].end <= ss[n].start /\ ss[n].start < ss[n].end
              BY <4>1, <4>3 DEF Placed
          <5>2. ss[j].end \in Nat /\ ss[n].start \in Nat /\ ss[n].end \in Nat
              BY <4>1 DEF Placed
          <5> QED BY <4>1, <5>1, <5>2
        <4> QED BY <4>2, <4>3
      <3>3. \A j \in 1 .. n : ss[j].end \in Nat
          BY DEF Placed
      <3>4. \A j \in 1 .. n : q \notin ss[j].start + 1 .. ss[j].end
          BY <3>1, <3>2, <3>3
      <3>5. q \in 1 .. TextLen
          BY <1>2, <3>1
      <3> QED BY <1>1, <3>4, <3>5 DEF Pieces
    <2>3. z[0] \in 0 .. TextLen /\ TextLen \in 0 .. TextLen
        BY <1>2, <1>5
    <2>4. Copied(X, O, z[0], TextLen)
        BY <2>2 DEF Copied
    <2>5. Mixed(O, tails, z[0]) = Mixed(O, tails, TextLen)
        BY <1>2, <1>3, <2>3, <2>4, MixedKept
    <2> QED BY <2>1, <2>5
  <1>7. ASSUME NEW k \in 1 .. n
        PROVE  ReplaceSpan(Mixed(O, tails, z[k - 1]), ss[n - k + 1],
                           Render(ss[n - k + 1], as[n - k + 1]))
                   = Mixed(O, tails, z[k])
    <2>1. PICK i \in 1 .. n : i = n - k + 1
        OBVIOUS
    <2>2. z[k - 1] = ss[i].end
      <3>1. k - 1 \in 0 .. n /\ k - 1 # n /\ n - (k - 1) = i
          BY <2>1
      <3> QED BY <1>4, <3>1
    <2>3. z[k] = IF i = 1 THEN 0 ELSE ss[i - 1].end
      <3>1. k \in 0 .. n /\ (k = n <=> i = 1) /\ n - k = i - 1
          BY <2>1
      <3> QED BY <1>4, <3>1
    <2>4. ReplacedTo(ss, as, tails, i)
        BY <1>3, ReplaceOne
    <2>5. PreviousEnd(ss, i) = z[k]
        BY <2>3 DEF PreviousEnd
    <2> QED BY <1>1, <2>1, <2>2, <2>4, <2>5 DEF ReplacedTo
  <1> DEFINE IsReplaced(h) ==
                 h = [k \in 0 .. n |->
                         IF k = 0 THEN OriginalText
                         ELSE LET i == n - k + 1
                              IN  ReplaceSpan(h[k - 1], ss[i], Render(ss[i], as[i]))]
             m == [k \in 0 .. n |-> Mixed(O, tails, z[k])]
  <1>8. IsReplaced(m)
    <2>1. \A k \in 0 .. n : m[k] = Mixed(O, tails, z[k])
        OBVIOUS
    <2>2. m = [k \in 0 .. n |-> m[k]]
        OBVIOUS
    <2> HIDE DEF m
    <2>3. ASSUME NEW k \in 0 .. n
          PROVE  m[k] = IF k = 0 THEN OriginalText
                        ELSE LET i == n - k + 1
                             IN  ReplaceSpan(m[k - 1], ss[i], Render(ss[i], as[i]))
      <3>1. CASE k = 0
          BY <1>1, <1>6, <2>1, <3>1
      <3>2. CASE k # 0
        <4>1. k \in 1 .. n /\ k - 1 \in 0 .. n
            BY <3>2
        <4>2. m[k - 1] = Mixed(O, tails, z[k - 1]) /\ m[k] = Mixed(O, tails, z[k])
            BY <2>1, <4>1
        <4> QED BY <1>7, <3>2, <4>1, <4>2
      <3> QED BY <3>1, <3>2
    <2> QED BY <2>2, <2>3
  <1>9. PICK g : g = CHOOSE h : IsReplaced(h)
      OBVIOUS
  <1>10. IsReplaced(g)
    <2> HIDE DEF IsReplaced, m
    <2> QED BY <1>8, <1>9
  <1>11. ReplaceSpans(OriginalText, ss, as) = g[n]
      BY <1>9 DEF ReplaceSpans
  <1>12. \A k \in 0 .. n :
            g[k] = IF k = 0 THEN OriginalText
                   ELSE ReplaceSpan(g[k - 1], ss[n - k + 1],
                                    Render(ss[n - k + 1], as[n - k + 1]))
      BY <1>10
  <1> DEFINE P == {k \in 0 .. n : g[k] = Mixed(O, tails, z[k])}
  <1>13. 0 \in P
    <2> HIDE DEF IsReplaced, m
    <2>1. 0 \in 0 .. n
        OBVIOUS
    <2>2. g[0] = O
        BY <1>1, <1>12, <2>1
    <2> QED BY <1>6, <2>1, <2>2
  <1>14. ASSUME NEW k \in 0 .. n - 1, k \in P PROVE k + 1 \in P
    <2>1. PICK c \in 1 .. n : c = k + 1
        OBVIOUS
    <2>2. c \in 0 .. n /\ c # 0 /\ c - 1 = k
        BY <2>1
    <2>3. g[c - 1] = Mixed(O, tails, z[c - 1])
        BY <1>14, <2>2
    <2>4. g[c] = Mixed(O, tails, z[c])
        BY <1>7, <1>12, <2>2, <2>3
    <2> QED BY <2>1, <2>2, <2>4
  <1>15. n \in P
    <2> HIDE DEF P
    <2>1. \A k \in 0 .. n : k \in P
        BY <1>13, <1>14, UpTo
    <2> QED BY <2>1
  <1>16. g[n] = Mixed(O, tails, 0)
    <2>1. z[n] = 0
        BY <1>4
    <2> QED BY <1>15, <2>1
  <1>17. Mixed(O, tails, 0) = tails[0] /\ tails[0] \in Texts
    <2>1. SubSeq(O, 1, 0) = <<>>
        BY SubSeqEmpty
    <2>2. tails[0] \in Texts
        BY <1>2, <1>3 DEF IsTails
    <2>3. <<>> \o tails[0] = tails[0]
        BY <2>2, ConcatEmptySeq DEF Texts
    <2> QED BY <2>1, <2>2, <2>3 DEF Mixed
  <1>18. FlattenSeq(X) = tails[0]
      BY <1>2, <1>3, FlattenIs
  <1> QED BY <1>11, <1>16, <1>17, <1>18

-----------------------------------------------------------------------------
(* rstrip: what is left ends with the last character that is not white.    *)
LEMMA LastOf ==
  ASSUME NEW n \in Nat, NEW S \in SUBSET (0 .. n), 0 \in S
  PROVE  Max(S) \in S /\ \A i \in S : i <= Max(S)
  <1> DEFINE Above == {k \in 0 .. n : \A i \in S : i <= k}
  <1>1. n \in Above
      OBVIOUS
  <1>2. PICK m \in Above : \A k \in Above : m <= k
    <2>1. Above \in SUBSET Nat /\ Above # {}
        BY <1>1
    <2> HIDE DEF Above
    <2> QED BY <2>1, LeastNumber
  <1>3. m \in S
    <2> SUFFICES ASSUME m \notin S PROVE FALSE
        OBVIOUS
    <2>1. m \in Nat /\ m # 0
        BY <1>2
    <2>2. \A i \in S : i <= m - 1
        BY <1>2, <2>1
    <2>3. m - 1 \in Above
        BY <1>2, <2>1, <2>2
    <2> QED BY <1>2, <2>1, <2>3
  <1>4. \A i \in S : m >= i
      BY <1>2
  <1> QED BY <1>2, <1>3, <1>4 DEF Max

LEMMA StrippedIs ==
  ASSUME NEW t \in Texts
  PROVE  Stripped(t) \in Texts /\ WithoutTrailingWhite(Stripped(t), t)
  <1>1. PICK n \in Nat : n = Len(t) /\ DOMAIN t = 1 .. n
      BY LenProperties DEF Texts
  <1>2. PICK S \in SUBSET (0 .. n) : S = {0} \cup {i \in DOMAIN t : ~White(t[i])}
    <2>1. 1 .. n \subseteq 0 .. n /\ 0 \in 0 .. n
        OBVIOUS
    <2>2. {i \in DOMAIN t : ~White(t[i])} \subseteq 1 .. n
        BY <1>1
    <2>3. {0} \cup {i \in DOMAIN t : ~White(t[i])} \in SUBSET (0 .. n)
        BY <2>1, <2>2
    <2> QED BY <2>3
  <1>3. PICK m \in S : m = Max(S) /\ \A i \in S : i <= m
    <2>1. 0 \in S
        BY <1>2
    <2>2. Max(S) \in S /\ \A i \in S : i <= Max(S)
        BY <2>1, LastOf
    <2> QED BY <2>2
  <1>4. m \in 0 .. n
      OBVIOUS
  <1>5. Stripped(t) = SubSeq(t, 1, m)
      BY <1>2, <1>3 DEF Stripped
  <1>6. \A i \in m + 1 .. n : White(t[i])
    <2> SUFFICES ASSUME NEW i \in m + 1 .. n, ~White(t[i]) PROVE FALSE
        OBVIOUS
    <2>1. i \in 1 .. n /\ i > m
        BY <1>4
    <2>2. i \in S
        BY <1>1, <1>2, <2>1
    <2> QED BY <1>3, <1>4, <2>1, <2>2
  <1>7. m > 0 => ~White(t[m])
      BY <1>2, <1>4
  <1>8. SubSeq(t, 1, m) \in Texts
    <2>1. \A i \in 1 .. m : t[i] \in Chars
        BY <1>1, <1>4, ElementOfSeq DEF Texts
    <2>2. m \in Int
        BY <1>4
    <2> QED BY <2>1, <2>2, SubSeqProperties DEF Texts
  <1> QED BY <1>1, <1>4, <1>5, <1>6, <1>7, <1>8 DEF WithoutTrailingWhite

(* The summary is one more character; without it the text is the stripped  *)
(* one.                                                                    *)
LEMMA BeforeSummary ==
  ASSUME NEW t \in Texts, NEW c
  PROVE  SubSeq(t \o <<c>>, 1, Len(t \o <<c>>) - 1) = t
  <1> DEFINE D == Chars \cup {c}
  <1>1. t \in Seq(D) /\ <<c>> \in Seq(D) /\ Len(<<c>>) = 1
    <2>1. t \in [1 .. Len(t) -> Chars] /\ Len(t) \in Nat
        BY LenProperties DEF Texts
    <2>2. t \in [1 .. Len(t) -> D]
        BY <2>1
    <2>3. t \in Seq(D)
      <3> HIDE DEF D
      <3> QED BY <2>1, <2>2
    <2>4. c \in D
        OBVIOUS
    <2>5. <<c>> \in Seq(D) /\ Len(<<c>>) = 1
      <3> HIDE DEF D
      <3> QED BY <2>4
    <2> QED BY <2>3, <2>5
  <1> HIDE DEF D
  <1>2. PICK n \in Nat : n = Len(t)
      BY <1>1, LenProperties
  <1>3. Len(t \o <<c>>) - 1 = n
      BY <1>1, <1>2, ConcatProperties
  <1>4. CASE n = 0
    <2>1. t = <<>>
        BY <1>1, <1>2, <1>4, EmptySeq
    <2> QED BY <1>3, <1>4, <2>1, SubSeqEmpty
  <1>5. CASE n # 0
    <2>1. 1 \in 1 .. Len(t) /\ n \in 1 .. Len(t)
        BY <1>2, <1>5
    <2>2. SubSeq(t \o <<c>>, 1, n) = SubSeq(t, 1, n)
        BY <1>1, <2>1, SubSeqOfConcat1
    <2>3. SubSeq(t, 1, Len(t)) = t
        BY <1>1, SubSeqFull
    <2> QED BY <1>2, <1>3, <2>2, <2>3
  <1> QED BY <1>4, <1>5

-----------------------------------------------------------------------------
(* The text is the original one until its spans are replaced, and the      *)
(* policy has an action for every span.                                    *)
TextInv ==
    /\ path \in {"input", "output"}
    /\ path = "output" => phase \notin {"merge", "decide", "transform"}
    /\ phase \notin {"end", "blocked"} => text = OriginalText
    /\ path = "input" /\ phase \in {"transform", "end"} => action \in [DOMAIN spans -> Actions]
    /\ path = "input" /\ phase = "end" =>
           text = AppendSummary(ReplaceSpans(OriginalText, spans, action), spans, action)
    /\ path = "output" /\ phase = "end" => text = MaskAll(OriginalText, Masked)

LEMMA TextInvHolds == Spec => []TextInv
  <1>1. Init => TextInv
      BY DEF Init, TextInv
  <1>2. MergeInv /\ TextInv /\ [Next]_vars => TextInv'
    <2> SUFFICES ASSUME MergeInv, TextInv, [Next]_vars PROVE TextInv'
        OBVIOUS
    <2>1. OriginalText' = OriginalText
        BY DEF OriginalText
    <2>2. ASSUME NEW f \in Findings, Find(f) PROVE TextInv'
      <3>1. phase \in Layers
          BY <2>2, FindingFacts DEF Find
      <3>2. path' = path /\ phase' = phase /\ text' = text
          BY <2>2 DEF Find
      <3> QED BY <2>1, <3>1, <3>2 DEF TextInv, Layers
    <2>3. CASE LayerEnds
      <3>1. path' = path /\ text' = text /\ text = OriginalText
            /\ phase' \in {"dict", "ner", "merge", "rescan"}
            /\ (path = "output" => phase' = "rescan")
          BY <2>3 DEF LayerEnds, NextPhase, TextInv, Layers
      <3> QED BY <2>1, <3>1 DEF TextInv
    <2>4. CASE LayerRaises
      <3>1. path' = path /\ text' = text /\ text = OriginalText
            /\ phase' \in {"dict", "ner", "merge", "blocked"}
            /\ (path = "output" => phase' = "blocked")
          BY <2>4 DEF LayerRaises, NextPhase, TextInv, Layers
      <3> QED BY <2>1, <3>1 DEF TextInv
    <2>5. CASE Merge
        BY <2>1, <2>5 DEF Merge, TextInv
    <2>6. CASE Decide
        BY <2>1, <2>6 DEF Decide, TextInv
    <2>7. CASE Transform
      <3>1. path = "input" /\ text = OriginalText /\ action \in [DOMAIN spans -> Actions]
          BY <2>7 DEF Transform, TextInv
      <3>2. /\ path' = path /\ phase' = "end" /\ spans' = spans /\ action' = action
            /\ blank' = blank
            /\ text' = AppendSummary(ReplaceSpans(OriginalText, spans, action), spans, action)
          BY <2>7, <3>1 DEF Transform
      <3>3. text' = AppendSummary(ReplaceSpans(OriginalText, spans, action), spans, action)'
          BY <2>1, <3>2 DEF AppendSummary, Stripped, White
      <3> QED BY <2>1, <3>1, <3>2, <3>3 DEF TextInv
    <2>8. CASE Rescan
      <3>1. path = "output" /\ text = OriginalText
          BY <2>8 DEF Rescan, TextInv, MergeInv
      <3>2. path' = path /\ raw' = raw
            /\ (phase' = "blocked" \/ (phase' = "end" /\ text' = MaskAll(text, Masked)))
          BY <2>8 DEF Rescan, Masked
      <3>3. Masked' = Masked
          BY <3>2 DEF Masked
      <3> QED BY <2>1, <3>1, <3>2, <3>3 DEF TextInv
    <2>9. CASE UNCHANGED vars
      <3>1. path' = path /\ phase' = phase /\ raw' = raw /\ spans' = spans
            /\ action' = action /\ text' = text /\ blank' = blank
          BY <2>9 DEF vars
      <3>2. Masked' = Masked
          BY <3>1 DEF Masked
      <3>3. AppendSummary(ReplaceSpans(OriginalText, spans, action), spans, action)'
                = AppendSummary(ReplaceSpans(OriginalText, spans, action), spans, action)
          BY <2>1, <3>1 DEF AppendSummary, Stripped, White
      <3> QED BY <2>1, <3>1, <3>2, <3>3 DEF TextInv
    <2> QED BY <2>2, <2>3, <2>4, <2>5, <2>6, <2>7, <2>8, <2>9 DEF Next
  <1> QED BY <1>1, <1>2, MergeInvHolds, PTL DEF Spec

LEMMA SpansPlaced ==
  ASSUME MergeInv, Merged
  PROVE  Len(spans) \in Nat /\ DOMAIN spans = 1 .. Len(spans) /\ Placed(spans, Len(spans))
  <1>1. PICK gs : SpansFit(spans, gs, Passing) /\ Passing \subseteq Findings
      BY MergedFits
  <1>2. \A i \in 1 .. Len(spans) : \E g \in gs[i] :
            g.start = spans[i].start /\ g.end = spans[i].end /\ g \in Findings
      BY <1>1 DEF SpansFit, StandsFor
  <1>3. ASSUME NEW i \in 1 .. Len(spans)
        PROVE  /\ spans[i].start \in Nat /\ spans[i].end \in Nat
               /\ spans[i].start < spans[i].end /\ spans[i].end <= TextLen
      BY <1>2, FindingFacts
  <1>4. ASSUME NEW i \in 1 .. Len(spans), NEW j \in 1 .. Len(spans), i < j
        PROVE  spans[i].end <= spans[j].start
    <2>1. PICK g \in gs[i] : g.end = spans[i].end
        BY <1>2
    <2>2. PICK h \in gs[j] : h.start = spans[j].start
        BY <1>2
    <2>3. g.end <= h.start
        BY <1>1, <1>4 DEF SpansFit
    <2> QED BY <2>1, <2>2, <2>3
  <1> QED BY <1>1, <1>3, <1>4 DEF Placed, SpansFit

(* Every span is replaced once, in its place, and the text outside the     *)
(* spans stays; before a summary of amounts, and only then, it loses the   *)
(* white space it ends with and no more (apply.py:78-80, 97-102, 261).     *)
THEOREM SpansReplacedInPlaceHolds == Spec => []SpansReplacedInPlace
  <1>1. MergeInv /\ TextInv => SpansReplacedInPlace
    <2> SUFFICES ASSUME MergeInv, TextInv, path = "input", phase = "end"
                 PROVE  SpansReplacedInPlace
        BY Zenon DEF SpansReplacedInPlace
    <2>1. PICK n \in Nat : n = Len(spans) /\ DOMAIN spans = 1 .. n /\ Placed(spans, n)
        BY SpansPlaced DEF Merged
    <2>2. PICK X : X = [p \in 1 .. TextLen |-> ExpectedAt(p)]
        OBVIOUS
    <2>3. \A p \in 1 .. TextLen : X[p] = ExpectedAt(p)
        BY <2>2
    <2>4. \A i \in 1 .. n : action[i] \in Actions
        BY <2>1 DEF TextInv
    <2>5. ASSUME NEW i \in 1 .. n PROVE Render(spans[i], action[i]) \in Texts
      <3>1. spans[i].start \in Nat /\ spans[i].end \in Nat /\ spans[i].start < spans[i].end
          BY <2>1 DEF Placed
      <3> QED BY <2>4, <3>1, RenderIs
    <2>6. ASSUME NEW i \in 1 .. n, NEW p \in spans[i].start + 1 .. spans[i].end
          PROVE  SpanAt(p) = {i} /\ p \in 1 .. TextLen
      <3>1. \A k \in 1 .. n : spans[k].start \in Nat /\ spans[k].end \in Nat
                              /\ spans[k].end <= TextLen
          BY <2>1 DEF Placed
      <3>2. p \in 1 .. TextLen
        <4>1. PICK b \in Nat, e \in Nat : b = spans[i].start /\ e = spans[i].end /\ e <= TextLen
            BY <3>1
        <4>2. p \in b + 1 .. e
            BY <4>1
        <4> QED BY <4>1, <4>2, MergeAssumption
      <3>3. ASSUME NEW j \in 1 .. n, p \in spans[j].start + 1 .. spans[j].end PROVE j = i
        <4>1. ASSUME NEW c \in 1 .. n, NEW d \in 1 .. n, c < d
              PROVE  spans[c].end <= spans[d].start
            BY <2>1, <4>1 DEF Placed
        <4>2. spans[i].start < p /\ p <= spans[i].end
            BY <3>1
        <4>3. spans[j].start < p /\ p <= spans[j].end
            BY <3>1, <3>3
        <4>4. ~(j < i)
          <5>1. j < i => spans[j].end <= spans[i].start
              BY <4>1
          <5> QED BY <3>1, <3>2, <4>2, <4>3, <5>1
        <4>5. ~(i < j)
          <5>1. i < j => spans[i].end <= spans[j].start
              BY <4>1
          <5> QED BY <3>1, <3>2, <4>2, <4>3, <5>1
        <4> QED BY <4>4, <4>5
      <3>4. SpanAt(p) = {j \in 1 .. n : p \in spans[j].start + 1 .. spans[j].end}
          BY <2>1 DEF SpanAt
      <3> QED BY <3>2, <3>3, <3>4
    <2>7. ASSUME NEW i \in 1 .. n, NEW p \in spans[i].start + 1 .. spans[i].end
          PROVE  X[p] = IF p = spans[i].start + 1 THEN Render(spans[i], action[i]) ELSE <<>>
      <3>1. SpanAt(p) = {i} /\ p \in 1 .. TextLen
          BY <2>6
      <3>2. (CHOOSE j \in SpanAt(p) : TRUE) = i
          BY <3>1
      <3> QED BY <2>3, <3>1, <3>2 DEF ExpectedAt
    <2>8. ASSUME NEW p \in 1 .. TextLen,
                 \A i \in 1 .. n : p \notin spans[i].start + 1 .. spans[i].end
          PROVE  X[p] = <<OriginalText[p]>>
      <3>1. SpanAt(p) = {}
          BY <2>1, <2>8 DEF SpanAt
      <3> QED BY <2>3, <3>1 DEF ExpectedAt
    <2>9. ASSUME NEW i \in 1 .. n
          PROVE  /\ X[spans[i].start + 1] = Render(spans[i], action[i])
                 /\ \A p \in spans[i].start + 2 .. spans[i].end : X[p] = <<>>
      <3>1. spans[i].start \in Nat /\ spans[i].end \in Nat /\ spans[i].start < spans[i].end
          BY <2>1 DEF Placed
      <3>2. spans[i].start + 1 \in spans[i].start + 1 .. spans[i].end
          BY <3>1
      <3>3. \A p \in spans[i].start + 2 .. spans[i].end :
                p \in spans[i].start + 1 .. spans[i].end /\ p # spans[i].start + 1
          BY <3>1
      <3> QED BY <2>7, <3>2, <3>3
    <2>10. \A p \in 1 .. TextLen : X[p] \in Texts
      <3> SUFFICES ASSUME NEW p \in 1 .. TextLen PROVE X[p] \in Texts
          OBVIOUS
      <3>1. <<>> \in Texts
          BY DEF Texts
      <3>2. CASE \E i \in 1 .. n : p \in spans[i].start + 1 .. spans[i].end
          BY <2>5, <2>7, <3>1, <3>2
      <3>3. CASE \A i \in 1 .. n : p \notin spans[i].start + 1 .. spans[i].end
        <4>1. OriginalText[p] \in Chars
            BY OriginalIs, ElementOfSeq DEF Texts
        <4>2. <<OriginalText[p]>> \in Texts
            BY <4>1 DEF Texts
        <4> QED BY <2>8, <3>3, <4>2
      <3> QED BY <3>2, <3>3
    <2>11. X \in [1 .. TextLen -> Texts]
        BY <2>2, <2>10
    <2>12. Pieces(X, spans, action, n)
        BY <2>5, <2>8, <2>9, <2>11 DEF Pieces
    <2>13. ReplaceSpans(OriginalText, spans, action) = ExpectedText /\ ExpectedText \in Texts
        BY <2>1, <2>2, <2>12, ReplaceSpansAre DEF ExpectedText
    <2>14. text = AppendSummary(ExpectedText, spans, action)
        BY <2>13 DEF TextInv
    <2>15. CASE Amounts(spans, action) = {}
        BY <2>14, <2>15 DEF AppendSummary, SpansReplacedInPlace
    <2>16. CASE Amounts(spans, action) # {}
      <3>1. PICK t \in Texts : t = Stripped(ExpectedText) /\ WithoutTrailingWhite(t, ExpectedText)
          BY <2>13, StrippedIs
      <3>2. text = t \o Summary(spans, action)
          BY <2>14, <2>16, <3>1 DEF AppendSummary
      <3>3. PICK c : Summary(spans, action) = <<c>>
          BY DEF Summary
      <3>4. SubSeq(text, 1, Len(text) - 1) = t
          BY <3>2, <3>3, BeforeSummary
      <3> QED BY <2>16, <3>1, <3>2, <3>4 DEF SpansReplacedInPlace
    <2> QED BY <2>15, <2>16
  <1> QED BY <1>1, MergeInvHolds, TextInvHolds, PTL

-----------------------------------------------------------------------------
(* The masks of a response, put in from the last finding to the first.     *)
LongTexts == {t \in Texts : Len(t) >= TextLen}
Growth(f) == IF f.grows THEN 1 ELSE 0
Covers(f, p) == f.start < p /\ p <= f.end

(* What lies between two cuts.                                             *)
SliceIs(t, a, e) ==
    /\ SubSeq(t, a + 1, e) \in Seq(Chars) /\ Len(SubSeq(t, a + 1, e)) = e - a
    /\ \A i \in 1 .. e - a : SubSeq(t, a + 1, e)[i] = t[a + i]

LEMMA Slice ==
  ASSUME NEW t, NEW a \in Nat, NEW e \in Nat, a <= e, \A i \in a + 1 .. e : t[i] \in Chars
  PROVE  SliceIs(t, a, e)
  <1>1. e - (a + 1) + 1 = e - a /\ (a + 1 <= e <=> e - a # 0)
      OBVIOUS
  <1>2. /\ SubSeq(t, a + 1, e) \in Seq(Chars)
        /\ Len(SubSeq(t, a + 1, e)) = IF a + 1 <= e THEN e - (a + 1) + 1 ELSE 0
      BY SubSeqProperties
  <1>3. \A i \in 1 .. e - (a + 1) + 1 : SubSeq(t, a + 1, e)[i] = t[a + 1 + i - 1]
      BY SubSeqProperties
  <1>4. ASSUME NEW i \in 1 .. e - a PROVE SubSeq(t, a + 1, e)[i] = t[a + i]
    <2>1. i \in 1 .. e - (a + 1) + 1 /\ a + 1 + i - 1 = a + i
        OBVIOUS
    <2> QED BY <1>3, <2>1
  <1> QED BY <1>1, <1>2, <1>4 DEF SliceIs

IsMasked(t, f, new) ==
    /\ new \in LongTexts /\ Len(new) = Len(t) + Growth(f)
    /\ \A x \in 1 .. f.start : new[x] = t[x]
    /\ \A x \in f.start + 1 .. f.end + Growth(f) : new[x] = <<"masked", f.start>>
    /\ \A x \in f.end + Growth(f) + 1 .. Len(new) : new[x] = t[x - Growth(f)]

LEMMA MaskOne ==
  ASSUME NEW t \in LongTexts, NEW f \in Findings, NEW new,
         new = ReplaceSpan(t, f, MaskOf(f))
  PROVE  IsMasked(t, f, new)
  <1>1. PICK a \in Nat, e \in Nat : a = f.start /\ e = f.end /\ a < e /\ e <= TextLen
      BY FindingFacts
  <1>2. PICK g \in {0, 1} : g = Growth(f)
      BY DEF Growth
  <1>3. PICK n \in Nat : n = Len(t) /\ t \in Seq(Chars) /\ n >= TextLen /\ TextLen \in Nat
      BY LenProperties, MergeAssumption DEF LongTexts, Texts
  <1>4. \A x \in 1 .. n : t[x] \in Chars
      BY <1>3, ElementOfSeq
  <1>5. PICK m : m = MaskOf(f)
      OBVIOUS
  <1>6. /\ m \in Seq(Chars) /\ Len(m) = e - a + g
        /\ \A i \in 1 .. e - a + g : m[i] = <<"masked", a>>
    <2>1. m = [i \in 1 .. e - a + g |-> <<"masked", a>>]
        BY <1>1, <1>2, <1>5 DEF MaskOf, Growth
    <2>2. m \in [1 .. e - a + g -> Chars] /\ e - a + g \in Nat
        BY <1>1, <2>1 DEF Chars
    <2> QED BY <2>1, <2>2
  <1>7. PICK u : u = SubSeq(t, 1, a)
      OBVIOUS
  <1>8. u \in Seq(Chars) /\ Len(u) = a /\ \A i \in 1 .. a : u[i] = t[i]
    <2>1. \A i \in 0 + 1 .. a : t[i] \in Chars
        BY <1>1, <1>3, <1>4
    <2>2. SliceIs(t, 0, a)
        BY <1>1, <2>1, Slice
    <2>3. SliceIs(t, 0, a) => /\ SubSeq(t, 1, a) \in Seq(Chars) /\ Len(SubSeq(t, 1, a)) = a - 0
                              /\ \A i \in 1 .. a - 0 : SubSeq(t, 1, a)[i] = t[0 + i]
        BY DEF SliceIs
    <2>4. a - 0 = a /\ \A i \in 1 .. a : 0 + i = i
        OBVIOUS
    <2> QED BY <1>7, <2>2, <2>3, <2>4
  <1>9. PICK v : v = SubSeq(t, e + 1, n)
      OBVIOUS
  <1>10. v \in Seq(Chars) /\ Len(v) = n - e /\ \A i \in 1 .. n - e : v[i] = t[e + i]
    <2>1. \A i \in e + 1 .. n : t[i] \in Chars
        BY <1>4
    <2>2. e <= n /\ n \in Nat
        BY <1>1, <1>3
    <2>3. SliceIs(t, e, n)
        BY <2>1, <2>2, Slice
    <2>4. SliceIs(t, e, n) <=> /\ v \in Seq(Chars) /\ Len(v) = n - e
                               /\ \A i \in 1 .. n - e : v[i] = t[e + i]
        BY <1>9 DEF SliceIs
    <2> QED BY <2>3, <2>4
  <1>11. PICK w : w = u \o m
      OBVIOUS
  <1>12. /\ w \in Seq(Chars) /\ Len(w) = e + g
         /\ \A i \in 1 .. a : w[i] = t[i]
         /\ \A i \in a + 1 .. e + g : w[i] = <<"masked", a>>
    <2>1. /\ w \in Seq(Chars) /\ Len(w) = Len(u) + Len(m)
          /\ \A i \in 1 .. Len(u) + Len(m) :
                 w[i] = IF i <= Len(u) THEN u[i] ELSE m[i - Len(u)]
        BY <1>6, <1>8, <1>11, ConcatProperties
    <2>2. Len(u) + Len(m) = e + g
        BY <1>1, <1>2, <1>6, <1>8
    <2>3. \A i \in 1 .. e + g : w[i] = IF i <= a THEN u[i] ELSE m[i - a]
        BY <1>8, <2>1, <2>2
    <2>4. ASSUME NEW i \in 1 .. a PROVE w[i] = t[i]
      <3>1. i \in 1 .. e + g
          BY <1>1, <1>2
      <3> QED BY <1>8, <2>3, <3>1
    <2>5. ASSUME NEW i \in a + 1 .. e + g PROVE w[i] = <<"masked", a>>
      <3>1. i \in 1 .. e + g /\ ~(i <= a) /\ i - a \in 1 .. e - a + g
          BY <1>1, <1>2
      <3> QED BY <1>6, <2>3, <3>1
    <2> QED BY <2>1, <2>2, <2>4, <2>5
  <1>13. new = w \o v
      BY <1>1, <1>3, <1>5, <1>7, <1>9, <1>11 DEF ReplaceSpan
  <1>14. /\ new \in Seq(Chars) /\ Len(new) = n + g
         /\ \A i \in 1 .. n + g : new[i] = IF i <= e + g THEN w[i] ELSE v[i - (e + g)]
    <2>3. w \in Seq(Chars) /\ v \in Seq(Chars)
        BY <1>10, <1>12
    <2>1. /\ new \in Seq(Chars) /\ Len(new) = Len(w) + Len(v)
          /\ \A i \in 1 .. Len(w) + Len(v) :
                 new[i] = IF i <= Len(w) THEN w[i] ELSE v[i - Len(w)]
        BY <1>13, <2>3, ConcatProperties
    <2>2. Len(w) + Len(v) = n + g
        BY <1>1, <1>2, <1>3, <1>10, <1>12
    <2> QED BY <1>12, <2>1, <2>2
  <1>15. ASSUME NEW x \in 1 .. a PROVE new[x] = t[x]
    <2>1. x \in 1 .. n + g /\ x <= e + g
        BY <1>1, <1>2, <1>3
    <2> QED BY <1>12, <1>14, <2>1
  <1>16. ASSUME NEW x \in a + 1 .. e + g PROVE new[x] = <<"masked", a>>
    <2>1. x \in 1 .. n + g /\ x <= e + g
        BY <1>1, <1>2, <1>3
    <2> QED BY <1>12, <1>14, <2>1
  <1>17. ASSUME NEW x \in e + g + 1 .. n + g PROVE new[x] = t[x - g]
    <2>1. x \in 1 .. n + g /\ ~(x <= e + g) /\ x - (e + g) \in 1 .. n - e
          /\ e + (x - (e + g)) = x - g
      <3>1. g \in Nat /\ x \in Nat /\ x >= e + g + 1 /\ x <= n + g
          BY <1>2
      <3> QED BY <3>1
    <2>2. new[x] = v[x - (e + g)]
        BY <1>14, <2>1
    <2>3. v[x - (e + g)] = t[e + (x - (e + g))]
        BY <1>10, <2>1
    <2> QED BY <2>1, <2>2, <2>3
  <1>18. new \in LongTexts
      BY <1>2, <1>3, <1>14 DEF LongTexts, Texts
  <1> QED BY <1>1, <1>2, <1>3, <1>14, <1>15, <1>16, <1>17, <1>18 DEF IsMasked

(* A raw position never moves to the left and the raw positions stay in    *)
(* order; one that a mask covered is still there only if longer masks      *)
(* moved it past the end of the finding before.                            *)
RawIn(t, x, p) == x \in 1 .. Len(t) /\ t[x] = <<"raw", p>>
LongerIn(found, f) ==
    {g \in found \ {f} : g.grows /\ f.start <= g.start /\ g.end <= f.end}
Left(found, p) ==
    \E f \in found : p \in f.end - Cardinality(LongerIn(found, f)) + 1 .. f.end
Shifts(done, p) == {g \in done : g.grows /\ g.end < p}

InPlace(found, done, t) ==
    /\ \A x, y, p, q \in Int : RawIn(t, x, p) /\ RawIn(t, y, q) /\ x < y => p < q
    /\ \A x, p \in Int : RawIn(t, x, p) => 1 <= p /\ p <= x
    /\ \A p \in 1 .. TextLen :
           (\A f \in found : ~Covers(f, p)) => \E x \in Int : RawIn(t, x, p)
Displaced(found, done, t) ==
    \A x, p \in Int : RawIn(t, x, p) =>
        \/ Left(found, p)
        \/ /\ \A f \in done : ~Covers(f, p)
           /\ x <= p + Cardinality(Shifts(done, p))
MaskedOK(found, done, b, t) ==
    /\ t \in LongTexts
    /\ \A x \in 1 .. b : t[x] = <<"raw", x>>
    /\ InPlace(found, done, t)
    /\ Displaced(found, done, t)

(* Where a raw position of the new text was before the mask.               *)
LEMMA RawBefore ==
  ASSUME NEW t \in LongTexts, NEW f \in Findings, NEW new,
         new = ReplaceSpan(t, f, MaskOf(f)), NEW x \in Int, NEW p, RawIn(new, x, p)
  PROVE  \/ x <= f.start /\ RawIn(t, x, p)
         \/ x - Growth(f) > f.end /\ RawIn(t, x - Growth(f), p)
  <1>1. PICK a \in Nat, e \in Nat : a = f.start /\ e = f.end /\ a < e /\ e <= TextLen
      BY FindingFacts
  <1>2. PICK g \in Nat : g = Growth(f)
      BY DEF Growth
  <1>3. PICK n \in Nat : n = Len(t) /\ n >= TextLen /\ TextLen \in Nat
      BY LenProperties, MergeAssumption DEF LongTexts, Texts
  <1>4. /\ Len(new) = n + g
        /\ \A y \in 1 .. a : new[y] = t[y]
        /\ \A y \in a + 1 .. e + g : new[y] = <<"masked", a>>
        /\ \A y \in e + g + 1 .. Len(new) : new[y] = t[y - g]
    <2>1. IsMasked(t, f, new)
        BY MaskOne
    <2> QED BY <1>1, <1>2, <1>3, <2>1 DEF IsMasked
  <1>5. x \in 1 .. n + g /\ new[x] = <<"raw", p>>
      BY <1>4 DEF RawIn
  <1>6. x \notin a + 1 .. e + g
      BY <1>4, <1>5
  <1>7. CASE x <= a
    <2>1. x \in 1 .. a /\ x \in 1 .. n
        BY <1>1, <1>3, <1>5, <1>7
    <2> QED BY <1>1, <1>3, <1>4, <1>5, <2>1 DEF RawIn
  <1>8. CASE ~(x <= a)
    <2>1. x \in e + g + 1 .. n + g
        BY <1>1, <1>5, <1>6, <1>8
    <2>2. x - g > e /\ x - g \in 1 .. n
        BY <2>1
    <2> QED BY <1>1, <1>2, <1>3, <1>4, <1>5, <2>1, <2>2 DEF RawIn
  <1> QED BY <1>7, <1>8

LEMMA RawAfter ==
  ASSUME NEW t \in LongTexts, NEW f \in Findings, NEW new,
         new = ReplaceSpan(t, f, MaskOf(f)), NEW x \in Int, NEW p, RawIn(t, x, p)
  PROVE  /\ x <= f.start => RawIn(new, x, p)
         /\ x > f.end => RawIn(new, x + Growth(f), p)
  <1>1. PICK a \in Nat, e \in Nat : a = f.start /\ e = f.end /\ a < e /\ e <= TextLen
      BY FindingFacts
  <1>2. PICK g \in Nat : g = Growth(f)
      BY DEF Growth
  <1>3. PICK n \in Nat : n = Len(t) /\ n >= TextLen /\ TextLen \in Nat
      BY LenProperties, MergeAssumption DEF LongTexts, Texts
  <1>4. /\ Len(new) = n + g
        /\ \A y \in 1 .. a : new[y] = t[y]
        /\ \A y \in e + g + 1 .. Len(new) : new[y] = t[y - g]
    <2>1. IsMasked(t, f, new)
        BY MaskOne
    <2> QED BY <1>1, <1>2, <1>3, <2>1 DEF IsMasked
  <1>5. x \in 1 .. n /\ t[x] = <<"raw", p>>
      BY <1>3 DEF RawIn
  <1>6. ASSUME x <= a PROVE RawIn(new, x, p)
    <2>1. x \in 1 .. a /\ x \in 1 .. n + g
        BY <1>5, <1>6
    <2> QED BY <1>4, <1>5, <2>1 DEF RawIn
  <1>7. ASSUME x > e PROVE RawIn(new, x + g, p)
    <2>1. x + g \in e + g + 1 .. n + g /\ x + g \in 1 .. n + g /\ (x + g) - g = x
        BY <1>5, <1>7
    <2> QED BY <1>4, <1>5, <2>1 DEF RawIn
  <1> QED BY <1>1, <1>2, <1>6, <1>7

LEMMA MaskStepInPlace ==
  ASSUME NEW found \in SUBSET Findings, NEW done \in SUBSET found, NEW f \in found,
         NEW b \in Nat, f.start <= b, NEW t, MaskedOK(found, done, b, t),
         NEW new, new = ReplaceSpan(t, f, MaskOf(f))
  PROVE  InPlace(found, done \cup {f}, new)
  <1>1. PICK a \in Nat, e \in Nat : a = f.start /\ e = f.end /\ a < e /\ e <= TextLen
      BY FindingFacts
  <1>2. PICK g \in Nat : g = Growth(f)
      BY DEF Growth
  <1>3. t \in LongTexts /\ InPlace(found, done, t) /\ f \in Findings
        /\ \A x \in 1 .. b : t[x] = <<"raw", x>>
      BY DEF MaskedOK
  <1>4. \A x, p \in Int : RawIn(new, x, p) =>
            \/ x <= a /\ RawIn(t, x, p)
            \/ x - g > e /\ RawIn(t, x - g, p)
      BY <1>1, <1>2, <1>3, RawBefore
  <1>5. \A x, p \in Int : RawIn(t, x, p) =>
            (x <= a => RawIn(new, x, p)) /\ (x > e => RawIn(new, x + g, p))
      BY <1>1, <1>2, <1>3, RawAfter
  <1>6. ASSUME NEW x \in Int, NEW y \in Int, NEW p \in Int, NEW q \in Int,
               RawIn(new, x, p), RawIn(new, y, q), x < y
        PROVE  p < q
    <2>1. PICK u \in Int : RawIn(t, u, p) /\ ((x <= a /\ u = x) \/ (u > e /\ u = x - g))
      <3>1. x - g \in Int
          OBVIOUS
      <3> QED BY <1>4, <1>6, <3>1
    <2>2. PICK v \in Int : RawIn(t, v, q) /\ ((y <= a /\ v = y) \/ (v > e /\ v = y - g))
      <3>1. y - g \in Int
          OBVIOUS
      <3> QED BY <1>4, <1>6, <3>1
    <2>3. u < v
        BY <1>1, <1>6, <2>1, <2>2
    <2> QED BY <1>3, <2>1, <2>2, <2>3 DEF InPlace
  <1>7. ASSUME NEW x \in Int, NEW p \in Int, RawIn(new, x, p) PROVE 1 <= p /\ p <= x
    <2>1. PICK u \in Int : RawIn(t, u, p) /\ u <= x
      <3>1. x - g \in Int /\ x - g <= x
          OBVIOUS
      <3> QED BY <1>4, <1>7, <3>1
    <2>2. 1 <= p /\ p <= u
        BY <1>3, <2>1 DEF InPlace
    <2> QED BY <2>1, <2>2
  <1>8. ASSUME NEW p \in 1 .. TextLen, \A h \in found : ~Covers(h, p)
        PROVE  \E x \in Int : RawIn(new, x, p)
    <2>1. p <= a \/ p > e
        BY <1>1, <1>8 DEF Covers
    <2>2. CASE p <= a
      <3>1. p \in 1 .. b /\ p \in 1 .. Len(t)
        <4>1. Len(t) \in Nat /\ Len(t) >= TextLen /\ TextLen \in Nat
            BY <1>3, LenProperties, MergeAssumption DEF LongTexts, Texts
        <4> QED BY <1>1, <2>2, <4>1
      <3>2. RawIn(t, p, p)
          BY <1>3, <3>1 DEF RawIn
      <3> QED BY <1>5, <2>2, <3>2
    <2>3. CASE p > e
      <3>1. PICK x \in Int : RawIn(t, x, p)
          BY <1>3, <1>8 DEF InPlace
      <3>2. p <= x
          BY <1>3, <3>1 DEF InPlace
      <3>3. RawIn(new, x + g, p) /\ x + g \in Int
          BY <1>5, <2>3, <3>1, <3>2
      <3> QED BY <3>3
    <2> QED BY <2>1, <2>2, <2>3
  <1> QED BY <1>6, <1>7, <1>8 DEF InPlace

LEMMA MaskStepDisplaced ==
  ASSUME NEW found \in SUBSET Findings, IsFiniteSet(found), NEW done \in SUBSET found,
         NEW f \in found, f \notin done, \A h \in done : f.start <= h.start,
         NEW b \in Nat, f.start <= b, NEW t, MaskedOK(found, done, b, t),
         NEW new, new = ReplaceSpan(t, f, MaskOf(f))
  PROVE  Displaced(found, done \cup {f}, new)
  <1>1. PICK a \in Nat, e \in Nat : a = f.start /\ e = f.end /\ a < e /\ e <= TextLen
      BY FindingFacts
  <1>2. PICK g \in Nat : g = Growth(f)
      BY DEF Growth
  <1>3. t \in LongTexts /\ InPlace(found, done, t) /\ Displaced(found, done, t)
        /\ f \in Findings /\ \A x \in 1 .. b : t[x] = <<"raw", x>>
      BY DEF MaskedOK
  <1> SUFFICES ASSUME NEW x \in Int, NEW p \in Int, RawIn(new, x, p), ~Left(found, p)
               PROVE  /\ \A h \in done \cup {f} : ~Covers(h, p)
                      /\ x <= p + Cardinality(Shifts(done \cup {f}, p))
      BY DEF Displaced
  <1>4. \/ x <= a /\ RawIn(t, x, p)
        \/ x - g > e /\ RawIn(t, x - g, p)
      BY <1>1, <1>2, <1>3, RawBefore
  <1>5. PICK u \in Int : RawIn(t, u, p) /\ ((x <= a /\ u = x) \/ (u > e /\ u = x - g))
    <2>1. x - g \in Int
        OBVIOUS
    <2> QED BY <1>4, <2>1
  <1>6. 1 <= p /\ p <= u
      BY <1>3, <1>5 DEF InPlace
  <1>7. \A h \in done : ~Covers(h, p)
      BY <1>3, <1>5 DEF Displaced
  <1>8. IsFiniteSet(done) /\ IsFiniteSet(Shifts(done, p)) /\ IsFiniteSet(LongerIn(found, f))
      BY FS_Subset DEF Shifts, LongerIn
  <1>9. PICK c \in Nat, k \in Nat :
            c = Cardinality(Shifts(done, p)) /\ k = Cardinality(LongerIn(found, f))
      BY <1>8, FS_CardinalityType
  <1>10. u <= p + c
      BY <1>3, <1>5, <1>9 DEF Displaced
  <1>11. ~Covers(f, p)
    <2> SUFFICES ASSUME a < p, p <= e PROVE FALSE
        BY <1>1 DEF Covers
    <2>1. u > e
        BY <1>5, <1>6
    <2>2. Shifts(done, p) \subseteq LongerIn(found, f)
      <3> SUFFICES ASSUME NEW h \in done, h.grows, h.end < p
                   PROVE  h \in found \ {f} /\ f.start <= h.start /\ h.end <= f.end
          BY DEF Shifts, LongerIn
      <3>1. h.end \in Nat
          BY FindingFacts
      <3> QED BY <1>1, <3>1
    <2>3. c <= k
        BY <1>8, <1>9, <2>2, FS_Subset
    <2>4. p \in e - k + 1 .. e
        BY <1>10, <2>1, <2>3
    <2> QED BY <1>1, <1>9, <2>4 DEF Left
  <1>12. \A h \in done \cup {f} : ~Covers(h, p)
      BY <1>7, <1>11
  <1>13. IsFiniteSet(Shifts(done \cup {f}, p))
    <2>1. Shifts(done \cup {f}, p) \subseteq found
        BY DEF Shifts
    <2> QED BY <2>1, FS_Subset
  <1>14. PICK d \in Nat : d = Cardinality(Shifts(done \cup {f}, p))
      BY <1>13, FS_CardinalityType
  <1>15. CASE p <= a
    <2>1. RawIn(t, p, p)
      <3>1. Len(t) \in Nat /\ Len(t) >= TextLen /\ TextLen \in Nat
          BY <1>3, LenProperties, MergeAssumption DEF LongTexts, Texts
      <3>2. p \in 1 .. b /\ p \in 1 .. Len(t)
          BY <1>1, <1>6, <1>15, <3>1
      <3> QED BY <1>3, <3>2 DEF RawIn
    <2>2. ~(p < u)
      <3>1. p < u => p < p
          BY <1>3, <1>5, <2>1 DEF InPlace
      <3> QED BY <3>1
    <2>3. x = p
        BY <1>1, <1>5, <1>6, <1>15, <2>2
    <2> QED BY <1>12, <1>14, <2>3
  <1>16. CASE ~(p <= a)
    <2>1. p > e /\ x <= u + g
        BY <1>1, <1>2, <1>5, <1>11, <1>16 DEF Covers
    <2>2. d = c + g
      <3>1. CASE f.grows
        <4>1. Shifts(done \cup {f}, p) = Shifts(done, p) \cup {f} /\ f \notin Shifts(done, p)
            BY <1>1, <2>1, <3>1 DEF Shifts
        <4>2. Cardinality(Shifts(done, p) \cup {f}) = Cardinality(Shifts(done, p)) + 1
            BY <1>8, <4>1, FS_AddElement
        <4>3. g = 1
            BY <1>2, <3>1 DEF Growth
        <4> QED BY <1>9, <1>14, <4>1, <4>2, <4>3
      <3>2. CASE ~f.grows
        <4>1. Shifts(done \cup {f}, p) = Shifts(done, p)
            BY <3>2 DEF Shifts
        <4>2. g = 0
            BY <1>2, <3>2 DEF Growth
        <4> QED BY <1>9, <1>14, <4>1, <4>2
      <3> QED BY <3>1, <3>2
    <2> QED BY <1>10, <1>12, <1>14, <2>1, <2>2
  <1> QED BY <1>15, <1>16

IsMaskLoop(h, s) ==
    h = [n \in 0 .. Len(s) |-> IF n = 0 THEN OriginalText
                               ELSE ReplaceSpan(h[n - 1], s[n], MaskOf(s[n]))]

LEMMA OriginalIsLong == OriginalText \in LongTexts
  BY OriginalIs, MergeAssumption DEF LongTexts

LEMMA MaskLoopExists ==
  ASSUME NEW found \in SUBSET Findings, NEW s \in Seq(found)
  PROVE  \E h : IsMaskLoop(h, s)
  <1> DEFINE m == Len(s)
             next == [i \in 1 .. m |->
                         [t \in LongTexts |-> ReplaceSpan(t, s[i], MaskOf(s[i]))]]
  <1>1. m \in Nat /\ \A i \in 1 .. m : s[i] \in Findings
      BY LenProperties, ElementOfSeq
  <1>2. ASSUME NEW t \in LongTexts, NEW f \in Findings
        PROVE  ReplaceSpan(t, f, MaskOf(f)) \in LongTexts
    <2>1. PICK new : new = ReplaceSpan(t, f, MaskOf(f))
        OBVIOUS
    <2>2. IsMasked(t, f, new)
        BY <2>1, MaskOne
    <2> QED BY <2>1, <2>2 DEF IsMasked
  <1>3. next \in [1 .. m -> [LongTexts -> LongTexts]]
      BY <1>1, <1>2
  <1>4. \A i \in 1 .. m, t \in LongTexts : next[i][t] = ReplaceSpan(t, s[i], MaskOf(s[i]))
      OBVIOUS
  <1> HIDE DEF m, next
  <1>5. PICK h \in [0 .. m -> LongTexts] : IsLoop(h, OriginalText, next, m)
      BY <1>1, <1>3, OriginalIsLong, TypedLoop
  <1>6. \A i \in 0 .. m : h[i] = IF i = 0 THEN OriginalText ELSE next[i][h[i - 1]]
      BY <1>1, <1>5, LoopAt
  <1>7. ASSUME NEW i \in 0 .. m
        PROVE  h[i] = IF i = 0 THEN OriginalText
                      ELSE ReplaceSpan(h[i - 1], s[i], MaskOf(s[i]))
    <2>1. CASE i = 0
        BY <1>6, <2>1
    <2>2. CASE i # 0
      <3>1. i \in 1 .. m /\ i - 1 \in 0 .. m
          BY <1>1, <2>2
      <3> QED BY <1>4, <1>5, <1>6, <2>2, <3>1
    <2> QED BY <2>1, <2>2
  <1>8. h = [i \in 0 .. m |-> IF i = 0 THEN OriginalText
                              ELSE ReplaceSpan(h[i - 1], s[i], MaskOf(s[i]))]
      BY <1>5, <1>7
  <1> QED BY <1>8 DEF IsMaskLoop, m

LEMMA LastToFirstStarts ==
  ASSUME NEW f \in Findings, NEW g \in Findings, LexLess(LastToFirst[f], LastToFirst[g])
  PROVE  g.start <= f.start
  <1>1. f.start \in Nat /\ g.start \in Nat
      BY FindingFacts
  <1> QED BY <1>1 DEF LexLess, LastToFirst

LEMMA MaskAllIs ==
  ASSUME NEW found \in SUBSET Findings, IsFiniteSet(found),
         NEW t, t = MaskAll(OriginalText, found)
  PROVE  \E b \in Nat : MaskedOK(found, found, b, t)
  <1>1. PICK s : s = SortedBy(LastToFirst, found)
      OBVIOUS
  <1>2. PICK m : m = Len(s)
      OBVIOUS
  <1>3. /\ m \in Nat /\ s \in Seq(found)
        /\ \A i \in 1 .. m : s[i] \in found
        /\ \A i, j \in 1 .. m : i < j => LexLess(LastToFirst[s[i]], LastToFirst[s[j]])
        /\ \A i, j \in 1 .. m : s[i] = s[j] => i = j
        /\ {s[i] : i \in 1 .. m} = found
    <2>1. Keyed(LastToFirst, found)
        BY FindingsAreKeyed
    <2>2. /\ s \in [1 .. Cardinality(found) -> found] /\ Cardinality(found) \in Nat
          /\ s \in Seq(found) /\ Len(s) = Cardinality(found)
          /\ \A i, j \in 1 .. Len(s) : i < j => LexLess(LastToFirst[s[i]], LastToFirst[s[j]])
          /\ \A i, j \in 1 .. Len(s) : s[i] = s[j] => i = j
          /\ \A x \in found : \E i \in 1 .. Len(s) : s[i] = x
        BY <1>1, <2>1, SortedIs
    <2>3. \A i \in 1 .. Len(s) : s[i] \in found
        BY <2>2
    <2> QED BY <1>2, <2>2, <2>3
  <1>4. \A i, j \in 1 .. m : i < j => s[j].start <= s[i].start
    <2> SUFFICES ASSUME NEW i \in 1 .. m, NEW j \in 1 .. m, i < j
                 PROVE  s[j].start <= s[i].start
        OBVIOUS
    <2>1. s[i] \in Findings /\ s[j] \in Findings
        BY <1>3
    <2>2. LexLess(LastToFirst[s[i]], LastToFirst[s[j]])
        BY <1>3
    <2> QED BY <2>1, <2>2, LastToFirstStarts
  <1>5. PICK g : g = CHOOSE h : IsMaskLoop(h, s)
      OBVIOUS
  <1>6. IsMaskLoop(g, s)
      BY <1>3, <1>5, MaskLoopExists
  <1>7. t = g[m]
      BY <1>1, <1>2, <1>5 DEF MaskAll, IsMaskLoop
  <1>8. \A i \in 0 .. m : g[i] = IF i = 0 THEN OriginalText
                                 ELSE ReplaceSpan(g[i - 1], s[i], MaskOf(s[i]))
      BY <1>2, <1>6 DEF IsMaskLoop
  <1>9. PICK done : done = [k \in 0 .. m |-> {s[i] : i \in 1 .. k}]
      OBVIOUS
  <1>10. PICK b : b = [k \in 0 .. m |-> IF k = 0 THEN TextLen ELSE s[k].start]
      OBVIOUS
  <1>11. ASSUME NEW k \in 0 .. m PROVE b[k] \in Nat
    <2>1. CASE k = 0
        BY <1>10, <2>1, MergeAssumption
    <2>2. CASE k # 0
      <3>1. k \in 1 .. m
          BY <1>3, <2>2
      <3>2. s[k] \in Findings
          BY <1>3, <3>1
      <3> QED BY <1>10, <2>2, <3>2, FindingFacts
    <2> QED BY <2>1, <2>2
  <1> DEFINE P == {k \in 0 .. m : MaskedOK(found, done[k], b[k], g[k])}
  <1>12. 0 \in P
    <2>1. g[0] = OriginalText /\ done[0] = {} /\ b[0] = TextLen /\ 0 \in 0 .. m
      <3>1. 0 \in 0 .. m /\ 1 .. 0 = {}
          BY <1>3
      <3>2. g[0] = OriginalText /\ b[0] = TextLen
          BY <1>8, <1>10, <3>1
      <3>3. done[0] = {s[i] : i \in 1 .. 0}
          BY <1>9, <3>1
      <3> QED BY <3>1, <3>2, <3>3
    <2>2. PICK O : O = OriginalText
        OBVIOUS
    <2>3. O \in LongTexts /\ Len(O) = TextLen /\ TextLen \in Nat
          /\ \A x \in 1 .. TextLen : O[x] = <<"raw", x>>
        BY <2>2, OriginalIs, OriginalIsLong, MergeAssumption DEF OriginalText
    <2>4. \A x, p \in Int : RawIn(O, x, p) <=> x \in 1 .. TextLen /\ p = x
        BY <2>3 DEF RawIn
    <2>5. InPlace(found, {}, O)
        BY <2>3, <2>4 DEF InPlace
    <2>6. Displaced(found, {}, O)
      <3>1. \A p : Shifts({}, p) = {}
          BY DEF Shifts
      <3>2. Cardinality({}) = 0
          BY FS_EmptySet
      <3> QED BY <2>4, <3>1, <3>2 DEF Displaced
    <2> QED BY <2>1, <2>2, <2>3, <2>5, <2>6 DEF MaskedOK
  <1>13. ASSUME NEW i \in 0 .. m - 1, i \in P PROVE i + 1 \in P
    <2>1. i + 1 \in 1 .. m /\ i + 1 \in 0 .. m /\ i + 1 # 0 /\ (i + 1) - 1 = i /\ i \in 0 .. m
        BY <1>3
    <2>2. PICK f \in found : f = s[i + 1]
        BY <1>3, <2>1
    <2>3. PICK u : u = g[i]
        OBVIOUS
    <2>4. PICK D : D = done[i]
        OBVIOUS
    <2>5. PICK c \in Nat : c = b[i]
        BY <1>11, <2>1
    <2>6. MaskedOK(found, D, c, u)
        BY <1>13, <2>3, <2>4, <2>5
    <2>7. D = {s[j] : j \in 1 .. i} /\ done[i + 1] = D \cup {f}
      <3>1. 1 .. i + 1 = (1 .. i) \cup {i + 1}
          BY <2>1
      <3> QED BY <1>9, <2>1, <2>2, <2>4, <3>1
    <2>8. D \in SUBSET found /\ f \notin D /\ \A h \in D : f.start <= h.start
      <3>1. ASSUME NEW j \in 1 .. i PROVE s[j] \in found /\ s[j] # f /\ f.start <= s[j].start
        <4>1. j \in 1 .. m /\ j < i + 1 /\ j # i + 1
            BY <1>3
        <4> QED BY <1>3, <1>4, <2>1, <2>2, <4>1
      <3> QED BY <2>7, <3>1
    <2>9. f.start <= c
      <3>1. f.start \in Nat /\ f.start <= TextLen
        <4>1. f.start \in Nat /\ f.end \in Nat /\ f.start < f.end /\ f.end <= TextLen
            BY FindingFacts
        <4> QED BY <4>1, MergeAssumption
      <3>2. CASE i = 0
          BY <1>10, <2>1, <2>5, <3>1, <3>2
      <3>3. CASE i # 0
        <4>1. i \in 1 .. m /\ i < i + 1
            BY <2>1, <3>3
        <4>2. c = s[i].start
            BY <1>10, <2>1, <2>5, <3>3
        <4> QED BY <1>4, <2>1, <2>2, <4>1, <4>2
      <3> QED BY <3>2, <3>3
    <2>10. PICK new : new = ReplaceSpan(u, f, MaskOf(f))
        OBVIOUS
    <2>11. InPlace(found, D \cup {f}, new)
        BY <2>6, <2>8, <2>9, <2>10, MaskStepInPlace
    <2>12. Displaced(found, D \cup {f}, new)
        BY <2>6, <2>8, <2>9, <2>10, MaskStepDisplaced
    <2>13. u \in LongTexts /\ IsMasked(u, f, new)
      <3>1. u \in LongTexts
          BY <2>6 DEF MaskedOK
      <3> QED BY <2>10, <3>1, MaskOne
    <2>14. \A x \in 1 .. f.start : new[x] = <<"raw", x>>
      <3>1. \A x \in 1 .. c : u[x] = <<"raw", x>>
          BY <2>6 DEF MaskedOK
      <3>2. f.start \in Nat
          BY FindingFacts
      <3> QED BY <2>9, <2>13, <3>1, <3>2 DEF IsMasked
    <2>15. MaskedOK(found, D \cup {f}, f.start, new)
        BY <2>11, <2>12, <2>13, <2>14 DEF MaskedOK, IsMasked
    <2>16. g[i + 1] = new
        BY <1>8, <2>1, <2>2, <2>3, <2>10
    <2>17. b[i + 1] = f.start
        BY <1>10, <2>1, <2>2
    <2> QED BY <2>1, <2>7, <2>15, <2>16, <2>17
  <1>14. m \in P
    <2> HIDE DEF P
    <2>1. \A i \in 0 .. m : i \in P
        BY <1>3, <1>12, <1>13, UpTo
    <2> QED BY <1>3, <2>1
  <1>15. done[m] = found /\ m \in 0 .. m
      BY <1>3, <1>9
  <1> QED BY <1>7, <1>11, <1>14, <1>15

-----------------------------------------------------------------------------
(* What no finding covers goes out whole and in order, and of what one     *)
(* covers at most its last positions (app/guardrail/output_check.py:79-80).*)
THEOREM RescanMasksAllHolds == Spec => []RescanMasksAll
  <1>1. MergeInv /\ TextInv => RescanMasksAll
    <2> SUFFICES ASSUME MergeInv, TextInv, path = "output", phase = "end"
                 PROVE  /\ \A p \in 1 .. TextLen \ Covered : Cardinality(RawAt(p)) = 1
                        /\ \A p, q \in 1 .. TextLen : p < q =>
                               \A i \in RawAt(p), j \in RawAt(q) : i < j
                        /\ \A p \in Covered : RawAt(p) # {} =>
                               \E f \in Masked : p \in f.end - LongerBefore(f) + 1 .. f.end
        BY DEF RescanMasksAll
    <2>1. PICK found : found = Masked
        OBVIOUS
    <2>2. found \in SUBSET Findings /\ IsFiniteSet(found)
        BY <2>1, FS_Subset DEF MergeInv, Masked
    <2>3. PICK t : t = text
        OBVIOUS
    <2>4. t = MaskAll(OriginalText, found)
        BY <2>1, <2>3 DEF TextInv
    <2>5. PICK b \in Nat : MaskedOK(found, found, b, t)
        BY <2>2, <2>4, MaskAllIs
    <2>6. /\ DOMAIN t = 1 .. Len(t) /\ Len(t) \in Nat
          /\ InPlace(found, found, t) /\ Displaced(found, found, t)
        BY <2>5, LenProperties DEF MaskedOK, LongTexts, Texts
    <2>7. \A p : RawAt(p) = {x \in 1 .. Len(t) : RawIn(t, x, p)}
        BY <2>3, <2>6 DEF RawAt, RawIn
    <2>8. \A p \in Covered : p \in Int /\ \E f \in found : Covers(f, p)
      <3> SUFFICES ASSUME NEW p \in Covered
                   PROVE  p \in Int /\ \E f \in found : Covers(f, p)
          OBVIOUS
      <3>1. PICK f \in found : p \in f.start + 1 .. f.end
          BY <2>1 DEF Covered
      <3>2. f.start \in Nat /\ f.end \in Nat
          BY <2>2, FindingFacts
      <3> QED BY <3>1, <3>2 DEF Covers
    <2>9. ASSUME NEW p \in Int, NEW f \in found, Covers(f, p) PROVE p \in Covered
      <3>1. f.start \in Nat /\ f.end \in Nat
          BY <2>2, FindingFacts
      <3>2. p \in f.start + 1 .. f.end
          BY <2>9, <3>1 DEF Covers
      <3> QED BY <2>1, <3>2 DEF Covered
    <2>10. ASSUME NEW p \in Int, NEW q \in Int, p < q, NEW i \in RawAt(p), NEW j \in RawAt(q)
           PROVE  i < j
      <3>1. i \in Int /\ j \in Int /\ RawIn(t, i, p) /\ RawIn(t, j, q)
          BY <2>7
      <3>2. j < i => q < p
          BY <2>6, <3>1 DEF InPlace
      <3>3. i # j
          BY <2>10, <3>1 DEF RawIn
      <3> QED BY <2>10, <3>1, <3>2, <3>3
    <2>11. ASSUME NEW p \in 1 .. TextLen, p \notin Covered PROVE Cardinality(RawAt(p)) = 1
      <3>1. PICK x \in Int : RawIn(t, x, p)
        <4>1. \A f \in found : ~Covers(f, p)
            BY <2>9, <2>11
        <4> QED BY <2>6, <4>1 DEF InPlace
      <3>2. ASSUME NEW y \in RawAt(p) PROVE y = x
        <4>1. y \in Int /\ RawIn(t, y, p)
            BY <2>7
        <4>2. (x < y => p < p) /\ (y < x => p < p)
            BY <2>6, <3>1, <4>1 DEF InPlace
        <4> QED BY <3>1, <4>1, <4>2
      <3>3. x \in RawAt(p)
          BY <2>7, <3>1 DEF RawIn
      <3>4. RawAt(p) = {x}
          BY <3>2, <3>3
      <3>5. Cardinality({x}) = 1
          BY FS_Singleton
      <3> QED BY <3>4, <3>5
    <2>12. ASSUME NEW p \in Covered, RawAt(p) # {}
           PROVE  \E f \in Masked : p \in f.end - LongerBefore(f) + 1 .. f.end
      <3>1. PICK x \in Int : RawIn(t, x, p)
          BY <2>7, <2>12
      <3>2. p \in Int /\ \E f \in found : Covers(f, p)
          BY <2>8
      <3>3. Left(found, p)
          BY <2>6, <3>1, <3>2 DEF Displaced
      <3>4. \A f : LongerBefore(f) = Cardinality(LongerIn(found, f))
          BY <2>1 DEF LongerBefore, LongerIn
      <3> QED BY <2>1, <3>3, <3>4 DEF Left
    <2> QED BY <2>10, <2>11, <2>12
  <1> QED BY <1>1, MergeInvHolds, TextInvHolds, PTL
-----------------------------------------------------------------------------
(* AdapterBodies.  What a list of parts says is a text, and one part says  *)
(* itself.                                                                 *)
LEMMA FlattenNone ==
  ASSUME NEW X, Len(X) = 0
  PROVE  FlattenSeq(X) = X
  BY DEF FlattenSeq

LEMMA JoinedIsText ==
  ASSUME NEW parts \in Seq(BodyTexts)
  PROVE  Joined(parts) \in BodyTexts
  <1>1. PICK n \in Nat : n = Len(parts) /\ parts \in [1 .. n -> Seq(Words)]
      BY DEF BodyTexts
  <1>2. CASE n = 0
    <2>1. parts = <<>> /\ Len(parts) = 0
        BY <1>1, <1>2
    <2>2. FlattenSeq(parts) = parts
        BY <2>1, FlattenNone
    <2>3. Joined(parts) = <<>>
        BY <2>1, <2>2 DEF Joined
    <2>4. <<>> \in BodyTexts
        BY DEF BodyTexts
    <2> QED BY <2>3, <2>4
  <1>3. CASE n # 0
    <2>1. PICK f : Flattens(f, parts, n)
        BY <1>1, <1>3, FlattenLoop
    <2> DEFINE P == {k \in 0 .. n : k = 0 \/ f[k] \in Seq(Words)}
    <2>2. 0 \in P
        OBVIOUS
    <2>3. ASSUME NEW k \in 0 .. n - 1, k \in P PROVE k + 1 \in P
      <3>1. k + 1 \in 1 .. n /\ k + 1 \in 0 .. n /\ (k + 1) - 1 = k
          OBVIOUS
      <3>2. f[k + 1] = (IF k + 1 = 1 THEN parts[k + 1] ELSE f[(k + 1) - 1] \o parts[k + 1])
          BY <2>1, <3>1 DEF Flattens
      <3>3. parts[k + 1] \in Seq(Words)
          BY <1>1, <3>1
      <3>4. CASE k = 0
          BY <3>1, <3>2, <3>3, <3>4
      <3>5. CASE k # 0
        <4>1. f[k] \in Seq(Words) /\ f[k + 1] = f[k] \o parts[k + 1]
          <5>1. f[k] \in Seq(Words)
              BY <2>3, <3>5
          <5>2. k + 1 # 1
              BY <3>5
          <5> QED BY <3>1, <3>2, <5>1, <5>2
        <4>2. f[k + 1] \in Seq(Words)
            BY <3>3, <4>1, ConcatProperties
        <4> QED BY <3>1, <4>2
      <3> QED BY <3>4, <3>5
    <2>4. \A k \in 0 .. n : k \in P
      <3> HIDE DEF P
      <3> QED BY <2>2, <2>3, UpTo
    <2>5. f[n] \in Seq(Words)
        BY <1>3, <2>4
    <2> QED BY <2>1, <2>5 DEF Joined, BodyTexts, Flattens
  <1> QED BY <1>2, <1>3

LEMMA OnePart ==
  ASSUME NEW t \in BodyTexts
  PROVE  Joined(<<t>>) = t
  <1>1. PICK parts : parts = <<t>>
      OBVIOUS
  <1>2. parts \in [1 .. 1 -> Seq(Words)] /\ parts[1] = t
      BY <1>1 DEF BodyTexts
  <1>3. 1 \in Nat /\ 1 # 0
      OBVIOUS
  <1>4. PICK f : Flattens(f, parts, 1)
      BY <1>2, <1>3, FlattenLoop
  <1>5. f[1] = t
      BY <1>2, <1>4 DEF Flattens
  <1> QED BY <1>1, <1>4, <1>5 DEF Joined, Flattens

(* The items of a list that are objects, where these come first.           *)
EndsAt(items, k) ==
    k \in 0 .. Len(items) /\ \A i \in 1 .. Len(items) : items[i].dict <=> i <= k
FirstOf(items, k) == [i \in 1 .. k |-> items[i]]

LEMMA ObjectsEnd ==
  ASSUME NEW S, NEW items \in Seq(S), ObjectsFirst(items)
  PROVE  \E k : EndsAt(items, k)
  <1>1. PICK n \in Nat : n = Len(items) /\ DOMAIN items = 1 .. n
      OBVIOUS
  <1> DEFINE T == {m \in 0 .. n : m = n \/ ~items[m + 1].dict}
  <1>2. PICK k \in T : \A m \in T : k <= m
    <2>1. n \in T /\ T \in SUBSET Nat
        BY <1>1
    <2> HIDE DEF T
    <2> QED BY <2>1, LeastNumber
  <1>3. k \in 0 .. n /\ (k = n \/ ~items[k + 1].dict)
      BY <1>2
  <1>4. ASSUME NEW i \in 1 .. n, i <= k PROVE items[i].dict
    <2>1. i - 1 \in 0 .. n /\ i - 1 # n /\ (i - 1) + 1 = i /\ ~(k <= i - 1)
        BY <1>1, <1>3, <1>4
    <2>2. i - 1 \notin T
        BY <1>2, <2>1
    <2> QED BY <2>1, <2>2
  <1>5. ASSUME NEW i \in 1 .. n, items[i].dict PROVE i <= k
    <2> SUFFICES ASSUME k < i PROVE FALSE
        BY <1>1, <1>3
    <2>1. k + 1 \in 1 .. n /\ (k + 1 < i \/ k + 1 = i)
        BY <1>1, <1>3
    <2>2. ~items[k + 1].dict
        BY <1>1, <1>3, <2>1
    <2>3. CASE k + 1 = i
        BY <1>5, <2>2, <2>3
    <2>4. CASE k + 1 < i
        BY <1>1, <1>5, <2>1, <2>2, <2>4 DEF ObjectsFirst
    <2> QED BY <2>1, <2>3, <2>4
  <1> QED BY <1>1, <1>3, <1>4, <1>5 DEF EndsAt

LEMMA ObjectsAre ==
  ASSUME NEW S, NEW items \in Seq(S), NEW k, EndsAt(items, k)
  PROVE  Objects(items) = FirstOf(items, k)
  <1> DEFINE n == Len(items)
             Upto(m) == FirstOf(items, IF m <= k THEN m ELSE k)
             IsKept(h) == h = [m \in 0 .. n |->
                                 IF m = 0 THEN <<>>
                                 ELSE IF items[m].dict THEN Append(h[m - 1], items[m])
                                 ELSE h[m - 1]]
             g == [m \in 0 .. n |-> Upto(m)]
  <1>1. n \in Nat /\ k \in 0 .. n /\ \A i \in 1 .. n : items[i].dict <=> i <= k
      BY DEF EndsAt
  <1>2. Upto(0) = <<>>
      BY <1>1 DEF FirstOf
  <1>3. ASSUME NEW m \in 1 .. n
        PROVE  Upto(m) = IF items[m].dict THEN Append(Upto(m - 1), items[m]) ELSE Upto(m - 1)
    <2>1. CASE m <= k
      <3>1. items[m].dict /\ m - 1 <= k /\ m - 1 \in Nat
          BY <1>1, <2>1
      <3>2. FirstOf(items, m - 1) \in Seq(S) /\ Len(FirstOf(items, m - 1)) = m - 1
          BY <1>1, <3>1 DEF FirstOf
      <3>3. Append(FirstOf(items, m - 1), items[m]) = FirstOf(items, m)
          BY <1>1, <3>1, <3>2 DEF FirstOf
      <3> QED BY <2>1, <3>1, <3>3
    <2>2. CASE ~(m <= k)
      <3>1. ~items[m].dict
          BY <1>1, <2>2
      <3>2. m - 1 <= k => m - 1 = k
          BY <1>1, <2>2
      <3>3. Upto(m - 1) = Upto(m)
          BY <1>1, <2>2, <3>2
      <3> QED BY <3>1, <3>3
    <2> QED BY <2>1, <2>2
  <1> HIDE DEF Upto
  <1>4. IsKept(g)
    <2>1. ASSUME NEW m \in 0 .. n
          PROVE  Upto(m) = IF m = 0 THEN <<>>
                           ELSE IF items[m].dict THEN Append(g[m - 1], items[m])
                           ELSE g[m - 1]
      <3>1. CASE m = 0
          BY <1>2, <3>1
      <3>2. CASE m # 0
        <4>1. m \in 1 .. n /\ m - 1 \in 0 .. n
            BY <3>2
        <4> QED BY <1>3, <3>2, <4>1
      <3> QED BY <3>1, <3>2
    <2> QED BY <2>1
  <1>5. PICK h : h = CHOOSE x : IsKept(x)
      OBVIOUS
  <1>6. IsKept(h)
    <2> HIDE DEF IsKept, g
    <2> QED BY <1>4, <1>5
  <1>7. Objects(items) = h[n]
      BY <1>5 DEF Objects
  <1>8. \A m \in 0 .. n : h[m] = IF m = 0 THEN <<>>
                                 ELSE IF items[m].dict THEN Append(h[m - 1], items[m])
                                 ELSE h[m - 1]
      BY <1>6
  <1> HIDE DEF IsKept, g
  <1> DEFINE P == {m \in 0 .. n : h[m] = Upto(m)}
  <1>9. 0 \in P
      BY <1>1, <1>2, <1>8
  <1>10. ASSUME NEW m \in 0 .. n - 1, m \in P PROVE m + 1 \in P
    <2>1. m + 1 \in 1 .. n /\ m + 1 \in 0 .. n /\ m + 1 # 0 /\ (m + 1) - 1 = m
        BY <1>1
    <2>2. h[m] = Upto(m)
        BY <1>10
    <2>3. h[m + 1] = IF items[m + 1].dict THEN Append(h[m], items[m + 1]) ELSE h[m]
        BY <1>8, <2>1
    <2>4. Upto(m + 1) = IF items[m + 1].dict THEN Append(Upto(m), items[m + 1]) ELSE Upto(m)
        BY <1>3, <2>1
    <2> QED BY <2>1, <2>2, <2>3, <2>4
  <1>11. \A m \in 0 .. n : m \in P
    <2> HIDE DEF P
    <2> QED BY <1>1, <1>9, <1>10, UpTo
  <1>12. h[n] = Upto(n)
      BY <1>1, <1>11
  <1>13. Upto(n) = FirstOf(items, k)
    <2>1. n <= k => n = k
        BY <1>1
    <2> QED BY <2>1 DEF Upto
  <1> QED BY <1>7, <1>12, <1>13

(* What the turns may become: other texts, but none for a text.            *)
BodyTurns == [role : Roles, text : BodyTexts]
Retells(us, ts) ==
    /\ us \in Seq(BodyTurns) /\ Len(us) = Len(ts)
    /\ \A i \in 1 .. Len(ts) : /\ us[i].role = ts[i].role
                               /\ ts[i].text # <<>> => us[i].text # <<>>

LEMMA ObjectOrNot ==
  /\ \A m \in Messages : /\ m.dict => m \in [dict : {TRUE}, role : Roles, content : BodyTexts]
                         /\ ~m.dict => m = NotDict
  /\ \A m \in Contents : /\ m.dict => m \in [dict : {TRUE}, role : Roles, content : Seq(BodyTexts)]
                         /\ ~m.dict => m = NotDict
  <1>1. ~NotDict.dict
      BY DEF NotDict
  <1>2. ASSUME NEW C, NEW m \in [dict : {TRUE}, role : Roles, content : C]
        PROVE  m.dict
    <2>1. m.dict = TRUE
        OBVIOUS
    <2> QED BY <2>1
  <1> QED BY <1>1, <1>2 DEF Messages, Contents

(* Lists whose objects end at the same place, with the same roles.         *)
SameShape(ns, items) ==
    /\ Len(ns) = Len(items) /\ RolesOf(ns) = RolesOf(items)
    /\ \A k : EndsAt(items, k) => EndsAt(ns, k)

LEMMA SameShapeOf ==
  ASSUME NEW S, NEW items \in Seq(S), NEW ns \in Seq(S), Len(ns) = Len(items),
         Missing \notin Seq(S),
         \A i \in 1 .. Len(items) : (items[i].dict <=> ns[i].dict),
         \A i \in 1 .. Len(items) : items[i].dict => items[i].role = ns[i].role
  PROVE  SameShape(ns, items)
  <1>1. PICK n \in Nat : n = Len(items) /\ DOMAIN items = 1 .. n /\ DOMAIN ns = 1 .. n
      OBVIOUS
  <1>2. ListOf(ns) = ns /\ ListOf(items) = items
      BY DEF ListOf
  <1>3. ASSUME NEW i \in 1 .. n
        PROVE  (IF ns[i].dict THEN ns[i].role ELSE "none")
                   = (IF items[i].dict THEN items[i].role ELSE "none")
      BY <1>1
  <1>4. RolesOf(ns) = RolesOf(items)
      BY <1>1, <1>2, <1>3 DEF RolesOf
  <1> QED BY <1>1, <1>4 DEF SameShape, EndsAt

(* The gateway adapter.                                                    *)
MessageTurns(ms, k) == [i \in 1 .. k |-> Turn(ms[i].role, ms[i].content)]

LEMMA GatewayReads ==
  ASSUME NEW b, NEW ms \in Seq(Messages), b.messages = ms, NEW k, EndsAt(ms, k)
  PROVE  GatewayTurns(b) = MessageTurns(ms, k)
  <1>1. ListOf(b.messages) = ms
      BY BodyAssumption DEF ListOf
  <1>2. Objects(ms) = FirstOf(ms, k)
      BY ObjectsAre
  <1>3. DOMAIN FirstOf(ms, k) = 1 .. k /\ \A i \in 1 .. k : FirstOf(ms, k)[i] = ms[i]
      BY DEF FirstOf
  <1> QED BY <1>1, <1>2, <1>3 DEF GatewayTurns, MessageTurns

LEMMA MessagesReplaced ==
  ASSUME NEW ms \in Seq(Messages), NEW k, EndsAt(ms, k), NEW us, Retells(us, MessageTurns(ms, k)),
         NEW ns, ns = Replaced(ms, us, WithContent)
  PROVE  /\ ns \in Seq(Messages) /\ SameShape(ns, ms)
         /\ MessageTurns(ns, k) = us
  <1>1. PICK n \in Nat : n = Len(ms) /\ DOMAIN ms = 1 .. n
      OBVIOUS
  <1>2. /\ k \in 0 .. n /\ k \in Nat
        /\ \A i \in 1 .. n : (ms[i].dict <=> i <= k)
        /\ \A i \in 1 .. n : ms[i] \in Messages
      BY <1>1 DEF EndsAt
  <1>3. Len(MessageTurns(ms, k)) = k
      BY <1>2 DEF MessageTurns
  <1>4. DOMAIN us = 1 .. k /\ \A i \in 1 .. k : us[i] \in BodyTurns /\ us[i].role = ms[i].role
    <2>1. us \in Seq(BodyTurns) /\ Len(us) = k
        BY <1>3 DEF Retells
    <2>2. ASSUME NEW i \in 1 .. k PROVE us[i].role = ms[i].role
      <3>1. us[i].role = MessageTurns(ms, k)[i].role
          BY <1>3 DEF Retells
      <3> QED BY <3>1 DEF MessageTurns, Turn
    <2> QED BY <1>2, <2>1, <2>2
  <1>5. ns = [i \in 1 .. n |-> IF i \in 1 .. k /\ ms[i].dict
                               THEN [ms[i] EXCEPT !.content = us[i].text] ELSE ms[i]]
      BY <1>1, <1>4 DEF Replaced, WithContent
  <1>6. ASSUME NEW i \in 1 .. n, i <= k
        PROVE  /\ ns[i] = [ms[i] EXCEPT !.content = us[i].text]
               /\ ns[i] \in [dict : {TRUE}, role : Roles, content : BodyTexts]
               /\ ns[i].role = ms[i].role /\ ns[i].content = us[i].text
    <2>1. i \in 1 .. k /\ ms[i].dict /\ us[i].text \in BodyTexts
        BY <1>2, <1>4, <1>6 DEF BodyTurns
    <2>2. ns[i] = [ms[i] EXCEPT !.content = us[i].text]
        BY <1>5, <2>1
    <2>3. ms[i] \in [dict : {TRUE}, role : Roles, content : BodyTexts]
        BY <1>2, <2>1, ObjectOrNot
    <2> QED BY <2>1, <2>2, <2>3
  <1>7. ASSUME NEW i \in 1 .. n, ~(i <= k) PROVE ns[i] = ms[i]
      BY <1>2, <1>5, <1>7
  <1>8. ASSUME NEW i \in 1 .. n
        PROVE  ns[i] \in Messages /\ (ms[i].dict <=> ns[i].dict)
                   /\ (ms[i].dict => ms[i].role = ns[i].role)
    <2>1. CASE i <= k
        BY <1>2, <1>6, <2>1 DEF Messages
    <2>2. CASE ~(i <= k)
        BY <1>2, <1>7, <2>2
    <2> QED BY <2>1, <2>2
  <1>9. ns \in [1 .. n -> Messages]
      BY <1>5, <1>8
  <1>10. ns \in Seq(Messages) /\ Len(ns) = n
      BY <1>9
  <1>11. SameShape(ns, ms)
      BY <1>1, <1>8, <1>10, SameShapeOf, BodyAssumption
  <1>12. MessageTurns(ns, k) = us
    <2>1. ASSUME NEW i \in 1 .. k PROVE Turn(ns[i].role, ns[i].content) = us[i]
      <3>1. i \in 1 .. n /\ i <= k
          BY <1>2
      <3>2. ns[i].role = us[i].role /\ ns[i].content = us[i].text
          BY <1>4, <1>6, <3>1
      <3> QED BY <1>4, <3>2 DEF Turn, BodyTurns
    <2>2. us = [i \in 1 .. k |-> us[i]]
        BY <1>4 DEF Retells
    <2> QED BY <2>1, <2>2 DEF MessageTurns
  <1> QED BY <1>10, <1>11, <1>12

(* The gemini adapter.                                                     *)
ContentTurns(cs, k) ==
    [i \in 1 .. k |-> Turn(InternalRole(cs[i].role), Joined(cs[i].content))]

LEMMA GeminiReads ==
  ASSUME NEW b, NEW cs \in Seq(Contents), b.contents = cs, NEW k, EndsAt(cs, k)
  PROVE  GeminiTurns(b) = SystemTurns(b) \o ContentTurns(cs, k)
  <1>1. ListOf(b.contents) = cs
      BY BodyAssumption DEF ListOf
  <1>2. Objects(cs) = FirstOf(cs, k)
      BY ObjectsAre
  <1>3. DOMAIN FirstOf(cs, k) = 1 .. k /\ \A i \in 1 .. k : FirstOf(cs, k)[i] = cs[i]
      BY DEF FirstOf
  <1> QED BY <1>1, <1>2, <1>3 DEF GeminiTurns, ContentTurns

LEMMA ContentTurnsTyped ==
  ASSUME NEW cs \in Seq(Contents), NEW k, EndsAt(cs, k)
  PROVE  ContentTurns(cs, k) \in [1 .. k -> BodyTurns]
  <1>1. ASSUME NEW i \in 1 .. k
        PROVE  Turn(InternalRole(cs[i].role), Joined(cs[i].content)) \in BodyTurns
    <2>1. i \in 1 .. Len(cs) /\ cs[i].dict /\ cs[i] \in Contents
        BY DEF EndsAt
    <2>2. cs[i].role \in Roles /\ cs[i].content \in Seq(BodyTexts)
        BY <2>1, ObjectOrNot
    <2>3. InternalRole(cs[i].role) \in Roles
      <3>1. "assistant" \in Roles
          BY BodyAssumption
      <3> QED BY <2>2, <3>1 DEF InternalRole
    <2>4. PICK r \in Roles, t \in BodyTexts :
              r = InternalRole(cs[i].role) /\ t = Joined(cs[i].content)
        BY <2>2, <2>3, JoinedIsText
    <2>5. Turn(r, t) \in BodyTurns
        BY DEF Turn, BodyTurns
    <2> QED BY <2>4, <2>5
  <1> QED BY <1>1 DEF ContentTurns

LEMMA ContentsReplaced ==
  ASSUME NEW cs \in Seq(Contents), NEW k, EndsAt(cs, k), NEW us, Retells(us, ContentTurns(cs, k)),
         NEW ns, ns = Replaced(cs, us, WithParts)
  PROVE  /\ ns \in Seq(Contents) /\ SameShape(ns, cs)
         /\ ContentTurns(ns, k) = us
  <1>1. PICK n \in Nat : n = Len(cs) /\ DOMAIN cs = 1 .. n
      OBVIOUS
  <1>2. /\ k \in 0 .. n /\ k \in Nat
        /\ \A i \in 1 .. n : (cs[i].dict <=> i <= k)
        /\ \A i \in 1 .. n : cs[i] \in Contents
      BY <1>1 DEF EndsAt
  <1>3. Len(ContentTurns(cs, k)) = k
      BY <1>2 DEF ContentTurns
  <1>4. DOMAIN us = 1 .. k
        /\ \A i \in 1 .. k : us[i] \in BodyTurns /\ us[i].role = InternalRole(cs[i].role)
    <2>1. us \in Seq(BodyTurns) /\ Len(us) = k
        BY <1>3 DEF Retells
    <2>2. ASSUME NEW i \in 1 .. k PROVE us[i].role = InternalRole(cs[i].role)
      <3>1. us[i].role = ContentTurns(cs, k)[i].role
          BY <1>3 DEF Retells
      <3> QED BY <3>1 DEF ContentTurns, Turn
    <2> QED BY <1>2, <2>1, <2>2
  <1>5. ns = [i \in 1 .. n |-> IF i \in 1 .. k /\ cs[i].dict
                               THEN [cs[i] EXCEPT !.content = <<us[i].text>>] ELSE cs[i]]
      BY <1>1, <1>4 DEF Replaced, WithParts
  <1>6. ASSUME NEW i \in 1 .. n, i <= k
        PROVE  /\ ns[i] = [cs[i] EXCEPT !.content = <<us[i].text>>]
               /\ ns[i] \in [dict : {TRUE}, role : Roles, content : Seq(BodyTexts)]
               /\ ns[i].role = cs[i].role /\ ns[i].content = <<us[i].text>>
    <2>1. i \in 1 .. k /\ cs[i].dict /\ us[i].text \in BodyTexts
        BY <1>2, <1>4, <1>6 DEF BodyTurns
    <2>2. ns[i] = [cs[i] EXCEPT !.content = <<us[i].text>>]
        BY <1>5, <2>1
    <2>3. cs[i] \in [dict : {TRUE}, role : Roles, content : Seq(BodyTexts)]
        BY <1>2, <2>1, ObjectOrNot
    <2>4. <<us[i].text>> \in Seq(BodyTexts)
        BY <2>1
    <2> QED BY <2>2, <2>3, <2>4
  <1>7. ASSUME NEW i \in 1 .. n, ~(i <= k) PROVE ns[i] = cs[i]
      BY <1>2, <1>5, <1>7
  <1>8. ASSUME NEW i \in 1 .. n
        PROVE  ns[i] \in Contents /\ (cs[i].dict <=> ns[i].dict)
                   /\ (cs[i].dict => cs[i].role = ns[i].role)
    <2>1. CASE i <= k
        BY <1>2, <1>6, <2>1 DEF Contents
    <2>2. CASE ~(i <= k)
        BY <1>2, <1>7, <2>2
    <2> QED BY <2>1, <2>2
  <1>9. ns \in [1 .. n -> Contents]
      BY <1>5, <1>8
  <1>10. ns \in Seq(Contents) /\ Len(ns) = n
      BY <1>9
  <1>11. SameShape(ns, cs)
      BY <1>1, <1>8, <1>10, SameShapeOf, BodyAssumption
  <1>12. ContentTurns(ns, k) = us
    <2>1. ASSUME NEW i \in 1 .. k
          PROVE  Turn(InternalRole(ns[i].role), Joined(ns[i].content)) = us[i]
      <3>1. i \in 1 .. n /\ i <= k
          BY <1>2
      <3>2. InternalRole(ns[i].role) = us[i].role /\ ns[i].content = <<us[i].text>>
          BY <1>4, <1>6, <3>1
      <3>3. us[i] \in BodyTurns /\ us[i].text \in BodyTexts
          BY <1>4 DEF BodyTurns
      <3>4. Joined(ns[i].content) = us[i].text
          BY <3>2, <3>3, OnePart
      <3> QED BY <3>2, <3>3, <3>4 DEF Turn, BodyTurns
    <2>2. us = [i \in 1 .. k |-> us[i]]
        BY <1>4 DEF Retells
    <2> QED BY <2>1, <2>2 DEF ContentTurns
  <1> QED BY <1>10, <1>11, <1>12

(* A request has no choices and no message, and gets none.                 *)
SameAnswers(c, b) == c.choices = b.choices /\ c.message = b.message

(* The rebuilt body, read again.                                           *)
IsRebuilt(c, b, us) == ExtractTurns(c) = us /\ Shape(c) = Shape(b)

LEMMA GatewayRebuilt ==
  ASSUME NEW ms \in Seq(Messages), ms # Missing, NEW b, b = Gateway(ms), Plain(b),
         NEW us, Retells(us, ExtractTurns(b)), NEW c, c = GatewayRebuild(b, us)
  PROVE  IsRebuilt(c, b, us)
  <1>1. /\ b.messages = ms /\ b.contents = Missing /\ b.candidates = Missing
        /\ b.system = Missing
      BY DEF Gateway, Chat
  <1>2. ListOf(ms) = ms
      BY DEF ListOf
  <1>3. PICK k : EndsAt(ms, k)
      BY <1>1, <1>2, ObjectsEnd DEF Plain
  <1>4. ~IsGemini(b)
      BY <1>1 DEF IsGemini
  <1>5. Retells(us, MessageTurns(ms, k))
      BY <1>1, <1>3, <1>4, GatewayReads DEF ExtractTurns
  <1>6. PICK ns : ns = Replaced(ms, us, WithContent)
      OBVIOUS
  <1>7. ns \in Seq(Messages) /\ SameShape(ns, ms) /\ MessageTurns(ns, k) = us
      BY <1>3, <1>5, <1>6, MessagesReplaced
  <1>8. /\ c.messages = ns /\ c.contents = Missing /\ c.candidates = Missing
        /\ c.system = Missing /\ SameAnswers(c, b)
      BY <1>1, <1>2, <1>6 DEF GatewayRebuild, Gateway, Chat, SameAnswers
  <1>9. EndsAt(ns, k)
      BY <1>3, <1>7 DEF SameShape
  <1>10. ExtractTurns(c) = us
    <2>1. ~IsGemini(c)
        BY <1>8 DEF IsGemini
    <2> QED BY <1>7, <1>8, <1>9, <2>1, GatewayReads DEF ExtractTurns
  <1>11. Shape(c) = Shape(b)
      BY <1>1, <1>7, <1>8 DEF SameShape, Shape, SameAnswers
  <1> QED BY <1>10, <1>11 DEF IsRebuilt

IsWith(v, x, t, k) ==
    Len(v) = k + 1 /\ v[1] = x /\ \A i \in 1 .. k : v[i + 1] = t[i]
IsRest(t, us, k) ==
    Len(t) = k /\ (\A i \in 1 .. k : t[i] = us[i + 1]) /\ <<us[1]>> \o t = us

LEMMA InFront ==
  ASSUME NEW S, NEW x \in S, NEW t \in Seq(S), NEW k \in Nat, Len(t) = k
  PROVE  IsWith(<<x>> \o t, x, t, k)
  BY DEF IsWith

LEMMA RestOf ==
  ASSUME NEW S, NEW k \in Nat, NEW us \in Seq(S), Len(us) = k + 1
  PROVE  \E t \in Seq(S) : t = Tail(us) /\ IsRest(t, us, k)
  <1>1. Tail(us) \in Seq(S) /\ Len(Tail(us)) = k /\ us[1] \in S
      OBVIOUS
  <1>2. \A i \in 1 .. k : Tail(us)[i] = us[i + 1]
      OBVIOUS
  <1>3. PICK t \in Seq(S) : t = Tail(us)
      BY <1>1
  <1>4. PICK v \in Seq(S) : v = <<us[1]>> \o t
      BY <1>1, <1>3, ConcatProperties
  <1>5. Len(v) = k + 1 /\ v[1] = us[1] /\ \A i \in 1 .. k : v[i + 1] = t[i]
      BY <1>1, <1>3, <1>4, InFront DEF IsWith
  <1>6. ASSUME NEW i \in 1 .. k + 1 PROVE v[i] = us[i]
    <2>1. CASE i = 1
        BY <1>5, <2>1
    <2>2. CASE i # 1
      <3>1. PICK j \in 1 .. k : i = j + 1
          BY <2>2
      <3> QED BY <1>2, <1>3, <1>5, <3>1
    <2> QED BY <2>1, <2>2
  <1>7. v = us
      BY <1>5, <1>6
  <1> QED BY <1>1, <1>2, <1>3, <1>4, <1>7 DEF IsRest

LEMMA GeminiRebuilt ==
  ASSUME NEW cs \in Seq(Contents), cs # Missing,
         NEW s, s = Missing \/ s \in Seq(BodyTexts), NEW b, b = Gemini(s, cs), Plain(b),
         NEW us, us # <<>>, Retells(us, ExtractTurns(b)), NEW c, c = GeminiRebuild(b, us)
  PROVE  IsRebuilt(c, b, us)
  <1>1. b.messages = Missing /\ b.contents = cs /\ b.candidates = Missing /\ b.system = s
      BY DEF Gemini, Gateway, Chat
  <1>2. ListOf(cs) = cs
      BY DEF ListOf
  <1>3. PICK k : EndsAt(cs, k)
      BY <1>1, <1>2, ObjectsEnd DEF Plain
  <1>4. PICK ct \in Seq(BodyTurns) : ct = ContentTurns(cs, k) /\ Len(ct) = k /\ k \in Nat
    <2>1. ContentTurns(cs, k) \in [1 .. k -> BodyTurns] /\ k \in Nat
        BY <1>3, ContentTurnsTyped DEF EndsAt
    <2> QED BY <2>1
  <1>5. GeminiTurns(b) = SystemTurns(b) \o ct
      BY <1>1, <1>3, <1>4, GeminiReads
  <1>6. IsGemini(b) /\ Retells(us, GeminiTurns(b))
      BY <1>1 DEF IsGemini, ExtractTurns
  <1>7. PICK m \in Nat : m = Len(us) /\ m # 0 /\ us \in Seq(BodyTurns)
      BY <1>6 DEF Retells
  <1>8. CASE SystemTurns(b) = <<>>
    <2>1. GeminiTurns(b) = ct
        BY <1>4, <1>5, <1>8, ConcatEmptySeq
    <2>2. ~TakesSystem(b, us)
      <3>1. us[1].role = ct[1].role /\ ct # <<>>
        <4>1. Len(ct) = m /\ 1 \in 1 .. m
            BY <1>6, <1>7, <2>1 DEF Retells
        <4> QED BY <1>6, <2>1, <4>1 DEF Retells
      <3>2. b.system # Missing => ct[1].role # "system"
          BY <1>8, <2>1, <3>1 DEF Plain
      <3> QED BY <3>1, <3>2 DEF TakesSystem
    <2>3. PICK ns : ns = Replaced(cs, us, WithParts)
        OBVIOUS
    <2>4. ns \in Seq(Contents) /\ SameShape(ns, cs) /\ ContentTurns(ns, k) = us
        BY <1>3, <1>4, <1>6, <2>1, <2>3, ContentsReplaced
    <2>5. /\ c.messages = Missing /\ c.contents = ns /\ c.candidates = Missing
          /\ c.system = s /\ SameAnswers(c, b)
        BY <1>1, <1>2, <2>2, <2>3 DEF GeminiRebuild, Gemini, Gateway, Chat, SameAnswers
    <2>6. SystemTurns(c) = <<>>
        BY <1>1, <1>8, <2>5 DEF SystemTurns
    <2>7. EndsAt(ns, k)
        BY <1>3, <2>4 DEF SameShape
    <2>8. GeminiTurns(c) = <<>> \o us
        BY <2>4, <2>5, <2>6, <2>7, GeminiReads
    <2>9. ns # Missing
        BY <2>4, BodyAssumption
    <2>10. ExtractTurns(c) = us
        BY <1>7, <2>5, <2>8, <2>9, ConcatEmptySeq DEF ExtractTurns, IsGemini
    <2>11. Shape(c) = Shape(b)
        BY <1>1, <2>4, <2>5 DEF SameShape, Shape, SameAnswers
    <2> QED BY <2>10, <2>11 DEF IsRebuilt
  <1>9. CASE SystemTurns(b) # <<>>
    <2>1. PICK t \in BodyTexts :
              SystemTurns(b) = <<Turn("system", t)>> /\ t # <<>> /\ s # Missing
      <3>1. s # Missing /\ Joined(ListOf(s)) # <<>> /\ SystemTurns(b) = <<Turn("system", Joined(s))>>
          BY <1>1, <1>9 DEF SystemTurns
      <3> QED BY <3>1, JoinedIsText DEF ListOf
    <2>2. Len(GeminiTurns(b)) = k + 1 /\ GeminiTurns(b)[1] = Turn("system", t)
          /\ \A i \in 1 .. k : GeminiTurns(b)[i + 1] = ct[i]
      <3>1. Turn("system", t) \in BodyTurns
          BY BodyAssumption DEF Turn, BodyTurns
      <3>2. PICK x \in BodyTurns : x = Turn("system", t)
          BY <3>1
      <3>3. IsWith(<<x>> \o ct, x, ct, k)
          BY <1>4, InFront
      <3> QED BY <1>5, <2>1, <3>2, <3>3 DEF IsWith
    <2>3. m = k + 1
        BY <1>6, <1>7, <2>2 DEF Retells
    <2>4. us[1].role = "system" /\ us[1].text # <<>> /\ us[1] \in BodyTurns
      <3>1. 1 \in 1 .. k + 1
          BY <1>4
      <3> QED BY <1>6, <1>7, <2>1, <2>2, <2>3, <3>1 DEF Retells, Turn
    <2>5. PICK rest \in Seq(BodyTurns) : rest = Tail(us) /\ IsRest(rest, us, k)
        BY <1>4, <1>7, <2>3, RestOf
    <2>6. Retells(rest, ct)
      <3>1. ASSUME NEW i \in 1 .. k
            PROVE  rest[i].role = ct[i].role /\ (ct[i].text # <<>> => rest[i].text # <<>>)
        <4>1. i + 1 \in 1 .. k + 1 /\ rest[i] = us[i + 1] /\ GeminiTurns(b)[i + 1] = ct[i]
            BY <1>4, <2>2, <2>5 DEF IsRest
        <4> QED BY <1>6, <2>2, <4>1 DEF Retells
      <3> QED BY <1>4, <2>5, <3>1 DEF Retells, IsRest
    <2>7. TakesSystem(b, us)
        BY <1>1, <2>1, <2>4 DEF TakesSystem
    <2>8. PICK ns : ns = Replaced(cs, rest, WithParts)
        OBVIOUS
    <2>9. ns \in Seq(Contents) /\ SameShape(ns, cs) /\ ContentTurns(ns, k) = rest
        BY <1>3, <1>4, <2>6, <2>8, ContentsReplaced
    <2>10. /\ c.messages = Missing /\ c.contents = ns /\ c.candidates = Missing
           /\ c.system = <<us[1].text>> /\ SameAnswers(c, b)
        BY <1>1, <1>2, <2>5, <2>7, <2>8 DEF GeminiRebuild, Gemini, Gateway, Chat, SameAnswers
    <2>11. us[1].text \in BodyTexts /\ us[1] = Turn("system", us[1].text)
        BY <2>4 DEF BodyTurns, Turn
    <2>12. <<us[1].text>> # Missing /\ Joined(<<us[1].text>>) = us[1].text
      <3>1. <<us[1].text>> \in Seq(BodyTexts)
          BY <2>11
      <3> QED BY <2>11, <3>1, OnePart, BodyAssumption
    <2>13. SystemTurns(c) = <<us[1]>>
        BY <2>4, <2>10, <2>11, <2>12 DEF SystemTurns, ListOf
    <2>14. EndsAt(ns, k)
        BY <1>3, <2>9 DEF SameShape
    <2>15. GeminiTurns(c) = <<us[1]>> \o rest
        BY <2>9, <2>10, <2>13, <2>14, GeminiReads
    <2>16. <<us[1]>> \o rest = us
        BY <2>5 DEF IsRest
    <2>17. ns # Missing
        BY <2>9, BodyAssumption
    <2>18. ExtractTurns(c) = us
        BY <2>10, <2>15, <2>16, <2>17 DEF ExtractTurns, IsGemini
    <2>19. Shape(c) = Shape(b)
        BY <1>1, <2>1, <2>9, <2>10, <2>12 DEF SameShape, Shape, SameAnswers
    <2> QED BY <2>18, <2>19 DEF IsRebuilt
  <1> QED BY <1>8, <1>9

(* Only the latest text changes: the turns up to it stay.                  *)
LatestIs(us, ts, said) == us = [ts EXCEPT ![Len(ts)].text = said]

LEMMA LatestRetold ==
  ASSUME NEW ts \in Seq(BodyTurns), ts # <<>>, NEW said \in NewTexts,
         NEW us, LatestIs(us, ts, said)
  PROVE  /\ Retells(us, ts) /\ us # <<>> /\ Len(us) = Len(ts)
         /\ \A i \in 1 .. Len(ts) - 1 : us[i] = ts[i]
  <1>1. PICK n \in Nat : n = Len(ts) /\ n # 0 /\ ts \in [1 .. n -> BodyTurns]
      OBVIOUS
  <1>2. said \in BodyTexts /\ said # <<>>
      BY BodyAssumption
  <1>3. us = [i \in 1 .. n |-> IF i = n THEN [ts[n] EXCEPT !.text = said] ELSE ts[i]]
      BY <1>1 DEF LatestIs
  <1>4. ts[n] \in BodyTurns
      BY <1>1
  <1>5. /\ [ts[n] EXCEPT !.text = said] \in BodyTurns
        /\ [ts[n] EXCEPT !.text = said].role = ts[n].role
        /\ [ts[n] EXCEPT !.text = said].text = said
      BY <1>2, <1>4 DEF BodyTurns
  <1>6. us \in [1 .. n -> BodyTurns]
      BY <1>1, <1>3, <1>5
  <1>7. us \in Seq(BodyTurns) /\ Len(us) = n
      BY <1>6
  <1>8. \A i \in 1 .. n : us[i].role = ts[i].role /\ (ts[i].text # <<>> => us[i].text # <<>>)
      BY <1>2, <1>3, <1>5
  <1>9. \A i \in 1 .. n - 1 : us[i] = ts[i]
      BY <1>3
  <1> QED BY <1>1, <1>7, <1>8, <1>9 DEF Retells

LEMMA NothingRead ==
  ASSUME NEW b, b.contents = Missing, b.candidates = Missing, b.messages = Missing
  PROVE  ExtractTurns(b) = <<>>
  <1>1. ExtractTurns(b) = GatewayTurns(b)
      BY DEF ExtractTurns, IsGemini
  <1>2. PICK ms \in Seq(Messages) : ms = <<>>
      BY EmptySeq
  <1>3. EndsAt(ms, 0)
      BY <1>2 DEF EndsAt
  <1>4. Objects(ms) = FirstOf(ms, 0)
      BY <1>3, ObjectsAre
  <1>5. DOMAIN FirstOf(ms, 0) = {}
      BY DEF FirstOf
  <1>6. GatewayTurns(b) = <<>>
      BY <1>2, <1>4, <1>5 DEF GatewayTurns, ListOf
  <1> QED BY <1>1, <1>6

(* The turns of a request are typed.                                       *)
LEMMA TurnsTyped ==
  ASSUME NEW b \in Requests, Plain(b)
  PROVE  ExtractTurns(b) \in Seq(BodyTurns)
  <1>1. CASE IsGatewayBody(b)
    <2>1. b.contents = Missing /\ b.candidates = Missing
        BY <1>1 DEF IsGatewayBody, Gateway, Chat
    <2>2. PICK ms \in Seq(Messages) : ms = ListOf(b.messages)
      <3>1. CASE b.messages = Missing
        <4>1. ListOf(b.messages) = <<>>
            BY <3>1 DEF ListOf
        <4> QED BY <4>1, EmptySeq
      <3>2. CASE b.messages # Missing
          BY <1>1, <3>2 DEF IsGatewayBody, IsList, ListOf
      <3> QED BY <3>1, <3>2
    <2>3. PICK k : EndsAt(ms, k)
        BY <2>2, ObjectsEnd DEF Plain
    <2>4. ExtractTurns(b) = MessageTurns(ms, k)
      <3>1. Objects(ms) = FirstOf(ms, k)
          BY <2>3, ObjectsAre
      <3>2. DOMAIN FirstOf(ms, k) = 1 .. k /\ \A i \in 1 .. k : FirstOf(ms, k)[i] = ms[i]
          BY DEF FirstOf
      <3> QED BY <2>1, <2>2, <3>1, <3>2 DEF ExtractTurns, IsGemini, GatewayTurns, MessageTurns
    <2>5. ASSUME NEW i \in 1 .. k PROVE Turn(ms[i].role, ms[i].content) \in BodyTurns
      <3>1. i \in 1 .. Len(ms) /\ ms[i].dict /\ ms[i] \in Messages
          BY <2>3 DEF EndsAt
      <3>2. PICK r \in Roles, t \in BodyTexts : r = ms[i].role /\ t = ms[i].content
          BY <3>1, ObjectOrNot
      <3>3. Turn(r, t) \in BodyTurns
          BY DEF Turn, BodyTurns
      <3> QED BY <3>2, <3>3
    <2>6. MessageTurns(ms, k) \in [1 .. k -> BodyTurns] /\ k \in Nat
        BY <2>3, <2>5 DEF MessageTurns, EndsAt
    <2> QED BY <2>4, <2>6
  <1>2. CASE IsGeminiBody(b) /\ b.contents # Missing
    <2>1. b.contents \in Seq(Contents) /\ ListOf(b.contents) = b.contents
        BY <1>2 DEF IsGeminiBody, IsList, ListOf
    <2>2. PICK cs \in Seq(Contents) : cs = b.contents
        BY <2>1
    <2>3. PICK k : EndsAt(cs, k)
        BY <2>1, <2>2, ObjectsEnd DEF Plain
    <2>4. ContentTurns(cs, k) \in Seq(BodyTurns)
      <3>1. ContentTurns(cs, k) \in [1 .. k -> BodyTurns] /\ k \in Nat
          BY <2>3, ContentTurnsTyped DEF EndsAt
      <3> QED BY <3>1
    <2>5. SystemTurns(b) \in Seq(BodyTurns)
      <3>1. CASE SystemTurns(b) = <<>>
          BY <3>1
      <3>2. CASE SystemTurns(b) # <<>>
        <4>1. b.system # Missing /\ SystemTurns(b) = <<Turn("system", Joined(b.system))>>
            BY <3>2 DEF SystemTurns
        <4>2. PICK t \in BodyTexts : t = Joined(b.system)
            BY <1>2, <4>1, JoinedIsText DEF IsGeminiBody, IsList
        <4>3. Turn("system", t) \in BodyTurns
            BY BodyAssumption DEF Turn, BodyTurns
        <4> QED BY <4>1, <4>2, <4>3
      <3> QED BY <3>1, <3>2
    <2>6. ExtractTurns(b) = SystemTurns(b) \o ContentTurns(cs, k)
        BY <1>2, <2>2, <2>3, GeminiReads DEF ExtractTurns, IsGemini
    <2> QED BY <2>4, <2>5, <2>6, ConcatProperties
  <1>3. CASE IsGeminiBody(b) /\ b.contents = Missing
    <2>1. b.contents = Missing /\ b.candidates = Missing /\ b.messages = Missing
        BY <1>3 DEF IsGeminiBody, Gemini, Gateway, Chat
    <2>2. ExtractTurns(b) = <<>>
        BY <2>1, NothingRead
    <2> QED BY <2>2, EmptySeq
  <1> QED BY <1>1, <1>2, <1>3, BodyAssumption

(* A response: the item that is read is the one that is replaced.          *)
ReadsText(c, b, said) == ParseResponse(c) = said /\ Shape(c) = Shape(b)

(* The new content of one item of a list.                                  *)
Retold(items, n, said) == [items EXCEPT ![n].content = said]

LEMMA RetoldItem ==
  ASSUME NEW items \in Seq(Messages), NEW n \in 1 .. Len(items), items[n].dict,
         NEW said \in BodyTexts, NEW ns, ns = Retold(items, n, said)
  PROVE  /\ ns \in Seq(Messages) /\ ns # Missing /\ Len(ns) = Len(items)
         /\ ns[n].dict /\ ns[n].content = said
         /\ SameShape(ns, items)
  <1>1. items[n] \in [dict : {TRUE}, role : Roles, content : BodyTexts]
    <2>1. items[n] \in Messages
        OBVIOUS
    <2> QED BY <2>1, ObjectOrNot
  <1>2. PICK m : m = [items[n] EXCEPT !.content = said]
      OBVIOUS
  <1>3. m \in Messages /\ m.dict /\ m.role = items[n].role /\ m.content = said
      BY <1>1, <1>2 DEF Messages
  <1>4. ns = [items EXCEPT ![n] = m]
      BY <1>2 DEF Retold
  <1>5. /\ ns \in Seq(Messages) /\ Len(ns) = Len(items) /\ ns[n] = m
        /\ \A i \in 1 .. Len(items) : i # n => ns[i] = items[i]
      BY <1>3, <1>4
  <1>6. SameShape(ns, items)
    <2>1. ASSUME NEW i \in 1 .. Len(items)
          PROVE  /\ items[i].dict <=> ns[i].dict
                 /\ items[i].dict => items[i].role = ns[i].role
        BY <1>3, <1>5
    <2> QED BY <1>5, <2>1, SameShapeOf, BodyAssumption
  <1> QED BY <1>3, <1>5, <1>6, BodyAssumption

(* The first or the last item, which is an object.                         *)
LEMMA LastItem ==
  ASSUME NEW items \in Seq(Messages)
  PROVE  /\ LastIsDict(items) <=> Len(items) # 0 /\ items[Len(items)].dict
         /\ FirstIsDict(items) <=> Len(items) # 0 /\ items[1].dict
         /\ Last(items) = items[Len(items)]
  <1>1. items = <<>> <=> Len(items) = 0
      BY EmptySeq
  <1>2. items # <<>> => Head(items) = items[1]
      OBVIOUS
  <1> QED BY <1>1, <1>2 DEF LastIsDict, FirstIsDict, Last

LEMMA GatewayResponse ==
  ASSUME NEW b \in Responses, IsChatBody(b), ParseResponse(b) # <<>>,
         NEW said \in BodyTexts, NEW c, c = GatewayRebuildResponse(b, said)
  PROVE  ReadsText(c, b, said)
  <1>1. b = Chat(b.messages, b.choices, b.message)
      BY DEF IsChatBody
  <1>2. b.contents = Missing /\ b.candidates = Missing /\ b.system = Missing
      BY <1>1 DEF Chat
  <1>3. PICK ms \in Seq(Messages), hs \in Seq(Messages), m \in Seq(Messages) :
            ms = ListOf(b.messages) /\ hs = ListOf(b.choices) /\ m = ListOf(b.message)
    <2>1. ASSUME NEW field \in {b.messages, b.choices, b.message}
          PROVE  ListOf(field) \in Seq(Messages)
      <3>1. field = Missing \/ field \in Seq(Messages)
          BY DEF IsChatBody, IsList
      <3> QED BY <3>1, EmptySeq DEF ListOf
    <2> QED BY <2>1
  <1>4. ParseResponse(b) = GatewayText(b)
      BY <1>2 DEF ParseResponse, IsGemini
  <1>5. CASE LastIsDict(ms)
    <2>1. Len(ms) # 0 /\ ms[Len(ms)].dict
        BY <1>5, LastItem
    <2>2. b.messages = ms /\ Len(ms) \in 1 .. Len(ms)
        BY <1>3, <2>1 DEF ListOf
    <2>3. PICK ns : ns = Retold(ms, Len(ms), said)
        OBVIOUS
    <2>4. /\ ns \in Seq(Messages) /\ ns # Missing /\ Len(ns) = Len(ms)
          /\ ns[Len(ms)].dict /\ ns[Len(ms)].content = said /\ SameShape(ns, ms)
        BY <2>1, <2>2, <2>3, RetoldItem
    <2>5. c = Chat(ns, b.choices, b.message)
      <3>1. c = [b EXCEPT !.messages[Len(ms)].content = said]
          BY <1>3, <1>5, <2>2 DEF GatewayRebuildResponse
      <3>2. c = [b EXCEPT !.messages = ns]
          BY <2>2, <2>3, <3>1 DEF Retold
      <3> QED BY <1>1, <3>2 DEF Chat
    <2>6. /\ c.messages = ns /\ c.choices = b.choices /\ c.message = b.message
          /\ c.contents = Missing /\ c.candidates = Missing /\ c.system = Missing
        BY <2>5 DEF Chat
    <2>7. ListOf(c.messages) = ns /\ LastIsDict(ns) /\ Last(ns).content = said
        BY <2>1, <2>4, <2>6, LastItem DEF ListOf
    <2>8. ParseResponse(c) = said
        BY <2>6, <2>7 DEF ParseResponse, IsGemini, GatewayText
    <2>9. Shape(c) = Shape(b)
        BY <1>2, <2>2, <2>4, <2>6 DEF SameShape, Shape
    <2> QED BY <2>8, <2>9 DEF ReadsText
  <1>6. CASE ~LastIsDict(ms) /\ FirstIsDict(hs)
    <2>1. Len(hs) # 0 /\ hs[1].dict
        BY <1>6, LastItem
    <2>2. b.choices = hs /\ 1 \in 1 .. Len(hs)
        BY <1>3, <2>1 DEF ListOf
    <2>3. PICK ns : ns = Retold(hs, 1, said)
        OBVIOUS
    <2>4. /\ ns \in Seq(Messages) /\ ns # Missing /\ Len(ns) = Len(hs)
          /\ ns[1].dict /\ ns[1].content = said /\ SameShape(ns, hs)
        BY <2>1, <2>2, <2>3, RetoldItem
    <2>5. c = Chat(b.messages, ns, b.message)
      <3>1. c = [b EXCEPT !.choices[1].content = said]
          BY <1>3, <1>6 DEF GatewayRebuildResponse
      <3>2. c = [b EXCEPT !.choices = ns]
          BY <2>2, <2>3, <3>1 DEF Retold
      <3> QED BY <1>1, <3>2 DEF Chat
    <2>6. /\ c.messages = b.messages /\ c.choices = ns /\ c.message = b.message
          /\ c.contents = Missing /\ c.candidates = Missing /\ c.system = Missing
        BY <2>5 DEF Chat
    <2>7. ListOf(c.choices) = ns /\ FirstIsDict(ns) /\ c.choices[1].content = said
        BY <2>1, <2>4, <2>6, LastItem DEF ListOf
    <2>8. ParseResponse(c) = said
        BY <1>3, <1>6, <2>6, <2>7 DEF ParseResponse, IsGemini, GatewayText
    <2>9. Shape(c) = Shape(b)
        BY <1>2, <2>2, <2>4, <2>6 DEF SameShape, Shape
    <2> QED BY <2>8, <2>9 DEF ReadsText
  <1>7. CASE ~LastIsDict(ms) /\ ~FirstIsDict(hs)
    <2>1. FirstIsDict(m)
        BY <1>3, <1>4, <1>7 DEF GatewayText
    <2>2. Len(m) # 0 /\ m[1].dict
        BY <2>1, LastItem
    <2>3. b.message = m /\ 1 \in 1 .. Len(m)
        BY <1>3, <2>2 DEF ListOf
    <2>4. PICK ns : ns = Retold(m, 1, said)
        OBVIOUS
    <2>5. /\ ns \in Seq(Messages) /\ ns # Missing /\ Len(ns) = Len(m)
          /\ ns[1].dict /\ ns[1].content = said /\ SameShape(ns, m)
        BY <2>2, <2>3, <2>4, RetoldItem
    <2>6. c = Chat(b.messages, b.choices, ns)
      <3>1. c = [b EXCEPT !.message[1].content = said]
          BY <1>3, <1>7, <2>1 DEF GatewayRebuildResponse
      <3>2. c = [b EXCEPT !.message = ns]
          BY <2>3, <2>4, <3>1 DEF Retold
      <3> QED BY <1>1, <3>2 DEF Chat
    <2>7. /\ c.messages = b.messages /\ c.choices = b.choices /\ c.message = ns
          /\ c.contents = Missing /\ c.candidates = Missing /\ c.system = Missing
        BY <2>6 DEF Chat
    <2>8. ListOf(c.message) = ns /\ FirstIsDict(ns) /\ c.message[1].content = said
        BY <2>2, <2>5, <2>7, LastItem DEF ListOf
    <2>9. ParseResponse(c) = said
        BY <1>3, <1>7, <2>7, <2>8 DEF ParseResponse, IsGemini, GatewayText
    <2>10. Shape(c) = Shape(b)
        BY <1>2, <2>3, <2>5, <2>7 DEF SameShape, Shape
    <2> QED BY <2>9, <2>10 DEF ReadsText
  <1> QED BY <1>5, <1>6, <1>7

LEMMA GeminiResponse ==
  ASSUME NEW b \in Responses, IsCandidatesBody(b), ParseResponse(b) # <<>>,
         NEW said \in BodyTexts, NEW c, c = GeminiRebuildResponse(b, said)
  PROVE  ReadsText(c, b, said)
  <1>1. PICK cs \in Seq(Contents) : cs = b.candidates /\ cs # Missing /\ b = Candidates(cs)
      BY DEF IsCandidatesBody, IsList
  <1>2. b.contents = Missing /\ b.messages = Missing /\ b.system = Missing
      BY <1>1 DEF Candidates, Gateway, Chat
  <1>3. ListOf(cs) = cs
      BY <1>1 DEF ListOf
  <1>4. FirstIsDict(ListOf(b.candidates))
      BY <1>1, <1>2 DEF ParseResponse, IsGemini, GeminiText
  <1>5. PICK n \in Nat : n = Len(cs) /\ n # 0 /\ DOMAIN cs = 1 .. n
      BY <1>1, <1>3, <1>4 DEF FirstIsDict
  <1>6. cs[1].dict /\ cs[1] \in Contents /\ 1 \in 1 .. n
      BY <1>1, <1>3, <1>4, <1>5 DEF FirstIsDict
  <1>7. cs[1] \in [dict : {TRUE}, role : Roles, content : Seq(BodyTexts)]
      BY <1>6, ObjectOrNot
  <1>8. PICK m : m = [cs[1] EXCEPT !.content = <<said>>]
      OBVIOUS
  <1>9. m \in Contents /\ m.dict /\ m.role = cs[1].role /\ m.content = <<said>>
    <2>1. <<said>> \in Seq(BodyTexts)
        OBVIOUS
    <2> QED BY <1>7, <1>8, <2>1 DEF Contents
  <1>10. PICK ns : ns = [cs EXCEPT ![1] = m]
      OBVIOUS
  <1>11. ns \in Seq(Contents) /\ Len(ns) = n /\ ns[1] = m
         /\ \A i \in 1 .. n : i # 1 => ns[i] = cs[i]
      BY <1>5, <1>6, <1>9, <1>10
  <1>12. /\ c.candidates = ns /\ c.contents = Missing /\ c.messages = Missing
         /\ c.system = Missing /\ SameAnswers(c, b)
    <2>1. c = [b EXCEPT !.candidates[1].content = <<said>>]
        BY <1>4 DEF GeminiRebuildResponse
    <2>2. c = [b EXCEPT !.candidates = ns]
        BY <1>1, <1>8, <1>10, <2>1
    <2> QED BY <1>1, <2>2 DEF Candidates, Gateway, Chat, SameAnswers
  <1>13. ns # Missing /\ ListOf(ns) = ns /\ ns # <<>> /\ Head(ns) = m
      BY <1>5, <1>11, BodyAssumption DEF ListOf
  <1>14. ParseResponse(c) = said
    <2>1. Joined(<<said>>) = said
        BY OnePart
    <2> QED BY <1>9, <1>11, <1>12, <1>13, <2>1
            DEF ParseResponse, IsGemini, GeminiText, FirstIsDict
  <1>15. SameShape(ns, cs)
    <2>1. ASSUME NEW i \in 1 .. n
          PROVE  (cs[i].dict <=> ns[i].dict) /\ (cs[i].dict => cs[i].role = ns[i].role)
        BY <1>6, <1>9, <1>11
    <2> QED BY <1>5, <1>11, <2>1, SameShapeOf, BodyAssumption
  <1> QED BY <1>1, <1>2, <1>12, <1>14, <1>15 DEF ReadsText, Shape, SameShape, SameAnswers

(* A request and its turns, of which the latest was changed.               *)
LEMMA RequestRebuilt ==
  ASSUME NEW b \in Requests, Plain(b), NEW ts, ts = ExtractTurns(b), ts # <<>>,
         NEW said \in NewTexts, NEW us, LatestIs(us, ts, said),
         NEW c, c = IF IsGemini(b) THEN GeminiRebuild(b, us) ELSE GatewayRebuild(b, us)
  PROVE  IsRebuilt(c, b, us)
  <1>1. ts \in Seq(BodyTurns)
      BY TurnsTyped
  <1>2. Retells(us, ts) /\ us # <<>>
      BY <1>1, LatestRetold
  <1>3. CASE IsGatewayBody(b)
    <2>1. b = Gateway(b.messages) /\ b.contents = Missing /\ b.candidates = Missing
        BY <1>3 DEF IsGatewayBody, Gateway, Chat
    <2>2. b.messages # Missing
        BY <2>1, NothingRead
    <2>3. PICK ms \in Seq(Messages) : ms = b.messages /\ ms # Missing
        BY <1>3, <2>2 DEF IsGatewayBody, IsList
    <2>4. c = GatewayRebuild(b, us)
        BY <2>1 DEF IsGemini
    <2> QED BY <1>2, <2>1, <2>3, <2>4, GatewayRebuilt
  <1>4. CASE IsGeminiBody(b)
    <2>1. /\ b = Gemini(b.system, b.contents) /\ b.messages = Missing /\ b.candidates = Missing
        BY <1>4 DEF IsGeminiBody, Gemini, Gateway, Chat
    <2>2. b.contents # Missing
        BY <2>1, NothingRead
    <2>3. PICK cs \in Seq(Contents) : cs = b.contents /\ cs # Missing
        BY <1>4, <2>2 DEF IsGeminiBody, IsList
    <2>4. PICK s : s = b.system /\ (s = Missing \/ s \in Seq(BodyTexts))
        BY <1>4 DEF IsGeminiBody, IsList
    <2>5. c = GeminiRebuild(b, us) /\ b = Gemini(s, cs)
        BY <2>1, <2>2, <2>3, <2>4 DEF IsGemini
    <2> QED BY <1>2, <2>3, <2>4, <2>5, GeminiRebuilt
  <1> QED BY <1>3, <1>4, BodyAssumption

LEMMA ResponseRebuilt ==
  ASSUME NEW b \in Responses, ParseResponse(b) # <<>>, NEW said \in NewTexts,
         NEW c, c = IF IsGemini(b) THEN GeminiRebuildResponse(b, said)
                    ELSE GatewayRebuildResponse(b, said)
  PROVE  ReadsText(c, b, said)
  <1>1. said \in BodyTexts
      BY BodyAssumption
  <1>2. CASE IsChatBody(b)
    <2>1. ~IsGemini(b)
        BY <1>2 DEF IsChatBody, Chat, IsGemini
    <2> QED BY <1>1, <1>2, <2>1, GatewayResponse
  <1>3. CASE IsCandidatesBody(b)
    <2>1. IsGemini(b)
        BY <1>3 DEF IsCandidatesBody, Candidates, Gateway, Chat, IsList, IsGemini
    <2> QED BY <1>1, <1>3, <2>1, GeminiResponse
  <1> QED BY <1>2, <1>3, BodyAssumption

(* What the body says, and how the turns differ from it.                   *)
ReadTurns ==
    IF direction = "input" THEN ExtractTurns(body)
    ELSE <<Turn("assistant", ParseResponse(body))>>
BodyInv ==
    /\ direction \in {"input", "output"}
    /\ stage \in {"received", "extracted", "staged", "sent"}
    /\ stage # "sent" => body \in (IF direction = "input" THEN Requests ELSE Responses)
    /\ stage = "extracted" => turns = ReadTurns
    /\ stage = "staged" =>
           /\ ReadTurns # <<>> /\ Last(ReadTurns).text # <<>>
           /\ \E said \in NewTexts : LatestIs(turns, ReadTurns, said)
    /\ stage = "sent" => turns = ReadTurns

(* The sent body, from which the turns can be read.                        *)
Holds(c, b, us) ==
    /\ us = IF direction = "input" THEN ExtractTurns(c)
            ELSE <<Turn("assistant", ParseResponse(c))>>
    /\ Shape(c) = Shape(b) /\ EarlierTexts(c) = EarlierTexts(b)

LEMMA RebuildHolds ==
  ASSUME \A b \in Requests : Plain(b), BodyInv, Rebuild
  PROVE  Holds(body', body, turns)
  <1>1. stage = "staged" /\ direction \in {"input", "output"}
      BY DEF Rebuild, BodyInv
  <1>2. PICK c : c = body'
      OBVIOUS
  <1>3. PICK said \in NewTexts : LatestIs(turns, ReadTurns, said)
      BY <1>1 DEF BodyInv
  <1>4. CASE direction = "input"
    <2>1. PICK ts : ts = ExtractTurns(body) /\ ts = ReadTurns
        BY <1>4 DEF ReadTurns
    <2>2. ts # <<>> /\ body \in Requests /\ Plain(body) /\ LatestIs(turns, ts, said)
        BY <1>1, <1>3, <1>4, <2>1 DEF BodyInv
    <2>3. c = IF IsGemini(body) THEN GeminiRebuild(body, turns) ELSE GatewayRebuild(body, turns)
        BY <1>2, <1>4 DEF Rebuild
    <2>4. IsRebuilt(c, body, turns)
        BY <2>1, <2>2, <2>3, RequestRebuilt
    <2>5. ts \in Seq(BodyTurns)
        BY <2>1, <2>2, TurnsTyped
    <2>6. Len(turns) = Len(ts) /\ \A i \in 1 .. Len(ts) - 1 : turns[i] = ts[i]
        BY <2>2, <2>5, LatestRetold
    <2>7. EarlierTexts(c) = EarlierTexts(body)
        BY <1>4, <2>1, <2>4, <2>6 DEF EarlierTexts, IsRebuilt
    <2> QED BY <1>2, <1>4, <2>4, <2>7 DEF Holds, IsRebuilt
  <1>5. CASE direction = "output"
    <2>1. PICK r : r = ParseResponse(body) /\ ReadTurns = <<Turn("assistant", r)>>
        BY <1>5 DEF ReadTurns
    <2>2. body \in Responses /\ r # <<>>
      <3>1. Last(ReadTurns).text = r
          BY <2>1 DEF Last, Turn
      <3> QED BY <1>1, <1>5, <3>1 DEF BodyInv
    <2>3. turns = <<Turn("assistant", said)>>
        BY <1>3, <2>1 DEF LatestIs, Turn
    <2>4. turns[1].text = said
        BY <2>3 DEF Turn
    <2>5. c = IF IsGemini(body) THEN GeminiRebuildResponse(body, said)
              ELSE GatewayRebuildResponse(body, said)
        BY <1>2, <1>5, <2>4 DEF Rebuild
    <2>6. ReadsText(c, body, said)
        BY <2>1, <2>2, <2>5, ResponseRebuilt
    <2>7. EarlierTexts(c) = EarlierTexts(body)
        BY <1>5 DEF EarlierTexts
    <2> QED BY <1>2, <1>5, <2>3, <2>6, <2>7 DEF Holds, ReadsText
  <1> QED BY <1>1, <1>4, <1>5

LEMMA BodyInvInit == BodyInit => BodyInv
  BY DEF BodyInit, BodyInv

LEMMA BodyInvKept ==
  ASSUME \A b \in Requests : Plain(b), BodyInv, [BodyNext]_bodyVars
  PROVE  BodyInv'
  <1>1. CASE Extract
      BY <1>1 DEF Extract, BodyInv, ReadTurns
  <1>2. ASSUME NEW said \in NewTexts, ChangeText(said) PROVE BodyInv'
    <2>1. stage = "extracted" /\ stage' = "staged" /\ turns = ReadTurns
        BY <1>2 DEF ChangeText, BodyInv
    <2>2. ReadTurns' = ReadTurns /\ body' = body /\ direction' = direction
        BY <1>2 DEF ChangeText, ReadTurns
    <2>3. ReadTurns # <<>> /\ Last(ReadTurns).text # <<>> /\ LatestIs(turns', ReadTurns, said)
        BY <1>2, <2>1 DEF ChangeText, LatestIs
    <2> QED BY <2>1, <2>2, <2>3 DEF BodyInv
  <1>3. CASE PassOn
      BY <1>3 DEF PassOn, BodyInv, ReadTurns
  <1>4. CASE Rebuild
    <2>1. stage' = "sent" /\ direction' = direction /\ turns' = turns
        BY <1>4 DEF Rebuild
    <2>2. turns = ReadTurns'
        BY <1>4, <2>1, RebuildHolds DEF Holds, ReadTurns
    <2> QED BY <2>1, <2>2 DEF BodyInv
  <1>5. CASE UNCHANGED bodyVars
      BY <1>5 DEF bodyVars, BodyInv, ReadTurns
  <1> QED BY <1>1, <1>2, <1>3, <1>4, <1>5 DEF BodyNext

LEMMA BodyInvHolds ==
  ASSUME \A b \in Requests : Plain(b)
  PROVE  BodySpec => []BodyInv
  <1>1. BodyInv /\ [BodyNext]_bodyVars => BodyInv'
      BY BodyInvKept
  <1> QED BY <1>1, BodyInvInit, PTL DEF BodySpec

(* A body that is sent on says what the stages left: read again by its     *)
(* adapter it gives their turns, if the requests are such as rebuild can   *)
(* put together (gateway.py:37, gemini.py:75-85).                          *)
THEOREM SentBodySaysTurns ==
  ASSUME \A b \in Requests : Plain(b)
  PROVE  BodySpec => []SentBodyHoldsTurns
  <1>1. BodyInv => SentBodyHoldsTurns
      BY DEF BodyInv, SentBodyHoldsTurns, ReadTurns
  <1> QED BY <1>1, BodyInvHolds, PTL

(* Under the same condition rebuilding adds and drops no item, changes no  *)
(* role, and leaves the turns before the latest (gateway.py:34-42,         *)
(* gemini.py:72-88).                                                       *)
THEOREM LatestTextIsReplaced ==
  ASSUME \A b \in Requests : Plain(b)
  PROVE  BodySpec => OnlyLatestTextReplaced
  <1>1. BodyInv /\ [BodyNext]_bodyVars =>
            [stage' = "sent" => /\ Shape(body') = Shape(body)
                                /\ EarlierTexts(body') = EarlierTexts(body)]_bodyVars
    <2> SUFFICES ASSUME BodyInv, BodyNext, stage' = "sent"
                 PROVE  Shape(body') = Shape(body) /\ EarlierTexts(body') = EarlierTexts(body)
        BY DEF bodyVars
    <2>1. PassOn \/ Rebuild
        BY DEF BodyNext, Extract, ChangeText
    <2>2. CASE PassOn
        BY <2>2 DEF PassOn
    <2>3. CASE Rebuild
        BY <2>3, RebuildHolds DEF Holds
    <2> QED BY <2>1, <2>2, <2>3
  <1> QED BY <1>1, BodyInvHolds, PTL DEF BodySpec, OnlyLatestTextReplaced
=============================================================================
