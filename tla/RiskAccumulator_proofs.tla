----------------------- MODULE RiskAccumulator_proofs -----------------------
(***************************************************************************)
(* Proofs about RiskAccumulator, for every sequence of turns, and about    *)
(* the sums of RiskScore: the score is that of the conversation, what a    *)
(* block needs, and that the representative scenario is blocked.           *)
(***************************************************************************)
EXTENDS RiskAccumulator, FiniteSetTheorems, SequenceTheorems, TLAPS

-----------------------------------------------------------------------------
(* Sums.  SumFunctionOnSet(f, S) is a recursive function on the subsets of *)
(* S, evaluated at S: that there is one is what has to be proved first.    *)

(* Of sets of subsets of a finite set one is the least.                    *)
LEMMA LeastSubset ==
  ASSUME NEW S, IsFiniteSet(S), NEW P \in SUBSET (SUBSET S), P # {}
  PROVE  \E T \in P : \A U \in P : U \subseteq T => U = T
  <1>1. IsWellFoundedOn(StrictSubsetOrdering(S), FiniteSubsetsOf(S))
      BY FS_StrictSubsetOrderingWellFounded
  <1>2. P \subseteq FiniteSubsetsOf(S)
      BY FS_FiniteSubsetsOfFinite
  <1>3. \E T \in P : \A U \in P : ~ (<<U, T>> \in StrictSubsetOrdering(S))
      BY <1>1, <1>2, WFMin
  <1> QED BY <1>3 DEF StrictSubsetOrdering

Some(S) == CHOOSE x \in S : TRUE
IsSum(g, f, S) ==
    g = [s \in SUBSET S |->
            IF s = {} THEN 0 ELSE f[Some(s)] + g[s \ {Some(s)}]]

LEMMA SomeIn ==
  ASSUME NEW S, S # {}
  PROVE  Some(S) \in S
  BY DEF Some

LEMMA SumAt ==
  ASSUME NEW f, NEW g, NEW S, IsSum(g, f, S), NEW s \in SUBSET S
  PROVE  g[s] = IF s = {} THEN 0 ELSE f[Some(s)] + g[s \ {Some(s)}]
  BY DEF IsSum

(* Two such functions agree where both are defined: else there were a least *)
(* set of which they say different things.                                 *)
LEMMA SumsAgree ==
  ASSUME NEW f, NEW S, IsFiniteSet(S), NEW T, IsFiniteSet(T),
         NEW g, IsSum(g, f, S), NEW h, IsSum(h, f, T),
         NEW s \in SUBSET S, s \in SUBSET T
  PROVE  g[s] = h[s]
  <1> DEFINE P == {u \in SUBSET s : g[u] # h[u]}
  <1> SUFFICES ASSUME P # {} PROVE FALSE
      OBVIOUS
  <1>1. IsFiniteSet(s)
      BY FS_Subset
  <1>2. PICK u \in P : \A v \in P : v \subseteq u => v = u
    <2> HIDE DEF P
    <2>1. P \in SUBSET (SUBSET s)
        BY DEF P
    <2> QED BY <1>1, <2>1, LeastSubset
  <1>3. u \in SUBSET S /\ u \in SUBSET T
      OBVIOUS
  <1>4. u # {}
      BY <1>3, SumAt
  <1>5. Some(u) \in u
      BY <1>4, SomeIn
  <1>6. g[u \ {Some(u)}] = h[u \ {Some(u)}]
      BY <1>2, <1>5
  <1>7. g[u] = h[u]
      BY <1>3, <1>4, <1>6, SumAt
  <1> QED BY <1>7

(* There is one: a least set without one would have one, made of those of   *)
(* its subsets.                                                            *)
LEMMA SumExists ==
  ASSUME NEW f, NEW S, IsFiniteSet(S)
  PROVE  \E g : IsSum(g, f, S)
  <1> DEFINE P == {u \in SUBSET S : ~ \E g : IsSum(g, f, u)}
  <1> SUFFICES ASSUME P # {} PROVE FALSE
      OBVIOUS
  <1>1. PICK u \in P : \A v \in P : v \subseteq u => v = u
    <2> HIDE DEF P
    <2>1. P \in SUBSET (SUBSET S)
        BY DEF P
    <2> QED BY <2>1, LeastSubset
  <1>2. u \in SUBSET S /\ ~ \E g : IsSum(g, f, u)
      OBVIOUS
  <1>3. \A v \in SUBSET u : v # u => \E g : IsSum(g, f, v)
      BY <1>1
  <1> HIDE DEF P
  <1> DEFINE Of(v) == CHOOSE g : IsSum(g, f, v)
             less == [s \in SUBSET u |-> Of(s)[s]]
             rest(s) == less[s \ {Some(s)}]
             sum == [s \in SUBSET u |-> IF s = {} THEN 0 ELSE f[Some(s)] + rest(s)]
  <1>4. \A v \in SUBSET u : v # u => IsSum(Of(v), f, v)
      BY <1>3
  <1>5. ASSUME NEW s \in SUBSET u, s # u
        PROVE  sum[s] = less[s]
    <2>1. IsSum(Of(s), f, s)
        BY <1>4, <1>5
    <2>2. CASE s = {}
        BY <2>1, <2>2, SumAt
    <2>3. CASE s # {}
      <3> DEFINE r == s \ {Some(s)}
      <3>1. Some(s) \in s
          BY <2>3, SomeIn
      <3>2. r \in SUBSET s /\ r \in SUBSET u /\ r # u
          BY <3>1
      <3>3. IsSum(Of(r), f, r)
          BY <1>4, <3>2
      <3>4. IsFiniteSet(s) /\ IsFiniteSet(r)
          BY <1>2, <3>2, FS_Subset
      <3> HIDE DEF Of, r
      <3>5. Of(s)[r] = Of(r)[r]
          BY <2>1, <3>2, <3>3, <3>4, SumsAgree
      <3>6. Of(s)[s] = f[Some(s)] + Of(s)[r]
          BY <2>1, <2>3, SumAt DEF r
      <3> QED BY <2>3, <3>2, <3>5, <3>6 DEF r
    <2> QED BY <2>2, <2>3
  <1>6. \A s \in SUBSET u : s # {} => s \ {Some(s)} \in SUBSET u /\ s \ {Some(s)} # u
      BY SomeIn
  <1>7. \A s \in SUBSET u : s # {} => rest(s) = sum[s \ {Some(s)}]
      BY <1>5, <1>6
  <1>8. IsSum(sum, f, u)
    <2> HIDE DEF less
    <2> QED BY <1>7 DEF IsSum
  <1> QED BY <1>2, <1>8

LEMMA SumIs ==
  ASSUME NEW f, NEW S, IsFiniteSet(S)
  PROVE  \E g : IsSum(g, f, S) /\ SumFunctionOnSet(f, S) = g[S]
  <1> DEFINE g == CHOOSE g : IsSum(g, f, S)
  <1>1. IsSum(g, f, S)
      BY SumExists
  <1>2. SumFunctionOnSet(f, S) = g[S]
      BY DEF SumFunctionOnSet, FoldFunctionOnSet, MapThenFoldSet, IsSum, Some
  <1> QED BY <1>1, <1>2

(* What the sum of the library is, step by step.                           *)
LEMMA SumUnfolds ==
  ASSUME NEW f, NEW S, IsFiniteSet(S), S # {}
  PROVE  /\ Some(S) \in S /\ IsFiniteSet(S \ {Some(S)})
         /\ SumFunctionOnSet(f, S)
                = f[Some(S)] + SumFunctionOnSet(f, S \ {Some(S)})
  <1> DEFINE r == S \ {Some(S)}
  <1>1. Some(S) \in S /\ r \in SUBSET S /\ IsFiniteSet(r)
      BY SomeIn, FS_Subset
  <1> HIDE DEF r
  <1>2. PICK g : IsSum(g, f, S) /\ SumFunctionOnSet(f, S) = g[S]
      BY SumIs
  <1>3. PICK h : IsSum(h, f, r) /\ SumFunctionOnSet(f, r) = h[r]
      BY <1>1, SumIs
  <1>4. g[r] = h[r]
      BY <1>1, <1>2, <1>3, SumsAgree
  <1>5. g[S] = f[Some(S)] + g[r]
      BY <1>2, SumAt DEF r
  <1> QED BY <1>1, <1>2, <1>3, <1>4, <1>5 DEF r

LEMMA SumOfNone ==
  ASSUME NEW f
  PROVE  SumFunctionOnSet(f, {}) = 0
  <1>1. PICK g : IsSum(g, f, {}) /\ SumFunctionOnSet(f, {}) = g[{}]
      BY SumIs, FS_EmptySet
  <1> QED BY <1>1, SumAt

LEMMA SumInNat ==
  ASSUME NEW f, NEW S, IsFiniteSet(S), \A x \in S : f[x] \in Nat
  PROVE  SumFunctionOnSet(f, S) \in Nat
  <1> DEFINE P == {u \in SUBSET S : SumFunctionOnSet(f, u) \notin Nat}
  <1> SUFFICES ASSUME P # {} PROVE FALSE
      OBVIOUS
  <1>1. PICK u \in P : \A v \in P : v \subseteq u => v = u
    <2> HIDE DEF P
    <2>1. P \in SUBSET (SUBSET S)
        BY DEF P
    <2> QED BY <2>1, LeastSubset
  <1>2. u \in SUBSET S /\ IsFiniteSet(u) /\ SumFunctionOnSet(f, u) \notin Nat
      BY FS_Subset
  <1>3. u # {}
      BY <1>2, SumOfNone
  <1>4. /\ Some(u) \in u
        /\ SumFunctionOnSet(f, u) = f[Some(u)] + SumFunctionOnSet(f, u \ {Some(u)})
      BY <1>2, <1>3, SumUnfolds
  <1>5. SumFunctionOnSet(f, u \ {Some(u)}) \in Nat
      BY <1>1, <1>2, <1>4
  <1>6. f[Some(u)] \in Nat
      BY <1>2, <1>4
  <1> QED BY <1>2, <1>4, <1>5, <1>6

(* It does not matter which element is taken out first.                    *)
LEMMA SumSplits ==
  ASSUME NEW f, NEW S, IsFiniteSet(S), \A x \in S : f[x] \in Nat, NEW e \in S
  PROVE  SumFunctionOnSet(f, S) = f[e] + SumFunctionOnSet(f, S \ {e})
  <1> DEFINE Splits(u, x) ==
                 SumFunctionOnSet(f, u) = f[x] + SumFunctionOnSet(f, u \ {x})
             P == {u \in SUBSET S : \E x \in u : ~Splits(u, x)}
  <1> SUFFICES ASSUME P # {} PROVE FALSE
      OBVIOUS
  <1>1. PICK u \in P : \A v \in P : v \subseteq u => v = u
    <2> HIDE DEF P
    <2>1. P \in SUBSET (SUBSET S)
        BY DEF P
    <2> QED BY <2>1, LeastSubset
  <1>2. u \in SUBSET S /\ IsFiniteSet(u)
      BY FS_Subset
  <1>3. PICK x \in u : ~Splits(u, x)
      BY <1>1
  <1> DEFINE y == Some(u)
             both == u \ {x, y}
  <1>4. y \in u /\ SumFunctionOnSet(f, u) = f[y] + SumFunctionOnSet(f, u \ {y})
      BY <1>2, <1>3, SumUnfolds
  <1>5. y # x
      BY <1>3, <1>4
  <1>6. \A v \in SUBSET u : v # u => \A z \in v : Splits(v, z)
      BY <1>1, <1>2
  <1> HIDE DEF P, y
  <1>7. Splits(u \ {y}, x) /\ Splits(u \ {x}, y)
    <2>1. /\ u \ {y} \in SUBSET u /\ u \ {y} # u /\ x \in u \ {y}
          /\ u \ {x} \in SUBSET u /\ u \ {x} # u /\ y \in u \ {x}
        BY <1>3, <1>4, <1>5
    <2> HIDE DEF Splits
    <2> QED BY <1>6, <2>1
  <1>8. (u \ {y}) \ {x} = both /\ (u \ {x}) \ {y} = both
      OBVIOUS
  <1>9. f[x] \in Nat /\ f[y] \in Nat /\ SumFunctionOnSet(f, both) \in Nat
    <2>1. both \in SUBSET S /\ IsFiniteSet(both)
        BY <1>2, FS_Subset
    <2>2. SumFunctionOnSet(f, both) \in Nat
        BY <2>1, SumInNat
    <2> QED BY <1>2, <1>4, <2>2
  <1> HIDE DEF both
  <1>10. PICK a \in Nat, b \in Nat, c \in Nat :
             a = f[x] /\ b = f[y] /\ c = SumFunctionOnSet(f, both)
      BY <1>9
  <1>11. /\ SumFunctionOnSet(f, u \ {y}) = a + c
         /\ SumFunctionOnSet(f, u \ {x}) = b + c
      BY <1>7, <1>8, <1>10
  <1>12. SumFunctionOnSet(f, u) = b + (a + c) /\ b + (a + c) = a + (b + c)
      BY <1>4, <1>10, <1>11
  <1> QED BY <1>3, <1>10, <1>11, <1>12

LEMMA SumAgrees ==
  ASSUME NEW f, NEW g, NEW S, IsFiniteSet(S), \A x \in S : f[x] = g[x]
  PROVE  SumFunctionOnSet(f, S) = SumFunctionOnSet(g, S)
  <1> DEFINE P == {u \in SUBSET S : SumFunctionOnSet(f, u) # SumFunctionOnSet(g, u)}
  <1> SUFFICES ASSUME P # {} PROVE FALSE
      OBVIOUS
  <1>1. PICK u \in P : \A v \in P : v \subseteq u => v = u
    <2> HIDE DEF P
    <2>1. P \in SUBSET (SUBSET S)
        BY DEF P
    <2> QED BY <2>1, LeastSubset
  <1>2. /\ u \in SUBSET S /\ IsFiniteSet(u)
        /\ SumFunctionOnSet(f, u) # SumFunctionOnSet(g, u)
      BY FS_Subset
  <1>3. u # {}
      BY <1>2, SumOfNone
  <1> DEFINE y == Some(u)
  <1>4. /\ y \in u
        /\ SumFunctionOnSet(f, u) = f[y] + SumFunctionOnSet(f, u \ {y})
        /\ SumFunctionOnSet(g, u) = g[y] + SumFunctionOnSet(g, u \ {y})
      BY <1>2, <1>3, SumUnfolds
  <1>5. SumFunctionOnSet(f, u \ {y}) = SumFunctionOnSet(g, u \ {y})
      BY <1>1, <1>2, <1>4
  <1>6. f[y] = g[y]
      BY <1>2, <1>4
  <1> QED BY <1>2, <1>4, <1>5, <1>6

LEMMA SumScaled ==
  ASSUME NEW f, NEW g, NEW S, IsFiniteSet(S), NEW c \in Nat,
         \A x \in S : f[x] \in Nat /\ g[x] = f[x] * c
  PROVE  SumFunctionOnSet(g, S) = SumFunctionOnSet(f, S) * c
  <1> DEFINE P == {u \in SUBSET S :
                     SumFunctionOnSet(g, u) # SumFunctionOnSet(f, u) * c}
  <1> SUFFICES ASSUME P # {} PROVE FALSE
      OBVIOUS
  <1>1. PICK u \in P : \A v \in P : v \subseteq u => v = u
    <2> HIDE DEF P
    <2>1. P \in SUBSET (SUBSET S)
        BY DEF P
    <2> QED BY <2>1, LeastSubset
  <1>2. /\ u \in SUBSET S /\ IsFiniteSet(u)
        /\ SumFunctionOnSet(g, u) # SumFunctionOnSet(f, u) * c
      BY FS_Subset
  <1>3. u # {}
    <2>1. 0 * c = 0
        OBVIOUS
    <2> QED BY <1>2, <2>1, SumOfNone
  <1> DEFINE y == Some(u)
  <1>4. /\ y \in u
        /\ SumFunctionOnSet(f, u) = f[y] + SumFunctionOnSet(f, u \ {y})
        /\ SumFunctionOnSet(g, u) = g[y] + SumFunctionOnSet(g, u \ {y})
      BY <1>2, <1>3, SumUnfolds
  <1>5. SumFunctionOnSet(g, u \ {y}) = SumFunctionOnSet(f, u \ {y}) * c
      BY <1>1, <1>2, <1>4
  <1>6. f[y] \in Nat /\ g[y] = f[y] * c
      BY <1>2, <1>4
  <1>7. SumFunctionOnSet(f, u \ {y}) \in Nat
    <2>1. IsFiniteSet(u \ {y}) /\ \A x \in u \ {y} : f[x] \in Nat
        BY <1>2, FS_Subset
    <2> QED BY <2>1, SumInNat
  <1>8. \A a, b \in Nat : a * c + b * c = (a + b) * c
      OBVIOUS
  <1> QED BY <1>2, <1>4, <1>5, <1>6, <1>7, <1>8

-----------------------------------------------------------------------------
(* The score.                                                              *)
LEMMA MinOfTwo ==
  ASSUME NEW a \in Int, NEW b \in Int
  PROVE  Min({a, b}) = IF a <= b THEN a ELSE b
  BY DEF Min

LEMMA MaxOfTwo ==
  ASSUME NEW a \in Int, NEW b \in Int
  PROVE  Max({a, b}) = IF a >= b THEN a ELSE b
  BY DEF Max

Weight == [w \in ComboWeights |-> w[2]]
Completed(types) == {w \in ComboWeights : w[1] \subseteq types}
ComboTotal(types) == SumFunctionOnSet(Weight, Completed(types))
TypesOf(active) == {k[1] : k \in active}

LEMMA FiniteFive ==
  ASSUME NEW a, NEW b, NEW c, NEW d, NEW e
  PROVE  IsFiniteSet({a, b, c, d, e})
  <1>1. IsFiniteSet({a})
      BY FS_Singleton
  <1>2. IsFiniteSet({a} \cup {b})
      BY <1>1, FS_AddElement
  <1>3. IsFiniteSet(({a} \cup {b}) \cup {c})
      BY <1>2, FS_AddElement
  <1>4. IsFiniteSet((({a} \cup {b}) \cup {c}) \cup {d})
      BY <1>3, FS_AddElement
  <1>5. IsFiniteSet(((({a} \cup {b}) \cup {c}) \cup {d}) \cup {e})
      BY <1>4, FS_AddElement
  <1>6. ((({a} \cup {b}) \cup {c}) \cup {d}) \cup {e} = {a, b, c, d, e}
      OBVIOUS
  <1> QED BY <1>5, <1>6

LEMMA FiniteWeights ==
  /\ IsFiniteSet(ComboWeights)
  /\ \A w \in ComboWeights : Weight[w] \in Nat
  <1>1. IsFiniteSet(ComboWeights)
      BY FiniteFive DEF ComboWeights
  <1>2. \A w \in ComboWeights : Weight[w] = w[2]
      BY DEF Weight
  <1>3. \A w \in ComboWeights : w[2] \in Nat
      BY DEF ComboWeights
  <1> QED BY <1>1, <1>2, <1>3

LEMMA ComboTotalInNat ==
  ASSUME NEW types
  PROVE  IsFiniteSet(Completed(types)) /\ ComboTotal(types) \in Nat
  <1>1. Completed(types) \in SUBSET ComboWeights
      BY DEF Completed
  <1>2. IsFiniteSet(Completed(types))
      BY <1>1, FiniteWeights, FS_Subset
  <1>3. ComboTotal(types) \in Nat
    <2>1. \A w \in Completed(types) : Weight[w] \in Nat
        BY <1>1, FiniteWeights
    <2> QED BY <1>2, <2>1, SumInNat DEF ComboTotal
  <1> QED BY <1>2, <1>3

(* _score_combos never exceeds its cap, and scores nothing while no        *)
(* combination is complete.                                                *)
LEMMA ComboBounds ==
  ASSUME NEW active
  PROVE  /\ ComboScore(active) \in Nat
         /\ ComboScore(active) = IF ComboTotal(TypesOf(active)) <= ComboCap
                                 THEN ComboTotal(TypesOf(active)) ELSE ComboCap
         /\ Completed(TypesOf(active)) = {} => ComboScore(active) = 0
  <1> DEFINE total == ComboTotal(TypesOf(active))
  <1>1. total \in Nat /\ ComboCap \in Nat
      BY ComboTotalInNat, ScoreAssumption
  <1>2. ComboScore(active) = Min({total, ComboCap})
      BY DEF ComboScore, ComboTotal, Completed, TypesOf, Weight
  <1>3. Completed(TypesOf(active)) = {} => total = 0
      BY SumOfNone DEF ComboTotal
  <1> HIDE DEF total
  <1>4. ComboScore(active) = IF total <= ComboCap THEN total ELSE ComboCap
      BY <1>1, <1>2, MinOfTwo
  <1> QED BY <1>1, <1>3, <1>4 DEF total

(* The representative scenario: a name, an RRN and an account complete     *)
(* three combinations, of 25, 35 and 20 hundredths.                        *)
LEMMA RepresentativeTotal ==
  ASSUME NEW types, {"NAME", "RRN", "ACCOUNT"} \subseteq types
  PROVE  ComboTotal(types) >= 80
  <1> DEFINE a == <<{"NAME", "RRN"}, 25>>
             b == <<{"NAME", "RRN", "ACCOUNT"}, 35>>
             c == <<{"RRN", "ACCOUNT"}, 20>>
             S == Completed(types)
             T == S \ {a}
             U == T \ {b}
             V == U \ {c}
  <1>1. /\ a \in ComboWeights /\ b \in ComboWeights /\ c \in ComboWeights
      BY DEF ComboWeights
  <1>2. a \in S /\ b \in S /\ c \in S
      BY <1>1 DEF Completed
  <1>3. a # b /\ a # c /\ b # c
      OBVIOUS
  <1>4. Weight[a] = 25 /\ Weight[b] = 35 /\ Weight[c] = 20
      BY <1>1 DEF Weight
  <1> HIDE DEF a, b, c
  <1>5. \A s \in SUBSET S : IsFiniteSet(s) /\ \A w \in s : Weight[w] \in Nat
    <2>1. IsFiniteSet(S)
        BY ComboTotalInNat
    <2>2. \A w \in S : Weight[w] \in Nat
        BY FiniteWeights DEF Completed
    <2> QED BY <2>1, <2>2, FS_Subset
  <1>6. /\ S \in SUBSET S /\ T \in SUBSET S /\ U \in SUBSET S /\ V \in SUBSET S
        /\ a \in S /\ b \in T /\ c \in U
      BY <1>2, <1>3
  <1> HIDE DEF S, T, U, V
  <1>7. SumFunctionOnSet(Weight, S) = Weight[a] + SumFunctionOnSet(Weight, T)
    <2>1. IsFiniteSet(S) /\ \A w \in S : Weight[w] \in Nat
        BY <1>5, <1>6
    <2> QED BY <1>6, <2>1, SumSplits DEF T
  <1>8. SumFunctionOnSet(Weight, T) = Weight[b] + SumFunctionOnSet(Weight, U)
    <2>1. IsFiniteSet(T) /\ \A w \in T : Weight[w] \in Nat
        BY <1>5, <1>6
    <2> QED BY <1>6, <2>1, SumSplits DEF U
  <1>9. SumFunctionOnSet(Weight, U) = Weight[c] + SumFunctionOnSet(Weight, V)
    <2>1. IsFiniteSet(U) /\ \A w \in U : Weight[w] \in Nat
        BY <1>5, <1>6
    <2> QED BY <1>6, <2>1, SumSplits DEF V
  <1>10. SumFunctionOnSet(Weight, V) \in Nat
      BY <1>5, <1>6, SumInNat
  <1>11. ComboTotal(types) = SumFunctionOnSet(Weight, S)
      BY DEF ComboTotal, S
  <1> QED BY <1>4, <1>7, <1>8, <1>9, <1>10, <1>11

(* _score_velocity: at most both thresholds are met.                       *)
LEMMA VelocityBounds ==
  ASSUME NEW times, NEW turn, NEW now
  PROVE  VelocityScore(times, turn, now) \in 0 .. 15
  <1> DEFINE a == <<3, 60, 5>>
             b == <<5, 120, 10>>
             W == [v \in VelocityThresholds |-> v[3]]
             S == {v \in VelocityThresholds : Quick(times, turn, now, v[1], v[2])}
  <1>1. VelocityThresholds = {a, b} /\ a # b
      BY DEF VelocityThresholds
  <1>2. W[a] = 5 /\ W[b] = 10
      BY DEF VelocityThresholds
  <1>3. S \in SUBSET {a, b}
      BY <1>1
  <1>4. VelocityScore(times, turn, now) = SumFunctionOnSet(W, S)
      BY DEF VelocityScore
  <1> HIDE DEF a, b, W, S
  <1>5. S = {} \/ S = {a} \/ S = {b} \/ S = {a, b}
      BY <1>3
  <1>6. SumFunctionOnSet(W, {}) = 0
      BY SumOfNone
  <1>7. \A x \in {a, b} : SumFunctionOnSet(W, {x}) = W[x]
    <2> SUFFICES ASSUME NEW x \in {a, b} PROVE SumFunctionOnSet(W, {x}) = W[x]
        OBVIOUS
    <2>1. IsFiniteSet({x}) /\ \A y \in {x} : W[y] \in Nat
      <3>1. IsFiniteSet({x})
          BY FS_Singleton
      <3> QED BY <1>2, <3>1
    <2>2. SumFunctionOnSet(W, {x}) = W[x] + SumFunctionOnSet(W, {x} \ {x})
        BY <2>1, SumSplits
    <2>3. {x} \ {x} = {}
        OBVIOUS
    <2> QED BY <1>2, <1>6, <2>2, <2>3
  <1>8. SumFunctionOnSet(W, {a, b}) = W[a] + W[b]
    <2>1. IsFiniteSet({a, b}) /\ \A y \in {a, b} : W[y] \in Nat
      <3>1. IsFiniteSet({a} \cup {b})
          BY FS_Singleton, FS_AddElement
      <3>2. {a} \cup {b} = {a, b}
          OBVIOUS
      <3> QED BY <1>2, <3>1, <3>2
    <2>2. SumFunctionOnSet(W, {a, b}) = W[a] + SumFunctionOnSet(W, {a, b} \ {a})
        BY <2>1, SumSplits
    <2>3. {a, b} \ {a} = {b}
        BY <1>1
    <2> QED BY <1>7, <2>2, <2>3
  <1> QED BY <1>2, <1>4, <1>5, <1>6, <1>7, <1>8

-----------------------------------------------------------------------------
(* The loop of _register_spans.                                            *)
LEMMA LeastNumber ==
  ASSUME NEW T \in SUBSET Nat, T # {}
  PROVE  \E x \in T : \A y \in T : x <= y
  <1> DEFINE Less == {p \in Nat \X Nat : p[1] < p[2]}
  <1>1. OpToRel(<, Nat) = Less
      BY DEF OpToRel
  <1>2. IsWellFoundedOn(Less, Nat)
      BY <1>1, NatLessThanWellFounded
  <1>3. \A x, y \in Nat : <<y, x>> \notin Less => x <= y
      OBVIOUS
  <1> HIDE DEF Less
  <1>4. \E x \in T : \A y \in T : ~(<<y, x>> \in Less)
      BY <1>2, WFMin
  <1> QED BY <1>3, <1>4

IsLoop(h, ents, spans, turn, n) ==
    h = [i \in 0 .. n |->
            IF i = 0 THEN ents ELSE Register(h[i - 1], spans[i], turn)]

LEMMA LoopAt ==
  ASSUME NEW h, NEW ents, NEW spans, NEW turn, NEW n \in Nat,
         IsLoop(h, ents, spans, turn, n), NEW i \in 0 .. n
  PROVE  h[i] = IF i = 0 THEN ents ELSE Register(h[i - 1], spans[i], turn)
  BY DEF IsLoop

(* A loop of n rounds exists, since one that is a round shorter does.      *)
LEMMA LoopExists ==
  ASSUME NEW ents, NEW spans, NEW turn, NEW m \in Nat
  PROVE  \E h : IsLoop(h, ents, spans, turn, m)
  <1> DEFINE T == {n \in Nat : ~ \E h : IsLoop(h, ents, spans, turn, n)}
  <1> SUFFICES ASSUME T # {} PROVE FALSE
      OBVIOUS
  <1>1. PICK n \in T : \A y \in T : n <= y
    <2>1. T \in SUBSET Nat
        OBVIOUS
    <2> HIDE DEF T
    <2> QED BY <2>1, LeastNumber
  <1>2. CASE n = 0
    <2> DEFINE h == [i \in 0 .. 0 |-> ents]
    <2>1. IsLoop(h, ents, spans, turn, 0)
        BY DEF IsLoop
    <2> QED BY <1>1, <1>2, <2>1
  <1>3. CASE n # 0
    <2>1. n - 1 \in Nat /\ n - 1 \notin T
        BY <1>1, <1>3
    <2>2. PICK g : IsLoop(g, ents, spans, turn, n - 1)
        BY <2>1
    <2> DEFINE h == [i \in 0 .. n |-> IF i = n THEN Register(g[n - 1], spans[n], turn)
                                      ELSE g[i]]
    <2>3. n \in Nat
        BY <1>1
    <2> HIDE DEF T
    <2>4. \A i \in 0 .. n - 1 :
              g[i] = IF i = 0 THEN ents ELSE Register(g[i - 1], spans[i], turn)
        BY <2>1, <2>2, LoopAt
    <2>5. \A i \in 0 .. n - 1 : h[i] = g[i]
        BY <2>3
    <2>6. \A i \in 0 .. n :
              h[i] = IF i = 0 THEN ents ELSE Register(h[i - 1], spans[i], turn)
      <3> SUFFICES ASSUME NEW i \in 0 .. n
                   PROVE  h[i] = IF i = 0 THEN ents
                                 ELSE Register(h[i - 1], spans[i], turn)
          OBVIOUS
      <3>1. CASE i = n
        <4>1. h[n] = Register(g[n - 1], spans[n], turn)
            BY <2>3
        <4>2. n - 1 \in 0 .. n - 1
            BY <2>1
        <4>3. h[n - 1] = g[n - 1]
            BY <2>5, <4>2
        <4> HIDE DEF h
        <4> QED BY <1>3, <3>1, <4>1, <4>3
      <3>2. CASE i # n
        <4>1. i \in 0 .. n - 1 /\ (i # 0 => i - 1 \in 0 .. n - 1)
            BY <2>3, <3>2
        <4> HIDE DEF h
        <4> QED BY <2>4, <2>5, <4>1
      <3> QED BY <3>1, <3>2
    <2>7. h = [i \in 0 .. n |-> h[i]]
        OBVIOUS
    <2> HIDE DEF h
    <2>8. IsLoop(h, ents, spans, turn, n)
        BY <2>6, <2>7 DEF IsLoop
    <2> QED BY <1>1, <2>8 DEF T
  <1> QED BY <1>2, <1>3

LEMMA RegisterIsLoop ==
  ASSUME NEW ents, NEW spans, NEW turn, Len(spans) \in Nat
  PROVE  \E h : /\ IsLoop(h, ents, spans, turn, Len(spans))
                /\ RegisterSpans(ents, spans, turn) = h[Len(spans)]
  <1> DEFINE h == CHOOSE h : IsLoop(h, ents, spans, turn, Len(spans))
  <1>1. IsLoop(h, ents, spans, turn, Len(spans))
      BY LoopExists
  <1>2. RegisterSpans(ents, spans, turn) = h[Len(spans)]
      BY DEF RegisterSpans, IsLoop
  <1> QED BY <1>1, <1>2

(* What the first n spans of a turn do to the entities: each key named     *)
(* there is in them, last seen in this turn, and counted once more for     *)
(* each time it is named.                                                  *)
Places(spans, n, k) == {j \in 1 .. n : spans[j] = k}
CountIn(ents, k) == IF k \in DOMAIN ents THEN ents[k].count ELSE 0
Effect(r, ents, spans, n, turn) ==
    /\ IsFiniteSet(DOMAIN r)
    /\ DOMAIN r = DOMAIN ents \cup {spans[j] : j \in 1 .. n}
    /\ \A k \in DOMAIN r :
           /\ r[k].count = CountIn(ents, k) + Cardinality(Places(spans, n, k))
           /\ r[k].last = IF Places(spans, n, k) = {} THEN ents[k].last ELSE turn

LEMMA PlacesCounted ==
  ASSUME NEW spans, NEW n \in Nat, NEW k
  PROVE  /\ IsFiniteSet(Places(spans, n, k))
         /\ Cardinality(Places(spans, n, k)) \in Nat
         /\ Cardinality(Places(spans, n + 1, k))
                = Cardinality(Places(spans, n, k)) + (IF spans[n + 1] = k THEN 1 ELSE 0)
         /\ spans[n + 1] = k => Places(spans, n + 1, k) # {}
         /\ spans[n + 1] # k => Places(spans, n + 1, k) = Places(spans, n, k)
  <1> DEFINE old == Places(spans, n, k)
             new == Places(spans, n + 1, k)
  <1>1. IsFiniteSet(old)
    <2>1. IsFiniteSet(1 .. n) /\ old \in SUBSET (1 .. n)
        BY FS_Interval DEF Places
    <2> QED BY <2>1, FS_Subset
  <1>2. Cardinality(old) \in Nat
      BY <1>1, FS_CardinalityType
  <1>3. n + 1 \notin old
      BY DEF Places
  <1>4. spans[n + 1] = k => new = old \cup {n + 1}
      BY DEF Places
  <1>5. spans[n + 1] # k => new = old
      BY DEF Places
  <1> HIDE DEF old, new
  <1>6. spans[n + 1] = k => Cardinality(new) = Cardinality(old) + 1
      BY <1>1, <1>3, <1>4, FS_AddElement
  <1> QED BY <1>1, <1>2, <1>4, <1>5, <1>6 DEF old, new

LEMMA OneMore ==
  ASSUME NEW ents, NEW spans, NEW turn, NEW n \in Nat, NEW r,
         \A k \in DOMAIN ents : ents[k].count \in Nat,
         Effect(r, ents, spans, n, turn)
  PROVE  Effect(Register(r, spans[n + 1], turn), ents, spans, n + 1, turn)
  <1> DEFINE key == spans[n + 1]
  <1>1. PICK q : q = Register(r, key, turn)
      OBVIOUS
  <1>2. /\ DOMAIN q = DOMAIN r \cup {key}
        /\ q[key].last = turn
        /\ q[key].count = IF key \in DOMAIN r THEN r[key].count + 1 ELSE 1
        /\ \A k \in DOMAIN r \ {key} : q[k] = r[k]
    <2>1. CASE key \in DOMAIN r
        BY <1>1, <2>1 DEF Register, Seen, Mention
    <2>2. CASE key \notin DOMAIN r
        BY <1>1, <2>2 DEF Register, Seen, FirstMention
    <2> QED BY <2>1, <2>2
  <1>3. IsFiniteSet(DOMAIN q)
    <2>1. IsFiniteSet(DOMAIN r)
        BY DEF Effect
    <2>2. IsFiniteSet(DOMAIN r \cup {key})
        BY <2>1, FS_AddElement
    <2> QED BY <1>2, <2>2
  <1>4. DOMAIN q = DOMAIN ents \cup {spans[j] : j \in 1 .. n + 1}
    <2>1. {spans[j] : j \in 1 .. n + 1} = {spans[j] : j \in 1 .. n} \cup {key}
        BY 1 .. n + 1 = (1 .. n) \cup {n + 1}
    <2> QED BY <1>2, <2>1 DEF Effect
  <1>5. ASSUME NEW k \in DOMAIN q
        PROVE  /\ q[k].count = CountIn(ents, k) + Cardinality(Places(spans, n + 1, k))
               /\ q[k].last = IF Places(spans, n + 1, k) = {} THEN ents[k].last ELSE turn
    <2>1. CountIn(ents, k) \in Nat
        BY DEF CountIn
    <2>2. CASE k # key
        BY <1>2, <1>5, <2>2, PlacesCounted DEF Effect
    <2>3. CASE k = key /\ k \in DOMAIN r
      <3>1. r[k].count = CountIn(ents, k) + Cardinality(Places(spans, n, k))
          BY <2>3 DEF Effect
      <3> QED BY <1>2, <2>1, <2>3, <3>1, PlacesCounted
    <2>4. CASE k = key /\ k \notin DOMAIN r
      <3>1. k \notin DOMAIN ents /\ Places(spans, n, k) = {}
          BY <2>4 DEF Effect, Places
      <3>2. CountIn(ents, k) = 0 /\ Cardinality(Places(spans, n, k)) = 0
          BY <3>1, FS_EmptySet DEF CountIn
      <3> QED BY <1>2, <2>4, <3>2, PlacesCounted
    <2> QED BY <2>2, <2>3, <2>4
  <1> QED BY <1>1, <1>3, <1>4, <1>5 DEF Effect

(* The loop registers every span of the turn, and nothing else.            *)
LEMMA RegisterEffect ==
  ASSUME NEW ents, NEW spans, NEW turn, Len(spans) \in Nat,
         IsFiniteSet(DOMAIN ents), \A k \in DOMAIN ents : ents[k].count \in Nat
  PROVE  Effect(RegisterSpans(ents, spans, turn), ents, spans, Len(spans), turn)
  <1>1. PICK h : /\ IsLoop(h, ents, spans, turn, Len(spans))
                 /\ RegisterSpans(ents, spans, turn) = h[Len(spans)]
      BY RegisterIsLoop
  <1> DEFINE Bad == {i \in 0 .. Len(spans) : ~ Effect(h[i], ents, spans, i, turn)}
  <1>2. ASSUME Bad # {} PROVE FALSE
    <2>1. PICK i \in Bad : \A j \in Bad : i <= j
      <3>1. Bad \in SUBSET Nat
          OBVIOUS
      <3> HIDE DEF Bad
      <3> QED BY <1>2, <3>1, LeastNumber
    <2>2. i \in 0 .. Len(spans) /\ ~ Effect(h[i], ents, spans, i, turn)
        OBVIOUS
    <2>3. CASE i = 0
      <3>1. h[0] = ents
          BY <1>1, LoopAt
      <3>2. \A k : Places(spans, 0, k) = {} /\ Cardinality({}) = 0
          BY FS_EmptySet DEF Places
      <3>3. {spans[j] : j \in 1 .. 0} = {}
          OBVIOUS
      <3>4. ASSUME NEW k \in DOMAIN ents
            PROVE  /\ ents[k].count = CountIn(ents, k) + Cardinality(Places(spans, 0, k))
                   /\ ents[k].last = IF Places(spans, 0, k) = {} THEN ents[k].last ELSE turn
        <4>1. Places(spans, 0, k) = {} /\ Cardinality(Places(spans, 0, k)) = 0
            BY <3>2
        <4>2. ents[k].count \in Nat /\ CountIn(ents, k) = ents[k].count
            BY DEF CountIn
        <4> QED BY <4>1, <4>2
      <3>5. Effect(ents, ents, spans, 0, turn)
          BY <3>3, <3>4 DEF Effect
      <3> QED BY <2>2, <2>3, <3>1, <3>5
    <2>4. CASE i # 0
      <3>1. i - 1 \in Nat /\ i - 1 \in 0 .. Len(spans) /\ i - 1 \notin Bad
          BY <2>1, <2>2, <2>4
      <3>2. Effect(h[i - 1], ents, spans, i - 1, turn)
          BY <3>1
      <3> HIDE DEF Bad
      <3>3. Effect(Register(h[i - 1], spans[(i - 1) + 1], turn),
                   ents, spans, (i - 1) + 1, turn)
          BY <3>1, <3>2, OneMore
      <3>4. h[i] = Register(h[i - 1], spans[i], turn)
          BY <1>1, <2>2, <2>4, LoopAt
      <3>5. (i - 1) + 1 = i
          BY <2>2
      <3> QED BY <2>2, <3>3, <3>4, <3>5
    <2> QED BY <2>3, <2>4
  <1> QED BY <1>1, <1>2

-----------------------------------------------------------------------------
(* The state and the conversation.                                         *)
Named(h, i) == {h[i][j] : j \in DOMAIN h[i]}
MentionsAt(h, k) ==
    [i \in DOMAIN h |-> Cardinality({j \in DOMAIN h[i] : h[i][j] = k})]

(* The entities are the keys of all turns, counted over all turns; the     *)
(* last mention of each is the last turn that names it.                    *)
RiskInv ==
    /\ history \in Seq(Turns) /\ turn_count = Len(history)
    /\ stamps \in Seq(Nat) /\ Len(stamps) = turn_count
    /\ IsFiniteSet(DOMAIN entities)
    /\ DOMAIN entities = UNION {Named(history, i) : i \in DOMAIN history}
    /\ \A k \in DOMAIN entities :
           /\ entities[k].last \in DOMAIN history
           /\ k \in Named(history, entities[k].last)
           /\ \A i \in DOMAIN history : k \in Named(history, i) => i <= entities[k].last
    /\ \A k : CountIn(entities, k) = Mentions(k)

(* The score is the one of the last turn.                                  *)
ScoreInv ==
    risk_score = IF stamps = <<>> THEN 0
                 ELSE Risk(ActiveNodes(entities, turn_count), entities, stamps,
                           turn_count, stamps[Len(stamps)])

LEMMA TurnDomain ==
  ASSUME NEW spans \in Turns
  PROVE  Len(spans) \in Nat /\ DOMAIN spans = 1 .. Len(spans)
  BY AccumulatorAssumption, LenProperties

LEMMA MentionsInNat ==
  ASSUME NEW h \in Seq(Turns), NEW k
  PROVE  /\ IsFiniteSet(DOMAIN h) /\ DOMAIN h = 1 .. Len(h) /\ Len(h) \in Nat
         /\ \A i \in DOMAIN h : MentionsAt(h, k)[i] \in Nat
         /\ SumFunctionOnSet(MentionsAt(h, k), DOMAIN h) \in Nat
  <1>1. DOMAIN h = 1 .. Len(h) /\ Len(h) \in Nat /\ \A i \in DOMAIN h : h[i] \in Turns
      BY LenProperties, ElementOfSeq
  <1>2. IsFiniteSet(DOMAIN h)
      BY <1>1, FS_Interval
  <1>3. ASSUME NEW i \in DOMAIN h PROVE MentionsAt(h, k)[i] \in Nat
    <2>1. h[i] \in Turns /\ Len(h[i]) \in Nat /\ DOMAIN h[i] = 1 .. Len(h[i])
        BY <1>1, TurnDomain
    <2>2. MentionsAt(h, k)[i] = Cardinality(Places(h[i], Len(h[i]), k))
        BY <2>1 DEF MentionsAt, Places
    <2> QED BY <2>1, <2>2, PlacesCounted
  <1> QED BY <1>1, <1>2, <1>3, SumInNat

(* One turn more adds its own mentions.                                    *)
LEMMA MentionsAppended ==
  ASSUME NEW h \in Seq(Turns), NEW spans \in Turns, NEW k
  PROVE  SumFunction(MentionsAt(Append(h, spans), k))
             = SumFunction(MentionsAt(h, k)) + Cardinality(Places(spans, Len(spans), k))
  <1>1. PICK g : g = Append(h, spans)
      OBVIOUS
  <1>2. /\ g \in Seq(Turns) /\ Len(g) = Len(h) + 1
        /\ \A i \in 1 .. Len(h) : g[i] = h[i]
        /\ g[Len(h) + 1] = spans
      BY <1>1, AppendProperties
  <1>3. /\ IsFiniteSet(DOMAIN g) /\ DOMAIN g = 1 .. Len(g) /\ Len(g) \in Nat
        /\ \A i \in DOMAIN g : MentionsAt(g, k)[i] \in Nat
      BY <1>2, MentionsInNat
  <1>4. /\ IsFiniteSet(DOMAIN h) /\ DOMAIN h = 1 .. Len(h) /\ Len(h) \in Nat
        /\ SumFunctionOnSet(MentionsAt(h, k), DOMAIN h) \in Nat
      BY MentionsInNat
  <1> DEFINE n == Len(h) + 1
  <1>5. n \in DOMAIN g /\ DOMAIN g \ {n} = DOMAIN h
      BY <1>2, <1>3, <1>4
  <1>6. SumFunctionOnSet(MentionsAt(g, k), DOMAIN g)
            = MentionsAt(g, k)[n] + SumFunctionOnSet(MentionsAt(g, k), DOMAIN h)
    <2> HIDE DEF n
    <2>1. SumFunctionOnSet(MentionsAt(g, k), DOMAIN g)
              = MentionsAt(g, k)[n] + SumFunctionOnSet(MentionsAt(g, k), DOMAIN g \ {n})
        BY <1>3, <1>5, SumSplits
    <2> QED BY <1>5, <2>1
  <1>7. SumFunctionOnSet(MentionsAt(g, k), DOMAIN h)
            = SumFunctionOnSet(MentionsAt(h, k), DOMAIN h)
    <2>1. ASSUME NEW i \in DOMAIN h
          PROVE  MentionsAt(g, k)[i] = MentionsAt(h, k)[i]
      <3>1. i \in DOMAIN g /\ g[i] = h[i]
          BY <1>2, <1>3, <1>4
      <3>2. /\ MentionsAt(g, k)[i] = Cardinality({j \in DOMAIN g[i] : g[i][j] = k})
            /\ MentionsAt(h, k)[i] = Cardinality({j \in DOMAIN h[i] : h[i][j] = k})
          BY <3>1 DEF MentionsAt
      <3> QED BY <3>1, <3>2
    <2> QED BY <1>4, <2>1, SumAgrees
  <1>8. MentionsAt(g, k)[n] = Cardinality(Places(spans, Len(spans), k))
    <2>1. DOMAIN spans = 1 .. Len(spans)
        BY TurnDomain
    <2> QED BY <1>2, <1>5, <2>1 DEF MentionsAt, Places
  <1>9. /\ SumFunction(MentionsAt(g, k)) = SumFunctionOnSet(MentionsAt(g, k), DOMAIN g)
        /\ SumFunction(MentionsAt(h, k)) = SumFunctionOnSet(MentionsAt(h, k), DOMAIN h)
      BY DEF SumFunction, MentionsAt
  <1>10. Len(spans) \in Nat
      BY TurnDomain
  <1>11. Cardinality(Places(spans, Len(spans), k)) \in Nat
      BY <1>10, PlacesCounted
  <1> QED BY <1>1, <1>4, <1>6, <1>7, <1>8, <1>9, <1>11

LEMMA MentionsIs ==
  ASSUME NEW k
  PROVE  Mentions(k) = SumFunction(MentionsAt(history, k))
  BY DEF Mentions, MentionsAt

LEMMA InitRisk == Init => RiskInv /\ ScoreInv
  <1> SUFFICES ASSUME Init PROVE RiskInv /\ ScoreInv
      OBVIOUS
  <1>1. /\ entities = [k \in {} |-> 0] /\ stamps = <<>> /\ turn_count = 0
        /\ risk_score = 0 /\ history = <<>>
      BY DEF Init
  <1>2. /\ <<>> \in Seq(Turns) /\ <<>> \in Seq(Nat) /\ Len(<<>>) = 0
        /\ DOMAIN <<>> = {}
      BY EmptySeq
  <1>3. DOMAIN entities = {} /\ IsFiniteSet(DOMAIN entities)
      BY <1>1, FS_EmptySet
  <1>4. \A k : CountIn(entities, k) = Mentions(k)
    <2> SUFFICES ASSUME NEW k PROVE CountIn(entities, k) = Mentions(k)
        OBVIOUS
    <2>1. DOMAIN MentionsAt(history, k) = {}
        BY <1>1, <1>2 DEF MentionsAt
    <2>2. SumFunction(MentionsAt(history, k)) = 0
        BY <2>1, SumOfNone DEF SumFunction
    <2> QED BY <1>3, <2>2, MentionsIs DEF CountIn
  <1>5. UNION {Named(history, i) : i \in DOMAIN history} = {}
      BY <1>1, <1>2
  <1> QED BY <1>1, <1>2, <1>3, <1>4, <1>5 DEF RiskInv, ScoreInv

(* One turn more.                                                          *)
LEMMA AccumulateKeeps ==
  ASSUME RiskInv, NEW spans \in Turns, NEW gap \in Gaps, Accumulate(spans, gap)
  PROVE  RiskInv' /\ ScoreInv'
  <1> DEFINE turn == turn_count + 1
  <1>1. /\ turn_count' = turn /\ stamps' = Append(stamps, Now(gap))
        /\ entities' = RegisterSpans(entities, spans, turn)
        /\ history' = Append(history, spans)
        /\ risk_score' = Risk(ActiveNodes(entities', turn), entities', stamps', turn,
                              Now(gap))
      BY DEF Accumulate
  <1>2. /\ history \in Seq(Turns) /\ turn_count = Len(history)
        /\ stamps \in Seq(Nat) /\ Len(stamps) = turn_count
        /\ DOMAIN history = 1 .. Len(history) /\ Len(history) \in Nat
        /\ \A i \in DOMAIN stamps : stamps[i] \in Nat
        /\ DOMAIN stamps = 1 .. Len(stamps)
      BY LenProperties, ElementOfSeq DEF RiskInv
  <1>3. Now(gap) \in Nat
    <2>1. gap \in Nat
        BY AccumulatorAssumption
    <2>2. CASE stamps = <<>>
        BY <2>1, <2>2 DEF Now
    <2>3. CASE stamps # <<>>
      <3>1. Len(stamps) \in DOMAIN stamps
          BY <1>2, <2>3, EmptySeq
      <3> QED BY <1>2, <2>1, <2>3, <3>1 DEF Now
    <2> QED BY <2>2, <2>3
  <1>4. /\ stamps' \in Seq(Nat) /\ Len(stamps') = turn
        /\ stamps'[Len(stamps')] = Now(gap) /\ stamps' # <<>>
    <2>1. /\ stamps' \in Seq(Nat) /\ Len(stamps') = Len(stamps) + 1
          /\ stamps'[Len(stamps) + 1] = Now(gap)
        BY <1>1, <1>2, <1>3, AppendProperties
    <2>2. stamps' # <<>>
        BY <1>2, <2>1, EmptySeq
    <2> QED BY <1>2, <2>1, <2>2
  <1>5. /\ history' \in Seq(Turns) /\ Len(history') = turn
        /\ DOMAIN history' = 1 .. turn /\ turn \in Nat
        /\ \A i \in 1 .. Len(history) : history'[i] = history[i]
        /\ history'[turn] = spans
    <2>1. /\ history' \in Seq(Turns) /\ Len(history') = Len(history) + 1
          /\ \A i \in 1 .. Len(history) : history'[i] = history[i]
          /\ history'[Len(history) + 1] = spans
        BY <1>1, <1>2, AppendProperties
    <2>2. DOMAIN history' = 1 .. Len(history')
        BY <2>1, LenProperties
    <2> QED BY <1>2, <2>1, <2>2
  <1>6. Len(spans) \in Nat /\ DOMAIN spans = 1 .. Len(spans)
      BY TurnDomain
  <1>7. \A k \in DOMAIN entities : entities[k].count \in Nat
    <2> SUFFICES ASSUME NEW k \in DOMAIN entities PROVE entities[k].count \in Nat
        OBVIOUS
    <2>1. entities[k].count = Mentions(k)
        BY DEF RiskInv, CountIn
    <2>2. Mentions(k) = SumFunctionOnSet(MentionsAt(history, k), DOMAIN history)
        BY MentionsIs DEF SumFunction, MentionsAt
    <2> QED BY <1>2, <2>1, <2>2, MentionsInNat
  <1>8. Effect(entities', entities, spans, Len(spans), turn)
      BY <1>1, <1>6, <1>7, RegisterEffect DEF RiskInv
  <1>9. /\ \A i \in DOMAIN history : Named(history', i) = Named(history, i)
        /\ Named(history', turn) = {spans[j] : j \in 1 .. Len(spans)}
      BY <1>2, <1>5, <1>6 DEF Named
  <1>10. DOMAIN history' = DOMAIN history \cup {turn} /\ turn \notin DOMAIN history
      BY <1>2, <1>5
  <1>11. /\ IsFiniteSet(DOMAIN entities')
         /\ DOMAIN entities' = UNION {Named(history', i) : i \in DOMAIN history'}
    <2>1. /\ IsFiniteSet(DOMAIN entities')
          /\ DOMAIN entities' = DOMAIN entities \cup Named(history', turn)
        BY <1>8, <1>9 DEF Effect
    <2>2. DOMAIN entities = UNION {Named(history', i) : i \in DOMAIN history}
        BY <1>9 DEF RiskInv
    <2> HIDE DEF turn
    <2> QED BY <1>10, <2>1, <2>2
  <1>12. ASSUME NEW k \in DOMAIN entities'
         PROVE  /\ entities'[k].last \in DOMAIN history'
                /\ k \in Named(history', entities'[k].last)
                /\ \A i \in DOMAIN history' :
                       k \in Named(history', i) => i <= entities'[k].last
    <2>1. k \in Named(history', turn) <=> Places(spans, Len(spans), k) # {}
        BY <1>9 DEF Places
    <2>2. entities'[k].last = IF Places(spans, Len(spans), k) = {}
                              THEN entities[k].last ELSE turn
        BY <1>8 DEF Effect
    <2>3. CASE Places(spans, Len(spans), k) # {}
      <3>1. entities'[k].last = turn
          BY <2>2, <2>3
      <3>2. turn \in DOMAIN history' /\ \A i \in DOMAIN history' : i <= turn
          BY <1>2, <1>5
      <3> HIDE DEF turn
      <3> QED BY <2>1, <2>3, <3>1, <3>2
    <2>4. CASE Places(spans, Len(spans), k) = {}
      <3>1. k \in DOMAIN entities
          BY <1>8, <1>9, <2>1, <2>4 DEF Effect
      <3>2. /\ entities[k].last \in DOMAIN history
            /\ k \in Named(history, entities[k].last)
            /\ \A i \in DOMAIN history :
                   k \in Named(history, i) => i <= entities[k].last
          BY <3>1 DEF RiskInv
      <3> HIDE DEF turn
      <3> QED BY <1>9, <1>10, <2>1, <2>2, <2>4, <3>2
    <2> QED BY <2>3, <2>4
  <1>13. ASSUME NEW k
         PROVE  CountIn(entities', k) = SumFunction(MentionsAt(history', k))
    <2>1. SumFunction(MentionsAt(history', k))
              = CountIn(entities, k) + Cardinality(Places(spans, Len(spans), k))
      <3>1. CountIn(entities, k) = SumFunction(MentionsAt(history, k))
          BY MentionsIs DEF RiskInv
      <3> QED BY <1>1, <1>2, <3>1, MentionsAppended
    <2>2. CASE k \in DOMAIN entities'
      <3>1. entities'[k].count
                = CountIn(entities, k) + Cardinality(Places(spans, Len(spans), k))
          BY <1>8, <2>2 DEF Effect
      <3> QED BY <2>1, <2>2, <3>1 DEF CountIn
    <2>3. CASE k \notin DOMAIN entities'
      <3>1. k \notin DOMAIN entities /\ Places(spans, Len(spans), k) = {}
          BY <1>8, <2>3 DEF Effect, Places
      <3>2. CountIn(entities, k) = 0 /\ CountIn(entities', k) = 0
          BY <2>3, <3>1 DEF CountIn
      <3>3. Cardinality(Places(spans, Len(spans), k)) = 0
          BY <3>1, FS_EmptySet
      <3> QED BY <2>1, <3>2, <3>3
    <2> QED BY <2>2, <2>3
  <1>14. \A k : CountIn(entities', k) = Mentions(k)'
      BY <1>13 DEF Mentions, MentionsAt
  <1>15. RiskInv'
      BY <1>1, <1>4, <1>5, <1>11, <1>12, <1>14 DEF RiskInv
  <1>16. ScoreInv'
      BY <1>1, <1>4 DEF ScoreInv
  <1> QED BY <1>15, <1>16

LEMMA NextRisk == RiskInv /\ ScoreInv /\ [Next]_vars => RiskInv' /\ ScoreInv'
  <1> SUFFICES ASSUME RiskInv, ScoreInv, [Next]_vars PROVE RiskInv' /\ ScoreInv'
      OBVIOUS
  <1>1. CASE Next
      BY <1>1, AccumulateKeeps DEF Next
  <1>2. CASE UNCHANGED vars
    <2>1. UNCHANGED <<entities, stamps, turn_count, risk_score, history>>
        BY <1>2 DEF vars
    <2>2. \A k : Mentions(k)' = Mentions(k)
        BY <2>1 DEF Mentions
    <2>3. RiskInv'
        BY <2>1, <2>2 DEF RiskInv
    <2>4. ScoreInv'
        BY <2>1 DEF ScoreInv
    <2> QED BY <2>3, <2>4
  <1> QED BY <1>1, <1>2

-----------------------------------------------------------------------------
(* The score of the conversation.                                          *)
Extra == SumFunction([k \in RecentKeys |-> Max({2, Mentions(k)}) - 2])
Speed == IF stamps = <<>> THEN 0
         ELSE VelocityScore(stamps, Len(history), stamps[Len(stamps)])

(* The window over the entities shows the keys of the last turns.          *)
LEMMA ActiveAreRecent ==
  ASSUME RiskInv
  PROVE  ActiveNodes(entities, turn_count) = RecentKeys /\ IsFiniteSet(RecentKeys)
  <1>1. /\ turn_count = Len(history) /\ Len(history) \in Nat
        /\ DOMAIN history = 1 .. Len(history)
        /\ DOMAIN entities = UNION {Named(history, i) : i \in DOMAIN history}
        /\ \A k \in DOMAIN entities :
               /\ entities[k].last \in DOMAIN history
               /\ k \in Named(history, entities[k].last)
               /\ \A i \in DOMAIN history :
                      k \in Named(history, i) => i <= entities[k].last
      BY LenProperties DEF RiskInv
  <1>2. Window \in Nat
      BY ScoreAssumption
  <1>3. RecentKeys = UNION {Named(history, i) : i \in Recent}
      BY DEF RecentKeys, Named, Range
  <1>4. \A k : k \in RecentKeys <=> \E i \in DOMAIN history :
                   k \in Named(history, i) /\ i > Len(history) - Window
      BY <1>3 DEF Recent
  <1>5. ASSUME NEW k
        PROVE  k \in ActiveNodes(entities, turn_count) <=> k \in RecentKeys
    <2>1. ASSUME k \in ActiveNodes(entities, turn_count) PROVE k \in RecentKeys
        BY <1>1, <1>2, <1>4, <2>1 DEF ActiveNodes
    <2>2. ASSUME k \in RecentKeys PROVE k \in ActiveNodes(entities, turn_count)
      <3>1. PICK i \in DOMAIN history : k \in Named(history, i) /\ i > Len(history) - Window
          BY <1>4, <2>2
      <3>2. k \in DOMAIN entities
          BY <1>1, <3>1
      <3>3. i <= entities[k].last /\ entities[k].last \in Nat /\ i \in Nat
          BY <1>1, <3>1, <3>2
      <3> QED BY <1>1, <1>2, <3>1, <3>2, <3>3 DEF ActiveNodes
    <2> QED BY <2>1, <2>2
  <1>6. IsFiniteSet(RecentKeys)
    <2>1. RecentKeys \in SUBSET DOMAIN entities
        BY <1>5 DEF ActiveNodes
    <2>2. IsFiniteSet(DOMAIN entities)
        BY DEF RiskInv
    <2> QED BY <2>1, <2>2, FS_Subset
  <1>7. ActiveNodes(entities, turn_count) = RecentKeys
      BY <1>5
  <1> QED BY <1>6, <1>7

(* _score_repeats counts the mentions beyond the second of each key.       *)
LEMMA RepeatsAreExtra ==
  ASSUME RiskInv
  PROVE  /\ Extra \in Nat
         /\ RepeatScore(RecentKeys, entities) = Min({RepeatCap, Extra * RepeatWeight})
  <1> DEFINE E == [k \in RecentKeys |-> Max({2, Mentions(k)}) - 2]
             G == [k \in RecentKeys |-> Max({0, entities[k].count - 2}) * RepeatWeight]
  <1>1. IsFiniteSet(RecentKeys) /\ RecentKeys \subseteq DOMAIN entities
      BY ActiveAreRecent DEF ActiveNodes
  <1>2. RepeatWeight \in Nat
      BY ScoreAssumption
  <1>3. ASSUME NEW k \in RecentKeys
        PROVE  E[k] \in Nat /\ G[k] = E[k] * RepeatWeight
    <2>1. entities[k].count = Mentions(k)
        BY <1>1 DEF RiskInv, CountIn
    <2>2. Mentions(k) \in Nat
      <3>1. history \in Seq(Turns)
          BY DEF RiskInv
      <3>2. Mentions(k) = SumFunctionOnSet(MentionsAt(history, k), DOMAIN history)
          BY MentionsIs DEF SumFunction, MentionsAt
      <3> QED BY <3>1, <3>2, MentionsInNat
    <2>3. /\ Max({2, Mentions(k)}) = IF 2 >= Mentions(k) THEN 2 ELSE Mentions(k)
          /\ Max({0, Mentions(k) - 2})
                 = IF 0 >= Mentions(k) - 2 THEN 0 ELSE Mentions(k) - 2
        BY <2>2, MaxOfTwo
    <2>4. /\ Max({2, Mentions(k)}) - 2 \in Nat
          /\ Max({0, Mentions(k) - 2}) = Max({2, Mentions(k)}) - 2
        BY <2>2, <2>3
    <2> QED BY <2>1, <2>4
  <1>4. /\ Extra = SumFunctionOnSet(E, RecentKeys)
        /\ SumFunction(G) = SumFunctionOnSet(G, RecentKeys)
        /\ RepeatScore(RecentKeys, entities) = Min({SumFunction(G), RepeatCap})
      BY DEF Extra, SumFunction, RepeatScore
  <1> HIDE DEF E, G
  <1>5. SumFunctionOnSet(E, RecentKeys) \in Nat
      BY <1>1, <1>3, SumInNat
  <1>6. SumFunctionOnSet(G, RecentKeys) = SumFunctionOnSet(E, RecentKeys) * RepeatWeight
      BY <1>1, <1>2, <1>3, SumScaled
  <1>7. \A a, b : {a, b} = {b, a}
      OBVIOUS
  <1> QED BY <1>4, <1>5, <1>6, <1>7

(* The score that accumulate stores, put in words of the conversation.     *)
Repeats == Min({RepeatCap, Extra * RepeatWeight})

LEMMA PartsOfScore ==
  ASSUME RiskInv
  PROVE  /\ ComboScore(RecentKeys) \in Nat /\ Speed \in 0 .. 15
         /\ Repeats \in Nat /\ Repeats <= RepeatCap /\ RepeatCap \in Nat
  <1>1. ComboScore(RecentKeys) \in Nat
      BY ComboBounds
  <1>2. Speed \in 0 .. 15
      BY VelocityBounds DEF Speed
  <1>3. RepeatCap \in Nat /\ RepeatWeight \in Nat
      BY ScoreAssumption
  <1>4. Extra * RepeatWeight \in Nat
    <2>1. Extra \in Nat
        BY RepeatsAreExtra
    <2> QED BY <1>3, <2>1
  <1>5. Repeats = IF RepeatCap <= Extra * RepeatWeight
                  THEN RepeatCap ELSE Extra * RepeatWeight
      BY <1>3, <1>4, MinOfTwo DEF Repeats
  <1> QED BY <1>1, <1>2, <1>3, <1>4, <1>5

LEMMA ScoreIs ==
  ASSUME RiskInv, ScoreInv
  PROVE  risk_score = Min({100, ComboScore(RecentKeys) + Speed + Repeats})
  <1>1. CASE stamps # <<>>
    <2>1. risk_score = Risk(RecentKeys, entities, stamps, turn_count, stamps[Len(stamps)])
        BY <1>1, ActiveAreRecent DEF ScoreInv
    <2>2. RepeatScore(RecentKeys, entities) = Repeats
        BY RepeatsAreExtra DEF Repeats
    <2>3. VelocityScore(stamps, turn_count, stamps[Len(stamps)]) = Speed
        BY <1>1 DEF Speed, RiskInv
    <2>4. risk_score = Min({100, ComboScore(RecentKeys) + Repeats + Speed})
        BY <2>1, <2>2, <2>3 DEF Risk
    <2>5. ComboScore(RecentKeys) + Repeats + Speed
              = ComboScore(RecentKeys) + Speed + Repeats
        BY PartsOfScore
    <2> QED BY <2>4, <2>5
  <1>2. CASE stamps = <<>>
    <2>1. risk_score = 0
        BY <1>2 DEF ScoreInv
    <2>2. Speed = 0
        BY <1>2 DEF Speed
    <2>3. RecentKeys = {}
      <3>1. DOMAIN history = {}
          BY <1>2, LenProperties, EmptySeq DEF RiskInv
      <3> QED BY <3>1 DEF RecentKeys, Recent
    <2>4. ComboScore(RecentKeys) = 0
      <3>1. TypesOf(RecentKeys) = {}
          BY <2>3 DEF TypesOf
      <3>2. Completed({}) = {}
          BY DEF Completed, ComboWeights
      <3> QED BY <3>1, <3>2, ComboBounds
    <2>5. Extra = 0
      <3>1. SumFunctionOnSet([k \in RecentKeys |-> Max({2, Mentions(k)}) - 2], {}) = 0
          BY SumOfNone
      <3> QED BY <2>3, <3>1 DEF Extra, SumFunction
    <2>6. Repeats = 0
      <3>1. RepeatCap \in Nat /\ Extra * RepeatWeight = 0
          BY <2>5, ScoreAssumption
      <3>2. Min({RepeatCap, 0}) = 0
          BY <3>1, MinOfTwo
      <3> QED BY <3>1, <3>2 DEF Repeats
    <2>7. Min({100, 0}) = 0
        BY MinOfTwo
    <2> QED BY <2>1, <2>2, <2>4, <2>6, <2>7
  <1> QED BY <1>1, <1>2

(* The score is at most the sum of its parts, and at least any of them up  *)
(* to 100.                                                                 *)
LEMMA ScoreBetween ==
  ASSUME RiskInv, ScoreInv
  PROVE  /\ risk_score \in Nat
         /\ risk_score <= ComboScore(RecentKeys) + 15 + RepeatCap
         /\ risk_score >= 100 \/ risk_score >= ComboScore(RecentKeys)
  <1> DEFINE sum == ComboScore(RecentKeys) + Speed + Repeats
  <1>1. sum \in Nat /\ sum <= ComboScore(RecentKeys) + 15 + RepeatCap
        /\ sum >= ComboScore(RecentKeys)
      BY PartsOfScore
  <1>2. risk_score = Min({100, sum})
      BY ScoreIs
  <1> HIDE DEF sum
  <1>3. risk_score = IF 100 <= sum THEN 100 ELSE sum
      BY <1>1, <1>2, MinOfTwo
  <1>4. ComboScore(RecentKeys) \in Nat /\ RepeatCap \in Nat
      BY PartsOfScore
  <1> QED BY <1>1, <1>3, <1>4

-----------------------------------------------------------------------------
LEMMA RiskInvariant == Spec => [](RiskInv /\ ScoreInv)
  <1> QED BY InitRisk, NextRisk, PTL DEF Spec

(* The last mentions and counts of _register_spans are enough: the score   *)
(* accumulate stores is the one of the whole conversation, whatever it is  *)
(* (accumulator.py:13-16, 142-146).                                        *)
THEOREM ScoreIsOfConversation == Spec => []ScoreOfConversation
  <1>1. RiskInv /\ ScoreInv => ScoreOfConversation
      BY ScoreIs DEF ScoreOfConversation, Repeats, Extra, Speed
  <1> QED BY <1>1, RiskInvariant, PTL

(* Where the cap of the repetitions and all of the velocity together stay  *)
(* below every block threshold, a session is blocked only while a          *)
(* combination of types is in the window (accumulator.py:172-173).         *)
THEOREM BlockNeedsCombination ==
  ASSUME \A h \in HardBlocks : RepeatCap + 15 < h
  PROVE  Spec => []BlockedForRecentCombination
  <1>1. RiskInv /\ ScoreInv => BlockedForRecentCombination
    <2> SUFFICES ASSUME RiskInv, ScoreInv, NEW h \in HardBlocks, risk_score >= h
                 PROVE  \E w \in ComboWeights : w[1] \subseteq RecentTypes
        BY DEF BlockedForRecentCombination
    <2>1. RecentTypes = TypesOf(RecentKeys)
        BY DEF RecentTypes, TypesOf
    <2>2. h \in Nat /\ RepeatCap \in Nat /\ RepeatCap + 15 < h
        BY AccumulatorAssumption, ScoreAssumption
    <2>3. ComboScore(RecentKeys) # 0
      <3>1. risk_score \in Nat /\ risk_score <= ComboScore(RecentKeys) + 15 + RepeatCap
          BY ScoreBetween
      <3> QED BY <2>2, <3>1
    <2>4. Completed(TypesOf(RecentKeys)) # {}
        BY <2>3, ComboBounds
    <2> QED BY <2>1, <2>4 DEF Completed
  <1> QED BY <1>1, RiskInvariant, PTL

(* Where no block threshold is above the combinations' cap, nor above the  *)
(* 80 hundredths that a name, an RRN and an account make up, a session     *)
(* with the three in its window is blocked, whatever else it says and      *)
(* however slowly (accumulator.py:36-39).                                  *)
THEOREM RepresentativeIsBlocked ==
  ASSUME \A h \in HardBlocks : h <= 80 /\ h <= ComboCap
  PROVE  Spec => []RepresentativeScenarioBlocks
  <1>1. RiskInv /\ ScoreInv => RepresentativeScenarioBlocks
    <2> SUFFICES ASSUME RiskInv, ScoreInv,
                        {"NAME", "RRN", "ACCOUNT"} \subseteq RecentTypes,
                        NEW h \in HardBlocks
                 PROVE  risk_score >= h
        BY DEF RepresentativeScenarioBlocks
    <2> DEFINE total == ComboTotal(TypesOf(RecentKeys))
    <2>1. RecentTypes = TypesOf(RecentKeys)
        BY DEF RecentTypes, TypesOf
    <2>2. h \in Nat /\ h <= 80 /\ h <= ComboCap /\ ComboCap \in Nat
        BY AccumulatorAssumption, ScoreAssumption
    <2>3. total \in Nat /\ total >= 80
        BY <2>1, RepresentativeTotal, ComboTotalInNat
    <2>4. ComboScore(RecentKeys) = IF total <= ComboCap THEN total ELSE ComboCap
        BY ComboBounds
    <2>5. /\ risk_score \in Nat /\ ComboScore(RecentKeys) \in Nat
          /\ risk_score >= 100 \/ risk_score >= ComboScore(RecentKeys)
        BY ScoreBetween, ComboBounds
    <2> HIDE DEF total
    <2> QED BY <2>2, <2>3, <2>4, <2>5
  <1> QED BY <1>1, RiskInvariant, PTL
=============================================================================
