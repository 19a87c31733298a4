------------------------ MODULE OrchestrationProofs -------------------------
(***************************************************************************)
(* Proofs about Orchestration and the notifications it hands over: what a  *)
(* failing service costs, what a run's risk score and its event depend on. *)
(***************************************************************************)
EXTENDS Orchestration, FoldLemmas

-----------------------------------------------------------------------------
(* The two folds of the orchestrator.                                      *)

\* f[i] is what Unique has made of the first i queries.
UniqueUpTo(f, queries) ==
  /\ f[0] = <<>>
  /\ \A i \in 1 .. Len(queries) :
       f[i] = IF Contains(f[i - 1], queries[i]) THEN f[i - 1] ELSE Append(f[i - 1], queries[i])

(* Unique takes the queries one after the other.                           *)
LEMMA UniqueRuns ==
  ASSUME NEW S, NEW list \in Seq(S)
  PROVE  \E f : UniqueUpTo(f, list) /\ Unique(list) = f[Len(list)]
<1>. DEFINE n == Len(list)
            Step(v, x) == IF Contains(v, x) THEN v ELSE Append(v, x)
            g == [p \in (1 .. n) \X Seq(S) |-> Step(p[2], list[p[1]])]
            Eq(h) == h = [s \in SUBSET (1 .. n) |-> IF s = {} THEN <<>>
                            ELSE Step(h[s \ {Max(s)}], list[Max(s)])]
            iter == CHOOSE h : Eq(h)
            f == [i \in 0 .. n |-> iter[1 .. i]]
<1>1. n \in Nat /\ DOMAIN list = 1 .. n
  OBVIOUS
<1>2. Unique(list) = iter[1 .. n]
  BY <1>1 DEF Unique, FoldLeft, MapThenFoldSet
<1>3. \A i \in 1 .. n : \A v \in Seq(S) : g[<<i, v>>] = Step(v, list[i]) /\ g[<<i, v>>] \in Seq(S)
  BY <1>1
<1>. HIDE DEF g, Step
<1>4. PICK it \in [SUBSET (1 .. n) -> Seq(S)] : IsLeftFold(it, <<>>, g, n)
  <2>1. IsStep(g, 1 .. n, Seq(S))
    BY <1>3 DEF IsStep
  <2>. QED BY <1>1, <2>1, EmptyFacts, LeftFoldExists
<1>5. Eq(it)
  BY <1>3, <1>4 DEF IsLeftFold
<1>6. Eq(iter)
  <2>. HIDE DEF Eq
  <2>. QED BY <1>5
<1>. HIDE DEF iter
<1>7. f[0] = <<>>
  <2>1. 1 .. 0 = {} /\ 0 \in 0 .. n
    BY <1>1
  <2>. QED BY <1>6, <2>1
<1>8. ASSUME NEW i \in 1 .. n
      PROVE  f[i] = Step(f[i - 1], list[i])
  <2>1. /\ i \in 0 .. n /\ i - 1 \in 0 .. n
        /\ 1 .. i \in SUBSET (1 .. n) /\ 1 .. i # {}
        /\ Max(1 .. i) = i /\ (1 .. i) \ {i} = 1 .. (i - 1)
    BY <1>1, MaxOfInterval
  <2>. QED BY <1>6, <2>1
<1>9. Unique(list) = f[n]
  BY <1>1, <1>2
<1>. HIDE DEF f
<1>. QED BY <1>7, <1>8, <1>9 DEF UniqueUpTo, Step

(* Unique keeps every query and none of them twice.                        *)
LEMMA UniqueFacts ==
  ASSUME NEW S, NEW list \in Seq(S)
  PROVE  /\ Unique(list) \in Seq(S)
         /\ Range(Unique(list)) = Range(list)
         /\ Len(Unique(list)) = Cardinality(Range(list))
<1>1. PICK f : UniqueUpTo(f, list) /\ Unique(list) = f[Len(list)]
  BY UniqueRuns
<1>. DEFINE n == Len(list)
            Good(i) == /\ f[i] \in Seq(S)
                       /\ Range(f[i]) = {list[j] : j \in 1 .. i}
                       /\ IsFiniteSet(Range(f[i]))
                       /\ Len(f[i]) = Cardinality(Range(f[i]))
            P == {i \in 0 .. n : Good(i)}
<1>2. n \in Nat /\ DOMAIN list = 1 .. n /\ \A i \in 1 .. n : list[i] \in S
  OBVIOUS
<1>3. 0 \in P
  <2>1. f[0] = <<>> /\ {list[j] : j \in 1 .. 0} = {} /\ 0 \in 0 .. n
    BY <1>1, <1>2 DEF UniqueUpTo
  <2>2. Good(0)
    BY <2>1, EmptyFacts, FS_EmptySet
  <2>. QED BY <2>1, <2>2
<1>4. ASSUME NEW i \in 0 .. (n - 1), i \in P
      PROVE  i + 1 \in P
  <2>1. /\ i + 1 \in 1 .. n /\ (i + 1) - 1 = i
        /\ 1 .. (i + 1) = (1 .. i) \cup {i + 1}
        /\ list[i + 1] \in S
    BY <1>2
  <2>2. f[i + 1] = IF Contains(f[i], list[i + 1]) THEN f[i] ELSE Append(f[i], list[i + 1])
    BY <1>1, <2>1 DEF UniqueUpTo
  <2>3. {list[j] : j \in 1 .. (i + 1)} = {list[j] : j \in 1 .. i} \cup {list[i + 1]}
    BY <2>1
  <2>4. Good(i) /\ DOMAIN f[i] = 1 .. Len(f[i])
    BY <1>4
  <2>5. Contains(f[i], list[i + 1]) <=> list[i + 1] \in Range(f[i])
    BY <2>4 DEF Contains, Range
  <2>6. CASE Contains(f[i], list[i + 1])
    <3>1. f[i + 1] = f[i] /\ {list[j] : j \in 1 .. (i + 1)} = {list[j] : j \in 1 .. i}
      BY <2>2, <2>3, <2>4, <2>5, <2>6
    <3>2. Good(i + 1)
      BY <2>4, <3>1
    <3>. HIDE DEF Good
    <3>. QED BY <2>1, <3>2
  <2>7. CASE ~ Contains(f[i], list[i + 1])
    <3>1. /\ f[i + 1] \in Seq(S) /\ Len(f[i + 1]) = Len(f[i]) + 1
          /\ Range(f[i + 1]) = Range(f[i]) \cup {list[i + 1]}
      BY <2>1, <2>2, <2>4, <2>7, AppendFacts
    <3>2. /\ IsFiniteSet(Range(f[i]) \cup {list[i + 1]})
          /\ Cardinality(Range(f[i]) \cup {list[i + 1]}) = Cardinality(Range(f[i])) + 1
      BY <2>4, <2>5, <2>7, FS_AddElement
    <3>3. Good(i + 1)
      BY <2>3, <2>4, <3>1, <3>2
    <3>. HIDE DEF Good
    <3>. QED BY <2>1, <3>3
  <2>. QED BY <2>6, <2>7
<1>5. n \in P
  <2>. HIDE DEF P
  <2>1. 0 .. n \subseteq P
    BY <1>2, <1>3, <1>4, RangeInduction
  <2>. QED BY <1>2, <2>1
<1>6. Range(list) = {list[j] : j \in 1 .. n}
  BY <1>2 DEF Range
<1>7. Good(n)
  BY <1>5
<1>. QED BY <1>1, <1>6, <1>7

\* f[i] is what Gathered has made of the first i results.
GatheredUpTo(f, returned) ==
  /\ f[0] = <<>>
  /\ \A i \in 1 .. Len(returned) :
       f[i] = IF returned[i] = Raised THEN f[i - 1] ELSE f[i - 1] \o returned[i]

(* Gathered takes the results one after the other.                         *)
LEMMA GatheredRuns ==
  ASSUME NEW S, NEW list \in Seq(Seq(S) \cup {Raised})
  PROVE  \E f : GatheredUpTo(f, list) /\ Gathered(list) = f[Len(list)]
<1>. DEFINE n == Len(list)
            Step(v, x) == IF x = Raised THEN v ELSE v \o x
            g == [p \in (1 .. n) \X Seq(S) |-> Step(p[2], list[p[1]])]
            Eq(h) == h = [s \in SUBSET (1 .. n) |-> IF s = {} THEN <<>>
                            ELSE Step(h[s \ {Max(s)}], list[Max(s)])]
            iter == CHOOSE h : Eq(h)
            f == [i \in 0 .. n |-> iter[1 .. i]]
<1>1. n \in Nat /\ DOMAIN list = 1 .. n
  OBVIOUS
<1>2. Gathered(list) = iter[1 .. n]
  BY <1>1 DEF Gathered, FoldLeft, MapThenFoldSet
<1>3. \A i \in 1 .. n : \A v \in Seq(S) : g[<<i, v>>] = Step(v, list[i]) /\ g[<<i, v>>] \in Seq(S)
  BY <1>1
<1>. HIDE DEF g, Step
<1>4. PICK it \in [SUBSET (1 .. n) -> Seq(S)] : IsLeftFold(it, <<>>, g, n)
  <2>1. IsStep(g, 1 .. n, Seq(S))
    BY <1>3 DEF IsStep
  <2>. QED BY <1>1, <2>1, EmptyFacts, LeftFoldExists
<1>5. Eq(it)
  BY <1>3, <1>4 DEF IsLeftFold
<1>6. Eq(iter)
  <2>. HIDE DEF Eq
  <2>. QED BY <1>5
<1>. HIDE DEF iter
<1>7. f[0] = <<>>
  <2>1. 1 .. 0 = {} /\ 0 \in 0 .. n
    BY <1>1
  <2>. QED BY <1>6, <2>1
<1>8. ASSUME NEW i \in 1 .. n
      PROVE  f[i] = Step(f[i - 1], list[i])
  <2>1. /\ i \in 0 .. n /\ i - 1 \in 0 .. n
        /\ 1 .. i \in SUBSET (1 .. n) /\ 1 .. i # {}
        /\ Max(1 .. i) = i /\ (1 .. i) \ {i} = 1 .. (i - 1)
    BY <1>1, MaxOfInterval
  <2>. QED BY <1>6, <2>1
<1>9. Gathered(list) = f[n]
  BY <1>1, <1>2
<1>. HIDE DEF f
<1>. QED BY <1>7, <1>8, <1>9 DEF GatheredUpTo, Step

(* Gathered has the elements of every list that was returned and of no     *)
(* other, and as many of them.                                             *)
LEMMA GatheredFacts ==
  ASSUME NEW S, NEW list \in Seq(Seq(S) \cup {Raised})
  PROVE  LET came == {i \in DOMAIN list : list[i] # Raised}
         IN  /\ Gathered(list) \in Seq(S)
             /\ Range(Gathered(list)) = UNION {Range(list[i]) : i \in came}
             /\ Len(Gathered(list)) = SumFunction([i \in came |-> Len(list[i])])
<1>1. PICK f : GatheredUpTo(f, list) /\ Gathered(list) = f[Len(list)]
  BY GatheredRuns
<1>. DEFINE n == Len(list)
            came == {i \in DOMAIN list : list[i] # Raised}
            w == [i \in came |-> Len(list[i])]
            Of(i) == {j \in 1 .. i : list[j] # Raised}
            All(i) == UNION {Range(list[j]) : j \in Of(i)}
            Good(i) == /\ f[i] \in Seq(S)
                       /\ Range(f[i]) = All(i)
                       /\ Len(f[i]) = SumFunctionOnSet(w, Of(i))
            P == {i \in 0 .. n : Good(i)}
<1>2. n \in Nat /\ DOMAIN list = 1 .. n /\ \A i \in 1 .. n : list[i] \in Seq(S) \cup {Raised}
  OBVIOUS
<1>3. /\ came = Of(n)
      /\ \A i \in came : list[i] \in Seq(S) /\ w[i] = Len(list[i]) /\ w[i] \in Nat
  BY <1>2
<1>4. ASSUME NEW i \in 0 .. n
      PROVE  Of(i) \subseteq came /\ IsFiniteSet(Of(i)) /\ InNat(w, Of(i))
  <2>1. Of(i) \subseteq came /\ Of(i) \subseteq 1 .. i
    BY <1>2
  <2>2. IsFiniteSet(1 .. i)
    BY <1>2, FS_Interval
  <2>3. IsFiniteSet(Of(i))
    BY <2>1, <2>2, FS_Subset
  <2>. QED BY <1>3, <2>1, <2>3 DEF InNat
<1>. HIDE DEF w
<1>5. 0 \in P
  <2>1. f[0] = <<>> /\ Of(0) = {} /\ 0 \in 0 .. n
    BY <1>1, <1>2 DEF GatheredUpTo
  <2>2. SumFunctionOnSet(w, Of(0)) = 0
    BY <1>4, <2>1, SumFacts
  <2>3. All(0) = {}
    BY <2>1
  <2>4. Good(0)
    BY <2>1, <2>2, <2>3, EmptyFacts
  <2>. QED BY <2>1, <2>4
<1>6. ASSUME NEW i \in 0 .. (n - 1), i \in P
      PROVE  i + 1 \in P
  <2>1. /\ i + 1 \in 1 .. n /\ i + 1 \in 0 .. n /\ (i + 1) - 1 = i /\ i \in 0 .. n
        /\ 1 .. (i + 1) = (1 .. i) \cup {i + 1}
        /\ i + 1 \notin 1 .. i
    BY <1>2
  <2>2. f[i + 1] = IF list[i + 1] = Raised THEN f[i] ELSE f[i] \o list[i + 1]
    BY <1>1, <2>1 DEF GatheredUpTo
  <2>3. Good(i)
    BY <1>6
  <2>4. CASE list[i + 1] = Raised
    <3>1. Of(i + 1) = Of(i) /\ f[i + 1] = f[i]
      BY <2>1, <2>2, <2>4
    <3>2. Good(i + 1)
      BY <2>3, <3>1
    <3>. QED BY <2>1, <3>2
  <2>5. CASE list[i + 1] # Raised
    <3>1. f[i + 1] = f[i] \o list[i + 1] /\ list[i + 1] \in Seq(S)
      BY <1>2, <2>1, <2>2, <2>5
    <3>2. i + 1 \in Of(i + 1) /\ Of(i + 1) = Of(i) \cup {i + 1} /\ Of(i + 1) \ {i + 1} = Of(i)
      BY <2>1, <2>5
    <3>3. /\ f[i + 1] \in Seq(S)
          /\ Len(f[i + 1]) = Len(f[i]) + Len(list[i + 1])
          /\ Range(f[i + 1]) = Range(f[i]) \cup Range(list[i + 1])
      <4>1. f[i + 1] \in Seq(S) /\ Len(f[i + 1]) = Len(f[i]) + Len(list[i + 1])
        <5>1. f[i] \in Seq(S) /\ list[i + 1] \in Seq(S)
          BY <2>3, <3>1
        <5>. QED BY <3>1, <5>1, ConcatProperties
      <4>2. Range(f[i + 1]) = Range(f[i]) \cup Range(list[i + 1])
        BY <2>3, <3>1, RangeConcatenation
      <4>. QED BY <4>1, <4>2
    <3>4. All(i + 1) = All(i) \cup Range(list[i + 1])
      <4>. HIDE DEF Of
      <4>. QED BY <3>2
    <3>5. /\ SumFunctionOnSet(w, Of(i + 1)) = w[i + 1] + SumFunctionOnSet(w, Of(i))
          /\ SumFunctionOnSet(w, Of(i)) \in Nat
      <4>1. IsFiniteSet(Of(i + 1)) /\ InNat(w, Of(i + 1))
        BY <1>4, <2>1
      <4>. HIDE DEF Of
      <4>2. /\ SumFunctionOnSet(w, Of(i + 1)) = w[i + 1] + SumFunctionOnSet(w, Of(i + 1) \ {i + 1})
            /\ SumFunctionOnSet(w, Of(i + 1) \ {i + 1}) \in Nat
        BY <3>2, <4>1, SumFacts
      <4>. QED BY <3>2, <4>2
    <3>6. w[i + 1] = Len(list[i + 1]) /\ w[i + 1] \in Nat
      BY <1>3, <1>4, <2>1, <3>2
    <3>7. Len(f[i + 1]) = SumFunctionOnSet(w, Of(i + 1))
      BY <2>3, <3>3, <3>5, <3>6
    <3>8. Good(i + 1)
      <4>. HIDE DEF All, Of
      <4>. QED BY <2>3, <3>3, <3>4, <3>7
    <3>. QED BY <2>1, <3>8
  <2>. QED BY <2>4, <2>5
<1>7. n \in P
  <2>. HIDE DEF P
  <2>1. 0 .. n \subseteq P
    BY <1>2, <1>5, <1>6, RangeInduction
  <2>. QED BY <1>2, <2>1
<1>8. Good(n)
  BY <1>7
<1>9. SumFunction(w) = SumFunctionOnSet(w, Of(n))
  BY <1>3 DEF SumFunction, w
<1>. QED BY <1>1, <1>3, <1>8, <1>9 DEF w

-----------------------------------------------------------------------------
(* What the numbers of a run are.                                          *)

\* A number from 0 to a most that is too large for the provers to list.
UpTo(x, most) == x \in Nat /\ x <= most

(* That is what an interval says.                                          *)
LEMMA UpToFacts ==
  ASSUME NEW x, NEW most \in Nat
  PROVE  UpTo(x, most) <=> x \in 0 .. most
BY DEF UpTo

Capped(sum, most) == IF sum < most THEN sum ELSE most

(* The cap on the base never hides a conflict.                             *)
LEMMA CapFacts ==
  ASSUME NEW sum \in Nat
  PROVE  /\ UpTo(Capped(sum, 60), 60)
         /\ \A v : UpTo(v, 40) /\ v <= sum => v <= Capped(sum, 60)
BY DEF Capped, UpTo

(* Four tenths of a shift, rounded.                                        *)
LEMMA PointsFacts ==
  ASSUME NEW shift, UpTo(shift, 10000)
  PROVE  /\ UpTo((shift * 4 + 5) \div 10, 4000)
         /\ shift = 0 => (shift * 4 + 5) \div 10 = 0
         /\ shift >= 2 => (shift * 4 + 5) \div 10 >= 1
BY DEF UpTo

(* The score is at least what the base gives, exceeds 60 only by the       *)
(* shift, and is zero only if both are.                                    *)
LEMMA ScoreFacts ==
  ASSUME NEW base, UpTo(base, 60), NEW points, UpTo(points, 4000)
  PROVE  /\ UpTo(Capped(base * 100 + points, 10000), 10000)
         /\ \A v : UpTo(v, 40) /\ v <= base => Capped(base * 100 + points, 10000) >= 100 * v
         /\ Capped(base * 100 + points, 10000) > 6000 => points > 0
         /\ Capped(base * 100 + points, 10000) = 0 => points = 0
BY DEF Capped, UpTo

(* The conflicts of a run add up to a base of at most 60, which no one of  *)
(* them alone exceeds.                                                     *)
LEMMA BaseFacts ==
  ASSUME NEW conflicts \in Seq(HandedOver)
  PROVE  /\ UpTo(Base(conflicts), 60)
         /\ \A s \in SeveritiesOf(conflicts) : UpTo(WEIGHT[s], 40) /\ WEIGHT[s] <= Base(conflicts)
<1>. DEFINE D == DOMAIN conflicts
            w == Weights(conflicts)
<1>1. IsFiniteSet(D) /\ DOMAIN w = D
  <2>1. D = 1 .. Len(conflicts) /\ Len(conflicts) \in Nat
    OBVIOUS
  <2>. QED BY <2>1, FS_Interval DEF Weights
<1>2. \A s \in Severity : UpTo(WEIGHT[s], 40)
  <2>1. Severity = {"CRITICAL", "HIGH", "MEDIUM", "LOW", "INFO"}
    BY DEF Severity, SEVERITY_ORDER
  <2>2. /\ WEIGHT["CRITICAL"] = 40 /\ WEIGHT["HIGH"] = 20 /\ WEIGHT["MEDIUM"] = 10
        /\ WEIGHT["LOW"] = 5 /\ WEIGHT["INFO"] = 0
    BY DEF WEIGHT
  <2>3. UpTo(40, 40) /\ UpTo(20, 40) /\ UpTo(10, 40) /\ UpTo(5, 40) /\ UpTo(0, 40)
    BY DEF UpTo
  <2>. QED BY <2>1, <2>2, <2>3
<1>3. ASSUME NEW i \in D
      PROVE  w[i] = WEIGHT[conflicts[i].severity] /\ UpTo(w[i], 40)
  <2>1. conflicts[i].severity \in Severity
    <3>1. conflicts[i] \in HandedOver
      OBVIOUS
    <3>. QED BY <3>1, OrchestrationAssumption
  <2>2. w[i] = WEIGHT[conflicts[i].severity]
    BY DEF Weights
  <2>. QED BY <1>2, <2>1, <2>2
<1>4. InNat(w, D) /\ SumFunction(w) = SumFunctionOnSet(w, D)
  <2>1. \A i \in D : w[i] \in Nat
    <3>. HIDE DEF w, D
    <3>. QED BY <1>3 DEF UpTo
  <2>. HIDE DEF w, D
  <2>. QED BY <1>1, <2>1 DEF InNat, SumFunction
<1>. HIDE DEF w, D
<1>5. SumFunctionOnSet(w, D) \in Nat
  BY <1>1, <1>4, SumFacts
<1>6. ASSUME NEW i \in D
      PROVE  w[i] <= SumFunctionOnSet(w, D)
  <2>1. /\ SumFunctionOnSet(w, D) = w[i] + SumFunctionOnSet(w, D \ {i})
        /\ SumFunctionOnSet(w, D \ {i}) \in Nat
    BY <1>1, <1>4, SumFacts
  <2>2. w[i] \in Nat
    BY <1>4 DEF InNat
  <2>. QED BY <2>1, <2>2
<1>7. PICK sum \in Nat : /\ sum = SumFunctionOnSet(w, D)
                        /\ Base(conflicts) = Capped(sum, 60)
  BY <1>4, <1>5 DEF Base, Capped, w
<1>8. ASSUME NEW i \in D
      PROVE  w[i] <= Base(conflicts)
  <2>1. UpTo(w[i], 40) /\ w[i] <= sum
    BY <1>3, <1>6, <1>7
  <2>. QED BY <1>7, <2>1, CapFacts
<1>9. \A s \in SeveritiesOf(conflicts) : \E i \in D : w[i] = WEIGHT[s]
  BY <1>3 DEF SeveritiesOf, D
<1>10. UpTo(Base(conflicts), 60)
  BY <1>7, CapFacts
<1>. QED BY <1>3, <1>8, <1>9, <1>10

(* The shift is a percentage in hundredths, nothing if no routing changed, *)
(* and more than rounding can hide if one of fewer than 6667 did.          *)
LEMMA ShiftFacts ==
  ASSUME NEW total \in Nat, NEW changed \in 0 .. total
  PROVE  /\ UpTo(ShiftPct(changed, total), 10000)
         /\ changed = 0 => ShiftPct(changed, total) = 0
         /\ changed > 0 /\ total < 6667 => ShiftPct(changed, total) >= 2
<1>1. CASE total = 0
  BY <1>1 DEF ShiftPct, UpTo
<1>2. CASE total # 0
  <2>1. PICK q : q = (20000 * changed + total) \div (2 * total)
    OBVIOUS
  <2>2. q \in Int /\ (2 * total) * q <= 20000 * changed + total
                  /\ 20000 * changed + total < (2 * total) * q + 2 * total
    BY <1>2, <2>1
  <2>3. UpTo(q, 10000)
    <3>1. q < 0 => (2 * total) * q <= - (2 * total)
      BY <1>2, <2>2
    <3>2. q > 10000 => (2 * total) * q >= (2 * total) * 10001
      BY <1>2, <2>2
    <3>. QED BY <1>2, <2>2, <3>1, <3>2 DEF UpTo
  <2>4. changed = 0 => q = 0
    <3>1. q > 0 => (2 * total) * q >= 2 * total
      BY <1>2, <2>2
    <3>. QED BY <1>2, <2>2, <2>3, <3>1 DEF UpTo
  <2>5. changed > 0 /\ total < 6667 => q >= 2
    <3>1. q < 2 => (2 * total) * q <= 2 * total
      BY <1>2, <2>2
    <3>. QED BY <1>2, <2>2, <2>3, <3>1 DEF UpTo
  <2>6. ShiftPct(changed, total) = q
    BY <1>2, <2>1 DEF ShiftPct
  <2>. QED BY <2>3, <2>4, <2>5, <2>6
<1>. QED BY <1>1, <1>2

\* What Simulate says of a run's routing.
IsReport(report) ==
  /\ report.total \in Nat
  /\ report.changed \in 0 .. report.total
  /\ UpTo(report.shift, 10000)
  /\ report.changed = 0 => report.shift = 0
  /\ report.changed > 0 /\ report.total < 6667 => report.shift >= 2

(* A report counts some of the queries.                                    *)
LEMMA ReportFacts ==
  ASSUME NEW n \in Nat, NEW before \in [1 .. n -> Ballots], NEW after
  PROVE  IsReport(ReportOf(before, after))
<1>. DEFINE changed == {i \in DOMAIN before : Majority(before[i]) # Majority(after[i])}
<1>1. changed \subseteq 1 .. n /\ Len(before) = n
  OBVIOUS
<1>2. Cardinality(changed) \in 0 .. n
  <2>1. IsFiniteSet(1 .. n) /\ Cardinality(1 .. n) = n
    BY FS_Interval
  <2>2. IsFiniteSet(changed) /\ Cardinality(changed) <= n
    BY <1>1, <2>1, FS_Subset
  <2>. QED BY <2>2, FS_CardinalityType
<1>. HIDE DEF changed
<1>3. /\ ReportOf(before, after).total = n
      /\ ReportOf(before, after).changed = Cardinality(changed)
      /\ ReportOf(before, after).shift = ShiftPct(Cardinality(changed), n)
  BY <1>1 DEF ReportOf, changed
<1>4. /\ UpTo(ShiftPct(Cardinality(changed), n), 10000)
      /\ Cardinality(changed) = 0 => ShiftPct(Cardinality(changed), n) = 0
      /\ Cardinality(changed) > 0 /\ n < 6667 => ShiftPct(Cardinality(changed), n) >= 2
  BY <1>2, ShiftFacts
<1>5. PICK r : r = ReportOf(before, after)
  OBVIOUS
<1>6. /\ r.total \in Nat /\ r.changed \in 0 .. r.total /\ UpTo(r.shift, 10000)
  BY <1>2, <1>3, <1>4, <1>5
<1>7. r.changed = 0 => r.shift = 0
  BY <1>2, <1>3, <1>4, <1>5
<1>8. r.changed > 0 /\ r.total < 6667 => r.shift >= 2
  BY <1>2, <1>3, <1>4, <1>5
<1>. QED BY <1>5, <1>6, <1>7, <1>8 DEF IsReport

(* The risk score is a percentage, and says what RiskFollowsSeverity says. *)
LEMMA RiskFacts ==
  ASSUME NEW conflicts \in Seq(HandedOver), NEW report, IsReport(report)
  PROVE  LET risk == RiskScore(conflicts, report)
         IN  /\ UpTo(risk, 10000)
             /\ \A s \in SeveritiesOf(conflicts) : risk >= 100 * WEIGHT[s]
             /\ risk > 6000 => report.changed > 0
             /\ risk = 0 /\ report.total < 6667 => report.changed = 0
<1>1. /\ UpTo(Base(conflicts), 60)
      /\ \A s \in SeveritiesOf(conflicts) :
           UpTo(WEIGHT[s], 40) /\ WEIGHT[s] <= Base(conflicts)
  BY BaseFacts
<1>2. PICK shift : UpTo(shift, 10000) /\ shift = report.shift
  BY DEF IsReport
<1>3. PICK total \in Nat : total = report.total
  BY DEF IsReport
<1>4. PICK changed \in Nat : changed = report.changed
  BY DEF IsReport
<1>5. (changed = 0 => shift = 0) /\ (changed > 0 /\ total < 6667 => shift >= 2)
  BY <1>2, <1>3, <1>4 DEF IsReport, UpTo
<1>6. PICK points : points = (shift * 4 + 5) \div 10
  OBVIOUS
<1>7. /\ UpTo(points, 4000)
      /\ shift = 0 => points = 0
      /\ shift >= 2 => points >= 1
  BY <1>2, <1>6, PointsFacts
<1>8. PICK risk : risk = Capped(Base(conflicts) * 100 + points, 10000)
  OBVIOUS
<1>9. RiskScore(conflicts, report) = risk
  BY <1>2, <1>6, <1>8 DEF RiskScore, Capped
<1>10. /\ UpTo(risk, 10000)
       /\ \A v : UpTo(v, 40) /\ v <= Base(conflicts) => risk >= 100 * v
       /\ risk > 6000 => points > 0
       /\ risk = 0 => points = 0
  BY <1>1, <1>7, <1>8, ScoreFacts
<1>11. ASSUME NEW s \in SeveritiesOf(conflicts)
       PROVE  risk >= 100 * WEIGHT[s]
  BY <1>1, <1>10
<1>12. risk > 6000 => changed > 0
  BY <1>5, <1>7, <1>10 DEF UpTo
<1>13. risk = 0 /\ total < 6667 => changed = 0
  BY <1>5, <1>7, <1>10 DEF UpTo
<1>. QED BY <1>3, <1>4, <1>9, <1>10, <1>11, <1>12, <1>13

(* The event of a run has the severity of the worst of its conflicts, if   *)
(* that is CRITICAL or HIGH.                                               *)
LEMMA EventFacts ==
  ASSUME NEW conflicts \in Seq(HandedOver)
  PROVE  /\ EventSeverity(conflicts) \in {"CRITICAL", "HIGH", ""}
         /\ {s \in SeveritiesOf(conflicts) \cap {"CRITICAL", "HIGH"} :
               \A t \in SeveritiesOf(conflicts) : SEVERITY_ORDER[s] <= SEVERITY_ORDER[t]}
            = IF EventSeverity(conflicts) = "" THEN {} ELSE {EventSeverity(conflicts)}
<1>. DEFINE all == SeveritiesOf(conflicts)
            severe == all \cap {"CRITICAL", "HIGH"}
            Worst(s) == \A t \in all : SEVERITY_ORDER[s] <= SEVERITY_ORDER[t]
<1>1. all \subseteq Severity
  BY OrchestrationAssumption DEF SeveritiesOf
<1>2. /\ EventSeverity(conflicts) = IF severe = {} THEN "" ELSE TopSeverity(severe)
  BY DEF EventSeverity, SeveritiesOf
<1>. HIDE DEF all
<1>3. /\ WEIGHT["CRITICAL"] = 40 /\ WEIGHT["HIGH"] = 20
      /\ SEVERITY_ORDER["CRITICAL"] = 0 /\ SEVERITY_ORDER["HIGH"] = 1
      /\ \A t \in Severity : /\ SEVERITY_ORDER[t] \in 0 .. 4
                             /\ t # "CRITICAL" => SEVERITY_ORDER[t] >= 1
  BY DEF WEIGHT, Severity, SEVERITY_ORDER
<1>4. CASE "CRITICAL" \in all
  <2>1. TopSeverity(severe) = "CRITICAL"
    <3>1. \A s \in severe : s = "CRITICAL" \/ s = "HIGH"
      OBVIOUS
    <3>2. "CRITICAL" \in severe
      BY <1>4
    <3>. HIDE DEF severe
    <3>. QED BY <1>3, <3>1, <3>2 DEF TopSeverity
  <2>2. {s \in severe : Worst(s)} = {"CRITICAL"}
    BY <1>1, <1>3, <1>4
  <2>. QED BY <1>2, <1>4, <2>1, <2>2 DEF all
<1>5. CASE "CRITICAL" \notin all /\ "HIGH" \in all
  <2>1. severe = {"HIGH"}
    BY <1>5
  <2>2. TopSeverity(severe) = "HIGH"
    <3>. HIDE DEF severe
    <3>. QED BY <1>3, <2>1 DEF TopSeverity
  <2>3. {s \in severe : Worst(s)} = {"HIGH"}
    BY <1>1, <1>3, <1>5, <2>1
  <2>. QED BY <1>2, <2>1, <2>2, <2>3 DEF all
<1>6. CASE "CRITICAL" \notin all /\ "HIGH" \notin all
  <2>1. severe = {}
    BY <1>6
  <2>. QED BY <1>2, <2>1 DEF all
<1>. QED BY <1>4, <1>5, <1>6

-----------------------------------------------------------------------------
(* The router.                                                             *)

\* The event goes to the channels.
Handed == event # "" /\ ShouldDispatch(event)

\* What each channel answered is known, and no other has a result.
Delivered ==
  [channel : DOMAIN ClassOf, severity : Severity, outcome : {"ok", "refused", "raised"}]

\* The event has gone to the channels before the next one, if to any.
Reached ==
  /\ event \in Severity \cup {""}
  /\ next \in 1 .. (Len(Channels) + 1)
  /\ sent \in Seq(Delivered)
  /\ Len(sent) = IF Handed THEN next - 1 ELSE 0
  /\ ~ Handed => Resting

IsAnswered(of, severity, result) ==
  /\ \A i \in 1 .. Len(of) : of[i].channel = Channels[i] /\ of[i].severity = severity
  /\ DOMAIN result = {ClassOf[of[i].channel] : i \in 1 .. Len(of)}
  /\ \A k \in DOMAIN result : result[k] \in BOOLEAN
  /\ \A k \in DOMAIN result : result[k] =>
       \E i \in 1 .. Len(of) : ClassOf[of[i].channel] = k /\ of[i].outcome = "ok"

Answered == IsAnswered(sent, event, results)

RouterInv == Reached /\ Answered

(* The channels are a list.                                                *)
LEMMA ChannelFacts ==
  /\ Len(Channels) \in Nat /\ DOMAIN Channels = 1 .. Len(Channels)
  /\ \A i \in 1 .. Len(Channels) : Channels[i] \in DOMAIN ClassOf
BY NotificationsAssumption

(* Nothing has been sent when the router is handed an event.               *)
LEMMA DispatchInv ==
  ASSUME NEW severity, severity \in Severity \cup {""}, Dispatch(severity)
  PROVE  RouterInv'
<1>1. /\ event' = severity
      /\ next' = IF severity # "" /\ ShouldDispatch(severity) THEN 1 ELSE Len(Channels) + 1
      /\ sent' = <<>> /\ results' = <<>>
  BY DEF Dispatch
<1>2. Handed' <=> severity # "" /\ ShouldDispatch(severity)
  BY <1>1 DEF Handed, ShouldDispatch
<1>3. /\ next' \in 1 .. (Len(Channels) + 1)
      /\ (IF Handed' THEN next' - 1 ELSE 0) = 0
      /\ ~ Handed' => Resting'
  <2>1. PICK at : at = next'
    OBVIOUS
  <2>2. at = IF Handed' THEN 1 ELSE Len(Channels) + 1
    BY <1>1, <1>2, <2>1
  <2>3. PICK N \in Nat : N = Len(Channels)
    BY ChannelFacts
  <2>4. CASE Handed'
    <3>1. at = 1
      BY <2>2, <2>4
    <3>2. 1 \in 1 .. (N + 1) /\ 1 - 1 = 0
      BY ONLY N \in Nat
    <3>. QED BY <2>1, <2>3, <2>4, <3>1, <3>2
  <2>5. CASE ~ Handed'
    <3>1. at = N + 1
      BY <2>2, <2>3, <2>5
    <3>2. N + 1 \in 1 .. (N + 1) /\ N + 1 > N
      BY ONLY N \in Nat
    <3>. QED BY <2>1, <2>3, <2>5, <3>1, <3>2 DEF Resting
  <2>. QED BY <2>4, <2>5
<1>4. sent' \in Seq(Delivered) /\ Len(sent') = 0
  BY <1>1, EmptyFacts
<1>5. 1 .. Len(sent') = {}
  <2>1. 1 .. 0 = {}
    BY ONLY TRUE
  <2>. QED BY <1>4, <2>1
<1>6. DOMAIN results' = {}
  BY <1>1, EmptyFacts
<1>7. Reached'
  BY <1>1, <1>3, <1>4 DEF Reached
<1>8. Answered'
  BY <1>5, <1>6 DEF Answered, IsAnswered
<1>. QED BY <1>7, <1>8 DEF RouterInv

(* A channel that answers or raises has the event and a result.            *)
LEMMA SendInv ==
  ASSUME RouterInv, NEW outcome \in {"ok", "refused", "raised"}, Send(outcome)
  PROVE  RouterInv'
<1>. DEFINE m == [channel |-> Channels[next], severity |-> event, outcome |-> outcome]
            n == Len(sent)
<1>1. PICK key : key = ClassOf[Channels[next]]
  OBVIOUS
<1>2. /\ ~ Resting
      /\ sent' = Append(sent, m)
      /\ results' = [k \in DOMAIN results \cup {key} |->
                       IF k = key THEN outcome = "ok" ELSE results[k]]
      /\ next' = next + 1
      /\ event' = event
  BY <1>1 DEF Send, ResultKey, NextChannel
<1>3. /\ Handed /\ next \in 1 .. Len(Channels) /\ n = next - 1
      /\ event \in Severity
  <2>1. PICK N \in Nat : N = Len(Channels)
    BY ChannelFacts
  <2>2. next \in 1 .. (N + 1) /\ ~ (next > N)
    BY <1>2, <2>1 DEF RouterInv, Reached, Resting
  <2>3. next \in 1 .. N
    BY <2>2
  <2>4. Handed /\ event \in Severity
    BY <1>2 DEF RouterInv, Reached, Handed
  <2>5. n = next - 1
    BY <2>4 DEF RouterInv, Reached
  <2>. QED BY <2>1, <2>3, <2>4, <2>5
<1>4. m \in Delivered /\ m.channel = Channels[next] /\ m.severity = event /\ m.outcome = outcome
  BY <1>3, ChannelFacts DEF Delivered
<1>. HIDE DEF m
<1>5. /\ sent' \in Seq(Delivered) /\ Len(sent') = n + 1 /\ n \in Nat
      /\ \A i \in 1 .. n : sent'[i] = sent[i]
      /\ sent'[n + 1] = m
      /\ 1 .. (n + 1) = (1 .. n) \cup {n + 1}
  <2>1. sent \in Seq(Delivered)
    BY DEF RouterInv, Reached
  <2>2. n \in Nat
    BY <2>1
  <2>3. 1 .. (n + 1) = (1 .. n) \cup {n + 1}
    BY <2>2
  <2>. QED BY <1>2, <1>4, <2>1, <2>2, <2>3, AppendFacts
<1>. HIDE DEF n
<1>6. Handed' = Handed /\ next' \in 1 .. (Len(Channels) + 1) /\ n + 1 = next' - 1
  <2>1. PICK N \in Nat : N = Len(Channels)
    BY ChannelFacts
  <2>2. PICK at \in 1 .. N : at = next /\ n = at - 1 /\ next' = at + 1
    BY <1>2, <1>3, <2>1
  <2>3. at + 1 \in 1 .. (N + 1) /\ (at - 1) + 1 = (at + 1) - 1
    BY <2>1
  <2>4. Handed' = Handed
    BY <1>2 DEF Handed, ShouldDispatch
  <2>. QED BY <2>1, <2>2, <2>3, <2>4
<1>7. \A i \in 1 .. (n + 1) : sent'[i].channel = Channels[i] /\ sent'[i].severity = event'
  <2>1. \A i \in 1 .. n : sent'[i].channel = Channels[i] /\ sent'[i].severity = event'
    BY <1>2, <1>5 DEF RouterInv, Answered, IsAnswered, n
  <2>2. Channels[next] = Channels[n + 1]
    BY <1>3
  <2>. QED BY <1>2, <1>4, <1>5, <2>1, <2>2
<1>8. ClassOf[sent'[n + 1].channel] = key /\ (sent'[n + 1].outcome = "ok") = (outcome = "ok")
  BY <1>1, <1>4, <1>5
<1>9. DOMAIN results' = DOMAIN results \cup {key}
  BY <1>2
<1>10. DOMAIN results = {ClassOf[sent[i].channel] : i \in 1 .. n}
  BY DEF RouterInv, Answered, IsAnswered, n
<1>11. DOMAIN results' = {ClassOf[sent'[i].channel] : i \in 1 .. (n + 1)}
  <2>1. {ClassOf[sent'[i].channel] : i \in 1 .. n} = DOMAIN results
    BY <1>5, <1>10
  <2>. QED BY <1>5, <1>8, <1>9, <2>1
<1>12. \A k \in DOMAIN results' : results'[k] \in BOOLEAN
  BY <1>2 DEF RouterInv, Answered, IsAnswered
<1>13. ASSUME NEW k \in DOMAIN results', results'[k]
       PROVE  \E i \in 1 .. (n + 1) : ClassOf[sent'[i].channel] = k /\ sent'[i].outcome = "ok"
  <2>1. CASE k = key
    <3>1. outcome = "ok"
      BY <1>2, <1>9, <1>13, <2>1
    <3>. QED BY <1>5, <1>8, <2>1, <3>1
  <2>2. CASE k # key
    <3>1. k \in DOMAIN results /\ results[k]
      BY <1>2, <1>9, <1>13, <2>2
    <3>2. PICK i \in 1 .. n : ClassOf[sent[i].channel] = k /\ sent[i].outcome = "ok"
      BY <3>1 DEF RouterInv, Answered, IsAnswered, n
    <3>. QED BY <1>5, <3>2
  <2>. QED BY <2>1, <2>2
<1>14. event' \in Severity \cup {""}
  BY <1>2, <1>3
<1>15. Len(sent') = IF Handed' THEN next' - 1 ELSE 0
  BY <1>3, <1>5, <1>6
<1>16. Reached'
  BY <1>3, <1>5, <1>6, <1>14, <1>15 DEF Reached
<1>17. Answered'
  BY <1>5, <1>7, <1>11, <1>12, <1>13 DEF Answered, IsAnswered
<1>. QED BY <1>16, <1>17 DEF RouterInv

(* Nothing happens to the router while its variables stay as they are.     *)
LEMMA RouterUnchanged ==
  ASSUME RouterInv, UNCHANGED routerVars
  PROVE  RouterInv'
<1>1. event' = event /\ next' = next /\ sent' = sent /\ results' = results
  BY DEF routerVars
<1>2. Handed' = Handed /\ Resting' = Resting
  BY <1>1 DEF Handed, Resting, ShouldDispatch
<1>3. Reached'
  BY <1>1, <1>2 DEF RouterInv, Reached
<1>4. Answered'
  <2>1. Answered
    BY DEF RouterInv
  <2>. QED BY <1>1, <2>1 DEF Answered
<1>. QED BY <1>3, <1>4 DEF RouterInv

(* At rest the router has done what WorstIsNotified says, for the event it *)
(* was handed.                                                             *)
LEMMA RestingFacts ==
  ASSUME RouterInv, Resting
  PROVE  /\ sent # <<>> <=> Channels # <<>> /\ Handed
         /\ sent # <<>> => [i \in DOMAIN sent |-> sent[i].channel] = Channels
         /\ \A m \in Range(sent) : m.severity = event
         /\ \A k \in DOMAIN results : results[k] =>
              \E m \in Range(sent) : ClassOf[m.channel] = k /\ m.outcome = "ok"
<1>1. sent \in Seq(Delivered) /\ DOMAIN sent = 1 .. Len(sent) /\ Len(sent) \in Nat
  <2>1. sent \in Seq(Delivered)
    BY DEF RouterInv, Reached
  <2>. QED BY <2>1
<1>2. PICK N \in Nat : N = Len(Channels)
  BY ChannelFacts
<1>3. Len(sent) = IF Handed THEN Len(Channels) ELSE 0
  <2>1. next \in 1 .. (N + 1) /\ next > N
    BY <1>2 DEF RouterInv, Reached, Resting
  <2>2. next - 1 = N
    BY <2>1
  <2>. QED BY <1>2, <2>2 DEF RouterInv, Reached
<1>4. (sent # <<>> <=> Len(sent) # 0) /\ (Channels # <<>> <=> Len(Channels) # 0)
  BY <1>1, NotificationsAssumption
<1>5. \A i \in 1 .. Len(sent) : sent[i].channel = Channels[i] /\ sent[i].severity = event
  BY DEF RouterInv, Answered, IsAnswered
<1>6. sent # <<>> => [i \in DOMAIN sent |-> sent[i].channel] = Channels
  <2>. SUFFICES ASSUME sent # <<>>
                PROVE  [i \in DOMAIN sent |-> sent[i].channel] = Channels
    OBVIOUS
  <2>1. DOMAIN sent = DOMAIN Channels
    BY <1>1, <1>3, <1>4, ChannelFacts
  <2>2. Channels = [i \in DOMAIN Channels |-> Channels[i]]
    BY NotificationsAssumption
  <2>. QED BY <1>1, <1>5, <2>1, <2>2
<1>7. \A m \in Range(sent) : m.severity = event
  BY <1>1, <1>5 DEF Range
<1>8. sent # <<>> <=> Channels # <<>> /\ Handed
  BY <1>2, <1>3, <1>4
<1>9. ASSUME NEW k \in DOMAIN results, results[k]
      PROVE  \E m \in Range(sent) : ClassOf[m.channel] = k /\ m.outcome = "ok"
  <2>1. PICK i \in 1 .. Len(sent) : ClassOf[sent[i].channel] = k /\ sent[i].outcome = "ok"
    BY <1>9 DEF RouterInv, Answered, IsAnswered
  <2>2. sent[i] \in Range(sent)
    BY <1>1 DEF Range
  <2>. QED BY <2>1, <2>2
<1>. QED BY <1>6, <1>7, <1>8, <1>9

-----------------------------------------------------------------------------
(* A run.                                                                  *)

Phases == {"idle", "probing", "simulating", "recommending", "notifying", "done"}

\* What the run holds, and what the last service it heard has told it.
RunHolds ==
  /\ run = RunAt(run.phase, run.conflicts, run.existing, run.gathered, run.queries,
                 run.report, run.recommendations, run.risk)
  /\ run.phase \in Phases
  /\ run.existing \in Registered \cup {{}}
  /\ run.conflicts \in Seq(HandedOver)
  /\ run.queries \in Seq(STRING)
  /\ IsReport(run.report)
  /\ UpTo(run.risk, 10000)

RunSays == FailuresAreIsolated /\ RiskFollowsSeverity

\* The event of the router is that of the run.
RunIsNotified ==
  /\ run.phase \in {"notifying", "done"} => event = EventSeverity(run.conflicts)
  /\ run.phase = "done" => Resting

OrchestrationInv == RunHolds /\ RunSays /\ RunIsNotified /\ RouterInv

(* A run has what it is made of.                                           *)
LEMMA RunFields ==
  ASSUME NEW phase, NEW conflicts, NEW existing, NEW gathered, NEW queries,
         NEW report, NEW recommendations, NEW risk, NEW r,
         r = RunAt(phase, conflicts, existing, gathered, queries, report,
                   recommendations, risk)
  PROVE  /\ r.phase = phase /\ r.conflicts = conflicts /\ r.existing = existing
         /\ r.gathered = gathered /\ r.queries = queries /\ r.report = report
         /\ r.recommendations = recommendations /\ r.risk = risk
         /\ r = RunAt(r.phase, r.conflicts, r.existing, r.gathered, r.queries, r.report,
                      r.recommendations, r.risk)
BY DEF RunAt

(* The report of a run that has not simulated anything.                    *)
LEMMA NoReportFacts == IsReport(NoReport) /\ UpTo(0, 10000)
BY DEF IsReport, NoReport, UpTo

(* No conflicts, no event.                                                 *)
LEMMA NoEvent == SeveritiesOf(<<>>) = {} /\ EventSeverity(<<>>) = ""
<1>1. DOMAIN <<>> = {}
  BY EmptyFacts
<1>. QED BY <1>1 DEF EventSeverity, SeveritiesOf

(* A run starts with the conflicts it was handed, or ends at once.         *)
LEMMA StartInv ==
  ASSUME OrchestrationInv, NEW conflicts, conflicts \in Seq(HandedOver),
         NEW existing, existing \in Registered, Start(conflicts, existing)
  PROVE  OrchestrationInv'
<1>1. Dispatch("")
  BY DEF Start
<1>2. RouterInv'
  BY <1>1, DispatchInv
<1>3. event' = "" /\ Resting'
  <2>1. event' = "" /\ next' = Len(Channels) + 1
    BY <1>1 DEF Dispatch
  <2>2. PICK N \in Nat : N = Len(Channels)
    BY ChannelFacts
  <2>3. N + 1 > N
    BY <2>2
  <2>. QED BY <2>1, <2>2, <2>3 DEF Resting
<1>4. CASE existing = {}
  <2>1. run' = RunAt("done", <<>>, {}, <<>>, <<>>, NoReport, <<>>, 0)
    BY <1>4 DEF Start
  <2>2. /\ run'.phase = "done" /\ run'.conflicts = <<>> /\ run'.existing = {}
        /\ run'.queries = <<>> /\ run'.report = NoReport /\ run'.risk = 0
    BY <2>1, RunFields
  <2>3. RunHolds'
    <3>1. run' = RunAt(run'.phase, run'.conflicts, run'.existing, run'.gathered, run'.queries,
                       run'.report, run'.recommendations, run'.risk)
      BY <2>1, RunFields
    <3>2. <<>> \in Seq(HandedOver) /\ <<>> \in Seq(STRING)
      BY EmptyFacts
    <3>. QED BY <2>2, <3>1, <3>2, NoReportFacts DEF RunHolds, Phases
  <2>4. RunSays'
    <3>1. FailuresAreIsolated'
      BY <2>2 DEF FailuresAreIsolated
    <3>2. RiskFollowsSeverity'
      <4>1. run'.report.changed = 0
        BY <2>2 DEF NoReport
      <4>2. SeveritiesOf(run'.conflicts) = {}
        BY <2>2, NoEvent
      <4>3. ~ (run'.risk > 6000)
        BY <2>2
      <4>. QED BY <4>1, <4>2, <4>3 DEF RiskFollowsSeverity
    <3>. QED BY <3>1, <3>2 DEF RunSays
  <2>5. RunIsNotified'
    BY <1>3, <2>2, NoEvent DEF RunIsNotified
  <2>. QED BY <1>2, <2>3, <2>4, <2>5 DEF OrchestrationInv
<1>5. CASE existing # {}
  <2>1. run' = RunAt("probing", conflicts, existing, <<>>, <<>>, NoReport, <<>>, 0)
    BY <1>5 DEF Start
  <2>2. /\ run'.phase = "probing" /\ run'.conflicts = conflicts /\ run'.existing = existing
        /\ run'.queries = <<>> /\ run'.report = NoReport /\ run'.risk = 0
    BY <2>1, RunFields
  <2>3. RunHolds'
    <3>1. run' = RunAt(run'.phase, run'.conflicts, run'.existing, run'.gathered, run'.queries,
                       run'.report, run'.recommendations, run'.risk)
      BY <2>1, RunFields
    <3>2. <<>> \in Seq(STRING)
      BY EmptyFacts
    <3>. QED BY <2>2, <3>1, <3>2, NoReportFacts DEF RunHolds, Phases
  <2>4. RunSays' /\ RunIsNotified'
    BY <2>2 DEF RunSays, FailuresAreIsolated, RiskFollowsSeverity, RunIsNotified
  <2>. QED BY <1>2, <2>3, <2>4 DEF OrchestrationInv
<1>. QED BY <1>4, <1>5

(* Each task has a number of queries to ask for.                           *)
LEMMA ProbeTasksFacts ==
  ASSUME run.conflicts \in Seq(HandedOver)
  PROVE  ProbeTasks \in Seq(Nat)
<1>. DEFINE kept == {c \in Range(run.conflicts) : ConflictingName(c) \in run.existing}
<1>1. PICK named : named = Keep(run.conflicts, kept)
  OBVIOUS
<1>2. named \in Seq(HandedOver)
  <2>. HIDE DEF kept
  <2>. QED BY <1>1, KeepFacts
<1>3. [i \in DOMAIN named |-> AdversarialCount] \in Seq(Nat)
  <2>1. DOMAIN named = 1 .. Len(named) /\ Len(named) \in Nat /\ AdversarialCount \in Nat
    BY <1>2, OrchestrationAssumption
  <2>. QED BY <2>1
<1>4. <<ProbeCount>> \in Seq(Nat)
  BY OrchestrationAssumption
<1>5. ProbeTasks = <<ProbeCount>> \o [i \in DOMAIN named |-> AdversarialCount]
  BY <1>1 DEF ProbeTasks
<1>. QED BY <1>3, <1>4, <1>5, ConcatProperties

(* What a task returns is a list of queries.                               *)
LEMMA ParseQueriesFacts ==
  ASSUME NEW answer, answer \in Answer, NEW count \in Nat
  PROVE  ParseQueries(answer, count) \in Seq(STRING)
<1>1. PICK queries : queries = Keep(answer, Range(answer) \ {""})
  OBVIOUS
<1>2. queries \in Seq(STRING)
  BY <1>1, OrchestrationAssumption, KeepFacts
<1>3. PICK m \in 0 .. Len(queries) : m = IF Len(queries) < count THEN Len(queries) ELSE count
  <2>1. PICK l \in Nat : l = Len(queries)
    BY <1>2
  <2>. QED BY <2>1
<1>4. ParseQueries(answer, count) = SubSeq(queries, 1, m)
  BY <1>1, <1>3 DEF ParseQueries
<1>5. Len(queries) \in Nat /\ 1 \in 1 .. (Len(queries) + 1) /\ m \in (1 - 1) .. Len(queries)
  BY <1>2, <1>3
<1>. QED BY <1>2, <1>4, <1>5, SubSeqProperties

(* The generators' queries are those of all that did not fail.             *)
LEMMA GenerateInv ==
  ASSUME OrchestrationInv, GenerateProbes
  PROVE  OrchestrationInv'
<1>1. PICK counts : counts = ProbeTasks /\ counts \in Seq(Nat)
  BY ProbeTasksFacts DEF OrchestrationInv, RunHolds
<1>2. PICK answers \in [DOMAIN counts -> Answer \cup {Raised}] :
        run' = RunAt("simulating", run.conflicts, run.existing,
                     [i \in DOMAIN counts |-> IF answers[i] = Raised THEN Raised
                                              ELSE ParseQueries(answers[i], counts[i])],
                     Unique(Gathered([i \in DOMAIN counts |->
                                        IF answers[i] = Raised THEN Raised
                                        ELSE ParseQueries(answers[i], counts[i])])),
                     NoReport, <<>>, 0)
  BY <1>1 DEF GenerateProbes
<1>3. PICK returned : returned = [i \in DOMAIN counts |->
                                    IF answers[i] = Raised THEN Raised
                                    ELSE ParseQueries(answers[i], counts[i])]
  OBVIOUS
<1>4. returned \in Seq(Seq(STRING) \cup {Raised})
  <2>1. DOMAIN counts = 1 .. Len(counts) /\ Len(counts) \in Nat
    BY <1>1
  <2>2. ASSUME NEW i \in DOMAIN counts
        PROVE  returned[i] \in Seq(STRING) \cup {Raised}
    <3>1. counts[i] \in Nat /\ (answers[i] = Raised \/ answers[i] \in Answer)
      BY <1>1, <1>2
    <3>2. returned[i] = IF answers[i] = Raised THEN Raised
                        ELSE ParseQueries(answers[i], counts[i])
      BY <1>3
    <3>. QED BY <3>1, <3>2, ParseQueriesFacts
  <2>3. returned \in [1 .. Len(counts) -> Seq(STRING) \cup {Raised}]
    BY <1>3, <2>1, <2>2
  <2>. QED BY <2>1, <2>3
<1>5. run' = RunAt("simulating", run.conflicts, run.existing, returned,
                   Unique(Gathered(returned)), NoReport, <<>>, 0)
  BY <1>2, <1>3
<1>6. /\ run'.phase = "simulating" /\ run'.conflicts = run.conflicts
      /\ run'.existing = run.existing /\ run'.gathered = returned
      /\ run'.queries = Unique(Gathered(returned)) /\ run'.report = NoReport /\ run'.risk = 0
  BY <1>5, RunFields
<1>. DEFINE came == {i \in DOMAIN returned : returned[i] # Raised}
            items == UNION {Range(returned[i]) : i \in came}
<1>7. Gathered(returned) \in Seq(STRING) /\ Range(Gathered(returned)) = items
  BY <1>4, GatheredFacts
<1>. HIDE DEF items
<1>8. /\ Unique(Gathered(returned)) \in Seq(STRING)
      /\ Range(Unique(Gathered(returned))) = items
      /\ Len(Unique(Gathered(returned))) = Cardinality(items)
  BY <1>7, UniqueFacts
<1>9. RunHolds'
  <2>1. run' = RunAt(run'.phase, run'.conflicts, run'.existing, run'.gathered, run'.queries,
                     run'.report, run'.recommendations, run'.risk)
    BY <1>5, RunFields
  <2>. QED BY <1>6, <1>8, <2>1, NoReportFacts DEF OrchestrationInv, RunHolds, Phases
<1>10. RunSays'
  <2>1. FailuresAreIsolated'
    BY <1>6, <1>8 DEF FailuresAreIsolated, items
  <2>2. RiskFollowsSeverity'
    BY <1>6 DEF RiskFollowsSeverity
  <2>. QED BY <2>1, <2>2 DEF RunSays
<1>11. RunIsNotified'
  BY <1>6 DEF RunIsNotified
<1>12. RouterInv'
  BY RouterUnchanged DEF GenerateProbes, OrchestrationInv
<1>. QED BY <1>9, <1>10, <1>11, <1>12 DEF OrchestrationInv

(* The simulation says how often routing changed.                          *)
LEMMA SimulateInv ==
  ASSUME OrchestrationInv, Simulate
  PROVE  OrchestrationInv'
<1>1. PICK before \in [DOMAIN run.queries -> Ballots], after \in [DOMAIN run.queries -> Ballots] :
        run' = RunAt("recommending", run.conflicts, run.existing, <<>>, run.queries,
                     ReportOf(before, after), <<>>, 0)
  BY DEF Simulate
<1>2. run.queries \in Seq(STRING)
  BY DEF OrchestrationInv, RunHolds
<1>3. IsReport(ReportOf(before, after))
  <2>1. PICK n \in Nat : DOMAIN run.queries = 1 .. n
    BY <1>2
  <2>. QED BY <1>1, <2>1, ReportFacts
<1>4. /\ run'.phase = "recommending" /\ run'.conflicts = run.conflicts
      /\ run'.existing = run.existing /\ run'.queries = run.queries
      /\ run'.report = ReportOf(before, after) /\ run'.risk = 0
  BY <1>1, RunFields
<1>5. RunHolds'
  <2>1. run' = RunAt(run'.phase, run'.conflicts, run'.existing, run'.gathered, run'.queries,
                     run'.report, run'.recommendations, run'.risk)
    BY <1>1, RunFields
  <2>. QED BY <1>2, <1>3, <1>4, <2>1, NoReportFacts DEF OrchestrationInv, RunHolds, Phases
<1>6. RunSays' /\ RunIsNotified'
  BY <1>4 DEF RunSays, FailuresAreIsolated, RiskFollowsSeverity, RunIsNotified
<1>7. RouterInv'
  BY RouterUnchanged DEF Simulate, OrchestrationInv
<1>. QED BY <1>5, <1>6, <1>7 DEF OrchestrationInv

\* A recommendation, as far as the parser tells them apart.
Advised == [known : BOOLEAN, complete : BOOLEAN]

(* The recommendations are those of all conflicts that got an answer, the  *)
(* score is that of the run, and its event goes to the router.             *)
LEMMA RecommendInv ==
  ASSUME OrchestrationInv, Recommend
  PROVE  OrchestrationInv'
<1>1. PICK advice \in [DOMAIN run.conflicts -> Advice \cup {Raised}] :
        run' = RunAt("notifying", run.conflicts, run.existing,
                     [i \in DOMAIN run.conflicts |->
                        IF advice[i] = Raised THEN Raised ELSE ParseAdvice(advice[i])],
                     <<>>, run.report,
                     Gathered([i \in DOMAIN run.conflicts |->
                                 IF advice[i] = Raised THEN Raised ELSE ParseAdvice(advice[i])]),
                     RiskScore(run.conflicts, run.report))
  BY DEF Recommend
<1>2. PICK returned : returned = [i \in DOMAIN run.conflicts |->
                                    IF advice[i] = Raised THEN Raised
                                    ELSE ParseAdvice(advice[i])]
  OBVIOUS
<1>3. run.conflicts \in Seq(HandedOver) /\ IsReport(run.report)
  BY DEF OrchestrationInv, RunHolds
<1>4. returned \in Seq(Seq(Advised) \cup {Raised})
  <2>1. DOMAIN run.conflicts = 1 .. Len(run.conflicts) /\ Len(run.conflicts) \in Nat
    BY <1>3
  <2>2. ASSUME NEW a, a \in Advice
        PROVE  ParseAdvice(a) \in Seq(Advised)
    <3>1. a \in Seq(Advised)
      BY <2>2, OrchestrationAssumption DEF Advised
    <3>2. PICK kept : ParseAdvice(a) = Keep(a, kept)
      BY DEF ParseAdvice
    <3>. QED BY <3>1, <3>2, KeepFacts
  <2>3. ASSUME NEW i \in DOMAIN run.conflicts
        PROVE  returned[i] \in Seq(Advised) \cup {Raised}
    <3>1. advice[i] = Raised \/ advice[i] \in Advice
      BY <1>1
    <3>2. returned[i] = IF advice[i] = Raised THEN Raised ELSE ParseAdvice(advice[i])
      BY <1>2
    <3>. QED BY <2>2, <3>1, <3>2
  <2>4. returned \in [1 .. Len(run.conflicts) -> Seq(Advised) \cup {Raised}]
    BY <1>2, <2>1, <2>3
  <2>. QED BY <2>1, <2>4
<1>5. run' = RunAt("notifying", run.conflicts, run.existing, returned, <<>>, run.report,
                   Gathered(returned), RiskScore(run.conflicts, run.report))
  BY <1>1, <1>2
<1>6. /\ run'.phase = "notifying" /\ run'.conflicts = run.conflicts
      /\ run'.existing = run.existing /\ run'.gathered = returned
      /\ run'.queries = <<>> /\ run'.report = run.report
      /\ run'.recommendations = Gathered(returned)
      /\ run'.risk = RiskScore(run.conflicts, run.report)
  BY <1>5, RunFields
<1>. DEFINE came == {i \in DOMAIN returned : returned[i] # Raised}
<1>7. /\ Range(Gathered(returned)) = UNION {Range(returned[i]) : i \in came}
      /\ Len(Gathered(returned)) = SumFunction([i \in came |-> Len(returned[i])])
  BY <1>4, GatheredFacts
<1>8. PICK risk : /\ risk = RiskScore(run.conflicts, run.report)
                  /\ UpTo(risk, 10000)
                  /\ \A s \in SeveritiesOf(run.conflicts) : risk >= 100 * WEIGHT[s]
                  /\ risk > 6000 => run.report.changed > 0
                  /\ risk = 0 /\ run.report.total < 6667 => run.report.changed = 0
  BY <1>3, RiskFacts
<1>9. RunHolds'
  <2>1. run' = RunAt(run'.phase, run'.conflicts, run'.existing, run'.gathered, run'.queries,
                     run'.report, run'.recommendations, run'.risk)
    BY <1>5, RunFields
  <2>2. <<>> \in Seq(STRING)
    BY EmptyFacts
  <2>. QED BY <1>3, <1>6, <1>8, <2>1, <2>2 DEF OrchestrationInv, RunHolds, Phases
<1>10. FailuresAreIsolated'
  BY <1>6, <1>7 DEF FailuresAreIsolated
<1>11. RiskFollowsSeverity'
  BY <1>6, <1>8 DEF RiskFollowsSeverity
<1>12. Dispatch(EventSeverity(run.conflicts))
  BY DEF Recommend
<1>13. RunIsNotified'
  BY <1>6, <1>12 DEF RunIsNotified, Dispatch
<1>14. EventSeverity(run.conflicts) \in Severity \cup {""}
  <2>1. "CRITICAL" \in Severity /\ "HIGH" \in Severity
    BY DEF Severity, SEVERITY_ORDER
  <2>. QED BY <1>3, <2>1, EventFacts
<1>15. RouterInv'
  BY <1>12, <1>14, DispatchInv
<1>. QED BY <1>9, <1>10, <1>11, <1>13, <1>15 DEF OrchestrationInv, RunSays

(* Only the router moves while it notifies.                                *)
LEMMA NotifyInv ==
  ASSUME OrchestrationInv, Notify
  PROVE  OrchestrationInv'
<1>1. PICK outcome \in {"ok", "refused", "raised"} : Send(outcome)
  BY DEF Notify, RouterStep
<1>2. RouterInv'
  BY <1>1, SendInv DEF OrchestrationInv
<1>3. run' = run /\ event' = event /\ run.phase = "notifying"
  BY <1>1 DEF Notify, Send
<1>4. RunHolds' /\ RunSays'
  BY <1>3 DEF OrchestrationInv, RunHolds, RunSays, FailuresAreIsolated, RiskFollowsSeverity
<1>5. RunIsNotified'
  BY <1>3 DEF OrchestrationInv, RunIsNotified
<1>. QED BY <1>2, <1>4, <1>5 DEF OrchestrationInv

(* A run returns when the router is at rest.                               *)
LEMMA ReturnInv ==
  ASSUME OrchestrationInv, Return
  PROVE  OrchestrationInv'
<1>1. RouterInv' /\ event' = event /\ Resting'
  BY RouterUnchanged DEF Return, OrchestrationInv, routerVars, Resting
<1>2. run' = RunAt("done", run.conflicts, run.existing, run.gathered, run.queries, run.report,
                   run.recommendations, run.risk)
  BY DEF Return, OrchestrationInv, RunHolds, RunAt
<1>3. /\ run'.phase = "done" /\ run'.conflicts = run.conflicts
      /\ run'.existing = run.existing /\ run'.queries = run.queries
      /\ run'.report = run.report /\ run'.risk = run.risk
  BY <1>2, RunFields
<1>4. RunHolds'
  <2>1. run' = RunAt(run'.phase, run'.conflicts, run'.existing, run'.gathered, run'.queries,
                     run'.report, run'.recommendations, run'.risk)
    BY <1>2, RunFields
  <2>. QED BY <1>3, <2>1 DEF OrchestrationInv, RunHolds, Phases
<1>5. run.phase = "notifying" /\ RiskFollowsSeverity /\ RunIsNotified
  BY DEF Return, OrchestrationInv, RunSays
<1>6. FailuresAreIsolated'
  BY <1>3 DEF FailuresAreIsolated
<1>7. RiskFollowsSeverity'
  BY <1>3, <1>5 DEF RiskFollowsSeverity
<1>8. RunIsNotified'
  BY <1>1, <1>3, <1>5 DEF RunIsNotified
<1>. QED BY <1>1, <1>4, <1>6, <1>7, <1>8 DEF OrchestrationInv, RunSays

(* An idle run is one that holds nothing.                                  *)
LEMMA IdleInv ==
  ASSUME NEW r, r = Idle
  PROVE  /\ r.phase = "idle" /\ r.conflicts = <<>> /\ r.existing = {}
         /\ r.queries = <<>> /\ r.report = NoReport /\ r.risk = 0
         /\ r = RunAt(r.phase, r.conflicts, r.existing, r.gathered, r.queries, r.report,
                      r.recommendations, r.risk)
         /\ r.conflicts \in Seq(HandedOver) /\ r.queries \in Seq(STRING)
         /\ IsReport(r.report) /\ UpTo(r.risk, 10000)
<1>1. /\ r.phase = "idle" /\ r.conflicts = <<>> /\ r.existing = {}
      /\ r.queries = <<>> /\ r.report = NoReport /\ r.risk = 0
      /\ r = RunAt(r.phase, r.conflicts, r.existing, r.gathered, r.queries, r.report,
                   r.recommendations, r.risk)
  BY RunFields DEF Idle
<1>2. <<>> \in Seq(HandedOver) /\ <<>> \in Seq(STRING)
  BY EmptyFacts
<1>. QED BY <1>1, <1>2, NoReportFacts

(* The result of a run is collected.                                       *)
LEMMA CollectInv ==
  ASSUME OrchestrationInv, Collect
  PROVE  OrchestrationInv'
<1>1. RouterInv'
  BY RouterUnchanged DEF Collect, OrchestrationInv
<1>2. run' = Idle
  BY DEF Collect
<1>3. RunHolds'
  BY <1>2, IdleInv DEF RunHolds, Phases
<1>4. RunSays' /\ RunIsNotified'
  BY <1>2, IdleInv DEF RunSays, FailuresAreIsolated, RiskFollowsSeverity, RunIsNotified
<1>. QED BY <1>1, <1>3, <1>4 DEF OrchestrationInv

(* Nothing runs at first.                                                  *)
LEMMA OrchestrationInitInv == OrchestrationInit => OrchestrationInv
<1>. SUFFICES ASSUME OrchestrationInit PROVE OrchestrationInv
  OBVIOUS
<1>1. run = Idle /\ event = "" /\ next = Len(Channels) + 1 /\ sent = <<>> /\ results = <<>>
  BY DEF OrchestrationInit, RouterInit
<1>2. /\ run.phase = "idle" /\ run.existing = {}
      /\ run = RunAt(run.phase, run.conflicts, run.existing, run.gathered, run.queries,
                     run.report, run.recommendations, run.risk)
      /\ run.conflicts \in Seq(HandedOver) /\ run.queries \in Seq(STRING)
      /\ IsReport(run.report) /\ UpTo(run.risk, 10000)
  <2>1. run = Idle
    BY <1>1
  <2>. QED BY <2>1, IdleInv
<1>9. RunHolds
  BY <1>2 DEF RunHolds, Phases
<1>3. RunSays /\ RunIsNotified
  BY <1>2 DEF RunSays, FailuresAreIsolated, RiskFollowsSeverity, RunIsNotified
<1>4. next \in 1 .. (Len(Channels) + 1) /\ Resting /\ ~ Handed
  <2>1. PICK N \in Nat : N = Len(Channels)
    BY ChannelFacts
  <2>2. N + 1 \in 1 .. (N + 1) /\ N + 1 > N
    OBVIOUS
  <2>. QED BY <1>1, <2>1, <2>2 DEF Resting, Handed
<1>5. sent \in Seq(Delivered) /\ Len(sent) = 0 /\ DOMAIN results = {}
  BY <1>1, EmptyFacts
<1>6. 1 .. Len(sent) = {}
  BY <1>5
<1>7. Reached
  <2>1. event \in Severity \cup {""}
    BY <1>1
  <2>. QED BY <1>4, <1>5, <2>1 DEF Reached
<1>8. Answered
  BY <1>5, <1>6 DEF Answered, IsAnswered
<1>. QED BY <1>3, <1>7, <1>8, <1>9 DEF OrchestrationInv, RouterInv

(* No step breaks the invariant.                                           *)
LEMMA OrchestrationNextInv ==
  OrchestrationInv /\ [OrchestrationNext]_orchestrationVars => OrchestrationInv'
<1>. SUFFICES ASSUME OrchestrationInv, [OrchestrationNext]_orchestrationVars
              PROVE  OrchestrationInv'
  OBVIOUS
<1>1. CASE \E n \in 0 .. MaxConflicts :
             \E conflicts \in [1 .. n -> HandedOver], existing \in Registered :
               Start(conflicts, existing)
  <2>1. PICK n \in 0 .. MaxConflicts :
               \E conflicts \in [1 .. n -> HandedOver], existing \in Registered :
                 Start(conflicts, existing)
    BY <1>1
  <2>2. PICK conflicts \in [1 .. n -> HandedOver], existing \in Registered :
               Start(conflicts, existing)
    BY <2>1
  <2>3. conflicts \in Seq(HandedOver)
    OBVIOUS
  <2>. QED BY <2>2, <2>3, StartInv
<1>2. CASE GenerateProbes
  BY <1>2, GenerateInv
<1>3. CASE Simulate
  BY <1>3, SimulateInv
<1>4. CASE Recommend
  BY <1>4, RecommendInv
<1>5. CASE Notify
  BY <1>5, NotifyInv
<1>6. CASE Return
  BY <1>6, ReturnInv
<1>7. CASE Collect
  BY <1>7, CollectInv
<1>8. CASE UNCHANGED orchestrationVars
  <2>1. run' = run /\ UNCHANGED routerVars
    BY <1>8 DEF orchestrationVars, routerVars
  <2>2. RouterInv'
    BY <2>1, RouterUnchanged DEF OrchestrationInv
  <2>3. RunHolds' /\ RunSays'
    BY <2>1 DEF OrchestrationInv, RunHolds, RunSays, FailuresAreIsolated, RiskFollowsSeverity
  <2>4. RunIsNotified'
    BY <2>1 DEF OrchestrationInv, RunIsNotified, routerVars, Resting
  <2>. QED BY <2>2, <2>3, <2>4 DEF OrchestrationInv
<1>. QED BY <1>1, <1>2, <1>3, <1>4, <1>5, <1>6, <1>7, <1>8 DEF OrchestrationNext

(* The invariant holds in every state.                                     *)
LEMMA OrchestrationInvHolds == OrchestrationSpec => []OrchestrationInv
BY OrchestrationInitInv, OrchestrationNextInv, PTL DEF OrchestrationSpec

-----------------------------------------------------------------------------
(* What the invariant says of the types of all variables.                  *)
LEMMA OrchestrationInvTypes == OrchestrationInv => OrchestrationTypeOK
<1>. SUFFICES ASSUME OrchestrationInv PROVE OrchestrationTypeOK
  OBVIOUS
<1>1. /\ run.phase \in Phases /\ run.existing \in Registered \cup {{}}
      /\ IsReport(run.report) /\ UpTo(run.risk, 10000)
  BY DEF OrchestrationInv, RunHolds
<1>2. Whole \in Nat
  BY DEF Whole
<1>3. UpTo(run.risk, Whole) /\ UpTo(run.report.shift, Whole)
  BY <1>1 DEF IsReport, Whole
<1>4. run.risk \in 0 .. Whole /\ run.report.shift \in 0 .. Whole
  BY <1>2, <1>3, UpToFacts
<1>6. run.report.changed \in 0 .. run.report.total
  BY <1>1 DEF IsReport
<1>7. RouterTypeOK
  <2>1. event \in Severity \cup {""} /\ next \in 1 .. (Len(Channels) + 1)
    BY DEF OrchestrationInv, RouterInv, Reached
  <2>2. Len(sent) <= Len(Channels)
    <3>1. PICK N \in Nat : N = Len(Channels)
      BY ChannelFacts
    <3>2. next \in 1 .. (N + 1) /\ Len(sent) = IF Handed THEN next - 1 ELSE 0
      BY <3>1 DEF OrchestrationInv, RouterInv, Reached
    <3>. QED BY <3>1, <3>2
  <2>3. \A k \in DOMAIN results :
          \E i \in 1 .. Len(sent) : k = ClassOf[sent[i].channel] /\ sent[i].channel = Channels[i]
    BY DEF OrchestrationInv, RouterInv, Answered, IsAnswered
  <2>4. DOMAIN results \subseteq {ClassOf[Channels[i]] : i \in DOMAIN Channels}
    <3>1. \A i \in 1 .. Len(sent) : i \in DOMAIN Channels
      <4>1. Len(sent) \in Nat
        <5>1. sent \in Seq(Delivered)
          BY DEF OrchestrationInv, RouterInv, Reached
        <5>. QED BY <5>1
      <4>. QED BY <2>2, <4>1, ChannelFacts
    <3>. QED BY <2>3, <3>1
  <2>5. \A k \in DOMAIN results : results[k] \in BOOLEAN
    BY DEF OrchestrationInv, RouterInv, Answered, IsAnswered
  <2>. QED BY <2>1, <2>4, <2>5 DEF RouterTypeOK
<1>. QED BY <1>1, <1>4, <1>6, <1>7 DEF OrchestrationTypeOK, Phases

(* Every variable of the orchestrator and of the router has its type.      *)
THEOREM OrchestrationTypes == OrchestrationSpec => []OrchestrationTypeOK
BY OrchestrationInvTypes, OrchestrationInvHolds, PTL

(* A generator or a recommender that fails costs only its own results, and *)
(* no query is asked twice.                                                *)
THEOREM FailuresStayIsolated == OrchestrationSpec => []FailuresAreIsolated
<1>1. OrchestrationInv => FailuresAreIsolated
  BY DEF OrchestrationInv, RunSays
<1>. QED BY <1>1, OrchestrationInvHolds, PTL

(* The risk score is no less than the worst conflict of the run weighs, is *)
(* above 60 only if routing shifted, and is zero only if nothing did.      *)
THEOREM RiskIsFounded == OrchestrationSpec => []RiskFollowsSeverity
<1>1. OrchestrationInv => RiskFollowsSeverity
  BY DEF OrchestrationInv, RunSays
<1>. QED BY <1>1, OrchestrationInvHolds, PTL

(* A run with a severe conflict tells every channel once and of the worst  *)
(* severity, whatever the channels before answered; no other run does, and *)
(* what was not delivered is not said to have been.                        *)
THEOREM WorstReachesEveryChannel == OrchestrationSpec => []WorstIsNotified
<1>1. OrchestrationInv => WorstIsNotified
  <2>. SUFFICES ASSUME OrchestrationInv, run.phase = "done"
                PROVE  WorstIsNotified
    BY DEF WorstIsNotified
  <2>. DEFINE worst == {s \in SeveritiesOf(run.conflicts) \cap {"CRITICAL", "HIGH"} :
                          \A t \in SeveritiesOf(run.conflicts) :
                            SEVERITY_ORDER[s] <= SEVERITY_ORDER[t]}
  <2>1. event = EventSeverity(run.conflicts) /\ Resting /\ RouterInv
    BY DEF OrchestrationInv, RunIsNotified
  <2>2. worst = IF event = "" THEN {} ELSE {event}
    <3>1. run.conflicts \in Seq(HandedOver)
      BY DEF OrchestrationInv, RunHolds
    <3>. QED BY <2>1, <3>1, EventFacts
  <2>3. /\ sent # <<>> <=> Channels # <<>> /\ Handed
        /\ sent # <<>> => [i \in DOMAIN sent |-> sent[i].channel] = Channels
        /\ \A m \in Range(sent) : m.severity = event
        /\ \A k \in DOMAIN results : results[k] =>
             \E m \in Range(sent) : ClassOf[m.channel] = k /\ m.outcome = "ok"
    BY <2>1, RestingFacts
  <2>. HIDE DEF worst
  <2>4. Handed <=> \E s \in worst : ShouldDispatch(s)
    BY <2>2 DEF Handed
  <2>5. sent # <<>> <=> Channels # <<>> /\ \E s \in worst : ShouldDispatch(s)
    BY <2>3, <2>4
  <2>6. \A m \in Range(sent) : m.severity \in worst
    <3>1. sent # <<>> => event # ""
      BY <2>3 DEF Handed
    <3>2. sent = <<>> => Range(sent) = {}
      BY EmptyFacts
    <3>. QED BY <2>2, <2>3, <3>1, <3>2
  <2>. QED BY <2>3, <2>5, <2>6 DEF WorstIsNotified, worst
<1>. QED BY <1>1, OrchestrationInvHolds, PTL
=============================================================================
