----------------------------- MODULE FoldLemmas -----------------------------
(***************************************************************************)
(* What the proofs of this project need to know of finite sets, of number  *)
(* ranges and of the folds of the community modules.  An induction is over *)
(* the set of the cases for which something holds; a fold is the function  *)
(* that a recursive definition chooses, so its equation needs a function   *)
(* that satisfies it.                                                      *)
(***************************************************************************)
EXTENDS Lists, FiniteSetTheorems, SequenceTheorems, TLAPS

(* Induction over the subsets of a finite set: a collection that has every *)
(* set of which it has all those with one element less, has them all.      *)
LEMMA SubsetInduction ==
  ASSUME NEW D, IsFiniteSet(D), NEW P,
         \A s \in SUBSET D : (\A x \in s : s \ {x} \in P) => s \in P
  PROVE  \A s \in SUBSET D : s \in P
<1>. SUFFICES ASSUME NEW t \in SUBSET D, t \notin P
              PROVE  FALSE
  OBVIOUS
<1>. DEFINE bad == (SUBSET D) \ P
<1>1. /\ bad \subseteq FiniteSubsetsOf(D)
      /\ bad # {}
  BY FS_FiniteSubsetsOfFinite
<1>2. PICK s \in bad : \A y \in bad : <<y, s>> \notin StrictSubsetOrdering(D)
  <2>. HIDE DEF bad
  <2>. QED BY <1>1, WFMin, FS_StrictSubsetOrderingWellFounded
<1>3. PICK x \in s : s \ {x} \notin P
  BY <1>2
<1>4. s \ {x} \in bad /\ s \ {x} # s
  BY <1>3
<1>5. <<s \ {x}, s>> \in StrictSubsetOrdering(D)
  BY <1>3, <1>4 DEF StrictSubsetOrdering
<1>. QED BY <1>2, <1>4, <1>5

(* Induction over the natural numbers up to a bound.                       *)
LEMMA RangeInduction ==
  ASSUME NEW n \in Nat, NEW P,
         0 \in P,
         \A i \in 0 .. (n - 1) : i \in P => i + 1 \in P
  PROVE  0 .. n \subseteq P
<1>. SUFFICES ASSUME NEW t \in 0 .. n, t \notin P
              PROVE  FALSE
  OBVIOUS
<1>. DEFINE bad == (0 .. n) \ P
<1>1. bad \subseteq Nat /\ bad # {}
  OBVIOUS
<1>2. PICK i \in bad : \A j \in bad : <<j, i>> \notin OpToRel(<, Nat)
  <2>. HIDE DEF bad
  <2>. QED BY <1>1, WFMin, NatLessThanWellFounded
<1>3. i \in 1 .. n
  OBVIOUS
<1>4. i - 1 \in bad
  BY <1>3
<1>5. <<i - 1, i>> \in OpToRel(<, Nat)
  BY <1>3 DEF OpToRel
<1>. QED BY <1>2, <1>4, <1>5

\* ch chooses an element of each set that has one.
IsChoice(ch, D) == \A s \in SUBSET D : s # {} => ch[s] \in s

\* g makes a value of T of an element and a value.
IsStep(g, D, T) == \A x \in D : \A v \in T : g[<<x, v>>] \in T

\* it gives each subset what g makes of b, its elements taken as ch chooses.
IsFold(it, ch, b, g, D) ==
  \A s \in SUBSET D : it[s] = IF s = {} THEN b ELSE g[<<ch[s], it[s \ {ch[s]}]>>]

(* The function a fold over a finite set describes exists.                 *)
LEMMA FoldExists ==
  ASSUME NEW D, IsFiniteSet(D), NEW ch, IsChoice(ch, D),
         NEW T, NEW b \in T, NEW g, IsStep(g, D, T)
  PROVE  \E it \in [SUBSET D -> T] : IsFold(it, ch, b, g, D)
<1>. DEFINE Up(n) == {s \in SUBSET D : Cardinality(s) <= n}
            Solves(it, S) == \A s \in S : it[s] = IF s = {} THEN b
                                                  ELSE g[<<ch[s], it[s \ {ch[s]}]>>]
            P == {n \in Nat : \E it \in [Up(n) -> T] : Solves(it, Up(n))}
            N == Cardinality(D)
<1>1. N \in Nat /\ \A s \in SUBSET D : IsFiniteSet(s) /\ Cardinality(s) \in 0 .. N
  BY FS_CardinalityType, FS_Subset
<1>2. \A s \in SUBSET D : s # {} =>
        /\ ch[s] \in D
        /\ s \ {ch[s]} \in SUBSET D
        /\ Cardinality(s \ {ch[s]}) = Cardinality(s) - 1
  BY <1>1, FS_RemoveElement DEF IsChoice
<1>3. 0 \in P
  <2>1. \A s \in Up(0) : s = {}
    BY <1>1, FS_EmptySet
  <2>2. [s \in Up(0) |-> b] \in [Up(0) -> T] /\ Solves([s \in Up(0) |-> b], Up(0))
    BY <2>1
  <2>. QED BY <2>2
<1>4. ASSUME NEW n \in 0 .. (N - 1), n \in P
      PROVE  n + 1 \in P
  <2>1. PICK it \in [Up(n) -> T] : Solves(it, Up(n))
    BY <1>4
  <2>. DEFINE next == [s \in Up(n + 1) |-> IF s = {} THEN b
                                          ELSE g[<<ch[s], it[s \ {ch[s]}]>>]]
  <2>2. \A s \in Up(n + 1) : s # {} => ch[s] \in D /\ s \ {ch[s]} \in Up(n)
    BY <1>1, <1>2
  <2>3. next \in [Up(n + 1) -> T]
    BY <2>2 DEF IsStep
  <2>4. \A s \in Up(n) : s \in Up(n + 1) /\ next[s] = it[s]
    <3>1. \A s \in Up(n) : s \in Up(n + 1)
      BY <1>1
    <3>. QED BY <2>1, <3>1
  <2>5. Solves(next, Up(n + 1))
    BY <2>2, <2>4
  <2>. HIDE DEF next
  <2>6. \E f \in [Up(n + 1) -> T] : Solves(f, Up(n + 1))
    BY <2>3, <2>5
  <2>. HIDE DEF Up, Solves, N
  <2>. QED BY <1>1, <2>6
<1>5. N \in P
  <2>. HIDE DEF P
  <2>1. 0 .. N \subseteq P
    BY <1>1, <1>3, <1>4, RangeInduction
  <2>. QED BY <1>1, <2>1
<1>6. Up(N) = SUBSET D
  BY <1>1
<1>. QED BY <1>5, <1>6 DEF IsFold

-----------------------------------------------------------------------------
(* The sum of the values of a function over a set of its arguments.        *)
InNat(w, S) == \A x \in S : w[x] \in Nat

Picked(s) == CHOOSE x \in s : TRUE

\* it gives each subset of D the sum of w over it.
IsSum(it, w, D) ==
  /\ it \in [SUBSET D -> Nat]
  /\ \A s \in SUBSET D :
       it[s] = IF s = {} THEN 0 ELSE w[Picked(s)] + it[s \ {Picked(s)}]

(* Some function on the subsets of D gives each of them its sum.           *)
LEMMA SumExists ==
  ASSUME NEW D, IsFiniteSet(D), NEW w, InNat(w, D)
  PROVE  \E it : IsSum(it, w, D)
<1>. DEFINE ch == [s \in SUBSET D |-> Picked(s)]
            g == [p \in D \X Nat |-> w[p[1]] + p[2]]
<1>1. \A s \in SUBSET D : s # {} => Picked(s) \in s /\ s \ {Picked(s)} \in SUBSET D
  BY DEF Picked
<1>2. \A x \in D : \A v \in Nat : g[<<x, v>>] = w[x] + v /\ g[<<x, v>>] \in Nat
  BY DEF InNat
<1>3. \A s \in SUBSET D : ch[s] = Picked(s)
  OBVIOUS
<1>. HIDE DEF ch, g
<1>4. IsChoice(ch, D) /\ IsStep(g, D, Nat) /\ 0 \in Nat
  BY <1>1, <1>2, <1>3 DEF IsChoice, IsStep
<1>5. PICK it \in [SUBSET D -> Nat] : IsFold(it, ch, 0, g, D)
  BY <1>4, FoldExists
<1>6. ASSUME NEW s \in SUBSET D, s # {}
      PROVE  it[s] = w[Picked(s)] + it[s \ {Picked(s)}]
  <2>1. Picked(s) \in D /\ s \ {Picked(s)} \in SUBSET D
    BY <1>1, <1>6
  <2>2. it[s \ {Picked(s)}] \in Nat
    BY <2>1
  <2>. QED BY <1>2, <1>3, <1>5, <1>6, <2>1, <2>2 DEF IsFold
<1>7. IsSum(it, w, D)
  BY <1>5, <1>6 DEF IsSum, IsFold
<1>. QED BY <1>7

(* It is the function the community module's definition describes.         *)
LEMMA SumIs ==
  ASSUME NEW D, IsFiniteSet(D), NEW w, InNat(w, D),
         NEW it, IsSum(it, w, D), NEW S \in SUBSET D
  PROVE  SumFunctionOnSet(w, S) = it[S]
<1>. DEFINE Eq(h) == h = [s \in SUBSET S |-> IF s = {} THEN 0
                                           ELSE w[Picked(s)] + h[s \ {Picked(s)}]]
            iter == CHOOSE h : Eq(h)
<1>0. \A s \in SUBSET S : s # {} => Picked(s) \in s /\ s \ {Picked(s)} \in SUBSET S
  BY DEF Picked
<1>1. SumFunctionOnSet(w, S) = iter[S]
  BY DEF SumFunctionOnSet, FoldFunctionOnSet, MapThenFoldSet, Picked
<1>2. Eq([s \in SUBSET S |-> it[s]])
  BY <1>0 DEF IsSum
<1>3. Eq(iter)
  <2>. HIDE DEF Eq
  <2>. QED BY <1>2
<1>. HIDE DEF iter
<1>4. \A s \in SUBSET S : iter[s] = IF s = {} THEN 0
                                    ELSE w[Picked(s)] + iter[s \ {Picked(s)}]
  BY <1>3
<1>. DEFINE P == {s \in SUBSET S : iter[s] = it[s]}
<1>5. ASSUME NEW s \in SUBSET S, \A x \in s : s \ {x} \in P
      PROVE  s \in P
  BY <1>0, <1>4, <1>5 DEF IsSum
<1>6. S \in P
  <2>. HIDE DEF P
  <2>1. IsFiniteSet(S)
    BY FS_Subset
  <2>2. \A s \in SUBSET S : (\A x \in s : s \ {x} \in P) => s \in P
    BY <1>5
  <2>. QED BY <2>1, <2>2, SubsetInduction
<1>. QED BY <1>1, <1>6

TakesOut(it, w, D) == \A s \in SUBSET D : \A x \in s : it[s] = w[x] + it[s \ {x}]

(* Which element is taken out first makes no difference.                   *)
LEMMA SumTakesOut ==
  ASSUME NEW D, IsFiniteSet(D), NEW w, InNat(w, D),
         NEW it, IsSum(it, w, D)
  PROVE  TakesOut(it, w, D)
<1>. DEFINE P == {s \in SUBSET D : \A x \in s : it[s] = w[x] + it[s \ {x}]}
<1>1. ASSUME NEW s \in SUBSET D, \A x \in s : s \ {x} \in P, NEW x \in s
      PROVE  it[s] = w[x] + it[s \ {x}]
  <2>. DEFINE c == Picked(s)
  <2>1. c \in s /\ it[s] = w[c] + it[s \ {c}]
    BY DEF IsSum, Picked
  <2>. HIDE DEF c
  <2>2. CASE x = c
    BY <2>1, <2>2
  <2>3. CASE x # c
    <3>1. /\ it[s \ {c}] = w[x] + it[(s \ {c}) \ {x}]
          /\ it[s \ {x}] = w[c] + it[(s \ {x}) \ {c}]
      BY <1>1, <2>1, <2>3
    <3>2. (s \ {c}) \ {x} = (s \ {x}) \ {c}
      OBVIOUS
    <3>3. /\ w[x] \in Nat /\ w[c] \in Nat
          /\ it[s \ {c}] \in Nat /\ it[(s \ {x}) \ {c}] \in Nat
      BY <2>1 DEF InNat, IsSum
    <3>4. PICK q \in Nat : q = it[(s \ {c}) \ {x}]
      BY <3>3
    <3>5. it[s \ {c}] = w[x] + q /\ it[s \ {x}] = w[c] + q
      BY <3>1, <3>2, <3>4
    <3>6. it[s] = w[c] + (w[x] + q)
      BY <2>1, <3>5
    <3>7. w[c] + (w[x] + q) = w[x] + (w[c] + q)
      BY ONLY <3>3, q \in Nat
    <3>. QED BY <3>5, <3>6, <3>7
  <2>. QED BY <2>2, <2>3
<1>2. \A s \in SUBSET D : (\A x \in s : s \ {x} \in P) => s \in P
  BY <1>1
<1>. HIDE DEF P
<1>3. \A s \in SUBSET D : s \in P
  BY <1>2, SubsetInduction
<1>. QED BY <1>3 DEF P, TakesOut

(* A sum over a finite set of natural numbers is one, is zero over no      *)
(* arguments, and is what any one argument adds to the sum of the others.  *)
LEMMA SumFacts ==
  ASSUME NEW S, IsFiniteSet(S), NEW w, InNat(w, S)
  PROVE  /\ SumFunctionOnSet(w, S) \in Nat
         /\ S = {} => SumFunctionOnSet(w, S) = 0
         /\ \A x \in S : /\ SumFunctionOnSet(w, S \ {x}) \in Nat
                         /\ SumFunctionOnSet(w, S) = w[x] + SumFunctionOnSet(w, S \ {x})
<1>1. PICK it : IsSum(it, w, S)
  BY SumExists
<1>2. ASSUME NEW s \in SUBSET S
      PROVE  SumFunctionOnSet(w, s) = it[s] /\ it[s] \in Nat
  <2>1. it[s] \in Nat
    BY <1>1 DEF IsSum
  <2>2. SumFunctionOnSet(w, s) = it[s]
    BY <1>1, SumIs
  <2>. QED BY <2>1, <2>2
<1>3. S = {} => it[S] = 0
  BY <1>1 DEF IsSum
<1>4. ASSUME NEW x \in S PROVE it[S] = w[x] + it[S \ {x}]
  <2>1. TakesOut(it, w, S)
    BY <1>1, SumTakesOut
  <2>. QED BY <2>1 DEF TakesOut
<1>. QED BY <1>2, <1>3, <1>4

(* More arguments, or greater values, never make a sum smaller.            *)
LEMMA SumGrows ==
  ASSUME NEW S, IsFiniteSet(S), NEW w, InNat(w, S),
         NEW T \in SUBSET S, NEW v, InNat(v, T), \A x \in T : v[x] <= w[x]
  PROVE  SumFunctionOnSet(v, T) <= SumFunctionOnSet(w, S)
<1>. DEFINE Less(s) == SumFunctionOnSet(v, s \cap T) <= SumFunctionOnSet(w, s)
            P == {s \in SUBSET S : Less(s)}
<1>1. ASSUME NEW s \in SUBSET S, \A x \in s : s \ {x} \in P
      PROVE  Less(s)
  <2>1. /\ IsFiniteSet(s) /\ IsFiniteSet(s \cap T)
        /\ InNat(w, s)
        /\ InNat(v, s \cap T)
    BY FS_Subset DEF InNat
  <2>2. CASE s = {}
    <3>1. s \cap T = {}
      BY <2>2
    <3>2. SumFunctionOnSet(w, s) = 0
      BY <2>1, <2>2, SumFacts
    <3>3. SumFunctionOnSet(v, s \cap T) = 0
      BY <2>1, <3>1, SumFacts
    <3>. QED BY <3>2, <3>3
  <2>3. CASE s # {}
    <3>1. PICK x \in s : Less(s \ {x})
      BY <1>1, <2>3
    <3>2. /\ SumFunctionOnSet(w, s) = w[x] + SumFunctionOnSet(w, s \ {x})
          /\ SumFunctionOnSet(w, s \ {x}) \in Nat
      BY <2>1, SumFacts
    <3>3. CASE x \in T
      <4>1. (s \ {x}) \cap T = (s \cap T) \ {x} /\ x \in s \cap T
        BY <3>3
      <4>2. /\ SumFunctionOnSet(v, s \cap T) = v[x] + SumFunctionOnSet(v, (s \cap T) \ {x})
            /\ SumFunctionOnSet(v, (s \cap T) \ {x}) \in Nat
        BY <2>1, <4>1, SumFacts
      <4>3. v[x] \in Nat /\ w[x] \in Nat /\ v[x] <= w[x]
        BY <3>3 DEF InNat
      <4>. QED BY <3>1, <3>2, <4>1, <4>2, <4>3
    <3>4. CASE x \notin T
      <4>1. (s \ {x}) \cap T = s \cap T
        BY <3>4
      <4>2. SumFunctionOnSet(v, s \cap T) \in Nat
        BY <2>1, SumFacts
      <4>3. w[x] \in Nat
        BY DEF InNat
      <4>4. SumFunctionOnSet(v, s \cap T) <= SumFunctionOnSet(w, s \ {x})
        BY <3>1, <4>1
      <4>5. SumFunctionOnSet(w, s \ {x}) <= SumFunctionOnSet(w, s)
        BY ONLY <3>2, <4>3
      <4>6. SumFunctionOnSet(w, s) \in Nat
        BY ONLY <3>2, <4>3
      <4>. QED BY ONLY <3>2, <4>2, <4>4, <4>5, <4>6
    <3>. QED BY <3>3, <3>4
  <2>. QED BY <2>2, <2>3
<1>. HIDE DEF Less
<1>2. \A s \in SUBSET S : (\A x \in s : s \ {x} \in P) => s \in P
  BY <1>1
<1>. HIDE DEF P
<1>3. S \in P
  BY <1>2, SubsetInduction
<1>4. S \cap T = T
  OBVIOUS
<1>. QED BY <1>3, <1>4 DEF P, Less

(* A sum of zeros is zero.                                                 *)
LEMMA SumOfZeros ==
  ASSUME NEW S, IsFiniteSet(S), NEW w, \A x \in S : w[x] = 0
  PROVE  SumFunctionOnSet(w, S) = 0
<1>. DEFINE P == {s \in SUBSET S : SumFunctionOnSet(w, s) = 0}
<1>1. ASSUME NEW s \in SUBSET S, \A x \in s : s \ {x} \in P
      PROVE  s \in P
  <2>1. IsFiniteSet(s) /\ InNat(w, s)
    BY FS_Subset DEF InNat
  <2>2. CASE s = {}
    BY <2>1, <2>2, SumFacts
  <2>3. CASE s # {}
    <3>1. PICK x \in s : s \ {x} \in P /\ w[x] = 0
      BY <1>1, <2>3
    <3>2. SumFunctionOnSet(w, s) = w[x] + SumFunctionOnSet(w, s \ {x})
      BY <2>1, SumFacts
    <3>. QED BY <3>1, <3>2
  <2>. QED BY <2>2, <2>3
<1>2. \A s \in SUBSET S : (\A x \in s : s \ {x} \in P) => s \in P
  BY <1>1
<1>. HIDE DEF P
<1>3. \A s \in SUBSET S : s \in P
  BY <1>2, SubsetInduction
<1>. QED BY <1>3 DEF P

(* A function that changes at one argument changes its sum by as much.     *)
LEMMA SumChangesAtOne ==
  ASSUME NEW S, IsFiniteSet(S), NEW w, InNat(w, S),
         NEW v, NEW a \in S, v[a] \in Nat, \A x \in S \ {a} : v[x] = w[x]
  PROVE  SumFunctionOnSet(v, S) + w[a] = SumFunctionOnSet(w, S) + v[a]
<1>1. IsFiniteSet(S \ {a}) /\ S \ {a} \in SUBSET (S \ {a})
  BY FS_RemoveElement
<1>2. InNat(v, S) /\ InNat(v, S \ {a}) /\ InNat(w, S \ {a})
  BY DEF InNat
<1>3. /\ \A x \in S \ {a} : v[x] <= w[x]
      /\ \A x \in S \ {a} : w[x] <= v[x]
  BY <1>2 DEF InNat
<1>4. SumFunctionOnSet(v, S \ {a}) <= SumFunctionOnSet(w, S \ {a})
  BY <1>1, <1>2, <1>3, SumGrows
<1>5. SumFunctionOnSet(w, S \ {a}) <= SumFunctionOnSet(v, S \ {a})
  BY <1>1, <1>2, <1>3, SumGrows
<1>6. /\ SumFunctionOnSet(v, S) = v[a] + SumFunctionOnSet(v, S \ {a})
      /\ SumFunctionOnSet(v, S \ {a}) \in Nat
  BY <1>2, SumFacts
<1>7. /\ SumFunctionOnSet(w, S) = w[a] + SumFunctionOnSet(w, S \ {a})
      /\ SumFunctionOnSet(w, S \ {a}) \in Nat
  BY SumFacts
<1>8. v[a] \in Nat /\ w[a] \in Nat
  BY DEF InNat
<1>. QED BY ONLY <1>4, <1>5, <1>6, <1>7, <1>8

-----------------------------------------------------------------------------
(* Folds over lists.                                                       *)

(* A finite set of numbers that is not empty has a greatest.               *)
LEMMA HasGreatest ==
  ASSUME NEW n \in Nat
  PROVE  \A s \in SUBSET (1 .. n) : s = {} \/ \E x \in s : \A y \in s : x >= y
<1>. DEFINE Has(s) == s = {} \/ \E x \in s : \A y \in s : x >= y
            P == {s \in SUBSET (1 .. n) : Has(s)}
<1>1. ASSUME NEW s \in SUBSET (1 .. n), \A x \in s : s \ {x} \in P
      PROVE  Has(s)
  <2>. SUFFICES ASSUME s # {} PROVE Has(s)
    OBVIOUS
  <2>1. PICK x \in s : Has(s \ {x})
    <3>1. PICK x \in s : TRUE
      OBVIOUS
    <3>. HIDE DEF Has
    <3>. QED BY <1>1, <3>1
  <2>2. CASE s \ {x} = {}
    <3>1. \A y \in s : x >= y
      BY <2>2
    <3>. QED BY <3>1
  <2>3. CASE s \ {x} # {}
    <3>1. PICK m \in s \ {x} : \A y \in s \ {x} : m >= y
      BY <2>1, <2>3
    <3>. QED BY <3>1
  <2>. QED BY <2>2, <2>3
<1>. HIDE DEF Has
<1>2. \A s \in SUBSET (1 .. n) : (\A x \in s : s \ {x} \in P) => s \in P
  BY <1>1
<1>3. IsFiniteSet(1 .. n)
  BY FS_Interval
<1>. HIDE DEF P
<1>4. \A s \in SUBSET (1 .. n) : s \in P
  BY <1>2, <1>3, SubsetInduction
<1>. QED BY <1>4 DEF P, Has

(* Max chooses a member.                                                   *)
LEMMA MaxIsChoice ==
  ASSUME NEW n \in Nat
  PROVE  IsChoice([s \in SUBSET (1 .. n) |-> Max(s)], 1 .. n)
BY HasGreatest DEF IsChoice, Max

(* The greatest of the first i numbers is i.                               *)
LEMMA MaxOfInterval ==
  ASSUME NEW n \in Nat, NEW i \in 1 .. n
  PROVE  /\ i \in 0 .. n /\ i - 1 \in 0 .. n
         /\ 1 .. i \in SUBSET (1 .. n) /\ 1 .. i # {}
         /\ Max(1 .. i) = i /\ (1 .. i) \ {i} = 1 .. (i - 1)
<1>1. \E x \in 1 .. i : \A y \in 1 .. i : x >= y
  OBVIOUS
<1>2. Max(1 .. i) \in 1 .. i /\ \A y \in 1 .. i : Max(1 .. i) >= y
  BY <1>1 DEF Max
<1>3. 1 .. i \in SUBSET (1 .. n) /\ i \in 1 .. i
  OBVIOUS
<1>. QED BY <1>2, <1>3

(* A list with one element more.                                           *)
LEMMA AppendFacts ==
  ASSUME NEW S, NEW s \in Seq(S), NEW e \in S
  PROVE  /\ Append(s, e) \in Seq(S)
         /\ Len(Append(s, e)) = Len(s) + 1
         /\ Range(Append(s, e)) = Range(s) \cup {e}
         /\ \A j \in 1 .. Len(s) : Append(s, e)[j] = s[j]
         /\ Append(s, e)[Len(s) + 1] = e
<1>1. /\ Append(s, e) \in Seq(S)
      /\ Len(Append(s, e)) = Len(s) + 1
      /\ \A j \in 1 .. Len(s) : Append(s, e)[j] = s[j]
      /\ Append(s, e)[Len(s) + 1] = e
  OBVIOUS
<1>2. /\ DOMAIN s = 1 .. Len(s)
      /\ DOMAIN Append(s, e) = 1 .. (Len(s) + 1)
      /\ Len(s) \in Nat
  OBVIOUS
<1>3. 1 .. (Len(s) + 1) = (1 .. Len(s)) \cup {Len(s) + 1}
  BY <1>2
<1>4. Range(Append(s, e)) \subseteq Range(s) \cup {e}
  BY <1>1, <1>2, <1>3 DEF Range
<1>5. Range(s) \cup {e} \subseteq Range(Append(s, e))
  BY <1>1, <1>2, <1>3 DEF Range
<1>. QED BY <1>1, <1>4, <1>5

(* The empty list.                                                         *)
LEMMA EmptyFacts ==
  ASSUME NEW S
  PROVE  <<>> \in Seq(S) /\ Len(<<>>) = 0 /\ DOMAIN <<>> = {} /\ Range(<<>>) = {}
<1>1. <<>> \in Seq(S) /\ Len(<<>>) = 0
  OBVIOUS
<1>2. DOMAIN <<>> = {}
  OBVIOUS
<1>. QED BY <1>1, <1>2 DEF Range

\* it is what a fold from the left makes of any n elements that g takes up.
IsLeftFold(it, b, g, n) ==
  /\ it[{}] = b
  /\ \A s \in SUBSET (1 .. n) : s # {} =>
       /\ Max(s) \in 1 .. n
       /\ s \ {Max(s)} \in SUBSET (1 .. n)
       /\ it[s] = g[<<Max(s), it[s \ {Max(s)}]>>]

(* The function a fold from the left describes exists.                     *)
LEMMA LeftFoldExists ==
  ASSUME NEW n \in Nat, NEW T, NEW b \in T, NEW g, IsStep(g, 1 .. n, T)
  PROVE  \E it \in [SUBSET (1 .. n) -> T] : IsLeftFold(it, b, g, n)
<1>. DEFINE ch == [s \in SUBSET (1 .. n) |-> Max(s)]
<1>1. IsFiniteSet(1 .. n) /\ IsChoice(ch, 1 .. n)
  <2>1. IsFiniteSet(1 .. n)
    BY FS_Interval
  <2>2. IsChoice(ch, 1 .. n)
    BY MaxIsChoice
  <2>. QED BY <2>1, <2>2
<1>2. \A s \in SUBSET (1 .. n) : s # {} =>
        ch[s] = Max(s) /\ Max(s) \in 1 .. n /\ s \ {Max(s)} \in SUBSET (1 .. n)
  BY <1>1 DEF IsChoice
<1>. HIDE DEF ch
<1>3. PICK it \in [SUBSET (1 .. n) -> T] : IsFold(it, ch, b, g, 1 .. n)
  BY <1>1, FoldExists
<1>4. IsLeftFold(it, b, g, n)
  BY <1>2, <1>3 DEF IsFold, IsLeftFold
<1>. QED BY <1>4

\* f[i] is the part of a list that Keep has kept of its first i elements.
KeepsUpTo(f, list, kept) ==
  /\ f[0] = <<>>
  /\ \A i \in 1 .. Len(list) :
       f[i] = IF list[i] \in kept THEN Append(f[i - 1], list[i]) ELSE f[i - 1]

(* Keep takes the elements of a list one after the other.                  *)
LEMMA KeepRuns ==
  ASSUME NEW S, NEW list \in Seq(S), NEW kept
  PROVE  \E f : KeepsUpTo(f, list, kept) /\ Keep(list, kept) = f[Len(list)]
<1>. DEFINE n == Len(list)
            Step(v, x) == IF x \in kept THEN Append(v, x) ELSE v
            g == [p \in (1 .. n) \X Seq(S) |-> Step(p[2], list[p[1]])]
            Eq(h) == h = [s \in SUBSET (1 .. n) |-> IF s = {} THEN <<>>
                            ELSE Step(h[s \ {Max(s)}], list[Max(s)])]
            iter == CHOOSE h : Eq(h)
            f == [i \in 0 .. n |-> iter[1 .. i]]
<1>1. n \in Nat /\ DOMAIN list = 1 .. n
  OBVIOUS
<1>2. Keep(list, kept) = iter[1 .. n]
  BY <1>1 DEF Keep, FoldLeft, MapThenFoldSet
<1>3. \A i \in 1 .. n : \A v \in Seq(S) : g[<<i, v>>] = Step(v, list[i]) /\ g[<<i, v>>] \in Seq(S)
  BY <1>1
<1>. HIDE DEF g, Step
<1>4. PICK it \in [SUBSET (1 .. n) -> Seq(S)] : IsLeftFold(it, <<>>, g, n)
  <2>1. IsStep(g, 1 .. n, Seq(S))
    BY <1>3 DEF IsStep
  <2>. QED BY <1>1, <2>1, EmptyFacts, LeftFoldExists
<1>5. Eq(it)
  BY <1>3, <1>4 DEF IsLeftFold
<1>6. Eq(iter)
  <2>. HIDE DEF Eq
  <2>. QED BY <1>5
<1>. HIDE DEF iter
<1>7. f[0] = <<>>
  <2>1. 1 .. 0 = {} /\ 0 \in 0 .. n
    BY <1>1
  <2>. QED BY <1>6, <2>1
<1>8. ASSUME NEW i \in 1 .. n
      PROVE  f[i] = Step(f[i - 1], list[i])
  <2>1. /\ i \in 0 .. n /\ i - 1 \in 0 .. n
        /\ 1 .. i \in SUBSET (1 .. n) /\ 1 .. i # {}
        /\ Max(1 .. i) = i /\ (1 .. i) \ {i} = 1 .. (i - 1)
    BY <1>1, MaxOfInterval
  <2>. QED BY <1>6, <2>1
<1>9. Keep(list, kept) = f[n]
  BY <1>1, <1>2
<1>. HIDE DEF f
<1>. QED BY <1>7, <1>8, <1>9 DEF KeepsUpTo, Step

(* What Keep returns is a list of those of the elements that are kept.     *)
LEMMA KeepFacts ==
  ASSUME NEW S, NEW list \in Seq(S), NEW kept
  PROVE  /\ Keep(list, kept) \in Seq(S)
         /\ Range(Keep(list, kept)) = Range(list) \cap kept
         /\ Len(Keep(list, kept)) <= Len(list)
<1>1. PICK f : KeepsUpTo(f, list, kept) /\ Keep(list, kept) = f[Len(list)]
  BY KeepRuns
<1>. DEFINE n == Len(list)
            Good(i) == /\ f[i] \in Seq(S)
                       /\ Len(f[i]) <= i
                       /\ Range(f[i]) = {list[j] : j \in 1 .. i} \cap kept
            P == {i \in 0 .. n : Good(i)}
<1>2. n \in Nat /\ DOMAIN list = 1 .. n /\ \A i \in 1 .. n : list[i] \in S
  OBVIOUS
<1>3. 0 \in P
  <2>1. f[0] = <<>> /\ {list[j] : j \in 1 .. 0} = {} /\ 0 \in 0 .. n
    BY <1>1, <1>2 DEF KeepsUpTo
  <2>2. Good(0)
    BY <2>1, EmptyFacts
  <2>. QED BY <2>1, <2>2
<1>4. ASSUME NEW i \in 0 .. (n - 1), i \in P
      PROVE  i + 1 \in P
  <2>1. /\ i + 1 \in 1 .. n /\ (i + 1) - 1 = i
        /\ 1 .. (i + 1) = (1 .. i) \cup {i + 1}
        /\ list[i + 1] \in S
    BY <1>2
  <2>2. f[i + 1] = IF list[i + 1] \in kept THEN Append(f[i], list[i + 1]) ELSE f[i]
    BY <1>1, <2>1 DEF KeepsUpTo
  <2>3. {list[j] : j \in 1 .. (i + 1)} = {list[j] : j \in 1 .. i} \cup {list[i + 1]}
    BY <2>1
  <2>4. /\ f[i] \in Seq(S) /\ Len(f[i]) <= i /\ Len(f[i]) \in Nat
        /\ Range(f[i]) = {list[j] : j \in 1 .. i} \cap kept
    BY <1>4
  <2>5. CASE list[i + 1] \in kept
    <3>1. f[i + 1] = Append(f[i], list[i + 1])
      BY <2>2, <2>5
    <3>2. /\ f[i + 1] \in Seq(S) /\ Len(f[i + 1]) = Len(f[i]) + 1
          /\ Range(f[i + 1]) = Range(f[i]) \cup {list[i + 1]}
      BY <2>1, <2>4, <3>1, AppendFacts
    <3>. QED BY <2>1, <2>3, <2>4, <2>5, <3>2
  <2>6. CASE list[i + 1] \notin kept
    BY <2>1, <2>2, <2>3, <2>4, <2>6
  <2>. QED BY <2>5, <2>6
<1>5. n \in P
  <2>. HIDE DEF P
  <2>1. 0 .. n \subseteq P
    BY <1>2, <1>3, <1>4, RangeInduction
  <2>. QED BY <1>2, <2>1
<1>. QED BY <1>1, <1>2, <1>5 DEF Range

(* A list without its first element.                                       *)
LEMMA TailFacts ==
  ASSUME NEW S, NEW s \in Seq(S), s # <<>>
  PROVE  Tail(s) \in Seq(S) /\ Range(Tail(s)) \subseteq Range(s)
<1>1. /\ Tail(s) \in Seq(S) /\ Len(s) \in Nat /\ Len(Tail(s)) = Len(s) - 1
      /\ \A i \in 1 .. Len(Tail(s)) : Tail(s)[i] = s[i + 1]
  OBVIOUS
<1>2. DOMAIN s = 1 .. Len(s) /\ DOMAIN Tail(s) = 1 .. Len(Tail(s))
  BY <1>1
<1>3. \A i \in 1 .. Len(Tail(s)) : i + 1 \in 1 .. Len(s)
  BY <1>1
<1>. QED BY <1>1, <1>2, <1>3 DEF Range

(* An element before a list, and one after it.                             *)
LEMMA ConcatFacts ==
  ASSUME NEW S, NEW s \in Seq(S), NEW t \in Seq(S), NEW e \in S
  PROVE  /\ <<e>> \in Seq(S) /\ s \o t \in Seq(S)
         /\ Append(<<>>, e) = <<e>>
         /\ <<e>> \o <<>> = <<e>>
         /\ s \o Append(t, e) = Append(s \o t, e)
         /\ Len(<<e>> \o s) = Len(s) + 1
         /\ (<<e>> \o s)[1] = e
         /\ \A i \in 1 .. Len(s) : (<<e>> \o s)[i + 1] = s[i]
<1>1. /\ <<e>> \in Seq(S) /\ s \o t \in Seq(S)
      /\ Append(<<>>, e) = <<e>> /\ <<e>> \o <<>> = <<e>>
      /\ s \o Append(t, e) = Append(s \o t, e)
  OBVIOUS
<1>2. /\ Len(<<e>> \o s) = Len(s) + 1
      /\ (<<e>> \o s)[1] = e
      /\ \A i \in 1 .. Len(s) : (<<e>> \o s)[i + 1] = s[i]
  OBVIOUS
<1>. QED BY <1>1, <1>2

(* What Keep has kept at any moment is a list.                             *)
LEMMA KeepsLists ==
  ASSUME NEW S, NEW list \in Seq(S), NEW kept, NEW f, KeepsUpTo(f, list, kept)
  PROVE  \A i \in 0 .. Len(list) : f[i] \in Seq(S)
<1>. DEFINE n == Len(list)
            P == {i \in 0 .. n : f[i] \in Seq(S)}
<1>1. n \in Nat /\ \A i \in 1 .. n : list[i] \in S
  OBVIOUS
<1>2. 0 \in P
  <2>1. f[0] = <<>> /\ <<>> \in Seq(S)
    BY EmptyFacts DEF KeepsUpTo
  <2>2. 0 \in 0 .. n
    BY <1>1
  <2>3. f[0] \in Seq(S)
    BY <2>1
  <2>. QED BY <2>2, <2>3
<1>3. ASSUME NEW i \in 0 .. (n - 1), i \in P PROVE i + 1 \in P
  <2>1. i + 1 \in 1 .. n /\ (i + 1) - 1 = i /\ i + 1 \in 0 .. n
    BY <1>1
  <2>2. f[i + 1] = IF list[i + 1] \in kept THEN Append(f[i], list[i + 1]) ELSE f[i]
    BY <2>1 DEF KeepsUpTo
  <2>3. PICK x, v : x = list[i + 1] /\ v = f[i]
    OBVIOUS
  <2>4. v \in Seq(S) /\ Append(v, x) \in Seq(S)
    <3>1. v \in Seq(S) /\ x \in S
      BY <1>1, <1>3, <2>1, <2>3
    <3>. QED BY <3>1, AppendFacts
  <2>5. f[i + 1] \in Seq(S)
    BY <2>2, <2>3, <2>4
  <2>. QED BY <2>1, <2>5
<1>. HIDE DEF P
<1>4. 0 .. n \subseteq P
  BY <1>1, <1>2, <1>3, RangeInduction
<1>. QED BY <1>4 DEF P

(* Keep looks at a last element last.                                      *)
LEMMA KeepAppended ==
  ASSUME NEW S, NEW list \in Seq(S), NEW e \in S, NEW kept
  PROVE  Keep(Append(list, e), kept) =
           IF e \in kept THEN Append(Keep(list, kept), e) ELSE Keep(list, kept)
<1>. DEFINE n == Len(list)
<1>1. PICK long : long = Append(list, e)
  OBVIOUS
<1>2. /\ n \in Nat /\ long \in Seq(S) /\ Len(long) = n + 1
      /\ long[n + 1] = e /\ \A i \in 1 .. n : long[i] = list[i]
  BY <1>1, AppendFacts
<1>3. PICK f : KeepsUpTo(f, list, kept) /\ Keep(list, kept) = f[n]
  BY KeepRuns
<1>4. PICK g : KeepsUpTo(g, long, kept) /\ Keep(long, kept) = g[n + 1]
  BY <1>2, KeepRuns
<1>. DEFINE P == {i \in 0 .. n : g[i] = f[i]}
<1>5. 0 \in P
  BY <1>2, <1>3, <1>4 DEF KeepsUpTo
<1>6. ASSUME NEW i \in 0 .. (n - 1), i \in P PROVE i + 1 \in P
  <2>1. /\ i + 1 \in 1 .. n /\ (i + 1) - 1 = i /\ i + 1 \in 0 .. n
        /\ i + 1 \in 1 .. (n + 1)
    BY <1>2
  <2>2. f[i + 1] = IF list[i + 1] \in kept THEN Append(f[i], list[i + 1]) ELSE f[i]
    BY <1>3, <2>1 DEF KeepsUpTo
  <2>3. g[i + 1] = IF list[i + 1] \in kept THEN Append(g[i], list[i + 1]) ELSE g[i]
    BY <1>2, <1>4, <2>1 DEF KeepsUpTo
  <2>. QED BY <1>6, <2>1, <2>2, <2>3
<1>. HIDE DEF P
<1>7. 0 .. n \subseteq P
  BY <1>2, <1>5, <1>6, RangeInduction
<1>8. g[n] = f[n]
  BY <1>2, <1>7 DEF P
<1>9. n + 1 \in 1 .. Len(long) /\ (n + 1) - 1 = n
  BY <1>2
<1>10. g[n + 1] = IF e \in kept THEN Append(g[n], e) ELSE g[n]
  BY <1>2, <1>4, <1>9 DEF KeepsUpTo
<1>. QED BY <1>1, <1>3, <1>4, <1>8, <1>10

(* And at a first element first.                                           *)
LEMMA KeepPrepended ==
  ASSUME NEW S, NEW list \in Seq(S), NEW e \in S, NEW kept
  PROVE  Keep(<<e>> \o list, kept) =
           IF e \in kept THEN <<e>> \o Keep(list, kept) ELSE Keep(list, kept)
<1>. DEFINE n == Len(list)
<1>1. PICK long : long = <<e>> \o list
  OBVIOUS
<1>2. /\ n \in Nat /\ long \in Seq(S) /\ Len(long) = n + 1
      /\ long[1] = e /\ \A i \in 1 .. n : long[i + 1] = list[i]
      /\ \A i \in 1 .. n : list[i] \in S
  BY <1>1, ConcatFacts
<1>3. PICK f : KeepsUpTo(f, list, kept) /\ Keep(list, kept) = f[n]
  BY KeepRuns
<1>4. PICK g : KeepsUpTo(g, long, kept) /\ Keep(long, kept) = g[n + 1]
  BY <1>2, KeepRuns
<1>5. \A i \in 0 .. n : f[i] \in Seq(S)
  BY <1>3, KeepsLists
<1>. DEFINE With(s) == IF e \in kept THEN <<e>> \o s ELSE s
            P == {i \in 0 .. n : g[i + 1] = With(f[i])}
<1>6. 0 \in P
  <2>1. 1 \in 1 .. Len(long) /\ 1 - 1 = 0 /\ 0 \in 0 .. n /\ 0 + 1 = 1
    BY <1>2
  <2>2. g[1] = IF e \in kept THEN Append(<<>>, e) ELSE <<>>
    BY <1>2, <1>4, <2>1 DEF KeepsUpTo
  <2>3. f[0] = <<>>
    BY <1>3 DEF KeepsUpTo
  <2>. QED BY <2>1, <2>2, <2>3, ConcatFacts, EmptyFacts
<1>7. ASSUME NEW i \in 0 .. (n - 1), i \in P PROVE i + 1 \in P
  <2>1. /\ i + 1 \in 1 .. n /\ (i + 1) - 1 = i /\ i + 1 \in 0 .. n /\ i \in 0 .. n
        /\ (i + 1) + 1 \in 1 .. Len(long) /\ ((i + 1) + 1) - 1 = i + 1
    BY <1>2
  <2>2. PICK x \in S : x = list[i + 1] /\ x = long[(i + 1) + 1]
    BY <1>2, <2>1
  <2>3. f[i + 1] = IF x \in kept THEN Append(f[i], x) ELSE f[i]
    BY <1>3, <2>1, <2>2 DEF KeepsUpTo
  <2>4. g[(i + 1) + 1] = IF x \in kept THEN Append(g[i + 1], x) ELSE g[i + 1]
    BY <1>4, <2>1, <2>2 DEF KeepsUpTo
  <2>5. g[i + 1] = With(f[i])
    BY <1>7
  <2>6. Append(With(f[i]), x) = With(Append(f[i], x))
    <3>1. f[i] \in Seq(S) /\ <<e>> \in Seq(S)
      BY <1>5, <2>1, ConcatFacts
    <3>2. <<e>> \o Append(f[i], x) = Append(<<e>> \o f[i], x)
      BY <3>1, ConcatFacts
    <3>. QED BY <3>2
  <2>. HIDE DEF With
  <2>7. g[(i + 1) + 1] = With(f[i + 1])
    BY <2>3, <2>4, <2>5, <2>6
  <2>. QED BY <2>1, <2>7
<1>. HIDE DEF P
<1>8. 0 .. n \subseteq P
  BY <1>2, <1>6, <1>7, RangeInduction
<1>9. g[n + 1] = With(f[n])
  BY <1>2, <1>8 DEF P
<1>. QED BY <1>1, <1>3, <1>4, <1>9

(* Turning a list round takes its last element to the front.               *)
LEMMA ReverseFacts ==
  ASSUME NEW S, NEW s \in Seq(S), NEW e \in S
  PROVE  /\ Reverse(s) \in Seq(S) /\ Len(Reverse(s)) = Len(s)
         /\ Range(Reverse(s)) = Range(s)
         /\ Reverse(Append(s, e)) = <<e>> \o Reverse(s)
<1>. DEFINE n == Len(s)
<1>1. n \in Nat /\ DOMAIN s = 1 .. n /\ \A i \in 1 .. n : s[i] \in S
  OBVIOUS
<1>2. \A i \in 1 .. n : (n - i) + 1 \in 1 .. n /\ (n - ((n - i) + 1)) + 1 = i
  BY <1>1
<1>3. PICK r : r = Reverse(s)
  OBVIOUS
<1>4. r = [i \in 1 .. n |-> s[(n - i) + 1]]
  BY <1>3 DEF Reverse
<1>5. r \in Seq(S) /\ Len(r) = n /\ DOMAIN r = 1 .. n
  BY <1>1, <1>2, <1>4
<1>6. Range(r) = Range(s)
  <2>1. Range(r) \subseteq Range(s)
    BY <1>1, <1>2, <1>4, <1>5 DEF Range
  <2>2. \A i \in 1 .. n : s[i] = r[(n - i) + 1]
    BY <1>2, <1>4
  <2>3. Range(s) \subseteq Range(r)
    BY <1>1, <1>2, <1>5, <2>2 DEF Range
  <2>. QED BY <2>1, <2>3
<1>7. Reverse(Append(s, e)) = <<e>> \o r
  <2>1. PICK long : long = Append(s, e)
    OBVIOUS
  <2>2. Len(long) = n + 1 /\ long[n + 1] = e /\ \A i \in 1 .. n : long[i] = s[i]
    BY <2>1, AppendFacts
  <2>3. Reverse(long) = [i \in 1 .. (n + 1) |-> long[((n + 1) - i) + 1]]
    BY <2>2 DEF Reverse
  <2>4. PICK new : new = <<e>> \o r
    OBVIOUS
  <2>5. /\ new \in Seq(S) /\ Len(new) = n + 1 /\ new[1] = e
        /\ \A i \in 1 .. n : new[i + 1] = r[i]
    BY <1>5, <2>4, ConcatFacts
  <2>6. ASSUME NEW i \in 1 .. (n + 1) PROVE Reverse(long)[i] = new[i]
    <3>1. CASE i = 1
      <4>1. ((n + 1) - i) + 1 = n + 1
        BY <1>1, <3>1
      <4>. QED BY <2>2, <2>3, <2>5, <3>1, <4>1
    <3>2. CASE i # 1
      <4>1. PICK j : j = i - 1
        OBVIOUS
      <4>2. j \in 1 .. n /\ i = j + 1 /\ ((n + 1) - i) + 1 = (n - j) + 1
        BY <1>1, <3>2, <4>1
      <4>. QED BY <1>2, <1>4, <2>2, <2>3, <2>5, <4>2
    <3>. QED BY <3>1, <3>2
  <2>7. new = [i \in 1 .. (n + 1) |-> new[i]]
    BY <2>5
  <2>. QED BY <2>1, <2>3, <2>4, <2>6, <2>7
<1>. QED BY <1>3, <1>5, <1>6, <1>7

\* f[i] is what a fold from the left, which starts with b and takes an element
\* up as g does, has made of the first i elements of a list.
IsRun(f, b, g, list, T) ==
  /\ f[0] = b
  /\ \A i \in 1 .. Len(list) : f[i - 1] \in T => f[i] = g[<<f[i - 1], list[i]>>]

(* A run stays in its range.                                               *)
LEMMA RunStays ==
  ASSUME NEW S, NEW T, NEW b \in T, NEW g, NEW list \in Seq(S), NEW f,
         \A v \in T : \A e \in S : g[<<v, e>>] \in T,
         IsRun(f, b, g, list, T)
  PROVE  \A i \in 0 .. Len(list) : f[i] \in T
<1>. DEFINE n == Len(list)
            P == {i \in 0 .. n : f[i] \in T}
<1>1. n \in Nat /\ \A i \in 1 .. n : list[i] \in S
  OBVIOUS
<1>2. 0 \in P
  BY <1>1 DEF IsRun
<1>3. ASSUME NEW i \in 0 .. (n - 1), i \in P PROVE i + 1 \in P
  <2>1. i + 1 \in 1 .. n /\ (i + 1) - 1 = i /\ i + 1 \in 0 .. n
    BY <1>1
  <2>2. f[i + 1] = g[<<f[i], list[i + 1]>>]
    BY <1>3, <2>1 DEF IsRun
  <2>. QED BY <1>1, <1>3, <2>1, <2>2
<1>. HIDE DEF P
<1>4. 0 .. n \subseteq P
  BY <1>1, <1>2, <1>3, RangeInduction
<1>. QED BY <1>4 DEF P

(* A run of a list with one element more takes it up last.                 *)
LEMMA RunAppended ==
  ASSUME NEW S, NEW T, NEW b \in T, NEW g, NEW list \in Seq(S), NEW f,
         \A v \in T : \A x \in S : g[<<v, x>>] \in T,
         IsRun(f, b, g, list, T),
         NEW e \in S, NEW h, IsRun(h, b, g, Append(list, e), T)
  PROVE  h[Len(list) + 1] = g[<<f[Len(list)], e>>]
<1>. DEFINE n == Len(list)
            Q == {i \in 0 .. n : h[i] = f[i]}
<1>1. n \in Nat /\ \A i \in 1 .. n : list[i] \in S
  OBVIOUS
<1>2. \A i \in 0 .. n : f[i] \in T
  BY RunStays
<1>3. PICK long : long = Append(list, e)
  OBVIOUS
<1>4. Len(long) = n + 1 /\ long[n + 1] = e /\ \A i \in 1 .. n : long[i] = list[i]
  BY <1>3, AppendFacts
<1>5. IsRun(h, b, g, long, T)
  BY <1>3
<1>6. 0 \in Q
  BY <1>1, <1>5 DEF IsRun
<1>7. ASSUME NEW i \in 0 .. (n - 1), i \in Q PROVE i + 1 \in Q
  <2>1. /\ i + 1 \in 1 .. n /\ (i + 1) - 1 = i /\ i + 1 \in 0 .. n /\ i \in 0 .. n
        /\ i + 1 \in 1 .. (n + 1)
    BY <1>1
  <2>2. f[i] \in T /\ h[i] = f[i]
    BY <1>2, <1>7, <2>1
  <2>3. f[i + 1] = g[<<f[i], list[i + 1]>>]
    BY <2>1, <2>2 DEF IsRun
  <2>4. h[i + 1] = g[<<h[i], list[i + 1]>>]
    BY <1>4, <1>5, <2>1, <2>2 DEF IsRun
  <2>. QED BY <2>1, <2>2, <2>3, <2>4
<1>. HIDE DEF Q
<1>8. 0 .. n \subseteq Q
  BY <1>1, <1>6, <1>7, RangeInduction
<1>9. h[n] = f[n] /\ f[n] \in T
  BY <1>1, <1>2, <1>8 DEF Q
<1>10. n + 1 \in 1 .. Len(long) /\ (n + 1) - 1 = n
  BY <1>1, <1>4
<1>. QED BY <1>4, <1>5, <1>9, <1>10 DEF IsRun

(* Lists put together one after the other.                                 *)
LEMMA FlattenRuns ==
  ASSUME NEW S, NEW lists \in Seq(Seq(S)), lists # <<>>
  PROVE  \E f : /\ f[1] = lists[1]
                /\ \A i \in 2 .. Len(lists) : f[i] = f[i - 1] \o lists[i]
                /\ FlattenSeq(lists) = f[Len(lists)]
<1>. DEFINE n == Len(lists)
            T == Seq(S)
            g == [p \in (1 .. n) \X T |->
                    IF p[1] = 1 THEN lists[1] ELSE p[2] \o lists[p[1]]]
            Eq(f) == f = [i \in 1 .. Len(lists) |->
                            IF i = 1 THEN lists[i] ELSE f[i - 1] \o lists[i]]
            flatten == CHOOSE f : Eq(f)
<1>1. n \in Nat \ {0} /\ \A i \in 1 .. n : lists[i] \in T
  OBVIOUS
<1>2. \A i \in 1 .. n : \A v \in T :
        g[<<i, v>>] = IF i = 1 THEN lists[i] ELSE v \o lists[i]
  OBVIOUS
<1>3. \A i \in 1 .. n : \A v \in T : g[<<i, v>>] \in T
  <2>. SUFFICES ASSUME NEW i \in 1 .. n, NEW v \in T
                PROVE  g[<<i, v>>] \in T
    OBVIOUS
  <2>1. lists[i] \in T
    BY <1>1
  <2>2. v \o lists[i] \in T
    BY <2>1, ConcatProperties
  <2>. HIDE DEF g, T
  <2>. QED BY <1>2, <2>1, <2>2
<1>. HIDE DEF g
<1>4. PICK it \in [SUBSET (1 .. n) -> T] : IsLeftFold(it, <<>>, g, n)
  <2>1. IsStep(g, 1 .. n, T)
    BY <1>3 DEF IsStep
  <2>2. <<>> \in T
    BY EmptyFacts
  <2>. QED BY <1>1, <2>1, <2>2, LeftFoldExists
<1>. DEFINE w == [i \in 1 .. n |-> it[1 .. i]]
<1>5. ASSUME NEW i \in 1 .. n
      PROVE  w[i] = IF i = 1 THEN lists[i] ELSE w[i - 1] \o lists[i]
  <2>1. /\ 1 .. i \in SUBSET (1 .. n) /\ 1 .. i # {}
        /\ Max(1 .. i) = i /\ (1 .. i) \ {i} = 1 .. (i - 1)
        /\ 1 .. (i - 1) \in SUBSET (1 .. n)
    BY <1>1, MaxOfInterval
  <2>2. it[1 .. i] = g[<<i, it[1 .. (i - 1)]>>]
    BY <1>4, <2>1 DEF IsLeftFold
  <2>3. it[1 .. (i - 1)] \in T
    BY <1>4, <2>1
  <2>4. it[1 .. i] = IF i = 1 THEN lists[i] ELSE it[1 .. (i - 1)] \o lists[i]
    BY <1>2, <2>2, <2>3
  <2>5. i # 1 => w[i - 1] = it[1 .. (i - 1)]
    BY <1>1
  <2>. QED BY <2>4, <2>5
<1>. HIDE DEF w
<1>6. Eq(w)
  <2>1. w = [i \in 1 .. n |-> w[i]]
    BY DEF w
  <2>. QED BY <1>5, <2>1
<1>7. Eq(flatten)
  <2>. HIDE DEF Eq
  <2>. QED BY <1>6
<1>8. FlattenSeq(lists) = flatten[n]
  BY <1>1 DEF FlattenSeq
<1>. HIDE DEF flatten
<1>9. \A i \in 1 .. n : flatten[i] = IF i = 1 THEN lists[i] ELSE flatten[i - 1] \o lists[i]
  BY <1>7
<1>10. 1 \in 1 .. n /\ \A i \in 2 .. n : i \in 1 .. n /\ i # 1
  BY <1>1
<1>. QED BY <1>8, <1>9, <1>10
=============================================================================
